CONSTANTS
    c1 = c1  c2 = c2  v1 = v1  r1 = r1  r2 = r2
    k1 = k1  k2 = k2  s1 = s1  m1 = m1
    Calls <- TwoCalls
    IssueCalls <- TwoCalls
    Readers <- OneReader
    ProofIds <- TwoIds
    Keys <- TwoKeys
    Salts <- OneSalt
    Manifests <- OneManifest
    NoId = NoId  NoKey = NoKey  NoManifest = NoManifest  NoProof = NoProof
    Backend = "azure"
    SharedRepository = FALSE
    LostReplies = FALSE
    Signer = "key_vault"
    MaxAttempts = 2
    MaxFailures = 1
SPECIFICATION VerifySpec
SYMMETRY Symmetry
INVARIANTS NoFalseAlarm ValidIsIssued QrHasProof
