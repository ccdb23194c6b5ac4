CONSTANTS
    c1 = c1  c2 = c2  r1 = r1  r2 = r2  r3 = r3
    k1 = k1  k2 = k2  s1 = s1  s2 = s2  m1 = m1
    Calls <- TwoCalls
    IssueCalls <- TwoCalls
    ProofIds <- TwoIds
    Keys <- TwoKeys
    Salts <- TwoSalts
    Manifests <- OneManifest
    NoId = NoId  NoKey = NoKey  NoManifest = NoManifest  NoProof = NoProof
    Backend = "azure"
    SharedRepository = FALSE
    LostReplies = TRUE
    Signer = "key_vault"
    MaxAttempts = 3
    MaxFailures = 2
SPECIFICATION FairSpec
INVARIANTS IInv OneProof ProofMatchesReservation AnswerIsFinal CreatedIsServed
PROPERTIES ImplementsLedger ReservedIsDecided
