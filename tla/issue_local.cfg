CONSTANTS
    c1 = c1  c2 = c2  r1 = r1  r2 = r2  r3 = r3
    k1 = k1  k2 = k2  s1 = s1  s2 = s2  m1 = m1
    Calls <- TwoCalls
    IssueCalls <- TwoCalls
    ProofIds <- ThreeIds
    Keys <- TwoKeys
    Salts <- OneSalt
    Manifests <- OneManifest
    NoId = NoId  NoKey = NoKey  NoManifest = NoManifest  NoProof = NoProof
    Backend = "local"
    SharedRepository = FALSE
    LostReplies = FALSE
    Signer = "stub"
    MaxAttempts = 3
    MaxFailures = 2
SPECIFICATION Spec
SYMMETRY Symmetry
INVARIANTS TypeOK IssuedIsStored
