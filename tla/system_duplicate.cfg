CONSTANTS
    s0 = s0  c1 = c1  c2 = c2  r1 = r1  r2 = r2
    k1 = k1  s1 = s1  m1 = m1  bad = bad
    Calls <- AllCalls
    Starter = s0
    Workers <- TwoWorkers
    ProofIds <- TwoIds
    Keys <- OneKey
    Salts <- OneSalt
    Manifests <- TwoManifests
    Valid <- GoodManifest
    NoId = NoId  NoKey = NoKey  NoManifest = NoManifest  NoProof = NoProof
    NoResult = NoResult
    Backend = "azure"
    SharedRepository = FALSE
    LostReplies = FALSE
    UseIotHub = TRUE
    StatusAttempts = 3
    MaxAttempts = 2
    Signer = "key_vault"
    MaxFailures = 0
    MaxSends = 3
    MaxFaults = 0
    MaxCommands = 1
SPECIFICATION SystemSpec
SYMMETRY Symmetry
PROPERTY IssuedStays
CHECK_DEADLOCK FALSE
