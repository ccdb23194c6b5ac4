CONSTANTS
    s0 = s0  c1 = c1  c2 = c2  r1 = r1  r2 = r2
    k1 = k1  s1 = s1  m1 = m1  bad = bad
    Calls <- OneAndStarter
    Starter = s0
    Workers <- OneWorker
    ProofIds <- TwoIds
    Keys <- OneKey
    Salts <- OneSalt
    Manifests <- TwoManifests
    Valid <- GoodManifest
    NoId = NoId  NoKey = NoKey  NoManifest = NoManifest  NoProof = NoProof
    NoResult = NoResult
    Backend = "azure"
    SharedRepository = FALSE
    LostReplies = FALSE
    UseIotHub = TRUE
    StatusAttempts = 3
    MaxAttempts = 2
    Signer = "key_vault"
    MaxFailures = 1
    MaxSends = 3
    MaxFaults = 1
    MaxCommands = 2
SPECIFICATION SystemFairSpec
INVARIANTS ProvenIsUploaded
PROPERTIES IssuedStays CommandedIsDecided
CHECK_DEADLOCK FALSE
