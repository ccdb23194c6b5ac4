CONSTANTS
    s0 = s0  c1 = c1  c2 = c2  r1 = r1  r2 = r2  r3 = r3
    k1 = k1  s1 = s1  m1 = m1  bad = bad
    Calls <- AllCalls
    Starter = s0
    Workers <- TwoWorkers
    ProofIds <- ThreeIds
    Keys <- OneKey
    Salts <- OneSalt
    Manifests <- TwoManifests
    Valid <- GoodManifest
    NoId = NoId  NoKey = NoKey  NoManifest = NoManifest  NoProof = NoProof
    NoResult = NoResult
    Backend = "local"
    SharedRepository = FALSE
    LostReplies = FALSE
    UseIotHub = FALSE
    StatusAttempts = 3
    MaxAttempts = 2
    Signer = "stub"
    MaxFailures = 2
SPECIFICATION SyncSpec
SYMMETRY Symmetry
INVARIANTS ReportedIsIssued
CHECK_DEADLOCK FALSE
