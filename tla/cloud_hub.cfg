CONSTANTS
    s0 = s0  c1 = c1  c2 = c2  r1 = r1  r2 = r2  r3 = r3
    k1 = k1  s1 = s1  m1 = m1  bad = bad
    Calls <- AllCalls
    Starter = s0
    Workers <- TwoWorkers
    ProofIds <- ThreeIds
    Keys <- OneKey
    Salts <- OneSalt
    Manifests <- TwoManifests
    Valid <- GoodManifest
    NoId = NoId  NoKey = NoKey  NoManifest = NoManifest  NoProof = NoProof
    NoResult = NoResult
    Backend = "azure"
    SharedRepository = FALSE
    LostReplies = TRUE
    UseIotHub = TRUE
    StatusAttempts = 3
    MaxAttempts = 2
    Signer = "key_vault"
    MaxFailures = 1
SPECIFICATION Spec
SYMMETRY Symmetry
INVARIANTS OneProof StartAnswerStands ReportsConverge AcceptedIsDone
PROPERTIES SessionMovesForward
CHECK_DEADLOCK FALSE
