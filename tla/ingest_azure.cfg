CONSTANTS
    c1 = c1  c2 = c2  r1 = r1  k1 = k1  s1 = s1
    m1 = m1  m2 = m2  bad = bad
    Calls <- TwoCalls
    IngestCalls <- TwoCalls
    ProofIds <- OneId
    Keys <- OneKey
    Salts <- OneSalt
    Manifests <- AllManifests
    Valid <- GoodManifests
    NoId = NoId  NoKey = NoKey  NoManifest = NoManifest  NoProof = NoProof
    NoResult = NoResult
    Backend = "azure"
    SharedRepository = FALSE
    LostReplies = TRUE
    MaxFailures = 2
SPECIFICATION Spec
SYMMETRY Symmetry
INVARIANTS AcceptedStands UploadedIsValidated RecordedIsUploaded
