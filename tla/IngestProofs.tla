----------------------------- MODULE IngestProofs -----------------------------
(***************************************************************************)
(* Theorems about IngestEvidence, for any number of requests, failures and *)
(* manifests.                                                              *)
(***************************************************************************)
EXTENDS IngestEvidence, TLAPS

\* TypeOK in two halves: what the requests hold and what is stored.
LocalTypes ==
    /\ pc \in [IngestCalls -> Steps]
    /\ payload \in [IngestCalls -> Manifests \cup {NoManifest}]
    /\ answer \in [IngestCalls -> Codes]
    /\ expired \in BOOLEAN
    /\ failures \in 0 .. MaxFailures
    /\ snap \in [Calls -> Session]
    /\ etag \in [Calls -> Nat]
    /\ armed \in [Calls -> BOOLEAN]

StoreTypes ==
    /\ session \in Session
    /\ stamp \in Nat
    /\ manifest \in Manifests \cup {NoManifest}
    /\ proofs \subseteq Proof
    /\ proofIndex \subseteq ProofIds
    /\ qr \subseteq ProofIds
    /\ result \in Manifests \cup {"failed", NoResult}

LEMMA TypesAreTypeOK == TypeOK <=> LocalTypes /\ StoreTypes
BY DEF TypeOK, StoreTypeOK, LocalTypes, StoreTypes

\* The status a request found when it loaded the session decides which write
\* it makes next.
StatusFits(c) ==
    /\ pc[c] \in {"check", "save"} => snap[c].status \in Accepting
    /\ pc[c] = "waiting" => snap[c].status = "challenge_issued"
    /\ pc[c] = "capturing" => snap[c].status = "waiting_device"
    /\ pc[c] = "uploaded" => snap[c].status = "capturing"

\* A request past the validation carries a manifest that passed it, and one
\* past the upload has left a manifest behind.
Saved == {"waiting", "capturing", "uploaded", "result", "recheck"}
CarriesValid(c) ==
    /\ pc[c] # "idle" => payload[c] \in Manifests
    /\ pc[c] \in {"save"} \cup Saved => payload[c] \in Valid
    /\ pc[c] \in Saved => manifest # NoManifest

ValidInv ==
    /\ LocalTypes /\ StoreTypes
    /\ \A c \in IngestCalls : StatusFits(c) /\ CarriesValid(c)
    /\ manifest \in Valid \cup {NoManifest}
    /\ UploadedIsValidated

-----------------------------------------------------------------------------
\* Types

LEMMA Blank == BlankSession \in Session
BY DEF BlankSession, Session, Statuses

LEMMA StatusTypes ==
    ASSUME LocalTypes, NEW c \in IngestCalls, NEW status \in Statuses
    PROVE  WithStatus(c, status) \in Session /\ WithStatus(c, status).status = status
<1>1. snap[c] \in Session
  BY IngestConstants DEF LocalTypes
<1>. QED
  BY <1>1 DEF WithStatus, Session

LEMMA EndTypes ==
    ASSUME LocalTypes, NEW c \in IngestCalls, NEW code \in Codes, End(c, code)
    PROVE  /\ LocalTypes'
           /\ pc' = [pc EXCEPT ![c] = "done"]
           /\ answer' = [answer EXCEPT ![c] = code]
           /\ etag' = [etag EXCEPT ![c] = 0]
           /\ snap' = [snap EXCEPT ![c] = BlankSession]
           /\ payload' = payload
<1>1. UNCHANGED <<payload, expired, failures>>
      /\ pc' = [pc EXCEPT ![c] = "done"] /\ answer' = [answer EXCEPT ![c] = code]
      /\ snap' = [snap EXCEPT ![c] = BlankSession] /\ etag' = [etag EXCEPT ![c] = 0]
      /\ armed' = [armed EXCEPT ![c] = FALSE]
  BY DEF End, Answer, Goto, DropRecord
<1>. QED
  BY <1>1, Blank DEF LocalTypes, Steps

\* A record that is put, or not, leaves the rest of the store as it was.
LEMMA PutTypes ==
    ASSUME StoreTypes, NEW s \in Session, Put(s) \/ UNCHANGED <<session, stamp>>
    PROVE  session' \in Session /\ stamp' \in Nat
BY DEF StoreTypes, Put

\* Every write of a request that walks on keeps the types.
LEMMA AdvanceTypes ==
    ASSUME LocalTypes, StoreTypes, NEW c \in IngestCalls,
           NEW status \in Statuses, NEW next \in Steps, Advance(c, status, next)
    PROVE  LocalTypes' /\ session' \in Session /\ stamp' \in Nat
<1>. DEFINE s == WithStatus(c, status)
<1>1. s \in Session
  BY StatusTypes
<1>2. CASE ReplaceSession(c, s) /\ HoldReplaced(c, s) /\ Goto(c, next) /\ KeepLocals
  <2>1. session' \in Session /\ stamp' \in Nat
    BY <1>1, <1>2, PutTypes DEF ReplaceSession
  <2>2. snap' \in [Calls -> Session] /\ etag' \in [Calls -> Nat]
        /\ armed' \in [Calls -> BOOLEAN]
    BY <1>1, <1>2, <2>1 DEF HoldReplaced, LocalTypes
  <2>. QED
    BY <1>2, <2>1, <2>2 DEF LocalTypes, Goto, KeepLocals
<1>3. CASE ReplaceConflicts(c, s) /\ End(c, "ERR_STORAGE_CONFLICT")
  BY <1>1, <1>3, PutTypes, EndTypes DEF ReplaceConflicts, Codes
<1>4. CASE Compares(c)
  BY <1>4 DEF Compares, CompareEtag, KeepLocals, LocalTypes, StoreTypes
<1>. QED
  BY <1>2, <1>3, <1>4 DEF Advance

LEMMA TypesInit == Init => LocalTypes /\ StoreTypes
<1>. SUFFICES ASSUME Init PROVE LocalTypes /\ StoreTypes
  OBVIOUS
<1>1. LocalTypes
  <2>1. snap \in [Calls -> Session] /\ etag \in [Calls -> Nat] /\ armed \in [Calls -> BOOLEAN]
    BY Blank DEF Init, StoreInit
  <2>2. /\ pc \in [IngestCalls -> Steps] /\ answer \in [IngestCalls -> Codes]
        /\ payload \in [IngestCalls -> Manifests \cup {NoManifest}]
    BY DEF Init, Steps, Codes
  <2>3. expired \in BOOLEAN /\ failures \in 0 .. MaxFailures
    <3>1. 0 \in 0 .. MaxFailures
      BY IngestConstants
    <3>. QED
      BY <3>1 DEF Init
  <2>. QED
    BY <2>1, <2>2, <2>3 DEF LocalTypes
<1>2. session \in Session
  BY Blank DEF Init, Session, Statuses
<1>. QED
  BY <1>1, <1>2 DEF Init, StoreInit, StoreTypes

\* The steps of a request, one by one.
LEMMA StepTypes ==
    ASSUME LocalTypes, StoreTypes, NEW c \in IngestCalls,
           StatusFits(c), CarriesValid(c), Step(c)
    PROVE  LocalTypes' /\ StoreTypes'
<1>. USE IngestConstants
<1>1. CASE Load(c)
  BY <1>1 DEF Load, LoadSession, Goto, KeepLocals, storeVars, LocalTypes, StoreTypes, Steps
<1>2. CASE Existing(c)
  <2>1. StoreTypes'
    BY <1>2 DEF Existing, storeVars, StoreTypes
  <2>2. CASE \E code \in Codes : End(c, code)
    BY <2>1, <2>2, EndTypes
  <2>3. CASE Goto(c, "check") /\ UNCHANGED clientVars /\ KeepLocals
    BY <2>1, <2>3 DEF Goto, clientVars, KeepLocals, LocalTypes, Steps
  <2>. QED
    BY <1>2, <2>2, <2>3 DEF Existing, Codes
<1>3. CASE Check(c)
  BY <1>3 DEF Check, Goto, KeepLocals, storeVars, clientVars, LocalTypes, StoreTypes, Steps
<1>4. CASE FailLoad(c)
  BY <1>4 DEF FailLoad, Goto, KeepLocals, storeVars, LocalTypes, StoreTypes, Steps
<1>5. CASE FailSave(c)
  <2>1. WithStatus(c, "failed") \in Session
    BY StatusTypes DEF Statuses
  <2>2. StoreTypes'
    BY <1>5, <2>1, PutTypes DEF FailSave, ReplaceConflicts, StoreTypes
  <2>3. CASE Goto(c, "fail_result") /\ UNCHANGED clientVars /\ KeepLocals
    BY <2>2, <2>3 DEF Goto, clientVars, KeepLocals, LocalTypes, Steps
  <2>4. CASE End(c, "ERR_INTERNAL")
    BY <2>2, <2>4, EndTypes DEF Codes
  <2>. QED
    BY <1>5, <2>3, <2>4 DEF FailSave
<1>6. CASE FailResult(c)
  BY <1>6, EndTypes DEF FailResult, storeVars, StoreTypes, Codes
<1>7. CASE SaveManifest(c)
  <2>1. payload[c] \in Manifests \cup {NoManifest}
    BY DEF LocalTypes
  <2>2. StoreTypes'
    BY <1>7, <2>1 DEF SaveManifest, StoreTypes
  <2>3. CASE /\ Goto(c, AfterManifest(snap[c].status))
             /\ UNCHANGED clientVars /\ KeepLocals
    <3>1. snap[c].status \in Accepting
      BY <1>7 DEF SaveManifest, StatusFits
    <3>2. AfterManifest(snap[c].status) \in Steps
      BY <3>1 DEF AfterManifest, Accepting, Steps
    <3>. QED
      BY <2>2, <2>3, <3>2 DEF Goto, clientVars, KeepLocals, LocalTypes
  <2>4. CASE End(c, "ERR_EVIDENCE_CONFLICT")
    BY <2>2, <2>4, EndTypes DEF Codes
  <2>. QED
    BY <1>7, <2>3, <2>4 DEF SaveManifest
<1>8. CASE ToWaiting(c)
  BY <1>8, AdvanceTypes DEF ToWaiting, StoreTypes, Statuses, Steps
<1>9. CASE ToCapturing(c)
  BY <1>9, AdvanceTypes DEF ToCapturing, StoreTypes, Statuses, Steps
<1>10. CASE ToUploaded(c)
  <2>1. WithStatus(c, "evidence_uploaded") \in Session
    BY StatusTypes DEF Statuses
  <2>2. StoreTypes'
    BY <1>10, <2>1, PutTypes
       DEF ToUploaded, ReplaceSession, ReplaceConflicts, Compares, StoreTypes
  <2>3. ASSUME NEW next \in Steps, Goto(c, next), DropRecord(c), KeepLocals
        PROVE  LocalTypes'
    BY <2>3, Blank DEF Goto, DropRecord, KeepLocals, LocalTypes
  <2>4. CASE Compares(c)
    BY <2>2, <2>4 DEF Compares, CompareEtag, KeepLocals, LocalTypes
  <2>. QED
    BY <1>10, <2>2, <2>3, <2>4 DEF ToUploaded, KeepLocals, Steps
<1>11. CASE SaveResult(c)
  <2>1. payload[c] \in Manifests
    BY <1>11 DEF SaveResult, CarriesValid, Saved
  <2>. QED
    BY <1>11, <2>1, EndTypes DEF SaveResult, storeVars, StoreTypes, Codes
<1>12. CASE Recheck(c)
  BY <1>12, EndTypes DEF Recheck, storeVars, StoreTypes, Codes
<1>. QED
  BY <1>1, <1>2, <1>3, <1>4, <1>5, <1>6, <1>7, <1>8, <1>9, <1>10, <1>11, <1>12 DEF Step

\* What happens around the requests.
Around == Expire \/ SessionAdvances \/ DeviceReportsFailure \/ IssueAdvances

LEMMA AroundTypes ==
    ASSUME LocalTypes, StoreTypes, Around \/ UNCHANGED vars
    PROVE  LocalTypes' /\ StoreTypes'
<1>1. ASSUME NEW s \in Session, Elsewhere(s)
      PROVE  LocalTypes' /\ StoreTypes'
  BY <1>1, PutTypes DEF Elsewhere, clientVars, ingestVars, LocalTypes, StoreTypes
<1>2. session \in Session
  BY DEF StoreTypes
<1>3. CASE Expire
  BY <1>3 DEF Expire, storeVars, clientVars, LocalTypes, StoreTypes
<1>4. CASE SessionAdvances
  <2>1. PICK step \in {<<"challenge_issued", "waiting_device">>,
                       <<"waiting_device", "capturing">>} :
               Elsewhere([session EXCEPT !.status = step[2]])
    BY <1>4 DEF SessionAdvances
  <2>2. [session EXCEPT !.status = step[2]] \in Session
    BY <1>2 DEF Session, Statuses
  <2>. QED
    BY <1>1, <2>1, <2>2
<1>5. CASE DeviceReportsFailure
  <2>1. [session EXCEPT !.status = "failed"] \in Session
    BY <1>2 DEF Session, Statuses
  <2>. QED
    BY <1>1, <1>5, <2>1 DEF DeviceReportsFailure
<1>6. CASE IssueAdvances
  <2>1. /\ [session EXCEPT !.status = "validating"] \in Session
        /\ [session EXCEPT !.status = "verified"] \in Session
        /\ [session EXCEPT !.status = "proof_issued"] \in Session
        /\ \A id \in ProofIds, k \in Keys : [session EXCEPT !.proof = id, !.key = k] \in Session
    BY <1>2 DEF Session, Statuses
  <2>2. ASSUME NEW step \in {<<"evidence_uploaded", "validating">>,
                             <<"validating", "verified">>},
               Elsewhere([session EXCEPT !.status = step[2]])
        PROVE  LocalTypes' /\ StoreTypes'
    <3>1. step[2] \in {"validating", "verified"}
      OBVIOUS
    <3>2. [session EXCEPT !.status = step[2]] \in Session
      BY <2>1, <3>1
    <3>. QED
      BY <1>1, <2>2, <3>2
  <2>. QED
    BY <1>1, <1>6, <2>1, <2>2 DEF IssueAdvances
<1>7. CASE UNCHANGED vars
  BY <1>7 DEF vars, storeVars, clientVars, ingestVars, LocalTypes, StoreTypes
<1>. QED
  BY <1>3, <1>4, <1>5, <1>6, <1>7 DEF Around

LEMMA ReceiveTypes ==
    ASSUME LocalTypes, StoreTypes, NEW c \in IngestCalls, Receive(c) \/ Fail(c)
    PROVE  LocalTypes' /\ StoreTypes'
<1>1. CASE Receive(c)
  BY <1>1 DEF Receive, Goto, storeVars, clientVars, LocalTypes, StoreTypes, Steps, Codes
<1>2. CASE Fail(c)
  <2>1. failures' \in 0 .. MaxFailures
    BY <1>2, IngestConstants DEF Fail, LocalTypes
  <2>2. snap' \in [Calls -> Session] /\ etag' \in [Calls -> Nat]
        /\ armed' \in [Calls -> BOOLEAN]
    BY <1>2, Blank DEF Fail, DropRecord, LocalTypes
  <2>3. pc' \in [IngestCalls -> Steps] /\ answer' \in [IngestCalls -> Codes]
    BY <1>2 DEF Fail, Answer, Goto, LocalTypes, Steps, Codes
  <2>. QED
    BY <1>2, <2>1, <2>2, <2>3 DEF Fail, storeVars, LocalTypes, StoreTypes
<1>. QED
  BY <1>1, <1>2

-----------------------------------------------------------------------------
\* What a step of one request leaves alone, and where it leads

\* The other requests hold what they held.
OthersKeep(c) ==
    \A d \in IngestCalls \ {c} :
        /\ pc'[d] = pc[d] /\ payload'[d] = payload[d] /\ answer'[d] = answer[d]
        /\ snap'[d] = snap[d] /\ etag'[d] = etag[d]

LEMMA StepKeepsOthers ==
    ASSUME LocalTypes, NEW c \in IngestCalls, Step(c) \/ Receive(c) \/ Fail(c)
    PROVE  OthersKeep(c)
<1>. USE IngestConstants DEF OthersKeep, LocalTypes, Goto, KeepLocals, End, Answer, DropRecord
<1>1. CASE Load(c) BY <1>1 DEF Load, LoadSession
<1>2. CASE Existing(c) BY <1>2 DEF Existing, clientVars
<1>3. CASE Check(c) BY <1>3 DEF Check, clientVars
<1>4. CASE FailLoad(c) BY <1>4 DEF FailLoad
<1>5. CASE FailSave(c) BY <1>5 DEF FailSave, clientVars
<1>6. CASE FailResult(c) \/ SaveResult(c) \/ Recheck(c)
  BY <1>6 DEF FailResult, SaveResult, Recheck
<1>7. CASE SaveManifest(c) BY <1>7 DEF SaveManifest, clientVars
<1>8. ASSUME NEW status, NEW next, Advance(c, status, next) PROVE OthersKeep(c)
  BY <1>8 DEF Advance, HoldReplaced, Compares, CompareEtag
<1>9. CASE ToWaiting(c) \/ ToCapturing(c) BY <1>8, <1>9 DEF ToWaiting, ToCapturing
<1>10. CASE ToUploaded(c) BY <1>10 DEF ToUploaded, Compares, CompareEtag
<1>11. CASE Receive(c) BY <1>11 DEF Receive, clientVars
<1>12. CASE Fail(c) BY <1>12 DEF Fail
<1>. QED
  BY <1>1, <1>2, <1>3, <1>4, <1>5, <1>6, <1>7, <1>9, <1>10, <1>11, <1>12 DEF Step

-----------------------------------------------------------------------------
\* Only validated manifests

LEMMA Ranks ==
    /\ \A s \in Statuses : Rank[s] \in 0 .. 9
    /\ \A s \in Accepting \cup {"created", "failed"} : Rank[s] \notin 4 .. 8
    /\ \A s \in Accepting \cup {"created"} : Rank[s] < 4
    /\ \A s \in {"evidence_uploaded", "validating", "verified", "proof_issued"} :
         Rank[s] \in 4 .. 8
    /\ Rank["failed"] = 9
BY DEF Rank, Statuses, Accepting

\* A step of a request changes the manifest to one that passed, and takes the
\* session to evidence_uploaded only from behind such a manifest.
LEMMA StepStores ==
    ASSUME ValidInv, NEW c \in IngestCalls, Step(c)
    PROVE  /\ manifest' = manifest \/ manifest' \in Valid
           /\ session' = session \/ manifest \in Valid
                 \/ Rank[session'.status] \notin 4 .. 8
<1>. USE IngestConstants
<1>1. LocalTypes /\ StoreTypes /\ StatusFits(c) /\ CarriesValid(c)
  BY DEF ValidInv
<1>2. manifest = NoManifest \/ manifest \in Valid
  BY DEF ValidInv
<1>3. CASE FailSave(c)
  <2>1. WithStatus(c, "failed").status = "failed"
    BY <1>1, StatusTypes DEF Statuses
  <2>. QED
    BY <1>3, <2>1, Ranks DEF FailSave, ReplaceConflicts, Put
<1>4. CASE SaveManifest(c)
  BY <1>1, <1>4 DEF SaveManifest, CarriesValid
<1>5. CASE ToWaiting(c) \/ ToCapturing(c) \/ ToUploaded(c)
  BY <1>1, <1>2, <1>5 DEF ToWaiting, ToCapturing, ToUploaded, CarriesValid, Saved
<1>6. CASE \/ Load(c) \/ Existing(c) \/ Check(c) \/ FailLoad(c) \/ FailResult(c)
           \/ SaveResult(c) \/ Recheck(c)
  BY <1>6 DEF Load, Existing, Check, FailLoad, FailResult, SaveResult, Recheck, storeVars
<1>. QED
  BY <1>3, <1>4, <1>5, <1>6 DEF Step

LEMMA StepFits ==
    ASSUME ValidInv, NEW c \in IngestCalls, Step(c) \/ Receive(c) \/ Fail(c)
    PROVE  StatusFits(c)' /\ CarriesValid(c)'
<1>. USE IngestConstants, StoreConstants
<1>1. LocalTypes /\ StoreTypes /\ StatusFits(c) /\ CarriesValid(c)
  BY DEF ValidInv
<1>2. ASSUME NEW code \in Codes, End(c, code), pc[c] # "idle"
      PROVE  StatusFits(c)' /\ CarriesValid(c)'
  BY <1>1, <1>2, EndTypes DEF StatusFits, CarriesValid, Saved, LocalTypes
<1>3. CASE Receive(c)
  BY <1>1, <1>3 DEF Receive, Goto, StatusFits, CarriesValid, Saved, LocalTypes
<1>4. CASE Fail(c)
  BY <1>1, <1>4 DEF Fail, Answer, Goto, StatusFits, CarriesValid, Saved, LocalTypes
<1>5. CASE Load(c)
  BY <1>1, <1>5 DEF Load, Goto, KeepLocals, StatusFits, CarriesValid, Saved, LocalTypes
<1>6. CASE Existing(c)
  <2>1. CASE manifest = NoManifest /\ snap[c].status \in Accepting
             /\ Goto(c, "check") /\ UNCHANGED clientVars /\ KeepLocals
    BY <1>1, <1>6, <2>1 DEF Existing, Goto, KeepLocals, clientVars, StatusFits,
       CarriesValid, Saved, LocalTypes
  <2>. QED
    BY <1>2, <1>6, <2>1 DEF Existing, Codes
<1>7. CASE Check(c)
  BY <1>1, <1>7 DEF Check, Goto, KeepLocals, clientVars, storeVars, StatusFits,
     CarriesValid, Saved, LocalTypes
<1>8. CASE FailLoad(c)
  BY <1>1, <1>8 DEF FailLoad, Goto, KeepLocals, storeVars, StatusFits,
     CarriesValid, Saved, LocalTypes
<1>9. CASE FailSave(c)
  <2>1. CASE Goto(c, "fail_result") /\ KeepLocals
    BY <1>1, <1>9, <2>1 DEF FailSave, Goto, KeepLocals, StatusFits, CarriesValid, Saved,
       LocalTypes
  <2>. QED
    BY <1>2, <1>9, <2>1 DEF FailSave, Codes
<1>10. CASE FailResult(c) \/ SaveResult(c) \/ Recheck(c)
  BY <1>2, <1>10 DEF FailResult, SaveResult, Recheck, Codes
<1>11. CASE SaveManifest(c)
  <2>1. CASE /\ manifest' = payload[c] /\ Goto(c, AfterManifest(snap[c].status))
             /\ UNCHANGED clientVars /\ KeepLocals
    <3>1. snap[c].status \in Accepting /\ payload[c] \in Valid
      BY <1>1, <1>11 DEF SaveManifest, StatusFits, CarriesValid
    <3>2. /\ pc'[c] = "waiting" => snap[c].status = "challenge_issued"
          /\ pc'[c] = "capturing" => snap[c].status = "waiting_device"
          /\ pc'[c] = "uploaded" => snap[c].status = "capturing"
          /\ pc'[c] \in {"waiting", "capturing", "uploaded"}
      BY <1>1, <2>1, <3>1 DEF AfterManifest, Accepting, Goto, LocalTypes
    <3>. QED
      BY <2>1, <3>1, <3>2 DEF KeepLocals, clientVars, StatusFits, CarriesValid, Saved
  <2>. QED
    BY <1>2, <1>11, <2>1 DEF SaveManifest, Codes
<1>12. ASSUME NEW status \in Statuses, NEW next \in {"capturing", "uploaded"},
              next = "capturing" => status = "waiting_device",
              next = "uploaded" => status = "capturing",
              pc[c] \in Saved, UNCHANGED manifest, Advance(c, status, next)
       PROVE  StatusFits(c)' /\ CarriesValid(c)'
  <2>1. CASE /\ HoldReplaced(c, WithStatus(c, status)) /\ Goto(c, next) /\ KeepLocals
    <3>1. snap'[c].status = status
      BY <1>1, <2>1, StatusTypes DEF HoldReplaced, LocalTypes
    <3>. QED
      BY <1>1, <1>12, <2>1, <3>1 DEF Goto, KeepLocals, StatusFits, CarriesValid, Saved,
         LocalTypes
  <2>2. CASE Compares(c)
    BY <1>1, <1>12, <2>2 DEF Compares, CompareEtag, KeepLocals, StatusFits, CarriesValid
  <2>. QED
    BY <1>2, <1>12, <2>1, <2>2 DEF Advance, Codes, Saved
<1>13. CASE ToWaiting(c) \/ ToCapturing(c)
  BY <1>12, <1>13 DEF ToWaiting, ToCapturing, Saved, Statuses
<1>14. CASE ToUploaded(c)
  <2>1. CASE Compares(c)
    BY <1>1, <1>14, <2>1 DEF ToUploaded, Compares, CompareEtag, KeepLocals, StatusFits,
       CarriesValid
  <2>2. ASSUME NEW next \in {"result", "recheck"}, Goto(c, next), KeepLocals
        PROVE  StatusFits(c)' /\ CarriesValid(c)'
    BY <1>1, <1>14, <2>2 DEF ToUploaded, Goto, KeepLocals, StatusFits, CarriesValid, Saved,
       LocalTypes
  <2>. QED
    BY <1>14, <2>1, <2>2 DEF ToUploaded
<1>. QED
  BY <1>3, <1>4, <1>5, <1>6, <1>7, <1>8, <1>9, <1>10, <1>11, <1>13, <1>14 DEF Step

\* Around the requests the manifest stays, and a session past the upload was
\* there before.
LEMMA AroundAdvances ==
    ASSUME StoreTypes, Around \/ UNCHANGED vars
    PROVE  /\ UNCHANGED <<manifest, result, pc, payload, answer, snap, etag>>
           /\ Rank[session'.status] \in 4 .. 8 => Rank[session.status] \in 4 .. 8
           /\ Rank[session.status] >= 4 => Rank[session'.status] >= 4
           /\ UNCHANGED <<session, stamp>> \/ Put(session')
<1>. USE DEF Elsewhere, Put, clientVars, ingestVars
<1>1. session \in Session
  BY DEF StoreTypes
<1>2. ASSUME NEW status \in Statuses
      PROVE  [session EXCEPT !.status = status].status = status
  BY <1>1 DEF Session
<1>3. CASE SessionAdvances
  <2>1. PICK step \in {<<"challenge_issued", "waiting_device">>,
                       <<"waiting_device", "capturing">>} :
               /\ session.status = step[1]
               /\ Elsewhere([session EXCEPT !.status = step[2]])
    BY <1>3 DEF SessionAdvances
  <2>2. step[1] \in Accepting /\ step[2] \in Accepting /\ step[2] \in Statuses
    BY DEF Accepting, Statuses
  <2>3. session'.status = step[2]
    BY <1>2, <2>1, <2>2
  <2>4. Rank[session.status] < 4 /\ Rank[session'.status] \notin 4 .. 8
    BY <2>1, <2>2, <2>3, Ranks
  <2>5. Rank[session.status] \in 0 .. 9
    BY <1>1, Ranks DEF Session
  <2>. QED
    BY <2>1, <2>4, <2>5
<1>4. CASE DeviceReportsFailure
  <2>1. session'.status = "failed"
    BY <1>2, <1>4 DEF DeviceReportsFailure, Statuses
  <2>. QED
    BY <1>4, <2>1, Ranks DEF DeviceReportsFailure
<1>5. CASE IssueAdvances
  <2>1. /\ session.status \in {"evidence_uploaded", "validating", "verified"}
        /\ session'.status \in {"validating", "verified", "proof_issued"}
    <3>1. CASE \E step \in {<<"evidence_uploaded", "validating">>,
                             <<"validating", "verified">>} :
                 /\ session.status = step[1]
                 /\ Elsewhere([session EXCEPT !.status = step[2]])
      <4>1. PICK step \in {<<"evidence_uploaded", "validating">>,
                           <<"validating", "verified">>} :
                   /\ session.status = step[1]
                   /\ Elsewhere([session EXCEPT !.status = step[2]])
        BY <3>1
      <4>2. step[1] \in {"evidence_uploaded", "validating"}
            /\ step[2] \in {"validating", "verified"} /\ step[2] \in Statuses
        BY DEF Statuses
      <4>. QED
        BY <1>2, <4>1, <4>2
    <3>2. ASSUME NEW id, NEW k, session.status = "verified",
                 Elsewhere([session EXCEPT !.proof = id, !.key = k])
          PROVE  session'.status = "verified"
      BY <1>1, <3>2 DEF Session
    <3>3. CASE session.status = "verified"
               /\ Elsewhere([session EXCEPT !.status = "proof_issued"])
      BY <1>2, <3>3 DEF Statuses
    <3>. HIDE DEF Elsewhere
    <3>. QED
      BY <1>5, <3>1, <3>2, <3>3 DEF IssueAdvances
  <2>2. /\ UNCHANGED <<manifest, result, pc, payload, answer, snap, etag>>
        /\ Put(session')
    BY <1>5 DEF IssueAdvances
  <2>3. Rank[session.status] \in 4 .. 8 /\ Rank[session'.status] \in 4 .. 8
    BY <2>1, Ranks
  <2>. QED
    BY <2>2, <2>3
<1>6. CASE Expire \/ UNCHANGED vars
  BY <1>6 DEF Expire, vars, storeVars
<1>. QED
  BY <1>3, <1>4, <1>5, <1>6 DEF Around

LEMMA ValidInvInit == Init => ValidInv
<1>. SUFFICES ASSUME Init PROVE ValidInv
  OBVIOUS
<1>1. session.status \in Accepting
  BY Blank DEF Init, Accepting, Session
<1>2. UploadedIsValidated
  BY <1>1, Ranks DEF UploadedIsValidated
<1>. QED
  BY <1>2, TypesInit DEF Init, ValidInv, StatusFits, CarriesValid, Saved

LEMMA ValidInvStep == ValidInv /\ [Next]_vars => ValidInv'
<1>. SUFFICES ASSUME ValidInv, [Next]_vars PROVE ValidInv'
  OBVIOUS
<1>1. LocalTypes /\ StoreTypes
  BY DEF ValidInv
<1>2. CASE Around \/ UNCHANGED vars
  <2>1. \A c \in IngestCalls : StatusFits(c)' /\ CarriesValid(c)'
    BY <1>1, <1>2, AroundAdvances DEF ValidInv, StatusFits, CarriesValid
  <2>. QED
    BY <1>1, <1>2, <2>1, AroundAdvances, AroundTypes DEF ValidInv, UploadedIsValidated
<1>3. ASSUME NEW c \in IngestCalls, Step(c) \/ Receive(c) \/ Fail(c)
      PROVE  ValidInv'
  <2>1. LocalTypes' /\ StoreTypes'
    BY <1>1, <1>3, StepTypes, ReceiveTypes DEF ValidInv
  <2>2. /\ manifest' = manifest \/ manifest' \in Valid
        /\ session' = session \/ manifest \in Valid
              \/ Rank[session'.status] \notin 4 .. 8
    BY <1>3, StepStores DEF Receive, Fail, storeVars
  <2>3. ASSUME NEW d \in IngestCalls PROVE StatusFits(d)' /\ CarriesValid(d)'
    <3>1. CASE d = c
      BY <1>3, <3>1, StepFits
    <3>2. CASE d # c
      <4>1. manifest # NoManifest => manifest' # NoManifest
        BY <2>2, IngestConstants, StoreConstants
      <4>2. pc'[d] = pc[d] /\ payload'[d] = payload[d] /\ snap'[d] = snap[d]
        BY <1>1, <1>3, <3>2, StepKeepsOthers DEF OthersKeep
      <4>. QED
        BY <4>1, <4>2 DEF ValidInv, StatusFits, CarriesValid
    <3>. QED
      BY <3>1, <3>2
  <2>4. manifest' \in Valid \cup {NoManifest} /\ UploadedIsValidated'
    BY <2>2 DEF ValidInv, UploadedIsValidated
  <2>. QED
    BY <2>1, <2>3, <2>4 DEF ValidInv
<1>. QED
  BY <1>2, <1>3 DEF Next, Around

\* Types, and the way of every request through the handler, are right on both
\* backends, with any lock.
THEOREM TypeCorrect == Spec => []TypeOK
<1>1. ValidInv => TypeOK
  BY TypesAreTypeOK DEF ValidInv
<1>. QED
  BY <1>1, ValidInvInit, ValidInvStep, PTL DEF Spec

\* ingest_evidence: an uploaded session has a manifest that was validated.
THEOREM UploadedIsValidatedHolds == Spec => []UploadedIsValidated
<1>1. ValidInv => UploadedIsValidated
  BY DEF ValidInv
<1>. QED
  BY <1>1, ValidInvInit, ValidInvStep, PTL DEF Spec

-----------------------------------------------------------------------------
\* On Azure storage the manifest is created once and writes carry an etag

Late == Rank[session.status] >= Rank["evidence_uploaded"]

\* A request past the upload, or answered 200, carries the stored manifest.
Handed(c) ==
    /\ pc[c] \in Saved => manifest = payload[c]
    /\ answer[c] = "200" => manifest = payload[c] /\ manifest # NoManifest
    /\ pc[c] = "result" => Late

\* An etag is the current one only with the session it was read with; but for
\* the save of a rejection, which takes an etag and keeps the older value.
Holding == {"existing", "check", "save", "waiting", "capturing", "uploaded"}
Holds(c) ==
    /\ etag[c] <= stamp
    /\ pc[c] \in Holding /\ etag[c] = stamp => snap[c] = session

AzureInv ==
    /\ ValidInv
    /\ \A c \in IngestCalls : Handed(c) /\ Holds(c)
    /\ RecordedIsUploaded

LEMMA RankOfUpload == Rank["evidence_uploaded"] = 4
BY DEF Rank, Statuses

\* A write of the session as loaded, acknowledged or not, finds it as loaded.
LEMMA WritesAsLoaded ==
    ASSUME Backend = "azure", AzureInv, NEW c \in IngestCalls, pc[c] \in Holding,
           NEW s, ReplaceSession(c, s) \/ ReplaceConflicts(c, s)
    PROVE  \/ UNCHANGED <<session, stamp>>
           \/ Put(s) /\ snap[c] = session
BY DEF AzureInv, Holds, ReplaceSession, ReplaceConflicts, Unacknowledged, EtagCurrent,
   AtomicReplace

LEMMA NothingIsCompared ==
    ASSUME Backend = "azure", NEW c
    PROVE  ~Compares(c)
BY DEF Compares, CompareEtag, AtomicReplace

\* What a step of a request does to the stored records.
LEMMA StepAdvances ==
    ASSUME Backend = "azure", AzureInv, NEW c \in IngestCalls, Step(c)
    PROVE  /\ manifest # NoManifest => manifest' = manifest
           /\ Late => Late'
           /\ UNCHANGED <<session, stamp>> \/ Put(session')
           /\ result' \in {result, "failed"} \/ (result' = manifest /\ Late)
<1>. USE RankOfUpload, IngestConstants
<1>1. LocalTypes /\ StoreTypes /\ StatusFits(c)
  BY DEF AzureInv, ValidInv
<1>2. ASSUME NEW status \in {"waiting_device", "capturing", "evidence_uploaded"},
             pc[c] \in {"waiting", "capturing", "uploaded"},
             \/ ReplaceSession(c, WithStatus(c, status))
             \/ ReplaceConflicts(c, WithStatus(c, status))
      PROVE  (Late => Late') /\ (UNCHANGED <<session, stamp>> \/ Put(session'))
  <2>1. CASE UNCHANGED <<session, stamp>>
    BY <2>1 DEF Late
  <2>2. CASE Put(WithStatus(c, status)) /\ snap[c] = session
    <3>1. session.status \in Accepting
      BY <1>1, <1>2, <2>2 DEF StatusFits, Accepting
    <3>2. ~Late
      <4>1. Rank[session.status] < 4 /\ Rank[session.status] \in 0 .. 9
        BY <1>1, <3>1, Ranks DEF StoreTypes, Session
      <4>. QED
        BY <4>1 DEF Late
    <3>. QED
      BY <2>2, <3>2 DEF Put
  <2>. QED
    BY <1>2, <2>1, <2>2, WritesAsLoaded DEF Holding
<1>3. CASE ToWaiting(c) \/ ToCapturing(c) \/ ToUploaded(c)
  <2>1. UNCHANGED <<manifest, result>>
    BY <1>3 DEF ToWaiting, ToCapturing, ToUploaded
  <2>. QED
    BY <1>2, <1>3, <2>1, NothingIsCompared DEF ToWaiting, ToCapturing, ToUploaded, Advance
<1>4. CASE FailSave(c)
  <2>1. WithStatus(c, "failed").status = "failed"
    BY <1>1, StatusTypes DEF Statuses
  <2>. QED
    BY <1>4, <2>1, Ranks DEF FailSave, ReplaceConflicts, Put, Late
<1>5. CASE SaveManifest(c)
  BY <1>5 DEF SaveManifest, ManifestConflicts, Late
<1>6. CASE SaveResult(c)
  BY <1>6 DEF SaveResult, AzureInv, Handed, Saved, storeVars, Late
<1>7. CASE \/ Load(c) \/ Existing(c) \/ Check(c) \/ FailLoad(c) \/ FailResult(c)
           \/ Recheck(c)
  BY <1>7 DEF Load, Existing, Check, FailLoad, FailResult, Recheck, storeVars, Late
<1>. QED
  BY <1>3, <1>4, <1>5, <1>6, <1>7 DEF Step

\* The request that steps keeps its part of the invariant.
LEMMA StepHands ==
    ASSUME Backend = "azure", AzureInv, NEW c \in IngestCalls,
           Step(c) \/ Receive(c) \/ Fail(c)
    PROVE  Handed(c)' /\ Holds(c)'
<1>. USE IngestConstants, StoreConstants
<1>1. /\ LocalTypes /\ StoreTypes /\ StatusFits(c) /\ CarriesValid(c)
      /\ Handed(c) /\ Holds(c) /\ c \in Calls
  BY DEF AzureInv, ValidInv
<1>2. stamp \in Nat /\ stamp' \in Nat /\ snap[c] \in Session /\ etag[c] \in Nat
  <2>1. StoreTypes'
    BY <1>1, StepTypes, ReceiveTypes
  <2>. QED
    BY <1>1, <2>1 DEF LocalTypes, StoreTypes
<1>3. ASSUME pc'[c] \notin Holding \cup Saved, etag'[c] \in {0, stamp'},
             answer'[c] # "200"
      PROVE  Handed(c)' /\ Holds(c)'
  BY <1>2, <1>3 DEF Handed, Holds, Saved
<1>4. ASSUME NEW code \in Codes, End(c, code),
             code = "200" => manifest' = payload[c] /\ manifest' # NoManifest
      PROVE  Handed(c)' /\ Holds(c)'
  BY <1>1, <1>2, <1>4, EndTypes DEF Handed, Holds, Holding, Saved, LocalTypes
<1>5. CASE Receive(c) \/ Fail(c)
  BY <1>1, <1>2, <1>5 DEF Receive, Fail, Answer, Goto, DropRecord, clientVars, storeVars,
     Handed, Holds, Holding, Saved, LocalTypes, StoreTypes
<1>6. CASE Load(c)
  BY <1>1, <1>2, <1>6 DEF Load, LoadSession, Goto, KeepLocals, storeVars, Handed, Holds,
     Saved, LocalTypes
<1>7. CASE Existing(c)
  <2>1. CASE Goto(c, "check") /\ UNCHANGED clientVars /\ KeepLocals
    BY <1>1, <1>7, <2>1 DEF Existing, Goto, KeepLocals, clientVars, storeVars, Handed,
       Holds, Holding, Saved, LocalTypes
  <2>2. payload[c] # NoManifest /\ manifest' = manifest
    BY <1>1, <1>7 DEF Existing, CarriesValid, storeVars
  <2>. QED
    BY <1>4, <1>7, <2>1, <2>2 DEF Existing, Codes
<1>8. CASE Check(c)
  BY <1>1, <1>8 DEF Check, Goto, KeepLocals, clientVars, storeVars, Handed, Holds, Holding,
     Saved, LocalTypes
<1>9. CASE FailLoad(c)
  BY <1>1, <1>2, <1>9 DEF FailLoad, Goto, KeepLocals, storeVars, Handed, Holds, Holding,
     Saved, LocalTypes
<1>10. CASE FailSave(c)
  <2>1. CASE /\ Put(WithStatus(c, "failed")) /\ Goto(c, "fail_result")
             /\ UNCHANGED clientVars /\ KeepLocals
    BY <1>1, <1>2, <1>10, <2>1 DEF FailSave, Put, Goto, KeepLocals, clientVars, Handed,
       Holds, Holding, Saved, LocalTypes
  <2>. QED
    BY <1>4, <1>10, <2>1 DEF FailSave, Codes
<1>11. CASE FailResult(c)
  BY <1>4, <1>11 DEF FailResult, Codes
<1>12. CASE SaveManifest(c)
  <2>1. CASE /\ manifest' = payload[c] /\ Goto(c, AfterManifest(snap[c].status))
             /\ UNCHANGED clientVars /\ KeepLocals /\ ~ManifestConflicts(payload[c])
    <3>1. snap[c].status \in Accepting /\ pc[c] = "save"
          /\ UNCHANGED <<session, stamp>> /\ payload[c] \in Manifests
      BY <1>1, <1>12 DEF SaveManifest, StatusFits, CarriesValid
    <3>2. pc'[c] \in {"waiting", "capturing", "uploaded"}
      BY <1>1, <2>1, <3>1 DEF AfterManifest, Accepting, Goto, LocalTypes
    <3>3. answer'[c] = "200" => manifest' = payload'[c] /\ manifest' # NoManifest
      BY <2>1, <3>1 DEF KeepLocals
    <3>. QED
      BY <1>1, <2>1, <3>1, <3>2, <3>3 DEF KeepLocals, clientVars, Handed, Holds, Holding
  <2>. QED
    BY <1>4, <1>12, <2>1 DEF SaveManifest, Codes
<1>13. ASSUME NEW status \in {"waiting_device", "capturing"},
              NEW next \in {"capturing", "uploaded"},
              pc[c] \in {"waiting", "capturing"}, UNCHANGED manifest,
              Advance(c, status, next)
       PROVE  Handed(c)' /\ Holds(c)'
  <2>. DEFINE s == WithStatus(c, status)
  <2>1. CASE ReplaceSession(c, s) /\ HoldReplaced(c, s) /\ Goto(c, next) /\ KeepLocals
    <3>1. session' = s /\ etag'[c] = stamp' /\ snap'[c] = s /\ pc'[c] = next
          /\ UNCHANGED <<payload, answer>>
      BY <1>1, <2>1 DEF ReplaceSession, Put, HoldReplaced, Goto, KeepLocals, LocalTypes
    <3>. QED
      BY <1>1, <1>2, <1>13, <3>1 DEF Handed, Holds, Saved
  <2>. QED
    BY <1>4, <1>13, <2>1, NothingIsCompared DEF Advance, Codes
<1>14. CASE ToWaiting(c) \/ ToCapturing(c)
  BY <1>13, <1>14 DEF ToWaiting, ToCapturing
<1>15. CASE ToUploaded(c)
  <2>. DEFINE s == WithStatus(c, "evidence_uploaded")
  <2>1. s.status = "evidence_uploaded"
    BY <1>1, StatusTypes DEF Statuses
  <2>2. CASE ReplaceSession(c, s) /\ Goto(c, "result") /\ DropRecord(c) /\ KeepLocals
    <3>1. Late'
      BY <2>1, <2>2, RankOfUpload DEF ReplaceSession, Put, Late
    <3>. QED
      BY <1>1, <1>2, <1>15, <2>2, <3>1 DEF ToUploaded, Goto, DropRecord, KeepLocals,
         Handed, Holds, Holding, Saved, LocalTypes
  <2>3. CASE Goto(c, "recheck") /\ DropRecord(c) /\ KeepLocals
    BY <1>1, <1>2, <1>15, <2>3 DEF ToUploaded, Goto, DropRecord, KeepLocals,
       Handed, Holds, Holding, Saved, LocalTypes
  <2>. QED
    BY <1>15, <2>2, <2>3, NothingIsCompared DEF ToUploaded
<1>16. CASE SaveResult(c) \/ Recheck(c)
  <2>1. manifest' = manifest /\ manifest = payload[c] /\ manifest # NoManifest
    BY <1>1, <1>16 DEF SaveResult, Recheck, storeVars, Handed, CarriesValid, Saved
  <2>. QED
    BY <1>4, <1>16, <2>1 DEF SaveResult, Recheck, Codes
<1>. QED
  BY <1>5, <1>6, <1>7, <1>8, <1>9, <1>10, <1>11, <1>12, <1>14, <1>15, <1>16 DEF Step

LEMMA AzureInvInit == Init => AzureInv
<1>. SUFFICES ASSUME Init PROVE AzureInv
  OBVIOUS
<1>1. \A c \in IngestCalls : Handed(c) /\ Holds(c)
  BY IngestConstants DEF Init, StoreInit, Handed, Holds, Holding, Saved
<1>2. RecordedIsUploaded
  BY IngestConstants DEF Init, RecordedIsUploaded
<1>. QED
  BY <1>1, <1>2, ValidInvInit DEF AzureInv

LEMMA AzureInvStep ==
    ASSUME Backend = "azure"
    PROVE  AzureInv /\ [Next]_vars => AzureInv'
<1>. SUFFICES ASSUME AzureInv, [Next]_vars PROVE AzureInv'
  OBVIOUS
<1>1. ValidInv /\ LocalTypes /\ StoreTypes
  BY DEF AzureInv, ValidInv
<1>2. ValidInv'
  BY <1>1, ValidInvStep
<1>3. stamp \in Nat /\ \A c \in IngestCalls : etag[c] \in Nat
  BY <1>1, IngestConstants DEF LocalTypes, StoreTypes
\* What any step does to the stored records, ...
<1>. DEFINE Advances == /\ manifest # NoManifest => manifest' = manifest
                        /\ Late => Late'
                        /\ UNCHANGED <<session, stamp>> \/ Put(session')
                        /\ result' \in {result, "failed"} \/ (result' = manifest /\ Late)
\* ... and what that means for a request that did not step and for the result.
<1>4. ASSUME NEW d \in IngestCalls, Advances,
             pc'[d] = pc[d], payload'[d] = payload[d], answer'[d] = answer[d],
             snap'[d] = snap[d], etag'[d] = etag[d]
      PROVE  Handed(d)' /\ Holds(d)'
  <2>1. Handed(d) /\ Holds(d) /\ CarriesValid(d)
    BY DEF AzureInv, ValidInv
  <2>2. Handed(d)'
    BY <1>4, <2>1 DEF Handed, CarriesValid
  <2>3. Holds(d)'
    BY <1>3, <1>4, <2>1 DEF Holds, Put
  <2>. QED
    BY <2>2, <2>3
<1>5. ASSUME Advances PROVE RecordedIsUploaded'
  <2>1. result \in Manifests => result = manifest /\ Late
    BY DEF AzureInv, RecordedIsUploaded, Late
  <2>2. result' \in Manifests => result' = manifest' /\ Late'
    BY <1>5, <2>1, StoreConstants, IngestConstants
  <2>. QED
    BY <2>2 DEF RecordedIsUploaded, Late
<1>6. CASE Around \/ UNCHANGED vars
  <2>1. Advances
    BY <1>1, <1>6, AroundAdvances, RankOfUpload DEF Late
  <2>. QED
    BY <1>1, <1>2, <1>4, <1>5, <1>6, <2>1, AroundAdvances DEF AzureInv
<1>7. ASSUME NEW c \in IngestCalls, Step(c) \/ Receive(c) \/ Fail(c)
      PROVE  AzureInv'
  <2>1. Advances
    BY <1>7, StepAdvances DEF Receive, Fail, storeVars, Late
  <2>2. ASSUME NEW d \in IngestCalls PROVE Handed(d)' /\ Holds(d)'
    <3>1. CASE d = c
      BY <1>7, <3>1, StepHands
    <3>2. CASE d # c
      BY <1>1, <1>4, <1>7, <2>1, <3>2, StepKeepsOthers DEF OthersKeep
    <3>. QED
      BY <3>1, <3>2
  <2>. QED
    BY <1>2, <1>5, <2>1, <2>2 DEF AzureInv
<1>. QED
  BY <1>6, <1>7 DEF Next, Around

THEOREM AzureInvHolds ==
    ASSUME Backend = "azure"
    PROVE  Spec => []AzureInv
<1>. QED
  BY AzureInvInit, AzureInvStep, PTL DEF Spec

\* ingest_evidence: whoever was told 200 handed in the manifest that is stored
\* for good.
THEOREM AcceptedStandsHolds ==
    ASSUME Backend = "azure"
    PROVE  Spec => []AcceptedStands
<1>1. AzureInv => AcceptedStands
  BY DEF AzureInv, Handed, AcceptedStands
<1>. QED
  BY <1>1, AzureInvHolds, PTL

\* ingest_evidence: an accepting ingest result names the stored manifest of a
\* session that took it.
THEOREM RecordedIsUploadedHolds ==
    ASSUME Backend = "azure"
    PROVE  Spec => []RecordedIsUploaded
<1>1. AzureInv => RecordedIsUploaded
  BY DEF AzureInv
<1>. QED
  BY <1>1, AzureInvHolds, PTL
=============================================================================
