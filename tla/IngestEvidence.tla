--------------------------- MODULE IngestEvidence ---------------------------
(***************************************************************************)
(* handlers.ingest_evidence: requests that hand in the Evidence Manifest   *)
(* of one session, sent twice, concurrently, or with different contents.   *)
(*                                                                         *)
(* A request loads the session, looks for a manifest already stored, and   *)
(* validates its own.  It then saves the manifest FIRST and moves the      *)
(* session to evidence_uploaded SECOND, through waiting_device and         *)
(* capturing, by etag-guarded writes.  A manifest that is not valid marks  *)
(* the session failed: that write is save_session, which guards nothing,   *)
(* and what it stores is the session as the request loaded it.             *)
(***************************************************************************)
EXTENDS SessionStore

CONSTANTS
    IngestCalls,   \* concurrent ingest requests; each may be sent again
    Valid,         \* manifests that pass validate_manifest and the blob check
    NoResult,      \* no ingest-result record
    MaxFailures    \* model bound: requests that end by a failure

ASSUME IngestConstants ==
    /\ IngestCalls \subseteq Calls
    /\ Valid \subseteq Manifests
    /\ "failed" \notin Manifests
    /\ NoResult \notin Manifests \cup {"failed"}
    /\ Backend = "local" => ~SharedRepository   \* save_session takes no lock
    /\ MaxFailures \in Nat

VARIABLES
    pc,        \* the repository call a request makes next
    payload,   \* manifest each request carries
    answer,    \* HTTP answer of the request
    result,    \* ingest-result: "failed" or the manifest it was written for
    expired,   \* now > expires_at
    failures   \* requests ended by a failure so far

ingestVars == <<pc, payload, answer, result, expired, failures>>
vars == <<storeVars, clientVars, ingestVars>>

Steps == {"idle", "load", "existing", "check", "fail_load", "fail_save",
          "fail_result", "save", "waiting", "capturing", "uploaded", "result",
          "recheck", "done"}

Codes == {"none", "200", "ERR_EVIDENCE_CONFLICT", "ERR_EVIDENCE_NOT_ACCEPTED",
          "ERR_REJECTED", "ERR_STORAGE_CONFLICT", "ERR_INTERNAL", "lost"}

\* States in which a session takes evidence.
Accepting == {"challenge_issued", "waiting_device", "capturing"}

TypeOK ==
    /\ StoreTypeOK
    /\ pc \in [IngestCalls -> Steps]
    /\ payload \in [IngestCalls -> Manifests \cup {NoManifest}]
    /\ answer \in [IngestCalls -> Codes]
    /\ result \in Manifests \cup {"failed", NoResult}
    /\ expired \in BOOLEAN
    /\ failures \in 0 .. MaxFailures

\* start_session has returned: without an IoT Hub the session may still be
\* seen at challenge_issued.
Init ==
    /\ StoreInit
    /\ \E s \in {"challenge_issued", "waiting_device"} :
         session = [BlankSession EXCEPT !.status = s]
    /\ manifest = NoManifest
    /\ pc = [c \in IngestCalls |-> "idle"]
    /\ payload = [c \in IngestCalls |-> NoManifest]
    /\ answer = [c \in IngestCalls |-> "none"]
    /\ result = NoResult
    /\ expired = FALSE
    /\ failures = 0

-----------------------------------------------------------------------------
\* Control of one request

Goto(c, step) == pc' = [pc EXCEPT ![c] = step]

KeepLocals == UNCHANGED <<payload, answer, expired, failures>>

Answer(c, code) ==
    /\ Goto(c, "done")
    /\ answer' = [answer EXCEPT ![c] = code]

\* The request is answered; its payload is kept, the answer refers to it.
End(c, code) ==
    /\ Answer(c, code)
    /\ DropRecord(c)
    /\ UNCHANGED <<payload, expired, failures>>

\* The session dict as the request changes it in memory.
WithStatus(c, status) == [snap[c] EXCEPT !.status = status]

Receive(c) ==
    /\ pc[c] \in {"idle", "done"}
    /\ Goto(c, "load")
    /\ \E m \in Manifests : payload' = [payload EXCEPT ![c] = m]
    /\ answer' = [answer EXCEPT ![c] = "none"]
    /\ UNCHANGED <<storeVars, clientVars, result, expired, failures>>

\* Crash, StorageUnavailable or a failed audit write before the next step.
Fail(c) ==
    /\ pc[c] \notin {"idle", "done"}
    /\ failures < MaxFailures
    /\ failures' = failures + 1
    /\ Answer(c, "lost")
    /\ DropRecord(c)
    /\ UNCHANGED <<storeVars, payload, result, expired>>

-----------------------------------------------------------------------------
\* Reading and validating

Load(c) ==
    /\ pc[c] = "load"
    /\ LoadSession(c)
    /\ Goto(c, "existing")
    /\ UNCHANGED <<storeVars, result>> /\ KeepLocals

\* A manifest already stored decides the answer whatever the session says.
Existing(c) ==
    /\ pc[c] = "existing"
    /\ UNCHANGED <<storeVars, result>>
    /\ \/ /\ manifest = payload[c]
          /\ End(c, "200")
       \/ /\ manifest \notin {payload[c], NoManifest}
          /\ End(c, "ERR_EVIDENCE_CONFLICT")
       \/ /\ manifest = NoManifest /\ snap[c].status \notin Accepting
          /\ End(c, "ERR_EVIDENCE_NOT_ACCEPTED")
       \/ /\ manifest = NoManifest /\ snap[c].status \in Accepting
          /\ Goto(c, "check")
          /\ UNCHANGED clientVars /\ KeepLocals

\* Mutant: the manifest's contents are not looked at.
CheckExpiry(c) ==
    /\ pc[c] = "check"
    /\ ~expired
    /\ Goto(c, "save")
    /\ UNCHANGED <<storeVars, clientVars, result>> /\ KeepLocals

\* validate_manifest and verify_evidence_files, on the session as loaded.
Check(c) ==
    /\ pc[c] = "check"
    /\ IF payload[c] \in Valid /\ ~expired THEN Goto(c, "save")
       ELSE Goto(c, IF Backend = "azure" THEN "fail_load" ELSE "fail_save")
    /\ UNCHANGED <<storeVars, clientVars, result>> /\ KeepLocals

-----------------------------------------------------------------------------
\* Rejecting: _mark_failed, then the ingest result

\* Azure's save_session takes the etag of the session as it is now; the value
\* it will write stays the one the request loaded.
FailLoad(c) ==
    /\ pc[c] = "fail_load"
    /\ etag' = [etag EXCEPT ![c] = stamp]
    /\ Goto(c, "fail_save")
    /\ UNCHANGED <<storeVars, snap, armed, result>> /\ KeepLocals

FailSave(c) ==
    /\ pc[c] = "fail_save"
    /\ UNCHANGED <<manifest, proofs, proofIndex, qr, result>>
    /\ \/ /\ Backend = "azure" => EtagCurrent(c)
          /\ Put(WithStatus(c, "failed"))
          /\ Goto(c, "fail_result")
          /\ UNCHANGED clientVars /\ KeepLocals
       \/ /\ Backend = "azure"
          /\ ReplaceConflicts(c, WithStatus(c, "failed"))
          /\ End(c, "ERR_INTERNAL")

FailResult(c) ==
    /\ pc[c] = "fail_result"
    /\ result' = "failed"
    /\ End(c, "ERR_REJECTED")
    /\ UNCHANGED storeVars

-----------------------------------------------------------------------------
\* Accepting

\* Mutant: the manifest blob is uploaded with overwrite=True.
ManifestOverwritten(m) == FALSE

\* Azure creates the manifest blob only where none is; the local file is
\* replaced.  The session's loaded status selects the first write.
ManifestConflicts(m) == Backend = "azure" /\ manifest \notin {m, NoManifest}

\* Mutant: a session that is capturing already is taken for uploaded.
AfterManifestEarly(status) ==
    CASE status = "challenge_issued" -> "waiting"
      [] status = "waiting_device" -> "capturing"
      [] status = "capturing" -> "result"

AfterManifest(status) ==
    CASE status = "challenge_issued" -> "waiting"
      [] status = "waiting_device" -> "capturing"
      [] status = "capturing" -> "uploaded"

SaveManifest(c) ==
    /\ pc[c] = "save"
    /\ UNCHANGED <<session, stamp, proofs, proofIndex, qr, result>>
    /\ \/ /\ ~ManifestConflicts(payload[c])
          /\ manifest' = payload[c]
          /\ Goto(c, AfterManifest(snap[c].status))
          /\ UNCHANGED clientVars /\ KeepLocals
       \/ /\ ManifestConflicts(payload[c])
          /\ End(c, "ERR_EVIDENCE_CONFLICT")
          /\ UNCHANGED manifest

\* Local files: replace_session compares, and has not written yet.
Compares(c) ==
    /\ CompareEtag(c)
    /\ UNCHANGED <<session, stamp, pc>> /\ KeepLocals

\* One etag-guarded write towards evidence_uploaded.
Advance(c, status, next) ==
    \/ /\ ReplaceSession(c, WithStatus(c, status))
       /\ HoldReplaced(c, WithStatus(c, status))
       /\ Goto(c, next)
       /\ KeepLocals
    \/ /\ ReplaceConflicts(c, WithStatus(c, status))
       /\ End(c, "ERR_STORAGE_CONFLICT")
    \/ Compares(c)

ToWaiting(c) ==
    /\ pc[c] = "waiting"
    /\ Advance(c, "waiting_device", "capturing")
    /\ UNCHANGED <<manifest, proofs, proofIndex, qr, result>>

ToCapturing(c) ==
    /\ pc[c] = "capturing"
    /\ Advance(c, "capturing", "uploaded")
    /\ UNCHANGED <<manifest, proofs, proofIndex, qr, result>>

ToUploaded(c) ==
    /\ pc[c] = "uploaded"
    /\ UNCHANGED <<manifest, proofs, proofIndex, qr, result>>
    /\ \/ /\ ReplaceSession(c, WithStatus(c, "evidence_uploaded"))
          /\ Goto(c, "result")
          /\ DropRecord(c) /\ KeepLocals
       \/ /\ ReplaceConflicts(c, WithStatus(c, "evidence_uploaded"))
          /\ Goto(c, "recheck")
          /\ DropRecord(c) /\ KeepLocals
       \/ Compares(c)

SaveResult(c) ==
    /\ pc[c] = "result"
    /\ result' = payload[c]
    /\ End(c, "200")
    /\ UNCHANGED storeVars

\* The write lost: accepted if the session is at evidence_uploaded, no later
\* and no earlier.
Recheck(c) ==
    /\ pc[c] = "recheck"
    /\ End(c, IF session.status = "evidence_uploaded" THEN "200"
              ELSE "ERR_STORAGE_CONFLICT")
    /\ UNCHANGED <<storeVars, result>>

-----------------------------------------------------------------------------
\* Around the requests

Expire ==
    /\ ~expired
    /\ expired' = TRUE
    /\ UNCHANGED <<storeVars, clientVars, pc, payload, answer, result, failures>>

\* Writes of the other handlers, each made on the session as it then is.
Elsewhere(s) ==
    /\ AtomicReplace
    /\ Put(s)
    /\ UNCHANGED <<manifest, proofs, proofIndex, qr, clientVars, ingestVars>>

\* Telemetry's _set_session_status(capturing), and start_session's last write.
SessionAdvances ==
    \E step \in {<<"challenge_issued", "waiting_device">>,
                 <<"waiting_device", "capturing">>} :
        /\ session.status = step[1]
        /\ Elsewhere([session EXCEPT !.status = step[2]])

DeviceReportsFailure ==
    /\ session.status # "failed"
    /\ Elsewhere([session EXCEPT !.status = "failed"])

\* issue_proof walks an uploaded session to its reservation and its Proof.
IssueAdvances ==
    \/ \E step \in {<<"evidence_uploaded", "validating">>,
                    <<"validating", "verified">>} :
         /\ session.status = step[1]
         /\ Elsewhere([session EXCEPT !.status = step[2]])
    \/ /\ session.status = "verified" /\ session.proof = NoId
       /\ \E id \in ProofIds, k \in Keys :
            Elsewhere([session EXCEPT !.proof = id, !.key = k])
    \/ /\ session.status = "verified" /\ session.proof # NoId
       /\ Elsewhere([session EXCEPT !.status = "proof_issued"])

Step(c) ==
    \/ Load(c) \/ Existing(c) \/ Check(c)
    \/ FailLoad(c) \/ FailSave(c) \/ FailResult(c)
    \/ SaveManifest(c) \/ ToWaiting(c) \/ ToCapturing(c) \/ ToUploaded(c)
    \/ SaveResult(c) \/ Recheck(c)

Next ==
    \/ \E c \in IngestCalls : Receive(c) \/ Step(c) \/ Fail(c)
    \/ Expire
    \/ SessionAdvances \/ DeviceReportsFailure \/ IssueAdvances

Spec == Init /\ [][Next]_vars

-----------------------------------------------------------------------------
\* Properties

\* Whoever was told 200 handed in the manifest that is stored, whatever other
\* requests with other manifests do before or after.
AcceptedStands ==
    \A c \in IngestCalls : answer[c] = "200" => manifest = payload[c]

\* From evidence_uploaded on, until a failure, the session has a stored
\* manifest and it is one that passed validation.
UploadedIsValidated ==
    Rank[session.status] \in 4 .. 8 => manifest \in Valid

\* An ingest result that accepts a manifest names the stored one, and the
\* session had taken it: it is uploaded, further on, or failed since.
RecordedIsUploaded ==
    result \in Manifests =>
        /\ result = manifest
        /\ Rank[session.status] >= Rank["evidence_uploaded"]

\* The 200 answer says "status": "evidence_uploaded": once no request is under
\* way any more the session has got there.  No run checks this, for it does not
\* hold: the stored manifest is answered 200 whatever became of the session.
AtRest == \A c \in IngestCalls : pc[c] \in {"idle", "done"}
AcceptedIsUploaded ==
    AtRest /\ (\E c \in IngestCalls : answer[c] = "200") =>
        Rank[session.status] >= Rank["evidence_uploaded"]
=============================================================================
