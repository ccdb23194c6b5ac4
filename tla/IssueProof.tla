----------------------------- MODULE IssueProof -----------------------------
(***************************************************************************)
(* handlers.issue_proof: concurrent requests that turn the accepted        *)
(* evidence of one session into one signed Proof record.                   *)
(*                                                                         *)
(* A request loads the session and walks it through validating and         *)
(* verified by etag-guarded writes.  It then RESERVES: one write stores    *)
(* the proof_id, the timestamps and the signing profile in the session.    *)
(* The reservation's owner signs and saves the Proof and marks the session *)
(* proof_issued.  Another request that finds a reservation without a Proof *)
(* polls, and on its last attempt takes the reservation over, rebuilding   *)
(* the Proof from the pinned fields.                                       *)
(*                                                                         *)
(* A request may end at any step: the process dies, the storage or the     *)
(* signing service is unavailable, or the audit log cannot be written.     *)
(***************************************************************************)
EXTENDS SessionStore

CONSTANTS
    IssueCalls,    \* concurrent issue requests; each may be sent again
    MaxAttempts,   \* max_attempts, 8 in the code
    Signer,        \* "stub": HMAC, one key; "key_vault": PS256, versioned keys
    MaxFailures    \* model bound: requests that end by a failure

ASSUME IssueConstants ==
    /\ IssueCalls \subseteq Calls
    /\ MaxAttempts \in Nat \ {0}
    /\ Signer \in {"stub", "key_vault"}
    /\ MaxFailures \in Nat
    /\ Keys # {} /\ Salts # {}

VARIABLES
    pc,         \* the repository or signer call a request makes next
    attempt,    \* _attempt, the loop counter
    cand,       \* proof_uuid and signing_profile of the request
    built,      \* the request's local "proof"
    answer,     \* HTTP answer of the request
    activeKey,  \* what the configured signer's resolve_profile returns
    failures    \* requests ended by a failure so far

issueVars == <<pc, attempt, cand, built, answer, activeKey, failures>>
vars == <<storeVars, clientVars, issueVars>>

Steps == {"idle", "load", "find", "adopt", "validating", "verified", "resolve",
          "reserve", "build", "save", "index", "finish", "recheck", "qr", "done"}

\* Steps that are a replace_session.
ReplaceSteps == {"adopt", "validating", "verified", "reserve", "finish"}

Codes == {"none", "201", "200", "ERR_PROOF_CONFLICT",
          "ERR_EVIDENCE_NOT_ACCEPTED", "ERR_MANIFEST_NOT_FOUND",
          "ERR_SIGNATURE_FAILED", "lost"}

Reservation == [id : ProofIds \cup {NoId}, key : Keys \cup {NoKey}]
NoReservation == [id |-> NoId, key |-> NoKey]
NoAnswer == [code |-> "none", proof |-> NoId]

TypeOK ==
    /\ StoreTypeOK
    /\ pc \in [IssueCalls -> Steps]
    /\ attempt \in [IssueCalls -> 0 .. MaxAttempts - 1]
    /\ cand \in [IssueCalls -> Reservation]
    /\ built \in [IssueCalls -> Proof \cup {NoProof}]
    /\ answer \in [IssueCalls -> [code : Codes, proof : ProofIds \cup {NoId}]]
    /\ activeKey \in Keys
    /\ failures \in 0 .. MaxFailures

\* The evidence has been accepted: manifest.json is stored.
Init ==
    /\ StoreInit
    /\ session = [BlankSession EXCEPT !.status = "evidence_uploaded"]
    /\ manifest \in Manifests
    /\ pc = [c \in IssueCalls |-> "idle"]
    /\ attempt = [c \in IssueCalls |-> 0]
    /\ cand = [c \in IssueCalls |-> NoReservation]
    /\ built = [c \in IssueCalls |-> NoProof]
    /\ answer = [c \in IssueCalls |-> NoAnswer]
    /\ activeKey \in Keys
    /\ failures = 0

-----------------------------------------------------------------------------
\* Control of one request

Goto(c, step) == pc' = [pc EXCEPT ![c] = step]

KeepLocals == UNCHANGED <<attempt, cand, built, answer, activeKey, failures>>

\* The request is answered and its local state is gone.
End(c, code, id) ==
    /\ Goto(c, "done")
    /\ answer' = [answer EXCEPT ![c] = [code |-> code, proof |-> id]]
    /\ attempt' = [attempt EXCEPT ![c] = 0]
    /\ cand' = [cand EXCEPT ![c] = NoReservation]
    /\ built' = [built EXCEPT ![c] = NoProof]
    /\ DropRecord(c)
    /\ UNCHANGED <<activeKey, failures>>

\* Mutant: one attempt too many.
NextAttemptTooMany(c) ==
    /\ attempt[c] < MaxAttempts
    /\ Goto(c, "load")
    /\ attempt' = [attempt EXCEPT ![c] = @ + 1]
    /\ cand' = [cand EXCEPT ![c] = NoReservation]
    /\ DropRecord(c)
    /\ UNCHANGED <<built, answer, activeKey, failures>>

\* "continue": the next attempt starts from a fresh load, if one is left.
NextAttempt(c) ==
    /\ attempt[c] + 1 < MaxAttempts
    /\ Goto(c, "load")
    /\ attempt' = [attempt EXCEPT ![c] = @ + 1]
    /\ cand' = [cand EXCEPT ![c] = NoReservation]
    /\ DropRecord(c)
    /\ UNCHANGED <<built, answer, activeKey, failures>>

DidNotConverge(c) ==
    /\ attempt[c] + 1 = MaxAttempts
    /\ End(c, "ERR_PROOF_CONFLICT", NoId)

Continue(c) == NextAttempt(c) \/ DidNotConverge(c)

\* Mutant: the reservation already announces the Proof.
AnnouncedOf(c) ==
    [snap[c] EXCEPT !.status = "proof_issued", !.proof = cand[c].id,
                    !.key = cand[c].key]

\* The session dict the request has changed in memory and now writes.
ValidatingOf(c) == [snap[c] EXCEPT !.status = "validating"]
VerifiedOf(c) == [snap[c] EXCEPT !.status = "verified"]
ReservedOf(c) == [snap[c] EXCEPT !.proof = cand[c].id, !.key = cand[c].key]

\* Mutant: the status is not set before the last write.
UnissuedOf(c) == snap[c]

IssuedOf(c) == [snap[c] EXCEPT !.status = "proof_issued"]

\* A client sends the request, for the first time or again.
Receive(c) ==
    /\ pc[c] \in {"idle", "done"}
    /\ Goto(c, "load")
    /\ answer' = [answer EXCEPT ![c] = NoAnswer]
    /\ UNCHANGED <<storeVars, clientVars, attempt, cand, built, activeKey, failures>>

\* Crash, StorageUnavailable, SigningUnavailable or a failed audit write:
\* the request ends before its next step.
Fail(c) ==
    /\ pc[c] \notin {"idle", "done"}
    /\ failures < MaxFailures
    /\ failures' = failures + 1
    /\ Goto(c, "done")
    /\ answer' = [answer EXCEPT ![c] = [code |-> "lost", proof |-> NoId]]
    /\ attempt' = [attempt EXCEPT ![c] = 0]
    /\ cand' = [cand EXCEPT ![c] = NoReservation]
    /\ built' = [built EXCEPT ![c] = NoProof]
    /\ DropRecord(c)
    /\ UNCHANGED <<storeVars, activeKey>>

-----------------------------------------------------------------------------
\* The load at the head of every attempt

\* Mutant: a verified session is reserved whatever it holds.
AfterLoadAnew(c) ==
    \/ session.proof # NoId /\ session.status # "verified" /\ Goto(c, "find")
    \/ session.proof = NoId /\ session.status = "evidence_uploaded" /\ Goto(c, "validating")
    \/ session.status = "verified" /\ Goto(c, "resolve")

\* Which branch the loaded session selects.
AfterLoad(c) ==
    \/ /\ session.proof # NoId
       /\ Goto(c, "find")
    \/ /\ session.proof = NoId /\ session.status = "evidence_uploaded"
       /\ Goto(c, "validating")
    \/ /\ session.proof = NoId /\ session.status = "verified"
       /\ Goto(c, "resolve")

Load(c) ==
    /\ pc[c] = "load"
    /\ UNCHANGED storeVars
    /\ \/ AfterLoad(c) /\ LoadSession(c) /\ KeepLocals
       \/ /\ session.proof = NoId /\ session.status = "validating"
          /\ Continue(c)
       \/ /\ session.proof = NoId
          /\ session.status \notin {"evidence_uploaded", "validating", "verified"}
          /\ End(c, "ERR_EVIDENCE_NOT_ACCEPTED", NoId)

\* Mutant: a verified session does not wait.
ReservedIssuing == {"proof_issuing"}

\* A reservation waits for its Proof in these states.
Reserved == {"verified", "proof_issuing"}

\* Mutant: a takeover signs with the profile configured now.
TakenOverAnew(c) == [id |-> snap[c].proof, key |-> activeKey]

\* A takeover rebuilds the Proof from what the session pins.
TakenOver(c) == [id |-> snap[c].proof, key |-> snap[c].key]

\* load_proof(session["proof_id"]) and what it leads to.
Find(c) ==
    LET id == snap[c].proof IN
    /\ pc[c] = "find"
    /\ UNCHANGED storeVars
    /\ \/ /\ Stored(id) /\ snap[c].status \in Reserved
          /\ Goto(c, "adopt")
          /\ UNCHANGED clientVars /\ KeepLocals
       \/ /\ Stored(id) /\ snap[c].status = "proof_issued"
          /\ End(c, "200", id)
       \/ /\ Stored(id) /\ snap[c].status \notin Reserved \cup {"proof_issued"}
          /\ End(c, "ERR_PROOF_CONFLICT", NoId)
       \/ /\ ~Stored(id) /\ snap[c].status \notin Reserved
          /\ End(c, "ERR_PROOF_CONFLICT", NoId)
       \/ /\ ~Stored(id) /\ snap[c].status \in Reserved
          /\ NextAttempt(c)
       \/ /\ ~Stored(id) /\ snap[c].status \in Reserved
          /\ attempt[c] + 1 = MaxAttempts
          /\ Goto(c, "build")
          /\ cand' = [cand EXCEPT ![c] = TakenOver(c)]
          /\ UNCHANGED <<clientVars, attempt, built, answer, activeKey, failures>>

\* A Proof was saved by a request that did not get to mark the session.
Adopt(c) ==
    /\ pc[c] = "adopt"
    /\ UNCHANGED <<manifest, proofs, proofIndex, qr>>
    /\ \/ /\ ReplaceSession(c, IssuedOf(c))
          /\ End(c, "200", snap[c].proof)
       \/ /\ ReplaceConflicts(c, IssuedOf(c))
          /\ Continue(c)

-----------------------------------------------------------------------------
\* Reserving

MarkValidating(c) ==
    /\ pc[c] = "validating"
    /\ UNCHANGED <<manifest, proofs, proofIndex, qr>>
    /\ \/ /\ ReplaceSession(c, ValidatingOf(c))
          /\ HoldReplaced(c, ValidatingOf(c))
          /\ Goto(c, "verified")
          /\ KeepLocals
       \/ /\ ReplaceConflicts(c, ValidatingOf(c))
          /\ Continue(c)

MarkVerified(c) ==
    /\ pc[c] = "verified"
    /\ UNCHANGED <<manifest, proofs, proofIndex, qr>>
    /\ \/ /\ ReplaceSession(c, VerifiedOf(c))
          /\ HoldReplaced(c, VerifiedOf(c))
          /\ Goto(c, "resolve")
          /\ KeepLocals
       \/ /\ ReplaceConflicts(c, VerifiedOf(c))
          /\ Continue(c)

\* uuid4 gives a name nothing refers to.
Fresh(id) ==
    /\ session.proof # id
    /\ ~Stored(id)
    /\ \A d \in IssueCalls : cand[d].id # id

\* resolve_profile and uuid_factory.
Resolve(c) ==
    /\ pc[c] = "resolve"
    /\ \E id \in ProofIds :
         /\ Fresh(id)
         /\ cand' = [cand EXCEPT ![c] = [id |-> id, key |-> activeKey]]
    /\ Goto(c, "reserve")
    /\ UNCHANGED <<storeVars, clientVars, attempt, built, answer, activeKey, failures>>

Reserve(c) ==
    /\ pc[c] = "reserve"
    /\ UNCHANGED <<manifest, proofs, proofIndex, qr>>
    /\ \/ /\ ReplaceSession(c, ReservedOf(c))
          /\ HoldReplaced(c, ReservedOf(c))
          /\ Goto(c, "build")
          /\ KeepLocals
       \/ /\ ReplaceConflicts(c, ReservedOf(c))
          /\ Continue(c)

-----------------------------------------------------------------------------
\* Building and saving the Proof

\* The stub signs under its configured key only, and signs a hash one way.
CanSign(key) == Signer = "key_vault" \/ key = activeKey
Signatures == IF Signer = "stub" THEN {CHOOSE s \in Salts : TRUE} ELSE Salts

Build(c) ==
    /\ pc[c] = "build"
    /\ UNCHANGED storeVars
    /\ \/ /\ manifest = NoManifest
          /\ End(c, "ERR_MANIFEST_NOT_FOUND", NoId)
       \/ /\ manifest # NoManifest /\ ~CanSign(cand[c].key)
          /\ End(c, "ERR_SIGNATURE_FAILED", NoId)
       \/ /\ manifest # NoManifest /\ CanSign(cand[c].key)
          /\ \E s \in Signatures :
               built' = [built EXCEPT ![c] =
                   [id |-> cand[c].id, key |-> cand[c].key,
                    manifest |-> manifest, salt |-> s]]
          /\ Goto(c, "save")
          /\ UNCHANGED <<clientVars, attempt, cand, answer, activeKey, failures>>

\* Mutant: the blob is uploaded with overwrite=True.
SaveOverwriting(c) ==
    /\ pc[c] = "save"
    /\ proofs' = {q \in proofs : q.id # built[c].id} \cup {built[c]}
    /\ Goto(c, "finish")
    /\ UNCHANGED <<session, stamp, manifest, proofIndex, qr, clientVars>>
    /\ KeepLocals

\* save_proof's blob; on a conflict the stored record is adopted when it
\* signs the same hash, and the table row is then not written.
Save(c) ==
    LET p == built[c] IN
    /\ pc[c] = "save"
    /\ UNCHANGED <<session, stamp, manifest, proofIndex, qr>>
    /\ \/ /\ ~ProofConflicts(p)
          /\ WriteProof(p)
          /\ Goto(c, IF Backend = "azure" THEN "index" ELSE "finish")
          /\ UNCHANGED clientVars /\ KeepLocals
       \/ /\ ProofConflicts(p)
          /\ RecordHash(StoredProof(p.id)) = RecordHash(p)
          /\ built' = [built EXCEPT ![c] = StoredProof(p.id)]
          /\ Goto(c, "finish")
          /\ UNCHANGED <<proofs, clientVars, attempt, cand, answer, activeKey, failures>>
       \/ /\ ProofConflicts(p)
          /\ RecordHash(StoredProof(p.id)) # RecordHash(p)
          /\ End(c, "ERR_PROOF_CONFLICT", NoId)
          /\ UNCHANGED proofs

SaveIndex(c) ==
    /\ pc[c] = "index"
    /\ proofIndex' = proofIndex \cup {built[c].id}
    /\ Goto(c, "finish")
    /\ UNCHANGED <<session, stamp, manifest, proofs, qr, clientVars>>
    /\ KeepLocals

Finish(c) ==
    /\ pc[c] = "finish"
    /\ UNCHANGED <<manifest, proofs, proofIndex, qr>>
    /\ \/ /\ ReplaceSession(c, IssuedOf(c))
          /\ Goto(c, "qr")
       \/ /\ ReplaceConflicts(c, IssuedOf(c))
          /\ Goto(c, "recheck")
    /\ DropRecord(c)
    /\ KeepLocals

\* Mutant: whoever loses the last write answers without storing a QR image.
RecheckAnswers(c) ==
    /\ pc[c] = "recheck"
    /\ session.proof = built[c].id
    /\ End(c, "201", built[c].id)
    /\ UNCHANGED storeVars

\* The session moved on: only its proof_id is compared, not its status.
Recheck(c) ==
    /\ pc[c] = "recheck"
    /\ UNCHANGED storeVars
    /\ \/ /\ session.proof = built[c].id
          /\ Goto(c, "qr")
          /\ UNCHANGED clientVars /\ KeepLocals
       \/ /\ session.proof # built[c].id
          /\ End(c, "ERR_PROOF_CONFLICT", NoId)

SaveQr(c) ==
    /\ pc[c] = "qr"
    /\ qr' = qr \cup {built[c].id}
    /\ End(c, "201", built[c].id)
    /\ UNCHANGED <<session, stamp, manifest, proofs, proofIndex>>

\* The comparison half of a replace that is not atomic.
Compare(c) ==
    /\ pc[c] \in ReplaceSteps
    /\ CompareEtag(c)
    /\ UNCHANGED <<storeVars, issueVars>>

-----------------------------------------------------------------------------
\* Around the requests

\* A "failed" device_status: telemetry's load-and-replace loop ends in a
\* replace that succeeds on the record as it then is.
DeviceReportsFailure ==
    /\ AtomicReplace
    /\ session.status # "failed"
    /\ Put([session EXCEPT !.status = "failed"])
    /\ UNCHANGED <<manifest, proofs, proofIndex, qr, clientVars, issueVars>>

\* What _mark_failed writes: the session as its handler loaded it, before any
\* evidence was accepted and so before any reservation, with the failure.
FailedCopy == [BlankSession EXCEPT !.status = "failed"]

\* A second evidence manifest was being ingested when the first was accepted,
\* and is rejected: its _mark_failed overwrites whatever the session has become
\* since, reservation and Proof included.  Written again it changes nothing.
MarkFailed ==
    /\ session # FailedCopy
    /\ Put(FailedCopy)
    /\ UNCHANGED <<manifest, proofs, proofIndex, qr, clientVars, issueVars>>

\* A new key version, or another SIGNATURE_KEY_ID after a deployment.
RotateKey ==
    /\ \E k \in Keys \ {activeKey} : activeKey' = k
    /\ UNCHANGED <<storeVars, clientVars, pc, attempt, cand, built, answer, failures>>

\* What the server does for one request once it is received.
Step(c) ==
    \/ Load(c) \/ Find(c) \/ Adopt(c)
    \/ MarkValidating(c) \/ MarkVerified(c) \/ Resolve(c) \/ Reserve(c)
    \/ Build(c) \/ Save(c) \/ SaveIndex(c)
    \/ Finish(c) \/ Recheck(c) \/ SaveQr(c)
    \/ Compare(c)

Next ==
    \/ \E c \in IssueCalls : Receive(c) \/ Step(c) \/ Fail(c)
    \/ DeviceReportsFailure
    \/ MarkFailed
    \/ RotateKey

Spec == Init /\ [][Next]_vars

\* A received request runs on a server thread until it answers.
ServerFairness == \A c \in IssueCalls : WF_vars(Step(c))

\* Somebody keeps asking for the Proof until it is issued.
ClientFairness ==
    \A c \in IssueCalls : WF_vars(answer[c].proof = NoId /\ Receive(c))

FairSpec == Spec /\ ServerFairness /\ ClientFairness

-----------------------------------------------------------------------------
\* Safety

\* At most one Proof record is ever stored for the session, however many
\* requests race, crash or take over (save_proof is reached by two paths).
OneProof == \A p, q \in proofs : p = q

\* A failed session without a reservation: none had been made, or the old copy
\* of _mark_failed was written over it.
Dropped == session.status = "failed" /\ session.proof = NoId

\* A stored Proof is the one the session reserved: its id and its signing
\* profile are the pinned ones and it covers the accepted manifest.  Only a
\* failure written over the reservation parts the two.
Reserves(id, key) == id = session.proof /\ key = session.key
ProofMatchesReservation ==
    \A p \in proofs : p.manifest = manifest /\ (Reserves(p.id, p.key) \/ Dropped)

\* The session says proof_issued only after its Proof has been saved: no
\* reader that trusts the status finds the Proof missing.
IssuedIsStored == session.status = "proof_issued" => Stored(session.proof)

\* The Proof that a 200 or 201 answer names is stored for good, and the session
\* goes on naming it whatever other requests do later; the one thing that parts
\* the session from it is a failure written over the reservation, and then the
\* session names no other.
AnswerStandsFor(a) == Stored(a.proof) /\ (a.proof = session.proof \/ Dropped)
AnswerIsFinal ==
    \A c \in IssueCalls : answer[c].proof # NoId => AnswerStandsFor(answer[c])

\* Whoever was told 201 can fetch the QR image, and on Azure the Proof gets its
\* row in the table that indexes Proofs, whichever requests saved, adopted or
\* took it over; a request that died between the blob and the row may leave
\* none, see README.
AtRest == \A c \in IssueCalls : pc[c] \in {"idle", "done"}
CreatedIsServed ==
    \A c \in IssueCalls :
        answer[c].code = "201" =>
            /\ answer[c].proof \in qr
            /\ Backend = "azure" /\ failures = 0 /\ AtRest =>
                 answer[c].proof \in proofIndex

\* What must happen

\* A reserved Proof is issued, or the session has failed: requests that crash,
\* lose races or run out of attempts do not strand a reservation.
ReservedIsDecided ==
    session.proof # NoId ~> session.status \in {"proof_issued", "failed"}

-----------------------------------------------------------------------------
\* The inductive invariant behind the safety properties

\* Requests that have a Proof in hand, and those that have also saved it.
Building == {"save", "index", "finish", "recheck", "qr"}
Saved == Building \ {"save"}

\* The locals a step needs have been assigned before it.
LocalsAssigned ==
    \A c \in IssueCalls :
        /\ pc[c] \in {"find", "adopt"} => snap[c].proof # NoId
        /\ pc[c] \in {"reserve", "build"} => cand[c].id # NoId
        /\ pc[c] \in Building => built[c] # NoProof

\* A request at these steps holds a StoredRecord it will write from.
Holding == ReplaceSteps \cup {"find", "resolve", "build", "save", "index"}

\* A record whose etag is still current is what is stored.
Coherent(c) ==
    /\ ~armed[c]
    /\ etag[c] <= stamp
    /\ pc[c] \in Holding /\ EtagCurrent(c) => snap[c] = session

\* Requests before the reservation saw an open session without one; the others
\* work under one reservation r.
WorksUnder(r, id, key) == id = r.id /\ key = r.key /\ id # NoId
FollowsReservation(c, r) ==
    /\ pc[c] \in {"validating", "verified", "resolve", "reserve"} =>
         snap[c].proof = NoId /\ snap[c].status # "failed"
    /\ pc[c] \in {"find", "adopt", "build", "save", "index", "finish"} =>
         WorksUnder(r, snap[c].proof, snap[c].key)
    /\ pc[c] = "build" => WorksUnder(r, cand[c].id, cand[c].key)
    /\ pc[c] \in Building =>
         /\ WorksUnder(r, built[c].id, built[c].key)
         /\ built[c].manifest = manifest
    /\ pc[c] \in Saved => Stored(built[c].id)
    /\ pc[c] = "adopt" => Stored(snap[c].proof)

\* The session's reservation, or after a failure the one it had: all requests
\* and all Proofs are of it.
OneReservation(r) ==
    /\ Reserves(r.id, r.key) \/ Dropped
    /\ \A c \in IssueCalls : FollowsReservation(c, r)
    /\ \A p \in proofs : p.id = r.id /\ p.key = r.key /\ p.manifest = manifest

IInv ==
    /\ TypeOK
    /\ LocalsAssigned
    /\ \A c \in IssueCalls : Coherent(c)
    /\ \E r \in Reservation : OneReservation(r)
    /\ OneProof
    /\ ProofMatchesReservation
    /\ IssuedIsStored
    /\ AnswerIsFinal

-----------------------------------------------------------------------------
\* Refinement

\* What the promise looks like in the stored records.
Phase == CASE session.status = "proof_issued" -> "issued"
           [] session.status = "failed" -> "failed"
           [] OTHER -> "open"

Ledger == INSTANCE ProofLedger WITH
    claim <- [id |-> session.proof, key |-> session.key],
    published <- proofs,
    phase <- Phase

\* Every step of every interleaving of the requests is a step of the abstract
\* ledger or leaves it alone: claim once, publish once under the claim,
\* announce only what is published, and never reopen what has failed.
ImplementsLedger == Ledger!Spec
=============================================================================
