-------------------------- MODULE IssueProofProofs --------------------------
(***************************************************************************)
(* Theorems about IssueProof, for every number of requests, attempts and   *)
(* failures, every set of proof_ids, keys, salts and manifests; and about  *)
(* VerifyProof, whose verifications read record after record while those   *)
(* requests issue, adopt or take over the Proof.                           *)
(***************************************************************************)
EXTENDS VerifyProof, TLAPS

\* TypeOK in two halves: what the requests hold and what is stored.
LocalTypes ==
    /\ pc \in [IssueCalls -> Steps]
    /\ attempt \in [IssueCalls -> 0 .. MaxAttempts - 1]
    /\ cand \in [IssueCalls -> Reservation]
    /\ built \in [IssueCalls -> Proof \cup {NoProof}]
    /\ answer \in [IssueCalls -> [code : Codes, proof : ProofIds \cup {NoId}]]
    /\ activeKey \in Keys
    /\ failures \in 0 .. MaxFailures
    /\ snap \in [Calls -> Session]
    /\ etag \in [Calls -> Nat]
    /\ armed \in [Calls -> BOOLEAN]

StoreTypes ==
    /\ session \in Session
    /\ stamp \in Nat
    /\ manifest \in Manifests \cup {NoManifest}
    /\ proofs \subseteq Proof
    /\ proofIndex \subseteq ProofIds
    /\ qr \subseteq ProofIds

TypeInv == LocalTypes /\ StoreTypes /\ LocalsAssigned

LEMMA TypeInvIsTypeOK == TypeInv <=> TypeOK /\ LocalsAssigned
BY DEF TypeInv, LocalTypes, StoreTypes, TypeOK, StoreTypeOK

LEMMA EmptyLocals == BlankSession \in Session /\ NoReservation \in Reservation
BY DEF BlankSession, Session, NoReservation, Reservation, Statuses

-----------------------------------------------------------------------------
\* Type correctness

\* Every way a request ends leaves its locals well-typed and empty.
LEMMA EndKeepsTypes ==
    ASSUME TypeInv, NEW c \in IssueCalls, NEW code \in Codes,
           NEW id \in ProofIds \cup {NoId}, End(c, code, id)
    PROVE  LocalTypes' /\ LocalsAssigned'
<1> USE IssueConstants, EmptyLocals DEF TypeInv, LocalTypes, End
<1>1. pc' \in [IssueCalls -> Steps] /\ attempt' \in [IssueCalls -> 0 .. MaxAttempts - 1]
  BY DEF Goto, Steps
<1>2. cand' \in [IssueCalls -> Reservation] /\ built' \in [IssueCalls -> Proof \cup {NoProof}]
  OBVIOUS
<1>3. answer' \in [IssueCalls -> [code : Codes, proof : ProofIds \cup {NoId}]]
  OBVIOUS
<1>4. activeKey' \in Keys /\ failures' \in 0 .. MaxFailures
  OBVIOUS
<1>5. /\ snap' \in [Calls -> Session] /\ etag' \in [Calls -> Nat]
      /\ armed' \in [Calls -> BOOLEAN]
  BY DEF DropRecord
<1>6. LocalsAssigned'
  BY DEF LocalsAssigned, Goto, DropRecord, Building
<1> QED BY <1>1, <1>2, <1>3, <1>4, <1>5, <1>6

\* So does every lost attempt, whether another one is left or not.
LEMMA ContinueKeepsTypes ==
    ASSUME TypeInv, NEW c \in IssueCalls, Continue(c)
    PROVE  LocalTypes' /\ LocalsAssigned'
<1>1. CASE DidNotConverge(c)
  <2>1. "ERR_PROOF_CONFLICT" \in Codes  BY DEF Codes
  <2> QED BY <1>1, <2>1, EndKeepsTypes DEF DidNotConverge
<1>2. CASE NextAttempt(c)
  <2> USE IssueConstants, EmptyLocals, <1>2 DEF TypeInv, LocalTypes, NextAttempt
  <2>1. pc' \in [IssueCalls -> Steps]
    BY DEF Goto, Steps
  <2>2. attempt' \in [IssueCalls -> 0 .. MaxAttempts - 1]
    OBVIOUS
  <2>3. cand' \in [IssueCalls -> Reservation] /\ built' \in [IssueCalls -> Proof \cup {NoProof}]
    OBVIOUS
  <2>4. /\ snap' \in [Calls -> Session] /\ etag' \in [Calls -> Nat]
        /\ armed' \in [Calls -> BOOLEAN]
    BY DEF DropRecord
  <2>5. LocalsAssigned'
    BY DEF LocalsAssigned, Goto, DropRecord, Building
  <2> QED BY <2>1, <2>2, <2>3, <2>4, <2>5
<1> QED BY <1>1, <1>2 DEF Continue

\* A replace_session stores a Session.
LEMMA PutTypes ==
    ASSUME StoreTypes, NEW s \in Session, Put(s),
           UNCHANGED <<manifest, proofs, proofIndex, qr>>
    PROVE  StoreTypes'
BY DEF StoreTypes, Put

\* So does one that reports a conflict, if it stores anything.
LEMMA ConflictTypes ==
    ASSUME StoreTypes, NEW c, NEW s \in Session, ReplaceConflicts(c, s),
           UNCHANGED <<manifest, proofs, proofIndex, qr>>
    PROVE  StoreTypes'
<1>1. CASE UNCHANGED <<session, stamp>>
  BY <1>1 DEF StoreTypes
<1>2. CASE Put(s)
  BY <1>2, PutTypes
<1> QED BY <1>1, <1>2 DEF ReplaceConflicts

LEMMA TypeInvInit == Init => TypeInv
BY EmptyLocals, IssueConstants DEF Init, StoreInit, TypeInv, LocalTypes,
   StoreTypes, LocalsAssigned, Steps, Codes, NoAnswer, BlankSession, Session,
   Statuses, Building

LEMMA TypeInvStep == TypeInv /\ [Next]_vars => TypeInv'
<1> SUFFICES ASSUME TypeInv, [Next]_vars PROVE TypeInv'
  OBVIOUS
<1> USE IssueConstants
<1>0. NoId \notin ProofIds  BY StoreConstants
<1>1. ASSUME NEW c \in IssueCalls, Receive(c) PROVE TypeInv'
  BY <1>1 DEF Receive, Goto, TypeInv, LocalTypes, StoreTypes, LocalsAssigned,
     Steps, Codes, NoAnswer, storeVars, clientVars, Building
<1>2. ASSUME NEW c \in IssueCalls, Fail(c) PROVE TypeInv'
  BY <1>2, EmptyLocals DEF Fail, Goto, DropRecord, TypeInv, LocalTypes, StoreTypes, LocalsAssigned,
     Steps, Codes, storeVars, Building
<1>3. ASSUME NEW c \in IssueCalls, Load(c) PROVE TypeInv'
  <2>1. StoreTypes'
    BY <1>3 DEF Load, storeVars, TypeInv, StoreTypes
  <2>2. CASE AfterLoad(c) /\ LoadSession(c) /\ KeepLocals
    BY <1>3, <2>1, <2>2 DEF AfterLoad, LoadSession, KeepLocals, Goto, TypeInv,
       LocalTypes, StoreTypes, LocalsAssigned, Steps, Building
  <2>3. CASE Continue(c)
    BY <2>1, <2>3, ContinueKeepsTypes DEF TypeInv
  <2>4. CASE End(c, "ERR_EVIDENCE_NOT_ACCEPTED", NoId)
    BY <2>1, <2>4, EndKeepsTypes DEF TypeInv, Codes
  <2> QED BY <1>3, <2>2, <2>3, <2>4 DEF Load
<1>4. ASSUME NEW c \in IssueCalls, Find(c) PROVE TypeInv'
  <2> DEFINE id == snap[c].proof
  <2>1. StoreTypes'
    BY <1>4 DEF Find, storeVars, TypeInv, StoreTypes
  <2>2. pc[c] = "find" /\ id \in ProofIds /\ snap[c].key \in Keys \cup {NoKey}
    BY <1>4 DEF Find, TypeInv, LocalTypes, LocalsAssigned, Session
  <2>3. CASE Goto(c, "adopt") /\ UNCHANGED clientVars /\ KeepLocals
    BY <2>1, <2>2, <2>3 DEF Goto, clientVars, KeepLocals, TypeInv, LocalTypes,
       LocalsAssigned, Steps, Building
  <2>4. ASSUME NEW code \in Codes, NEW i \in ProofIds \cup {NoId}, End(c, code, i)
        PROVE  TypeInv'
    BY <2>1, <2>4, EndKeepsTypes DEF TypeInv
  <2>5. CASE NextAttempt(c)
    BY <2>1, <2>5, ContinueKeepsTypes DEF TypeInv, Continue
  <2>6. CASE /\ Goto(c, "build")
             /\ cand' = [cand EXCEPT ![c] = [id |-> id, key |-> snap[c].key]]
             /\ UNCHANGED <<clientVars, attempt, built, answer, activeKey, failures>>
    BY <1>0, <2>1, <2>2, <2>6 DEF Goto, clientVars, TypeInv, LocalTypes,
       LocalsAssigned, Steps, Building, Reservation
  <2> QED BY <1>4, <2>2, <2>3, <2>4, <2>5, <2>6 DEF Find, Codes, TakenOver
<1>5. ASSUME NEW c \in IssueCalls, Adopt(c) PROVE TypeInv'
  <2>1. IssuedOf(c) \in Session /\ snap[c].proof \in ProofIds \cup {NoId}
    BY DEF IssuedOf, TypeInv, LocalTypes, Session, Statuses
  <2>2. CASE ReplaceSession(c, IssuedOf(c)) /\ End(c, "200", snap[c].proof)
    BY <1>5, <2>1, <2>2, PutTypes, EndKeepsTypes DEF Adopt, ReplaceSession, TypeInv, Codes
  <2>3. CASE Continue(c) /\ ReplaceConflicts(c, IssuedOf(c))
    BY <1>5, <2>1, <2>3, ContinueKeepsTypes, ConflictTypes DEF Adopt, TypeInv
  <2> QED BY <1>5, <2>2, <2>3 DEF Adopt
<1>6. ASSUME NEW c \in IssueCalls, MarkValidating(c) PROVE TypeInv'
  <2>1. ValidatingOf(c) \in Session
    <3>1. snap[c] \in Session  BY DEF TypeInv, LocalTypes
    <3> QED BY <3>1 DEF ValidatingOf, Session, Statuses
  <2>2. CASE /\ ReplaceSession(c, ValidatingOf(c)) /\ HoldReplaced(c, ValidatingOf(c))
             /\ Goto(c, "verified") /\ KeepLocals
    <3>1. StoreTypes'
      BY <1>6, <2>1, <2>2, PutTypes DEF MarkValidating, ReplaceSession, TypeInv
    <3>2. LocalTypes'
      BY <2>1, <2>2, <3>1 DEF HoldReplaced, Goto, KeepLocals, TypeInv, LocalTypes,
         StoreTypes, Steps
    <3>3. LocalsAssigned'
      BY <1>6, <2>2 DEF MarkValidating, HoldReplaced, Goto, KeepLocals, TypeInv, LocalTypes,
         LocalsAssigned, Building
    <3> QED BY <3>1, <3>2, <3>3 DEF TypeInv
  <2>3. CASE Continue(c) /\ ReplaceConflicts(c, ValidatingOf(c))
    BY <1>6, <2>1, <2>3, ContinueKeepsTypes, ConflictTypes DEF MarkValidating, TypeInv
  <2> QED BY <1>6, <2>2, <2>3 DEF MarkValidating
<1>7. ASSUME NEW c \in IssueCalls, MarkVerified(c) PROVE TypeInv'
  <2>1. VerifiedOf(c) \in Session
    <3>1. snap[c] \in Session  BY DEF TypeInv, LocalTypes
    <3> QED BY <3>1 DEF VerifiedOf, Session, Statuses
  <2>2. CASE /\ ReplaceSession(c, VerifiedOf(c)) /\ HoldReplaced(c, VerifiedOf(c))
             /\ Goto(c, "resolve") /\ KeepLocals
    <3>1. StoreTypes'
      BY <1>7, <2>1, <2>2, PutTypes DEF MarkVerified, ReplaceSession, TypeInv
    <3>2. LocalTypes'
      BY <2>1, <2>2, <3>1 DEF HoldReplaced, Goto, KeepLocals, TypeInv, LocalTypes,
         StoreTypes, Steps
    <3>3. LocalsAssigned'
      BY <1>7, <2>2 DEF MarkVerified, HoldReplaced, Goto, KeepLocals, TypeInv, LocalTypes,
         LocalsAssigned, Building
    <3> QED BY <3>1, <3>2, <3>3 DEF TypeInv
  <2>3. CASE Continue(c) /\ ReplaceConflicts(c, VerifiedOf(c))
    BY <1>7, <2>1, <2>3, ContinueKeepsTypes, ConflictTypes DEF MarkVerified, TypeInv
  <2> QED BY <1>7, <2>2, <2>3 DEF MarkVerified
<1>8. ASSUME NEW c \in IssueCalls, Resolve(c) PROVE TypeInv'
  BY <1>8, <1>0 DEF Resolve, Goto, TypeInv, LocalTypes, StoreTypes, LocalsAssigned,
     Steps, Reservation, storeVars, clientVars, Building
<1>9. ASSUME NEW c \in IssueCalls, Reserve(c) PROVE TypeInv'
  <2>1. ReservedOf(c) \in Session
    <3>1. snap[c] \in Session /\ cand[c] \in Reservation
      BY DEF TypeInv, LocalTypes
    <3> QED BY <3>1 DEF ReservedOf, Session, Reservation
  <2>2. CASE /\ ReplaceSession(c, ReservedOf(c)) /\ HoldReplaced(c, ReservedOf(c))
             /\ Goto(c, "build") /\ KeepLocals
    <3>1. StoreTypes'
      BY <1>9, <2>1, <2>2, PutTypes DEF Reserve, ReplaceSession, TypeInv
    <3>2. LocalTypes'
      BY <2>1, <2>2, <3>1 DEF HoldReplaced, Goto, KeepLocals, TypeInv, LocalTypes,
         StoreTypes, Steps
    <3>3. LocalsAssigned'
      BY <1>9, <2>2 DEF Reserve, HoldReplaced, Goto, KeepLocals, TypeInv, LocalTypes,
         LocalsAssigned, Building
    <3> QED BY <3>1, <3>2, <3>3 DEF TypeInv
  <2>3. CASE Continue(c) /\ ReplaceConflicts(c, ReservedOf(c))
    BY <1>9, <2>1, <2>3, ContinueKeepsTypes, ConflictTypes DEF Reserve, TypeInv
  <2> QED BY <1>9, <2>2, <2>3 DEF Reserve
<1>10. ASSUME NEW c \in IssueCalls, Build(c) PROVE TypeInv'
  <2>1. StoreTypes'
    BY <1>10 DEF Build, storeVars, TypeInv, StoreTypes
  <2>2. ASSUME NEW code \in Codes, End(c, code, NoId) PROVE TypeInv'
    BY <2>1, <2>2, EndKeepsTypes DEF TypeInv
  <2>3. CASE manifest # NoManifest /\ pc' = [pc EXCEPT ![c] = "save"]
    <3>1. PICK s \in Signatures :
            built' = [built EXCEPT ![c] = [id |-> cand[c].id, key |-> cand[c].key,
                                           manifest |-> manifest, salt |-> s]]
      BY <1>10, <2>3 DEF Build, End, Goto, TypeInv, LocalTypes
    <3>2. s \in Salts
      BY DEF Signatures
    <3>3. built'[c] \in Proof
      BY <1>10, <2>3, <3>1, <3>2 DEF Build, TypeInv, LocalTypes, StoreTypes,
         LocalsAssigned, Reservation, Proof
    <3> QED
      BY <1>10, <2>1, <2>3, <3>1, <3>3, NoProofIsNoRecord DEF Build, TypeInv, LocalTypes,
         LocalsAssigned, Steps, Building, clientVars, End, Goto
  <2> QED BY <1>10, <2>2, <2>3 DEF Build, Goto, Codes
<1>11. ASSUME NEW c \in IssueCalls, Save(c) PROVE TypeInv'
  <2> DEFINE p == built[c]
  <2>1. p \in Proof
    BY <1>11 DEF Save, TypeInv, LocalTypes, LocalsAssigned, Building
  <2>2. CASE /\ WriteProof(p) /\ UNCHANGED clientVars /\ KeepLocals
             /\ Goto(c, IF Backend = "azure" THEN "index" ELSE "finish")
    BY <1>11, <2>1, <2>2 DEF Save, WriteProof, Goto, clientVars, KeepLocals,
       TypeInv, LocalTypes, StoreTypes, LocalsAssigned, Steps, Building
  <2>3. CASE /\ ProofConflicts(p) /\ Goto(c, "finish")
             /\ built' = [built EXCEPT ![c] = StoredProof(p.id)]
             /\ UNCHANGED <<proofs, clientVars, attempt, cand, answer, activeKey, failures>>
    <3>1. StoredProof(p.id) \in Proof
      BY <2>3 DEF ProofConflicts, Stored, StoredProof, TypeInv, StoreTypes
    <3> QED
      BY <1>11, <2>3, <3>1, NoProofIsNoRecord DEF Save, Goto, clientVars, TypeInv,
         LocalTypes, StoreTypes, LocalsAssigned, Steps, Building
  <2>4. CASE End(c, "ERR_PROOF_CONFLICT", NoId) /\ UNCHANGED proofs
    BY <1>11, <2>4, EndKeepsTypes DEF Save, TypeInv, StoreTypes, Codes
  <2> QED BY <1>11, <2>2, <2>3, <2>4 DEF Save
<1>12. ASSUME NEW c \in IssueCalls, SaveIndex(c) PROVE TypeInv'
  <2>1. built[c] \in Proof
    BY <1>12 DEF SaveIndex, TypeInv, LocalTypes, LocalsAssigned, Building
  <2> QED
    BY <1>12, <2>1 DEF SaveIndex, Goto, clientVars, KeepLocals, TypeInv, LocalTypes, StoreTypes, LocalsAssigned,
       Steps, Building, Proof
<1>13. ASSUME NEW c \in IssueCalls, Finish(c) PROVE TypeInv'
  <2>1. IssuedOf(c) \in Session
    BY DEF IssuedOf, TypeInv, LocalTypes, Session, Statuses
  <2>2. StoreTypes'
    BY <1>13, <2>1, PutTypes, ConflictTypes DEF Finish, ReplaceSession, TypeInv
  <2> QED
    BY <1>13, <2>2, EmptyLocals DEF Finish, Goto, DropRecord, KeepLocals, TypeInv,
       LocalTypes, LocalsAssigned, Steps, Building
<1>14. ASSUME NEW c \in IssueCalls, Recheck(c) PROVE TypeInv'
  <2>1. StoreTypes'
    BY <1>14 DEF Recheck, storeVars, TypeInv, StoreTypes
  <2>2. CASE Goto(c, "qr") /\ UNCHANGED clientVars /\ KeepLocals
    BY <1>14, <2>1, <2>2 DEF Recheck, Goto, clientVars, KeepLocals, TypeInv,
       LocalTypes, LocalsAssigned, Steps, Building
  <2>3. CASE End(c, "ERR_PROOF_CONFLICT", NoId)
    BY <2>1, <2>3, EndKeepsTypes DEF TypeInv, Codes
  <2> QED BY <1>14, <2>2, <2>3 DEF Recheck
<1>15. ASSUME NEW c \in IssueCalls, SaveQr(c) PROVE TypeInv'
  <2>1. built[c].id \in ProofIds
    BY <1>15 DEF SaveQr, TypeInv, LocalTypes, LocalsAssigned, Building, Proof
  <2>2. StoreTypes'
    BY <1>15, <2>1 DEF SaveQr, TypeInv, StoreTypes
  <2> QED BY <1>15, <2>1, <2>2, EndKeepsTypes DEF SaveQr, TypeInv, Codes
<1>16. ASSUME NEW c \in IssueCalls, Compare(c) PROVE TypeInv'
  BY <1>16 DEF Compare, CompareEtag, storeVars, issueVars, TypeInv, LocalTypes, StoreTypes, LocalsAssigned
<1>17. CASE DeviceReportsFailure
  <2>1. [session EXCEPT !.status = "failed"] \in Session
    BY DEF TypeInv, StoreTypes, Session, Statuses
  <2>2. StoreTypes'
    BY <1>17, <2>1, PutTypes DEF DeviceReportsFailure, TypeInv
  <2> QED
    BY <1>17, <2>2 DEF DeviceReportsFailure, clientVars, issueVars, TypeInv,
       LocalTypes, LocalsAssigned
<1>18. CASE MarkFailed
  <2>1. FailedCopy \in Session
    BY DEF FailedCopy, BlankSession, Session, Statuses
  <2>2. StoreTypes'
    BY <1>18, <2>1, PutTypes DEF MarkFailed, TypeInv
  <2> QED
    BY <1>18, <2>2 DEF MarkFailed, clientVars, issueVars, TypeInv,
       LocalTypes, LocalsAssigned
<1>19. CASE RotateKey
  BY <1>19 DEF RotateKey, TypeInv, LocalTypes, StoreTypes, LocalsAssigned,
     storeVars, clientVars
<1>20. CASE UNCHANGED vars
  BY <1>20 DEF vars, storeVars, clientVars, issueVars, TypeInv, LocalTypes,
     StoreTypes, LocalsAssigned
<1> QED
  BY <1>1, <1>2, <1>3, <1>4, <1>5, <1>6, <1>7, <1>8, <1>9, <1>10, <1>11,
     <1>12, <1>13, <1>14, <1>15, <1>16, <1>17, <1>18, <1>19, <1>20 DEF Next, Step

\* Whatever the backend, and even without an atomic replace, the stored
\* records and the requests' locals keep their types.
THEOREM TypeCorrect == Spec => []TypeOK
<1> QED BY TypeInvInit, TypeInvStep, TypeInvIsTypeOK, PTL DEF Spec

-----------------------------------------------------------------------------
\* The safety invariant, where comparing and writing a session is one step

\* A step of request c leaves the others' locals alone.
OthersUntouched(c) ==
    \A d \in IssueCalls \ {c} :
        /\ pc'[d] = pc[d] /\ snap'[d] = snap[d] /\ etag'[d] = etag[d]
        /\ armed'[d] = armed[d] /\ cand'[d] = cand[d] /\ built'[d] = built[d]
        /\ answer'[d] = answer[d]

\* What any step may do to the stored records.
SessionChange ==
    /\ UNCHANGED <<session, stamp>> \/ \E s \in Session : Put(s)
    /\ Dropped => Dropped'
    /\ session.proof # NoId =>
         (session'.proof = session.proof /\ session'.key = session.key) \/ Dropped'
    /\ manifest' = manifest
    /\ \A id : Stored(id) => Stored(id)'

\* The stored half of what all requests having one reservation means, ...
StoredInv(r) ==
    /\ Reserves(r.id, r.key) \/ Dropped
    /\ \A p \in proofs : p.id = r.id /\ p.key = r.key /\ p.manifest = manifest
    /\ OneProof /\ ProofMatchesReservation /\ IssuedIsStored

\* ... and with it the requests' half.
Safe(r) ==
    /\ \A c \in IssueCalls : Coherent(c) /\ FollowsReservation(c, r)
    /\ StoredInv(r)
    /\ AnswerIsFinal

SafeInv == \E r \in Reservation : Safe(r)

LEMMA IInvSplits == IInv <=> TypeInv /\ SafeInv
BY TypeInvIsTypeOK DEF IInv, SafeInv, Safe, StoredInv, OneReservation

\* A request that is not the one stepping keeps its part of the invariant.
LEMMA Bystander ==
    ASSUME IInv, NEW r \in Reservation, Safe(r), NEW q \in Reservation,
           q = r \/ r.id = NoId, NEW d \in IssueCalls, SessionChange,
           pc'[d] = pc[d], snap'[d] = snap[d], etag'[d] = etag[d],
           armed'[d] = armed[d], cand'[d] = cand[d], built'[d] = built[d]
    PROVE  Coherent(d)' /\ FollowsReservation(d, q)'
<1>1. d \in Calls /\ etag[d] \in Nat /\ stamp \in Nat
  BY IssueConstants DEF IInv, TypeOK, StoreTypeOK
<1>2. Coherent(d)'
  <2>1. CASE UNCHANGED <<session, stamp>>
    BY <2>1 DEF IInv, Coherent, EtagCurrent
  <2>2. CASE \E s \in Session : Put(s)
    BY <1>1, <2>2 DEF IInv, Coherent, EtagCurrent, Put
  <2> QED BY <2>1, <2>2 DEF SessionChange
<1>3. FollowsReservation(d, r) /\ manifest' = manifest /\ \A id : Stored(id) => Stored(id)'
  BY DEF Safe, SessionChange
<1>4. FollowsReservation(d, q)'
  BY <1>3 DEF FollowsReservation, WorksUnder
<1> QED BY <1>2, <1>4

\* To preserve the invariant a step of c answers for c and for the store; it
\* may make the first reservation.
LEMMA Assemble ==
    ASSUME IInv, NEW r \in Reservation, Safe(r), NEW q \in Reservation,
           q = r \/ r.id = NoId,
           NEW c \in IssueCalls, SessionChange, OthersUntouched(c),
           Coherent(c)', FollowsReservation(c, q)', StoredInv(q)',
           answer'[c].proof # NoId => AnswerStandsFor(answer[c])'
    PROVE  SafeInv'
<1>1. ASSUME NEW d \in IssueCalls
      PROVE  Coherent(d)' /\ FollowsReservation(d, q)'
  BY <1>1, Bystander DEF OthersUntouched
<1>2. AnswerIsFinal'
  <2> SUFFICES ASSUME NEW d \in IssueCalls, answer'[d].proof # NoId
               PROVE  AnswerStandsFor(answer[d])'
    BY DEF AnswerIsFinal
  <2>1. CASE d = c  BY <2>1
  <2>2. CASE d # c
    <3>1. answer'[d] = answer[d]  BY <2>2 DEF OthersUntouched
    <3>2. AnswerStandsFor(answer[d])  BY <3>1 DEF Safe, AnswerIsFinal
    <3>3. Stored(answer[d].proof)'
      BY <3>1, <3>2 DEF AnswerStandsFor, SessionChange, Stored
    <3> QED BY <3>1, <3>2, <3>3 DEF AnswerStandsFor, SessionChange
  <2> QED BY <2>1, <2>2
<1>3. Safe(q)'
  BY <1>1, <1>2 DEF Safe
<1> QED BY <1>3 DEF SafeInv

\* Nothing stored changes: the stored part of the invariant stays.
LEMMA StoreUntouched ==
    ASSUME IInv, NEW r \in Reservation, Safe(r), UNCHANGED <<session, stamp, manifest, proofs>>
    PROVE  SessionChange /\ StoredInv(r)'
BY DEF Safe, SessionChange, StoredInv, OneProof, ProofMatchesReservation,
   IssuedIsStored, Stored, Dropped, Reserves

\* Ends and lost attempts of c touch only its own locals and leave it at a
\* step the invariant asks nothing of.
Quiet(c) ==
    /\ OthersUntouched(c)
    /\ pc'[c] \in {"load", "done"}
    /\ ~armed'[c] /\ etag'[c] = 0

LEMMA EndIsQuiet ==
    ASSUME IInv, NEW c \in IssueCalls, NEW code, NEW id, End(c, code, id)
    PROVE  Quiet(c) /\ answer'[c].proof = id
BY IssueConstants DEF IInv, TypeOK, StoreTypeOK, End, DropRecord, Goto, Quiet,
   OthersUntouched

LEMMA ContinueIsQuiet ==
    ASSUME IInv, NEW c \in IssueCalls, Continue(c)
    PROVE  Quiet(c) /\ (answer'[c] = answer[c] \/ answer'[c].proof = NoId)
<1>1. CASE DidNotConverge(c)
  BY <1>1, EndIsQuiet DEF DidNotConverge
<1>2. CASE NextAttempt(c)
  BY <1>2, IssueConstants DEF IInv, TypeOK, StoreTypeOK, NextAttempt, DropRecord,
     Goto, Quiet, OthersUntouched
<1> QED BY <1>1, <1>2 DEF Continue

LEMMA QuietStep ==
    ASSUME IInv, NEW r \in Reservation, Safe(r), NEW q \in Reservation,
           q = r \/ r.id = NoId,
           NEW c \in IssueCalls, Quiet(c), SessionChange, StoredInv(q)', stamp' \in Nat,
           answer'[c].proof # NoId => AnswerStandsFor(answer[c])'
    PROVE  SafeInv'
<1>1. Coherent(c)'
  BY DEF Quiet, Coherent, Holding, ReplaceSteps
<1>2. FollowsReservation(c, q)'
  BY DEF Quiet, FollowsReservation, Building, Saved
<1> QED BY <1>1, <1>2, Assemble DEF Quiet

\* The stored part of the invariant under a write that keeps the reservation.
LEMMA PutKeepsStoredInv ==
    ASSUME IInv, NEW r \in Reservation, Safe(r), NEW s \in Session, Put(s),
           s.proof = session.proof, s.key = session.key,
           s.status = "proof_issued" => Stored(s.proof),
           Dropped => s.status = "failed",
           UNCHANGED <<manifest, proofs>>
    PROVE  SessionChange /\ StoredInv(r)'
<1>1. session' = s /\ (Dropped => Dropped')
  BY DEF Put, Dropped
<1>2. SessionChange
  BY <1>1 DEF SessionChange, Stored
<1>3. StoredInv(r)'
  BY <1>1 DEF Safe, StoredInv, OneProof, ProofMatchesReservation, IssuedIsStored,
     Stored, Reserves
<1> QED BY <1>2, <1>3

\* A replace that succeeds was made on what is stored, and makes the caller's
\* new record what is stored.
LEMMA ReplaceIsCurrent ==
    ASSUME AtomicReplace, IInv, NEW c \in IssueCalls, pc[c] \in ReplaceSteps,
           NEW s, ReplaceSession(c, s)
    PROVE  snap[c] = session /\ Put(s)
BY DEF IInv, Coherent, Holding, ReplaceSession

\* One that reports a conflict wrote nothing, or did the same.
LEMMA ConflictIsCurrent ==
    ASSUME IInv, NEW c \in IssueCalls, pc[c] \in ReplaceSteps,
           NEW s, ReplaceConflicts(c, s)
    PROVE  UNCHANGED <<session, stamp>> \/ (snap[c] = session /\ Put(s))
BY DEF IInv, Coherent, Holding, ReplaceConflicts, Unacknowledged

LEMMA ConflictKeepsStoredInv ==
    ASSUME IInv, NEW r \in Reservation, Safe(r), NEW c \in IssueCalls, pc[c] \in ReplaceSteps,
           NEW s \in Session, ReplaceConflicts(c, s),
           snap[c] = session =>
               /\ s.proof = session.proof /\ s.key = session.key
               /\ s.status = "proof_issued" => Stored(s.proof)
               /\ Dropped => s.status = "failed",
           UNCHANGED <<manifest, proofs>>
    PROVE  SessionChange /\ StoredInv(r)' /\ session'.proof = session.proof
             /\ session'.key = session.key
<1>1. CASE UNCHANGED <<session, stamp>>
  BY <1>1, StoreUntouched
<1>2. CASE snap[c] = session /\ Put(s)
  BY <1>2, PutKeepsStoredInv DEF Put
<1> QED BY <1>1, <1>2, ConflictIsCurrent

\* A reservation is written while no Proof is stored.
LEMMA ReserveKeepsStoredInv ==
    ASSUME IInv, NEW r \in Reservation, Safe(r), NEW c \in IssueCalls,
           NEW q \in Reservation, q = cand[c],
           pc[c] = "reserve", snap[c] = session,
           Put(ReservedOf(c)), UNCHANGED <<manifest, proofs>>
    PROVE  /\ SessionChange /\ StoredInv(q)' /\ proofs = {}
           /\ ReservedOf(c) \in Session
           /\ ReservedOf(c).proof = q.id /\ ReservedOf(c).key = q.key
           /\ r.id = NoId /\ q.id # NoId
<1>1. /\ session.proof = NoId /\ session.status # "failed" /\ q.id # NoId
      /\ session \in Session
  BY IssueConstants DEF IInv, Safe, TypeOK, StoreTypeOK, FollowsReservation, LocalsAssigned
<1>2. /\ ReservedOf(c).proof = q.id /\ ReservedOf(c).key = q.key
      /\ ReservedOf(c).status = session.status /\ ReservedOf(c) \in Session
  BY <1>1 DEF ReservedOf, Session, Reservation
<1>3. r.id = NoId /\ ~Dropped
  BY <1>1 DEF Safe, StoredInv, Dropped, Reserves
<1>4. proofs = {}
  BY <1>3, StoreConstants DEF IInv, TypeOK, StoreTypeOK, Proof, Safe, StoredInv
<1>5. session.status # "proof_issued"
  BY <1>4 DEF IInv, IssuedIsStored, Stored
<1>6. SessionChange
  BY <1>1, <1>2, <1>3 DEF SessionChange, Stored
<1>7. StoredInv(q)'
  BY <1>1, <1>2, <1>4, <1>5 DEF Put, StoredInv, OneProof, ProofMatchesReservation,
     IssuedIsStored, Reserves
<1> QED BY <1>2, <1>3, <1>4, <1>6, <1>7, <1>1

\* A lost attempt keeps the invariant when what it stored does.
LEMMA LostAttempt ==
    ASSUME IInv, NEW r \in Reservation, Safe(r), NEW q \in Reservation,
           q = r \/ r.id = NoId,
           NEW c \in IssueCalls, Continue(c), SessionChange, StoredInv(q)', stamp' \in Nat
    PROVE  SafeInv'
<1>1. ASSUME answer'[c].proof # NoId PROVE AnswerStandsFor(answer[c])'
  <2>1. answer'[c] = answer[c] /\ AnswerStandsFor(answer[c])
    BY <1>1, ContinueIsQuiet DEF Safe, AnswerIsFinal
  <2>2. Stored(answer[c].proof)'
    BY <2>1 DEF AnswerStandsFor, SessionChange, Stored
  <2> QED BY <1>1, <2>1, <2>2 DEF AnswerStandsFor, SessionChange
<1> QED BY <1>1, ContinueIsQuiet, QuietStep

LEMMA HoldIsCoherent ==
    ASSUME IInv, NEW c \in IssueCalls, NEW s \in Session, Put(s), HoldReplaced(c, s)
    PROVE  Coherent(c)' /\ snap'[c] = s
<1>1. stamp' \in Nat /\ c \in Calls
  BY IssueConstants DEF IInv, TypeOK, StoreTypeOK, Put
<1> QED BY <1>1 DEF IInv, TypeOK, StoreTypeOK, Put, HoldReplaced, Coherent, EtagCurrent

\* An answer that has been given stands through every change of the store.
LEMMA AnswerStays ==
    ASSUME IInv, NEW c \in IssueCalls, SessionChange, answer'[c] = answer[c]
    PROVE  answer'[c].proof # NoId => AnswerStandsFor(answer[c])'
<1> SUFFICES ASSUME answer'[c].proof # NoId PROVE AnswerStandsFor(answer[c])'
  OBVIOUS
<1>1. AnswerStandsFor(answer[c])
  BY DEF IInv, AnswerIsFinal
<1>2. Stored(answer[c].proof)'
  BY <1>1 DEF AnswerStandsFor, SessionChange, Stored
<1> QED BY <1>1, <1>2 DEF AnswerStandsFor, SessionChange

\* An answer that names a stored Proof of the reservation stands for it.
LEMMA WorkerAnswers ==
    ASSUME NEW r, StoredInv(r)', NEW c, r.id # NoId, answer'[c].proof = r.id,
           Stored(answer[c].proof)'
    PROVE  AnswerStandsFor(answer[c])'
BY DEF StoredInv, AnswerStandsFor, Reserves

LEMMA SafeInvStep == ASSUME AtomicReplace, IInv, [Next]_vars PROVE SafeInv'
<1> SUFFICES ASSUME NEW r \in Reservation, Safe(r) PROVE SafeInv'
  BY IInvSplits DEF SafeInv
<1> USE IssueConstants
<1>1. stamp' \in Nat /\ session' \in Session /\ TypeInv /\ TypeInv'
  BY TypeInvStep, IInvSplits DEF TypeInv, StoreTypes
<1>2. \A c \in IssueCalls : c \in Calls
  OBVIOUS
<1>3. ASSUME NEW c \in IssueCalls, Receive(c) PROVE SafeInv'
  <2>1. SessionChange /\ StoredInv(r)'
    BY <1>3, StoreUntouched DEF Receive, storeVars
  <2>2. /\ OthersUntouched(c) /\ answer'[c].proof = NoId
        /\ Coherent(c)' /\ FollowsReservation(c, r)'
    BY <1>3 DEF Receive, Goto, clientVars, storeVars, OthersUntouched, NoAnswer, IInv, Safe,
       TypeOK, Coherent, FollowsReservation, Holding, ReplaceSteps, Building, Saved
  <2> QED BY <2>1, <2>2, Assemble
<1>4. ASSUME NEW c \in IssueCalls, Fail(c) PROVE SafeInv'
  <2>1. SessionChange /\ StoredInv(r)'
    BY <1>4, StoreUntouched DEF Fail, storeVars
  <2>2. Quiet(c) /\ answer'[c].proof = NoId
    BY <1>2, <1>4 DEF Fail, Goto, DropRecord, Quiet, OthersUntouched, IInv, TypeOK,
       StoreTypeOK
  <2> QED BY <1>1, <2>1, <2>2, QuietStep
<1>5. ASSUME NEW c \in IssueCalls, Load(c) PROVE SafeInv'
  <2>1. SessionChange /\ StoredInv(r)'
    BY <1>5, StoreUntouched DEF Load, storeVars
  <2>2. CASE AfterLoad(c) /\ LoadSession(c) /\ KeepLocals
    <3>1. OthersUntouched(c) /\ answer'[c] = answer[c]
      BY <2>2 DEF AfterLoad, LoadSession, KeepLocals, Goto, OthersUntouched, IInv, TypeOK,
         StoreTypeOK
    <3>2. Coherent(c)'
      BY <1>1, <1>2, <1>5, <2>2 DEF Load, storeVars, LoadSession, IInv, TypeOK, StoreTypeOK,
         Coherent, EtagCurrent
    <3>3. FollowsReservation(c, r)'
      <4>1. snap'[c] = session /\ pc'[c] \in {"find", "validating", "resolve"}
        BY <1>2, <2>2 DEF AfterLoad, LoadSession, Goto, IInv, TypeOK, StoreTypeOK
      <4>2. session.proof # NoId => WorksUnder(r, session.proof, session.key)
        BY DEF Safe, StoredInv, Dropped, Reserves, WorksUnder
      <4>3. IF pc'[c] = "find" THEN session.proof # NoId
            ELSE session.proof = NoId /\ session.status # "failed"
        BY <1>2, <2>2 DEF AfterLoad, Goto, IInv, TypeOK
      <4> QED BY <4>1, <4>2, <4>3 DEF FollowsReservation, Building, Saved
    <3>4. answer'[c].proof # NoId => AnswerStandsFor(answer[c])'
      BY <2>1, <3>1, AnswerStays
    <3> QED BY <2>1, <3>1, <3>2, <3>3, <3>4, Assemble
  <2>3. CASE Continue(c)
    <3>1. answer'[c].proof # NoId => AnswerStandsFor(answer[c])'
      BY <2>1, <2>3, ContinueIsQuiet, AnswerStays
    <3> QED BY <1>1, <2>1, <2>3, <3>1, ContinueIsQuiet, QuietStep
  <2>4. CASE End(c, "ERR_EVIDENCE_NOT_ACCEPTED", NoId)
    BY <1>1, <2>1, <2>4, EndIsQuiet, QuietStep
  <2> QED BY <1>5, <2>2, <2>3, <2>4 DEF Load
<1>6. ASSUME NEW c \in IssueCalls, Find(c) PROVE SafeInv'
  <2>1. SessionChange /\ StoredInv(r)'
    BY <1>6, StoreUntouched DEF Find, storeVars
  <2>2. WorksUnder(r, snap[c].proof, snap[c].key)
    BY <1>6 DEF Find, IInv, Safe, FollowsReservation
  <2>3. CASE /\ Stored(snap[c].proof) /\ Goto(c, "adopt")
             /\ UNCHANGED clientVars /\ KeepLocals
    <3>1. OthersUntouched(c) /\ answer'[c] = answer[c]
      BY <2>3 DEF clientVars, KeepLocals, Goto, OthersUntouched, IInv, TypeOK
    <3>2. Coherent(c)'
      BY <1>6, <2>3 DEF Find, storeVars, clientVars, Goto, IInv, TypeOK, Coherent,
         EtagCurrent, Holding, ReplaceSteps
    <3>3. FollowsReservation(c, r)'
      BY <1>6, <2>2, <2>3 DEF Find, storeVars, clientVars, Goto, IInv, Safe, TypeOK,
         FollowsReservation, WorksUnder, Stored, Building, Saved
    <3>4. answer'[c].proof # NoId => AnswerStandsFor(answer[c])'
      BY <2>1, <3>1, AnswerStays
    <3> QED BY <2>1, <3>1, <3>2, <3>3, <3>4, Assemble
  <2>4. CASE Stored(snap[c].proof) /\ End(c, "200", snap[c].proof)
    <3>1. answer'[c].proof # NoId => AnswerStandsFor(answer[c])'
      <4>1. r.id # NoId /\ answer'[c].proof = r.id /\ Stored(answer[c].proof)'
        BY <1>6, <2>4, <2>2, EndIsQuiet DEF Find, storeVars, Stored, WorksUnder
      <4> QED BY <2>1, <4>1, WorkerAnswers
    <3> QED BY <1>1, <2>1, <2>4, <3>1, EndIsQuiet, QuietStep
  <2>5. CASE End(c, "ERR_PROOF_CONFLICT", NoId)
    BY <1>1, <2>1, <2>5, EndIsQuiet, QuietStep
  <2>6. CASE NextAttempt(c)
    <3>1. answer'[c].proof # NoId => AnswerStandsFor(answer[c])'
      BY <2>1, <2>6, ContinueIsQuiet, AnswerStays DEF Continue
    <3> QED BY <1>1, <2>1, <2>6, <3>1, ContinueIsQuiet, QuietStep DEF Continue
  <2>7. CASE /\ Goto(c, "build")
             /\ cand' = [cand EXCEPT ![c] = [id |-> snap[c].proof, key |-> snap[c].key]]
             /\ UNCHANGED <<clientVars, attempt, built, answer, activeKey, failures>>
    <3>1. OthersUntouched(c) /\ answer'[c] = answer[c]
      BY <2>7 DEF clientVars, Goto, OthersUntouched, IInv, TypeOK
    <3>2. Coherent(c)'
      BY <1>6, <2>7 DEF Find, storeVars, clientVars, Goto, IInv, TypeOK, Coherent,
         EtagCurrent, Holding, ReplaceSteps
    <3>3. FollowsReservation(c, r)'
      BY <1>6, <2>2, <2>7 DEF Find, storeVars, clientVars, Goto, IInv, Safe, TypeOK,
         FollowsReservation, WorksUnder, Building, Saved
    <3>4. answer'[c].proof # NoId => AnswerStandsFor(answer[c])'
      BY <2>1, <3>1, AnswerStays
    <3> QED BY <2>1, <3>1, <3>2, <3>3, <3>4, Assemble
  <2> QED BY <1>6, <2>3, <2>4, <2>5, <2>6, <2>7 DEF Find, TakenOver
<1>7. ASSUME NEW c \in IssueCalls, Adopt(c) PROVE SafeInv'
  <2>1. CASE ReplaceSession(c, IssuedOf(c)) /\ End(c, "200", snap[c].proof)
    <3>1. /\ snap[c] = session /\ Put(IssuedOf(c)) /\ IssuedOf(c) \in Session
          /\ Stored(snap[c].proof) /\ WorksUnder(r, snap[c].proof, snap[c].key)
      <4>1. pc[c] = "adopt"  BY <1>7 DEF Adopt
      <4>2. snap[c] = session /\ Put(IssuedOf(c))
        BY <2>1, <4>1, ReplaceIsCurrent DEF ReplaceSteps
      <4>3. IssuedOf(c) \in Session
        BY <1>1, <4>2 DEF Put
      <4> QED BY <4>1, <4>2, <4>3 DEF IInv, Safe, FollowsReservation
    <3>2. IssuedOf(c).proof = session.proof /\ IssuedOf(c).key = session.key /\ ~Dropped
      BY <3>1, <1>1 DEF IssuedOf, TypeInv, StoreTypes, Session, WorksUnder, Dropped
    <3>3. SessionChange /\ StoredInv(r)'
      BY <1>7, <3>1, <3>2, PutKeepsStoredInv DEF Adopt
    <3>4. answer'[c].proof # NoId => AnswerStandsFor(answer[c])'
      <4>1. r.id # NoId /\ answer'[c].proof = r.id /\ Stored(answer[c].proof)'
        BY <1>7, <2>1, <3>1, EndIsQuiet DEF Adopt, Stored, WorksUnder
      <4> QED BY <3>3, <4>1, WorkerAnswers
    <3> QED BY <1>1, <2>1, <3>3, <3>4, EndIsQuiet, QuietStep
  <2>2. CASE Continue(c) /\ ReplaceConflicts(c, IssuedOf(c))
    <3>1. pc[c] = "adopt" /\ IssuedOf(c) \in Session
      <4>1. snap[c] \in Session  BY <1>1 DEF TypeInv, LocalTypes
      <4> QED BY <1>7, <4>1 DEF Adopt, IssuedOf, Session, Statuses
    <3>2. snap[c] = session =>
            /\ IssuedOf(c).proof = session.proof /\ IssuedOf(c).key = session.key
            /\ IssuedOf(c).status = "proof_issued" => Stored(IssuedOf(c).proof)
            /\ ~Dropped
      BY <1>1, <3>1 DEF IssuedOf, TypeInv, StoreTypes, Session, Safe, FollowsReservation,
         WorksUnder, Dropped
    <3>3. SessionChange /\ StoredInv(r)'
      BY <1>7, <2>2, <3>1, <3>2, ConflictKeepsStoredInv DEF Adopt, ReplaceSteps
    <3> QED BY <1>1, <2>2, <3>3, LostAttempt
  <2> QED BY <1>7, <2>1, <2>2 DEF Adopt
<1>8. ASSUME NEW c \in IssueCalls, MarkValidating(c) PROVE SafeInv'
  <2>1. CASE /\ ReplaceSession(c, ValidatingOf(c)) /\ HoldReplaced(c, ValidatingOf(c))
             /\ Goto(c, "verified") /\ KeepLocals
    <3>1. snap[c] = session /\ Put(ValidatingOf(c)) /\ ValidatingOf(c) \in Session
      <4>1. pc[c] = "validating"  BY <1>8 DEF MarkValidating
      <4>2. snap[c] = session /\ Put(ValidatingOf(c))
        BY <2>1, <4>1, ReplaceIsCurrent DEF ReplaceSteps
      <4> QED BY <1>1, <4>2 DEF Put
    <3>2. /\ ValidatingOf(c).proof = session.proof /\ ValidatingOf(c).key = session.key
          /\ ValidatingOf(c).status # "proof_issued" /\ ValidatingOf(c).status # "failed"
          /\ session.proof = NoId /\ ~Dropped
      BY <1>8, <3>1, <1>1 DEF MarkValidating, ValidatingOf, TypeInv, StoreTypes, Session, Safe,
         FollowsReservation, Dropped
    <3>3. SessionChange /\ StoredInv(r)'
      BY <1>8, <3>1, <3>2, PutKeepsStoredInv DEF MarkValidating
    <3>4. OthersUntouched(c) /\ answer'[c] = answer[c]
      BY <2>1 DEF HoldReplaced, Goto, KeepLocals, OthersUntouched, IInv, TypeOK, StoreTypeOK
    <3>5. Coherent(c)' /\ snap'[c] = ValidatingOf(c)
      BY <2>1, <3>1, HoldIsCoherent
    <3>6. FollowsReservation(c, r)'
      BY <1>8, <2>1, <3>2, <3>5 DEF Goto, FollowsReservation, Building, Saved, IInv, Safe, TypeOK
    <3>7. answer'[c].proof # NoId => AnswerStandsFor(answer[c])'
      BY <3>3, <3>4, AnswerStays
    <3> QED BY <3>3, <3>4, <3>5, <3>6, <3>7, Assemble
  <2>2. CASE Continue(c) /\ ReplaceConflicts(c, ValidatingOf(c))
    <3>1. pc[c] = "validating" /\ ValidatingOf(c) \in Session
      <4>1. snap[c] \in Session  BY <1>1 DEF TypeInv, LocalTypes
      <4> QED BY <1>8, <4>1 DEF MarkValidating, ValidatingOf, Session, Statuses
    <3>2. snap[c] = session =>
            /\ ValidatingOf(c).proof = session.proof /\ ValidatingOf(c).key = session.key
            /\ ValidatingOf(c).status = "proof_issued" => Stored(ValidatingOf(c).proof)
            /\ ~Dropped
      BY <1>1, <3>1 DEF ValidatingOf, TypeInv, StoreTypes, Session, Safe, FollowsReservation,
         Dropped
    <3>3. SessionChange /\ StoredInv(r)'
      BY <1>8, <2>2, <3>1, <3>2, ConflictKeepsStoredInv DEF MarkValidating, ReplaceSteps
    <3> QED BY <1>1, <2>2, <3>3, LostAttempt
  <2> QED BY <1>8, <2>1, <2>2 DEF MarkValidating
<1>9. ASSUME NEW c \in IssueCalls, MarkVerified(c) PROVE SafeInv'
  <2>1. CASE /\ ReplaceSession(c, VerifiedOf(c)) /\ HoldReplaced(c, VerifiedOf(c))
             /\ Goto(c, "resolve") /\ KeepLocals
    <3>1. snap[c] = session /\ Put(VerifiedOf(c)) /\ VerifiedOf(c) \in Session
      <4>1. pc[c] = "verified"  BY <1>9 DEF MarkVerified
      <4>2. snap[c] = session /\ Put(VerifiedOf(c))
        BY <2>1, <4>1, ReplaceIsCurrent DEF ReplaceSteps
      <4> QED BY <1>1, <4>2 DEF Put
    <3>2. /\ VerifiedOf(c).proof = session.proof /\ VerifiedOf(c).key = session.key
          /\ VerifiedOf(c).status # "proof_issued" /\ VerifiedOf(c).status # "failed"
          /\ session.proof = NoId /\ ~Dropped
      BY <1>9, <3>1, <1>1 DEF MarkVerified, VerifiedOf, TypeInv, StoreTypes, Session, Safe,
         FollowsReservation, Dropped
    <3>3. SessionChange /\ StoredInv(r)'
      BY <1>9, <3>1, <3>2, PutKeepsStoredInv DEF MarkVerified
    <3>4. OthersUntouched(c) /\ answer'[c] = answer[c]
      BY <2>1 DEF HoldReplaced, Goto, KeepLocals, OthersUntouched, IInv, TypeOK, StoreTypeOK
    <3>5. Coherent(c)' /\ snap'[c] = VerifiedOf(c)
      BY <2>1, <3>1, HoldIsCoherent
    <3>6. FollowsReservation(c, r)'
      BY <1>9, <2>1, <3>2, <3>5 DEF Goto, FollowsReservation, Building, Saved, IInv, Safe, TypeOK
    <3>7. answer'[c].proof # NoId => AnswerStandsFor(answer[c])'
      BY <3>3, <3>4, AnswerStays
    <3> QED BY <3>3, <3>4, <3>5, <3>6, <3>7, Assemble
  <2>2. CASE Continue(c) /\ ReplaceConflicts(c, VerifiedOf(c))
    <3>1. pc[c] = "verified" /\ VerifiedOf(c) \in Session
      <4>1. snap[c] \in Session  BY <1>1 DEF TypeInv, LocalTypes
      <4> QED BY <1>9, <4>1 DEF MarkVerified, VerifiedOf, Session, Statuses
    <3>2. snap[c] = session =>
            /\ VerifiedOf(c).proof = session.proof /\ VerifiedOf(c).key = session.key
            /\ VerifiedOf(c).status = "proof_issued" => Stored(VerifiedOf(c).proof)
            /\ ~Dropped
      BY <1>1, <3>1 DEF VerifiedOf, TypeInv, StoreTypes, Session, Safe, FollowsReservation,
         Dropped
    <3>3. SessionChange /\ StoredInv(r)'
      BY <1>9, <2>2, <3>1, <3>2, ConflictKeepsStoredInv DEF MarkVerified, ReplaceSteps
    <3> QED BY <1>1, <2>2, <3>3, LostAttempt
  <2> QED BY <1>9, <2>1, <2>2 DEF MarkVerified
<1>10. ASSUME NEW c \in IssueCalls, Resolve(c) PROVE SafeInv'
  <2>1. SessionChange /\ StoredInv(r)'
    BY <1>10, StoreUntouched DEF Resolve, storeVars
  <2>2. OthersUntouched(c) /\ answer'[c] = answer[c]
    BY <1>10 DEF Resolve, clientVars, Goto, OthersUntouched, IInv, TypeOK
  <2>3. Coherent(c)'
    BY <1>10 DEF Resolve, storeVars, clientVars, Goto, IInv, TypeOK, Coherent, EtagCurrent,
       Holding, ReplaceSteps
  <2>4. FollowsReservation(c, r)'
    BY <1>10 DEF Resolve, clientVars, Goto, IInv, Safe, TypeOK, FollowsReservation, Building, Saved
  <2>5. answer'[c].proof # NoId => AnswerStandsFor(answer[c])'
    BY <2>1, <2>2, AnswerStays
  <2> QED BY <2>1, <2>2, <2>3, <2>4, <2>5, Assemble
<1>11. ASSUME NEW c \in IssueCalls, Reserve(c) PROVE SafeInv'
  <2>1. PICK q \in Reservation : q = cand[c]
    BY <1>1 DEF TypeInv, LocalTypes
  <2>2. pc[c] = "reserve" /\ UNCHANGED <<manifest, proofs>>
    BY <1>11 DEF Reserve
  <2>3. CASE /\ ReplaceSession(c, ReservedOf(c)) /\ HoldReplaced(c, ReservedOf(c))
             /\ Goto(c, "build") /\ KeepLocals
    <3>1. snap[c] = session /\ Put(ReservedOf(c))
      BY <2>2, <2>3, ReplaceIsCurrent DEF ReplaceSteps
    <3>2. /\ SessionChange /\ StoredInv(q)' /\ ReservedOf(c) \in Session
          /\ ReservedOf(c).proof = q.id /\ ReservedOf(c).key = q.key
          /\ r.id = NoId /\ q.id # NoId
      BY <2>1, <2>2, <3>1, ReserveKeepsStoredInv
    <3>3. OthersUntouched(c) /\ answer'[c] = answer[c]
      BY <2>3 DEF HoldReplaced, Goto, KeepLocals, OthersUntouched, IInv, TypeOK, StoreTypeOK
    <3>4. Coherent(c)' /\ snap'[c] = ReservedOf(c)
      BY <2>3, <3>1, <3>2, HoldIsCoherent
    <3>5. FollowsReservation(c, q)'
      <4>1. pc'[c] = "build" /\ cand'[c] = q
        BY <2>1, <2>3 DEF Goto, KeepLocals, IInv, TypeOK
      <4> QED BY <3>2, <3>4, <4>1 DEF FollowsReservation, WorksUnder, Building, Saved
    <3>6. answer'[c].proof # NoId => AnswerStandsFor(answer[c])'
      BY <3>2, <3>3, AnswerStays
    <3> QED BY <3>2, <3>3, <3>4, <3>5, <3>6, Assemble
  <2>4. CASE Continue(c) /\ ReplaceConflicts(c, ReservedOf(c))
    <3>1. CASE UNCHANGED <<session, stamp>>
      <4>1. SessionChange /\ StoredInv(r)'
        BY <2>2, <3>1, StoreUntouched
      <4> QED BY <1>1, <2>4, <4>1, LostAttempt
    <3>2. CASE snap[c] = session /\ Put(ReservedOf(c))
      <4>1. SessionChange /\ StoredInv(q)' /\ r.id = NoId
        BY <2>1, <2>2, <3>2, ReserveKeepsStoredInv
      <4> QED BY <1>1, <2>4, <4>1, LostAttempt
    <3> QED BY <2>2, <2>4, <3>1, <3>2, ConflictIsCurrent DEF ReplaceSteps
  <2> QED BY <1>11, <2>3, <2>4 DEF Reserve
<1>12. ASSUME NEW c \in IssueCalls, Build(c) PROVE SafeInv'
  <2>1. SessionChange /\ StoredInv(r)'
    BY <1>12, StoreUntouched DEF Build, storeVars
  <2>2. ASSUME NEW code, End(c, code, NoId) PROVE SafeInv'
    BY <1>1, <2>1, <2>2, EndIsQuiet, QuietStep
  <2>3. ASSUME NEW s \in Signatures, Goto(c, "save"),
               built' = [built EXCEPT ![c] =
                   [id |-> cand[c].id, key |-> cand[c].key,
                    manifest |-> manifest, salt |-> s]],
               UNCHANGED <<clientVars, attempt, cand, answer, activeKey, failures>>
        PROVE  SafeInv'
    <3>1. OthersUntouched(c) /\ answer'[c] = answer[c]
      BY <2>3 DEF clientVars, Goto, OthersUntouched, IInv, TypeOK
    <3>2. Coherent(c)'
      BY <1>12, <2>3 DEF Build, storeVars, clientVars, Goto, IInv, TypeOK, Coherent,
         EtagCurrent, Holding, ReplaceSteps
    <3>3. FollowsReservation(c, r)'
      BY <1>12, <2>3 DEF Build, storeVars, clientVars, Goto, IInv, Safe, TypeOK,
         FollowsReservation, WorksUnder, Building, Saved
    <3>4. answer'[c].proof # NoId => AnswerStandsFor(answer[c])'
      BY <2>1, <3>1, AnswerStays
    <3> QED BY <2>1, <3>1, <3>2, <3>3, <3>4, Assemble
  <2> QED BY <1>12, <2>2, <2>3 DEF Build
<1>13. ASSUME NEW c \in IssueCalls, Save(c) PROVE SafeInv'
  <2> DEFINE p == built[c]
  <2>1. /\ pc[c] = "save" /\ p \in Proof /\ WorksUnder(r, p.id, p.key) /\ p.manifest = manifest
        /\ WorksUnder(r, snap[c].proof, snap[c].key)
    BY <1>13, <1>1 DEF Save, IInv, Safe, FollowsReservation, TypeInv, LocalTypes, LocalsAssigned,
       Building
  <2>2. UNCHANGED <<session, stamp, manifest>>
    BY <1>13 DEF Save
  <2>3. CASE /\ ~ProofConflicts(p) /\ WriteProof(p) /\ UNCHANGED clientVars /\ KeepLocals
             /\ Goto(c, IF Backend = "azure" THEN "index" ELSE "finish")
    <3>1. proofs' = {p}
      <4>1. \A q \in proofs : q.id = p.id
        BY <2>1 DEF Safe, StoredInv, WorksUnder
      <4>2. CASE Backend = "azure"
        <5>1. \A q \in proofs : q = p
          BY <2>3, <4>1, <4>2 DEF ProofConflicts, Stored, IInv, OneProof
        <5> QED BY <2>3, <4>2, <5>1 DEF WriteProof
      <4>3. CASE Backend # "azure"
        BY <2>3, <4>1, <4>3 DEF WriteProof
      <4> QED BY <4>2, <4>3
    <3>2. SessionChange
      BY <2>1, <2>2, <3>1 DEF SessionChange, Stored, Safe, StoredInv, WorksUnder, Dropped
    <3>3. StoredInv(r)'
      <4>1. Reserves(r.id, r.key)' \/ Dropped'
        BY <2>2 DEF Safe, StoredInv, Reserves, Dropped
      <4>2. IssuedIsStored'
        BY <2>2, <3>2 DEF Safe, StoredInv, SessionChange, IssuedIsStored, Stored
      <4> QED BY <2>1, <2>2, <3>1, <4>1, <4>2 DEF StoredInv, OneProof, ProofMatchesReservation,
              WorksUnder, Reserves
    <3>4. OthersUntouched(c) /\ answer'[c] = answer[c]
      BY <2>3 DEF clientVars, KeepLocals, Goto, OthersUntouched, IInv, TypeOK
    <3>5. pc'[c] \in {"index", "finish"} /\ built'[c] = p /\ snap' = snap
      BY <2>3 DEF clientVars, KeepLocals, Goto, IInv, TypeOK
    <3>6. Coherent(c)'
      BY <2>1, <2>2, <2>3, <3>5 DEF clientVars, IInv, Coherent, EtagCurrent, Holding,
         ReplaceSteps
    <3>7. FollowsReservation(c, r)'
      BY <2>1, <2>2, <3>1, <3>5 DEF FollowsReservation, WorksUnder, Stored, Building, Saved
    <3>8. answer'[c].proof # NoId => AnswerStandsFor(answer[c])'
      BY <3>2, <3>4, AnswerStays
    <3> QED BY <3>2, <3>3, <3>4, <3>6, <3>7, <3>8, Assemble
  <2>4. CASE /\ ProofConflicts(p) /\ Goto(c, "finish")
             /\ built' = [built EXCEPT ![c] = StoredProof(p.id)]
             /\ UNCHANGED <<proofs, clientVars, attempt, cand, answer, activeKey, failures>>
    <3>1. SessionChange /\ StoredInv(r)'
      BY <2>2, <2>4, StoreUntouched
    <3>2. StoredProof(p.id) \in proofs
      BY <2>4 DEF ProofConflicts, Stored, StoredProof
    <3>3. OthersUntouched(c) /\ answer'[c] = answer[c]
      BY <2>4 DEF clientVars, Goto, OthersUntouched, IInv, TypeOK
    <3>4. pc'[c] = "finish" /\ built'[c] \in proofs /\ snap' = snap
      BY <2>4, <3>2 DEF clientVars, Goto, IInv, TypeOK
    <3>5. Coherent(c)'
      BY <2>1, <2>2, <2>4, <3>4 DEF clientVars, IInv, Coherent, EtagCurrent, Holding,
         ReplaceSteps
    <3>6. FollowsReservation(c, r)'
      BY <2>1, <2>2, <2>4, <3>4 DEF FollowsReservation, WorksUnder, Stored, Building, Saved,
         Safe, StoredInv
    <3>7. answer'[c].proof # NoId => AnswerStandsFor(answer[c])'
      BY <3>1, <3>3, AnswerStays
    <3> QED BY <3>1, <3>3, <3>5, <3>6, <3>7, Assemble
  <2>5. CASE End(c, "ERR_PROOF_CONFLICT", NoId) /\ UNCHANGED proofs
    <3>1. SessionChange /\ StoredInv(r)'
      BY <2>2, <2>5, StoreUntouched
    <3> QED BY <1>1, <2>5, <3>1, EndIsQuiet, QuietStep
  <2> QED BY <1>13, <2>3, <2>4, <2>5 DEF Save
<1>14. ASSUME NEW c \in IssueCalls, SaveIndex(c) PROVE SafeInv'
  <2>1. SessionChange /\ StoredInv(r)'
    BY <1>14, StoreUntouched DEF SaveIndex
  <2>2. OthersUntouched(c) /\ answer'[c] = answer[c]
    BY <1>14 DEF SaveIndex, clientVars, KeepLocals, Goto, OthersUntouched, IInv, TypeOK
  <2>3. Coherent(c)'
    BY <1>14 DEF SaveIndex, clientVars, Goto, IInv, TypeOK, Coherent, EtagCurrent, Holding,
       ReplaceSteps
  <2>4. FollowsReservation(c, r)'
    BY <1>14 DEF SaveIndex, clientVars, KeepLocals, Goto, IInv, Safe, TypeOK, FollowsReservation,
       WorksUnder, Stored, Building, Saved
  <2>5. answer'[c].proof # NoId => AnswerStandsFor(answer[c])'
    BY <2>1, <2>2, AnswerStays
  <2> QED BY <2>1, <2>2, <2>3, <2>4, <2>5, Assemble
<1>15. ASSUME NEW c \in IssueCalls, Finish(c) PROVE SafeInv'
  <2>1. /\ pc[c] = "finish" /\ WorksUnder(r, snap[c].proof, snap[c].key)
        /\ WorksUnder(r, built[c].id, built[c].key) /\ built[c].manifest = manifest
        /\ Stored(built[c].id)
    BY <1>15 DEF Finish, IInv, Safe, FollowsReservation, Building, Saved
  <2>2. /\ OthersUntouched(c) /\ answer'[c] = answer[c] /\ built' = built
        /\ pc'[c] \in {"qr", "recheck"} /\ ~armed'[c] /\ etag'[c] = 0
    BY <1>2, <1>15 DEF Finish, DropRecord, Goto, KeepLocals, OthersUntouched, IInv, TypeOK,
       StoreTypeOK
  <2>3. SessionChange /\ StoredInv(r)' /\ session'.proof = session.proof
          /\ session'.key = session.key
    <3>1. CASE ReplaceSession(c, IssuedOf(c))
      <4>1. snap[c] = session /\ Put(IssuedOf(c))
        BY <2>1, <3>1, ReplaceIsCurrent DEF ReplaceSteps
      <4>2. IssuedOf(c).proof = session.proof /\ IssuedOf(c).key = session.key /\ ~Dropped
        BY <1>1, <2>1, <4>1 DEF IssuedOf, TypeInv, StoreTypes, Session, WorksUnder, Dropped
      <4>3. IssuedOf(c) \in Session
        BY <1>1, <4>1 DEF Put
      <4>4. Stored(IssuedOf(c).proof)
        BY <2>1, <4>1, <4>2 DEF WorksUnder
      <4> QED BY <1>15, <4>1, <4>2, <4>3, <4>4, PutKeepsStoredInv DEF Finish, Put
    <3>2. CASE ReplaceConflicts(c, IssuedOf(c))
      <4>1. IssuedOf(c) \in Session
        BY <1>1 DEF IssuedOf, TypeInv, LocalTypes, Session, Statuses
      <4>2. snap[c] = session =>
              /\ IssuedOf(c).proof = session.proof /\ IssuedOf(c).key = session.key
              /\ IssuedOf(c).status = "proof_issued" => Stored(IssuedOf(c).proof)
              /\ ~Dropped
        BY <1>1, <2>1 DEF IssuedOf, TypeInv, StoreTypes, Session, WorksUnder, Dropped
      <4> QED BY <1>15, <2>1, <3>2, <4>1, <4>2, ConflictKeepsStoredInv
              DEF Finish, ReplaceSteps
    <3> QED BY <1>15, <3>1, <3>2 DEF Finish
  <2>4. Coherent(c)'
    BY <1>1, <2>2 DEF Coherent, Holding, ReplaceSteps
  <2>5. FollowsReservation(c, r)'
    BY <1>15, <2>1, <2>2, <2>3 DEF Finish, FollowsReservation, WorksUnder, Stored, Building,
       Saved
  <2>6. answer'[c].proof # NoId => AnswerStandsFor(answer[c])'
    BY <2>3, <2>2, AnswerStays
  <2> QED BY <2>2, <2>3, <2>4, <2>5, <2>6, Assemble
<1>16. ASSUME NEW c \in IssueCalls, Recheck(c) PROVE SafeInv'
  <2>1. SessionChange /\ StoredInv(r)'
    BY <1>16, StoreUntouched DEF Recheck, storeVars
  <2>2. CASE Goto(c, "qr") /\ UNCHANGED clientVars /\ KeepLocals
    <3>1. OthersUntouched(c) /\ answer'[c] = answer[c]
      BY <2>2 DEF clientVars, KeepLocals, Goto, OthersUntouched, IInv, TypeOK
    <3>2. Coherent(c)'
      BY <1>16, <2>2 DEF Recheck, storeVars, clientVars, Goto, IInv, TypeOK, Coherent,
         EtagCurrent, Holding, ReplaceSteps
    <3>3. FollowsReservation(c, r)'
      BY <1>16, <2>2 DEF Recheck, storeVars, clientVars, KeepLocals, Goto, IInv, Safe, TypeOK,
         FollowsReservation, WorksUnder, Stored, Building, Saved
    <3>4. answer'[c].proof # NoId => AnswerStandsFor(answer[c])'
      BY <2>1, <3>1, AnswerStays
    <3> QED BY <2>1, <3>1, <3>2, <3>3, <3>4, Assemble
  <2>3. CASE End(c, "ERR_PROOF_CONFLICT", NoId)
    BY <1>1, <2>1, <2>3, EndIsQuiet, QuietStep
  <2> QED BY <1>16, <2>2, <2>3 DEF Recheck
<1>17. ASSUME NEW c \in IssueCalls, SaveQr(c) PROVE SafeInv'
  <2>1. SessionChange /\ StoredInv(r)'
    BY <1>17, StoreUntouched DEF SaveQr
  <2>2. WorksUnder(r, built[c].id, built[c].key) /\ Stored(built[c].id)
    BY <1>17 DEF SaveQr, IInv, Safe, FollowsReservation, Building, Saved
  <2>3. answer'[c].proof # NoId => AnswerStandsFor(answer[c])'
    <3>1. r.id # NoId /\ answer'[c].proof = r.id /\ Stored(answer[c].proof)'
      BY <1>17, <2>2, EndIsQuiet DEF SaveQr, Stored, WorksUnder
    <3> QED BY <2>1, <3>1, WorkerAnswers
  <2> QED BY <1>1, <1>17, <2>1, <2>3, EndIsQuiet, QuietStep DEF SaveQr
<1>18. ASSUME NEW c \in IssueCalls, Compare(c) PROVE SafeInv'
  BY <1>18 DEF Compare, CompareEtag
<1>19. ASSUME NEW s \in Session, Put(s), s.status = "failed",
              (s.proof = session.proof /\ s.key = session.key) \/ s.proof = NoId,
              UNCHANGED <<manifest, proofs, clientVars, issueVars>>
       PROVE  SafeInv'
  <2>1. SessionChange /\ StoredInv(r)'
    BY <1>19 DEF Put, SessionChange, Safe, StoredInv, OneProof, ProofMatchesReservation,
       IssuedIsStored, Stored, Dropped, Reserves
  <2>2. ASSUME NEW d \in IssueCalls PROVE Coherent(d)' /\ FollowsReservation(d, r)'
    BY <1>19, <2>1, Bystander DEF clientVars, issueVars
  <2>3. AnswerIsFinal'
    BY <1>19, <2>1, AnswerStays DEF issueVars, AnswerIsFinal
  <2>4. Safe(r)'
    BY <2>1, <2>2, <2>3 DEF Safe
  <2> QED BY <2>4 DEF SafeInv
<1>20. CASE DeviceReportsFailure
  <2>1. /\ [session EXCEPT !.status = "failed"].proof = session.proof
        /\ [session EXCEPT !.status = "failed"].key = session.key
        /\ [session EXCEPT !.status = "failed"].status = "failed"
        /\ [session EXCEPT !.status = "failed"] \in Session
    BY <1>1 DEF TypeInv, StoreTypes, Session, Statuses
  <2> QED BY <1>19, <1>20, <2>1 DEF DeviceReportsFailure
<1>21. CASE MarkFailed
  <2>1. /\ FailedCopy \in Session /\ FailedCopy.status = "failed"
        /\ FailedCopy.proof = NoId
    BY DEF FailedCopy, BlankSession, Session, Statuses
  <2> QED BY <1>19, <1>21, <2>1 DEF MarkFailed
<1>22. CASE RotateKey \/ UNCHANGED vars
  <2>1. /\ UNCHANGED <<storeVars, clientVars>>
        /\ UNCHANGED <<pc, cand, built, answer>>
    BY <1>22 DEF RotateKey, vars, issueVars
  <2>2. SessionChange /\ StoredInv(r)'
    BY <2>1, StoreUntouched DEF storeVars
  <2>3. ASSUME NEW d \in IssueCalls PROVE Coherent(d)' /\ FollowsReservation(d, r)'
    BY <2>1, <2>2, Bystander DEF clientVars
  <2>4. AnswerIsFinal'
    BY <2>1, <2>2, AnswerStays DEF AnswerIsFinal
  <2>5. Safe(r)'
    BY <2>2, <2>3, <2>4 DEF Safe
  <2> QED BY <2>5 DEF SafeInv
<1> QED
  BY <1>3, <1>4, <1>5, <1>6, <1>7, <1>8, <1>9, <1>10, <1>11, <1>12, <1>13, <1>14,
     <1>15, <1>16, <1>17, <1>18, <1>20, <1>21, <1>22 DEF Next, Step

LEMMA SafeInvInit == ASSUME Init PROVE SafeInv
<1>1. Safe(NoReservation)
  BY IssueConstants DEF Init, StoreInit, Safe, StoredInv, Coherent, FollowsReservation,
     Holding, ReplaceSteps, Building, Saved, OneProof, ProofMatchesReservation,
     IssuedIsStored, AnswerIsFinal, BlankSession, NoAnswer, NoReservation, Reserves
<1> QED BY <1>1, EmptyLocals DEF SafeInv

LEMMA IInvStep ==
    ASSUME AtomicReplace, IInv, [Next]_vars
    PROVE  IInv'
<1>1. TypeInv'
  BY IInvSplits, TypeInvStep
<1>2. (TypeInv /\ SafeInv => IInv)'
  BY IInvSplits, PTL
<1>. QED
  BY <1>1, <1>2, SafeInvStep

\* Where the etag comparison and the write are one step (Azure Tables, or one
\* local repository shared by all requests), every reachable state satisfies
\* the inductive invariant of issue_proof.
THEOREM IInvHolds == ASSUME AtomicReplace PROVE Spec => []IInv
<1>1. Init => IInv
  BY TypeInvInit, SafeInvInit, IInvSplits
<1>2. IInv /\ [Next]_vars => IInv'
  BY IInvStep
<1> QED BY <1>1, <1>2, PTL DEF Spec

\* At most one Proof record exists for a session, for any number of racing,
\* crashing and retried requests, provided replace_session is atomic.
THEOREM OneProofHolds == ASSUME AtomicReplace PROVE Spec => []OneProof
<1>1. IInv => OneProof  BY DEF IInv
<1> QED BY <1>1, IInvHolds, PTL

\* A stored Proof covers the accepted manifest and carries the id and signing
\* profile that the session reserved, whichever request built it, unless a
\* failure has been written over the reservation.
THEOREM ProofMatchesReservationHolds ==
    ASSUME AtomicReplace PROVE Spec => []ProofMatchesReservation
<1>1. IInv => ProofMatchesReservation  BY DEF IInv
<1> QED BY <1>1, IInvHolds, PTL

\* The Proof that a 200 or 201 answer names stays stored, and the session goes on
\* naming it or, once _mark_failed has written over the reservation, names none.
THEOREM AnswerIsFinalHolds == ASSUME AtomicReplace PROVE Spec => []AnswerIsFinal
<1>1. IInv => AnswerIsFinal  BY DEF IInv
<1> QED BY <1>1, IInvHolds, PTL

-----------------------------------------------------------------------------
\* What a 201 stands for, whatever the lock

\* What a request has saved is stored, and whoever it told 201 has a QR image.
Serves(c) ==
    /\ pc[c] \in Saved => Stored(built[c].id)
    /\ answer[c].code = "201" => answer[c].proof \in qr

\* Until a failure has come between the two writes, a Proof on Azure has its
\* row, or the request that saved it is about to write it.
Indexed(id) ==
    \/ id \in proofIndex
    \/ \E c \in IssueCalls : pc[c] = "index" /\ built[c].id = id

ServedInv ==
    /\ \A c \in IssueCalls : Serves(c)
    /\ \A id \in qr : Stored(id)
    /\ Backend = "azure" /\ failures = 0 => \A p \in proofs : Indexed(p.id)

\* No step loses a Proof, a QR image or a row: a local file is replaced by one
\* of the same name.
LEMMA RecordsStay ==
    ASSUME [Next]_vars
    PROVE  (\A id : Stored(id) => Stored(id)') /\ qr \subseteq qr' /\ proofIndex \subseteq proofIndex'
<1>1. ASSUME NEW c \in IssueCalls, Save(c)
      PROVE  (\A id : Stored(id) => Stored(id)') /\ UNCHANGED <<qr, proofIndex>>
  BY <1>1 DEF Save, WriteProof, Stored
<1>2. ASSUME NEW c \in IssueCalls, Step(c), ~Save(c)
      PROVE  UNCHANGED proofs /\ qr \subseteq qr' /\ proofIndex \subseteq proofIndex'
  BY <1>2 DEF Step, Load, Find, Adopt, MarkValidating, MarkVerified, Resolve, Reserve,
     Build, SaveIndex, Finish, Recheck, SaveQr, Compare, storeVars
<1>3. ASSUME \/ \E c \in IssueCalls : Receive(c) \/ Fail(c)
             \/ DeviceReportsFailure \/ MarkFailed \/ RotateKey \/ UNCHANGED vars
      PROVE  UNCHANGED <<proofs, qr, proofIndex>>
  BY <1>3 DEF Receive, Fail, DeviceReportsFailure, MarkFailed, RotateKey, vars, storeVars
<1>. QED
  BY <1>1, <1>2, <1>3 DEF Next, Stored

\* A request that steps, or ends, leaves what the others hold alone.
LEMMA OthersHold ==
    ASSUME TypeInv, NEW c \in IssueCalls, Receive(c) \/ Step(c) \/ Fail(c),
           NEW d \in IssueCalls, d # c
    PROVE  /\ pc'[d] = pc[d] /\ built'[d] = built[d] /\ answer'[d] = answer[d]
           /\ snap'[d] = snap[d] /\ etag'[d] = etag[d] /\ cand'[d] = cand[d]
<1>. USE IssueConstants DEF TypeInv, LocalTypes, Goto, KeepLocals, LoadSession, HoldReplaced,
         DropRecord, clientVars, End, Continue, NextAttempt, DidNotConverge
<1>1. CASE Receive(c) \/ Fail(c)
  BY <1>1 DEF Receive, Fail
<1>2. CASE Load(c) \/ Find(c) \/ Adopt(c)
  BY <1>2 DEF Load, AfterLoad, Find, Adopt
<1>3. CASE MarkValidating(c) \/ MarkVerified(c) \/ Resolve(c) \/ Reserve(c)
  BY <1>3 DEF MarkValidating, MarkVerified, Resolve, Reserve
<1>4. CASE Build(c) \/ SaveIndex(c) \/ Finish(c)
  BY <1>4 DEF Build, SaveIndex, Finish
<1>5. CASE Save(c)
  BY <1>5 DEF Save
<1>6. CASE Recheck(c) \/ SaveQr(c) \/ Compare(c)
  BY <1>6 DEF Recheck, SaveQr, Compare, CompareEtag, issueVars
<1>. QED
  BY <1>1, <1>2, <1>3, <1>4, <1>5, <1>6 DEF Step

\* A request that ends without a 201, or tries again, promises nothing.
LEMMA UnansweredServes ==
    ASSUME TypeInv, NEW c \in IssueCalls, Serves(c), qr \subseteq qr',
           \/ Continue(c)
           \/ \E code, id : End(c, code, id) /\ code # "201"
    PROVE  Serves(c)'
BY DEF TypeInv, LocalTypes, Continue, NextAttempt, DidNotConverge, End, Goto, Serves,
   Saved, Building

LEMMA StepServes ==
    ASSUME TypeInv, ServedInv, NEW c \in IssueCalls, Receive(c) \/ Step(c) \/ Fail(c)
    PROVE  Serves(c)'
<1>. USE DEF TypeInv, LocalTypes
<1>1. /\ \A id : Stored(id) => Stored(id)'
      /\ qr \subseteq qr' /\ Serves(c)
  BY RecordsStay DEF Next, ServedInv
<1>2. CASE Receive(c) \/ Fail(c)
  BY <1>1, <1>2 DEF Receive, Fail, Goto, NoAnswer, Serves, Saved, Building
<1>3. CASE Load(c)
  <2>1. CASE AfterLoad(c) /\ KeepLocals
    BY <1>1, <2>1 DEF AfterLoad, Goto, KeepLocals, Serves, Saved, Building
  <2>. QED
    BY <1>1, <1>3, <2>1, UnansweredServes DEF Load
<1>4. CASE Find(c)
  <2>1. ASSUME Goto(c, "adopt") \/ Goto(c, "build"), UNCHANGED <<built, answer>>
        PROVE  Serves(c)'
    BY <1>1, <2>1 DEF Goto, Serves, Saved, Building
  <2>. QED
    BY <1>1, <1>4, <2>1, UnansweredServes DEF Find, Continue, KeepLocals
<1>5. CASE Adopt(c)
  BY <1>1, <1>5, UnansweredServes DEF Adopt
<1>6. CASE MarkValidating(c) \/ MarkVerified(c) \/ Reserve(c)
  <2>1. ASSUME Goto(c, "verified") \/ Goto(c, "resolve") \/ Goto(c, "build"), KeepLocals
        PROVE  Serves(c)'
    BY <1>1, <2>1 DEF Goto, KeepLocals, Serves, Saved, Building
  <2>. QED
    BY <1>1, <1>6, <2>1, UnansweredServes DEF MarkValidating, MarkVerified, Reserve
<1>7. CASE Resolve(c)
  BY <1>1, <1>7 DEF Resolve, Goto, Serves, Saved, Building
<1>8. CASE Build(c)
  <2>1. ASSUME Goto(c, "save"), UNCHANGED answer PROVE Serves(c)'
    BY <1>1, <2>1 DEF Goto, Serves, Saved, Building
  <2>. QED
    BY <1>1, <1>8, <2>1, UnansweredServes DEF Build
<1>9. CASE Save(c)
  <2>. DEFINE p == built[c]
  <2>1. CASE WriteProof(p) /\ UNCHANGED <<built, answer>>
    BY <1>1, <2>1 DEF WriteProof, Stored, Serves
  <2>2. CASE /\ ProofConflicts(p) /\ built' = [built EXCEPT ![c] = StoredProof(p.id)]
             /\ UNCHANGED <<proofs, answer>>
    <3>1. StoredProof(p.id) \in proofs
      BY <2>2 DEF ProofConflicts, Stored, StoredProof
    <3>. QED
      BY <1>1, <2>2, <3>1 DEF Stored, Serves
  <2>. QED
    BY <1>1, <1>9, <2>1, <2>2, UnansweredServes DEF Save, KeepLocals
<1>10. CASE SaveIndex(c) \/ Finish(c)
  BY <1>1, <1>10 DEF SaveIndex, Finish, KeepLocals, Serves, Saved, Building
<1>11. CASE Recheck(c)
  <2>1. CASE KeepLocals
    BY <1>1, <1>11, <2>1 DEF Recheck, KeepLocals, Serves, Saved, Building
  <2>2. CASE End(c, "ERR_PROOF_CONFLICT", NoId)
    BY <1>1, <2>2, UnansweredServes
  <2>. QED
    BY <1>11, <2>1, <2>2 DEF Recheck
<1>12. CASE SaveQr(c)
  BY <1>1, <1>12 DEF SaveQr, End, Goto, Serves, Saved, Building
<1>13. CASE Compare(c)
  BY <1>1, <1>13 DEF Compare, issueVars, Serves
<1>. QED
  BY <1>2, <1>3, <1>4, <1>5, <1>6, <1>7, <1>8, <1>9, <1>10, <1>11, <1>12, <1>13 DEF Step

\* QR images are made of saved Proofs only.
LEMMA QrStep ==
    ASSUME TypeInv, ServedInv, [Next]_vars
    PROVE  \A id \in qr' : Stored(id)'
<1>1. ASSUME NEW c \in IssueCalls, SaveQr(c)
      PROVE  \A id \in qr' : Stored(id)
  BY <1>1 DEF SaveQr, ServedInv, Serves, Saved, Building
<1>2. ASSUME NEW c \in IssueCalls, Step(c), ~SaveQr(c)
      PROVE  UNCHANGED qr
  BY <1>2 DEF Step, Load, Find, Adopt, MarkValidating, MarkVerified, Resolve, Reserve,
     Build, Save, SaveIndex, Finish, Recheck, Compare, storeVars
<1>3. ASSUME \/ \E c \in IssueCalls : Receive(c) \/ Fail(c)
             \/ DeviceReportsFailure \/ MarkFailed \/ RotateKey \/ UNCHANGED vars
      PROVE  UNCHANGED qr
  BY <1>3 DEF Receive, Fail, DeviceReportsFailure, MarkFailed, RotateKey, vars, storeVars
<1>. QED
  BY <1>1, <1>2, <1>3, RecordsStay DEF Next, ServedInv

\* The request that stores a Proof goes on to its row, and no other stores one.
LEMMA IndexStep ==
    ASSUME TypeInv, ServedInv, [Next]_vars, Backend = "azure", failures' = 0
    PROVE  \A p \in proofs' : Indexed(p.id)'
<1>. USE DEF TypeInv, LocalTypes
<1>1. failures = 0
  BY DEF Next, Receive, Fail, Step, Load, AfterLoad, Find, Adopt, MarkValidating,
     MarkVerified, Resolve, Reserve, Build, Save, SaveIndex, Finish, Recheck, SaveQr,
     Compare, DeviceReportsFailure, MarkFailed, RotateKey, vars, issueVars, KeepLocals, End,
     Continue, NextAttempt, DidNotConverge
<1>2. \A p \in proofs : Indexed(p.id)
  BY <1>1 DEF ServedInv
<1>3. ASSUME NEW c \in IssueCalls, Receive(c) \/ Step(c) \/ Fail(c), pc[c] # "index",
             NEW id, Indexed(id)
      PROVE  Indexed(id)'
  BY <1>3, OthersHold, RecordsStay DEF Indexed, Next
<1>4. ASSUME NEW c \in IssueCalls, pc[c] = "index", Step(c) \/ Fail(c),
             NEW id, Indexed(id)
      PROVE  Indexed(id)'
  <2>1. SaveIndex(c)
    BY <1>1, <1>4 DEF Step, Load, Find, Adopt, MarkValidating, MarkVerified, Resolve,
       Reserve, Build, Save, Finish, Recheck, SaveQr, Compare, ReplaceSteps, Fail
  <2>2. built[c].id \in proofIndex'
    BY <2>1 DEF SaveIndex
  <2>. QED
    BY <1>4, <2>2, OthersHold, RecordsStay DEF Indexed, Next
<1>5. ASSUME NEW c \in IssueCalls, Save(c)
      PROVE  \A p \in proofs' : Indexed(p.id)'
  <2>1. \A p \in proofs : Indexed(p.id)'
    BY <1>2, <1>3, <1>5 DEF Save, Step
  <2>2. CASE /\ WriteProof(built[c]) /\ KeepLocals
             /\ Goto(c, IF Backend = "azure" THEN "index" ELSE "finish")
    <3>1. proofs' = proofs \cup {built[c]}
      BY <2>2 DEF WriteProof
    <3>2. ASSUME NEW id, id = built[c].id PROVE Indexed(id)'
      BY <2>2, <3>2 DEF Goto, KeepLocals, Indexed
    <3>. QED
      BY <2>1, <3>1, <3>2
  <2>3. CASE UNCHANGED proofs
    BY <2>1, <2>3
  <2>. QED
    BY <1>5, <2>2, <2>3 DEF Save
<1>6. ASSUME NEW c \in IssueCalls, Step(c), ~Save(c)
      PROVE  UNCHANGED proofs
  BY <1>6 DEF Step, Load, Find, Adopt, MarkValidating, MarkVerified, Resolve, Reserve,
     Build, SaveIndex, Finish, Recheck, SaveQr, Compare, storeVars
<1>7. ASSUME NEW c \in IssueCalls, Receive(c) \/ Step(c) \/ Fail(c), ~Save(c)
      PROVE  \A p \in proofs' : Indexed(p.id)'
  <2>1. UNCHANGED proofs
    BY <1>6, <1>7 DEF Receive, Fail, storeVars
  <2>2. Receive(c) => pc[c] # "index"
    BY DEF Receive
  <2>. QED
    BY <1>2, <1>3, <1>4, <1>7, <2>1, <2>2
<1>8. CASE DeviceReportsFailure \/ MarkFailed \/ RotateKey \/ UNCHANGED vars
  BY <1>2, <1>8 DEF DeviceReportsFailure, MarkFailed, RotateKey, vars, storeVars, issueVars,
     Indexed
<1>. QED
  BY <1>5, <1>7, <1>8 DEF Next

LEMMA ServedInvStep == ASSUME TypeInv, ServedInv, [Next]_vars PROVE ServedInv'
<1>1. ASSUME NEW d \in IssueCalls PROVE Serves(d)'
  <2>1. ASSUME pc'[d] = pc[d], built'[d] = built[d], answer'[d] = answer[d]
        PROVE  Serves(d)'
    BY <2>1, RecordsStay DEF ServedInv, Serves
  <2>2. CASE DeviceReportsFailure \/ MarkFailed \/ RotateKey \/ UNCHANGED vars
    BY <2>1, <2>2 DEF DeviceReportsFailure, MarkFailed, RotateKey, vars, issueVars
  <2>. QED
    BY <2>1, <2>2, OthersHold, StepServes DEF Next
<1>. QED
  BY <1>1, QrStep, IndexStep DEF ServedInv

LEMMA ServedInvInit == Init => ServedInv
BY DEF Init, StoreInit, ServedInv, Serves, Saved, Building, NoAnswer

\* Whoever was told 201 can fetch the QR image; and on Azure, as long as no
\* request has died, the Proof has its row once the requests have ended: on
\* both backends and with any lock.
THEOREM CreatedIsServedHolds == Spec => []CreatedIsServed
<1>1. TypeInv /\ ServedInv /\ [Next]_vars => ServedInv'
  BY ServedInvStep
<1>2. ServedInv => CreatedIsServed
  BY DEF ServedInv, Serves, Stored, Indexed, AtRest, CreatedIsServed
<1>. QED
  BY <1>1, <1>2, ServedInvInit, TypeInvInit, TypeInvStep, PTL DEF Spec

-----------------------------------------------------------------------------
\* What an announcement stands for, whatever the lock

Announces(s) == s.status = "proof_issued" => Stored(s.proof)

\* A request announces the Proof it has built under its own reservation or found,
\* and it reserves under a session that is not announced yet.
AnnouncedInv(c) ==
    /\ Announces(snap[c])
    /\ pc[c] = "adopt" => Stored(snap[c].proof)
    /\ pc[c] \in {"resolve", "reserve"} => snap[c].status = "verified"
    /\ pc[c] \in {"build", "save", "index", "finish"} => cand[c].id = snap[c].proof
    /\ pc[c] \in {"save", "index", "finish"} => built[c].id = snap[c].proof

IssuedInv == Announces(session) /\ \A c \in IssueCalls : AnnouncedInv(c)

\* A request that lets go of its record, or that is where it was.
LEMMA EndsAnnounced ==
    ASSUME TypeInv, NEW c \in IssueCalls,
           Continue(c) \/ (\E code, id : End(c, code, id))
    PROVE  AnnouncedInv(c)'
BY IssueConstants DEF TypeInv, LocalTypes, Continue, NextAttempt, DidNotConverge, End, Goto,
   DropRecord, BlankSession, AnnouncedInv, Announces

LEMMA StepAnnounced ==
    ASSUME TypeInv, ServedInv, IssuedInv, NEW c \in IssueCalls,
           Receive(c) \/ Step(c) \/ Fail(c)
    PROVE  AnnouncedInv(c)' /\ Announces(session)'
<1>. USE IssueConstants DEF TypeInv, LocalTypes
<1>1. /\ \A id : Stored(id) => Stored(id)'
      /\ Announces(session) /\ AnnouncedInv(c) /\ Serves(c)
  BY RecordsStay DEF Next, ServedInv, IssuedInv
<1>2. ASSUME UNCHANGED session PROVE Announces(session)'
  BY <1>1, <1>2 DEF Announces
<1>3. ASSUME NEW s, ReplaceSession(c, s) \/ ReplaceConflicts(c, s), Announces(s)
      PROVE  Announces(session)'
  BY <1>1, <1>3 DEF ReplaceSession, ReplaceConflicts, Put, Announces
<1>4. CASE Receive(c)
  BY <1>1, <1>2, <1>4 DEF Receive, Goto, storeVars, clientVars, AnnouncedInv, Announces
<1>5. CASE Fail(c)
  BY <1>1, <1>2, <1>5 DEF Fail, Goto, storeVars, DropRecord, BlankSession, AnnouncedInv,
                          Announces
<1>6. CASE Load(c)
  <2>1. CASE AfterLoad(c) /\ LoadSession(c) /\ KeepLocals
    BY <1>1, <1>2, <1>6, <2>1 DEF Load, storeVars, AfterLoad, LoadSession, KeepLocals, Goto,
       AnnouncedInv, Announces
  <2>. QED
    BY <1>2, <1>6, <2>1, EndsAnnounced DEF Load, storeVars
<1>7. CASE Find(c)
  <2>1. CASE Stored(snap[c].proof) /\ Goto(c, "adopt") /\ UNCHANGED clientVars
    BY <1>1, <1>2, <1>7, <2>1 DEF Find, storeVars, Goto, clientVars, AnnouncedInv, Announces
  <2>2. CASE /\ Goto(c, "build") /\ UNCHANGED clientVars
             /\ cand' = [cand EXCEPT ![c] = TakenOver(c)]
    BY <1>1, <1>2, <1>7, <2>2 DEF Find, storeVars, Goto, clientVars, TakenOver,
       AnnouncedInv, Announces
  <2>. QED
    BY <1>2, <1>7, <2>1, <2>2, EndsAnnounced DEF Find, Continue, storeVars
<1>8. CASE Adopt(c)
  <2>1. Announces(IssuedOf(c))
    BY <1>1, <1>8 DEF Adopt, AnnouncedInv, Announces, IssuedOf
  <2>. QED
    BY <1>3, <1>8, <2>1, EndsAnnounced DEF Adopt
<1>9. ASSUME NEW s \in Session, s.status \in {"validating", "verified"},
             NEW step \in {"verified", "resolve", "build"},
             ReplaceSession(c, s) \/ ReplaceConflicts(c, s),
             (HoldReplaced(c, s) /\ Goto(c, step) /\ KeepLocals) \/ Continue(c),
             step = "resolve" => s.status = "verified",
             step = "build" => s.proof = cand[c].id
      PROVE  AnnouncedInv(c)' /\ Announces(session)'
  <2>1. Announces(session)'
    BY <1>3, <1>9 DEF Announces
  <2>2. CASE HoldReplaced(c, s) /\ Goto(c, step) /\ KeepLocals
    BY <1>9, <2>1, <2>2 DEF HoldReplaced, Goto, KeepLocals, AnnouncedInv, Announces
  <2>. QED
    BY <1>9, <2>1, <2>2, EndsAnnounced
<1>10. snap[c] \in Session /\ cand[c] \in Reservation
  OBVIOUS
<1>11. CASE MarkValidating(c)
  <2>1. ValidatingOf(c) \in Session /\ ValidatingOf(c).status = "validating"
    BY <1>10 DEF ValidatingOf, Session, Statuses
  <2>. QED
    BY <1>9, <1>11, <2>1 DEF MarkValidating
<1>12. CASE MarkVerified(c)
  <2>1. VerifiedOf(c) \in Session /\ VerifiedOf(c).status = "verified"
    BY <1>10 DEF VerifiedOf, Session, Statuses
  <2>. QED
    BY <1>9, <1>12, <2>1 DEF MarkVerified
<1>13. CASE Resolve(c)
  BY <1>1, <1>2, <1>13 DEF Resolve, Goto, storeVars, clientVars, AnnouncedInv, Announces
<1>14. CASE Reserve(c)
  <2>1. /\ ReservedOf(c) \in Session /\ ReservedOf(c).status = "verified"
        /\ ReservedOf(c).proof = cand[c].id
    BY <1>1, <1>10, <1>14 DEF Reserve, AnnouncedInv, ReservedOf, Session, Reservation
  <2>. QED
    BY <1>9, <1>14, <2>1 DEF Reserve
<1>15. CASE Build(c)
  <2>1. CASE /\ Goto(c, "save") /\ UNCHANGED <<clientVars, cand>>
             /\ \E s \in Signatures :
                  built' = [built EXCEPT ![c] =
                      [id |-> cand[c].id, key |-> cand[c].key,
                       manifest |-> manifest, salt |-> s]]
    BY <1>1, <1>2, <1>15, <2>1 DEF storeVars, Build, Goto, clientVars, AnnouncedInv, Announces
  <2>. QED
    BY <1>2, <1>15, <2>1, EndsAnnounced DEF Build, storeVars
<1>16. CASE Save(c)
  <2>1. CASE UNCHANGED <<clientVars, cand, built>> /\ (Goto(c, "index") \/ Goto(c, "finish"))
    BY <1>1, <1>16, <2>1 DEF Save, Goto, clientVars, AnnouncedInv, Announces
  <2>2. CASE /\ ProofConflicts(built[c]) /\ Goto(c, "finish") /\ UNCHANGED <<clientVars, cand>>
             /\ built' = [built EXCEPT ![c] = StoredProof(built[c].id)]
    <3>1. StoredProof(built[c].id).id = built[c].id
      BY <2>2 DEF ProofConflicts, Stored, StoredProof
    <3>. QED
      BY <1>1, <1>16, <2>2, <3>1 DEF Save, Goto, clientVars, AnnouncedInv, Announces
  <2>. QED
    BY <1>2, <1>16, <2>1, <2>2, EndsAnnounced DEF Save, KeepLocals
<1>17. CASE SaveIndex(c)
  BY <1>1, <1>2, <1>17 DEF SaveIndex, Goto, KeepLocals, clientVars, AnnouncedInv, Announces
<1>18. CASE Finish(c)
  <2>1. Stored(snap[c].proof)
    BY <1>1, <1>18 DEF Finish, AnnouncedInv, Serves, Saved, Building
  <2>2. Announces(IssuedOf(c))
    BY <1>10, <2>1 DEF Announces, IssuedOf, Session
  <2>. QED
    BY <1>3, <1>18, <2>2 DEF Finish, DropRecord, BlankSession, Goto, AnnouncedInv, Announces
<1>19. CASE Recheck(c)
  <2>1. CASE Goto(c, "qr") /\ UNCHANGED clientVars
    BY <1>1, <1>2, <1>19, <2>1 DEF Recheck, storeVars, Goto, clientVars, AnnouncedInv, Announces
  <2>. QED
    BY <1>2, <1>19, <2>1, EndsAnnounced DEF Recheck, storeVars
<1>20. CASE SaveQr(c)
  BY <1>2, <1>20, EndsAnnounced DEF SaveQr
<1>21. CASE Compare(c)
  BY <1>1, <1>2, <1>21 DEF Compare, CompareEtag, issueVars, storeVars, AnnouncedInv, Announces
<1>. QED
  BY <1>4, <1>5, <1>6, <1>7, <1>8, <1>11, <1>12, <1>13, <1>14, <1>15, <1>16, <1>17, <1>18,
     <1>19, <1>20, <1>21 DEF Step

LEMMA IssuedInvStep ==
    ASSUME TypeInv, ServedInv, IssuedInv, [Next]_vars PROVE IssuedInv'
<1>1. \A id : Stored(id) => Stored(id)'
  BY RecordsStay
<1>2. ASSUME NEW d \in IssueCalls, pc'[d] = pc[d], built'[d] = built[d],
             snap'[d] = snap[d], cand'[d] = cand[d]
      PROVE  AnnouncedInv(d)'
  BY <1>1, <1>2 DEF IssuedInv, AnnouncedInv, Announces
<1>3. CASE DeviceReportsFailure \/ MarkFailed \/ RotateKey \/ UNCHANGED vars
  <2>1. Announces(session)'
    <3>1. CASE DeviceReportsFailure
      BY <3>1 DEF DeviceReportsFailure, Put, Announces, TypeInv, StoreTypes, Session
    <3>2. CASE MarkFailed
      BY <3>2 DEF MarkFailed, FailedCopy, BlankSession, Put, Announces
    <3>3. CASE RotateKey \/ UNCHANGED vars
      BY <1>1, <3>3 DEF RotateKey, vars, storeVars, IssuedInv, Announces
    <3>. QED
      BY <1>3, <3>1, <3>2, <3>3
  <2>2. UNCHANGED <<pc, built, snap, cand>>
    BY <1>3 DEF DeviceReportsFailure, MarkFailed, RotateKey, vars, issueVars, clientVars
  <2>. QED
    BY <1>2, <2>1, <2>2 DEF IssuedInv
<1>4. ASSUME NEW c \in IssueCalls, Receive(c) \/ Step(c) \/ Fail(c) PROVE IssuedInv'
  <2>1. \A d \in IssueCalls \ {c} : AnnouncedInv(d)'
    BY <1>2, <1>4, OthersHold
  <2>. QED
    BY <1>4, <2>1, StepAnnounced DEF IssuedInv
<1>. QED
  BY <1>3, <1>4 DEF Next

LEMMA IssuedInvInit == Init => IssuedInv
BY IssueConstants DEF Init, StoreInit, IssuedInv, AnnouncedInv, Announces, BlankSession

\* Whoever reads proof_issued in the session finds the Proof it names, on local
\* files without a common lock too.
THEOREM IssuedIsStoredHolds == Spec => []IssuedIsStored
<1>1. TypeInv /\ ServedInv /\ [Next]_vars => ServedInv'
  BY ServedInvStep
<1>2. TypeInv /\ ServedInv /\ IssuedInv /\ [Next]_vars => IssuedInv'
  BY IssuedInvStep
<1>3. IssuedInv => IssuedIsStored
  BY DEF IssuedInv, Announces, IssuedIsStored
<1>. QED
  BY <1>1, <1>2, <1>3, IssuedInvInit, ServedInvInit, TypeInvInit, TypeInvStep, PTL DEF Spec

-----------------------------------------------------------------------------
\* issue_proof on Azure storage implements ProofLedger: the sessions and Proofs
\* that any number of racing, crashing and retried requests leave are those of
\* claiming once, publishing once and then announcing.

\* Requests that will write the session hold one that is still open, ...
Writing == {"adopt", "validating", "verified", "resolve", "reserve", "build",
            "save", "index", "finish"}
Open(status) == status \notin {"proof_issued", "failed"}
HoldsOpen(c) == pc[c] \in Writing => Open(snap[c].status)

\* ... a candidate is complete when it is offered, ...
CandidateIsWhole(c) ==
    pc[c] = "reserve" => cand[c].id \in ProofIds /\ cand[c].key \in Keys

\* ... and a session without a reservation has no signing profile.
LedgerInv ==
    /\ \A c \in IssueCalls : HoldsOpen(c) /\ CandidateIsWhole(c)
    /\ session.proof = NoId => session.key = NoKey

LEMMA LedgerInvInit == Init => LedgerInv
BY DEF Init, LedgerInv, HoldsOpen, CandidateIsWhole, Writing, BlankSession

-----------------------------------------------------------------------------
\* What a guarded write does

\* The write of s by c, acknowledged or not, or nothing.
Writes(c, s) == UNCHANGED session \/ (snap[c] = session /\ session' = s)

LEMMA ReplaceWrites ==
    ASSUME AtomicReplace, IInv, NEW c \in IssueCalls, pc[c] \in ReplaceSteps, NEW s,
           ReplaceSession(c, s) \/ ReplaceConflicts(c, s)
    PROVE  Writes(c, s)
BY ReplaceIsCurrent, ConflictIsCurrent DEF Writes, Put

\* Every step of a request writes one of these, or leaves the session alone.
LEMMA StepWrites ==
    ASSUME AtomicReplace, IInv, NEW c \in IssueCalls, Step(c)
    PROVE  \/ UNCHANGED session
           \/ pc[c] = "adopt" /\ Writes(c, IssuedOf(c)) /\ UNCHANGED proofs
           \/ pc[c] = "validating" /\ Writes(c, ValidatingOf(c)) /\ UNCHANGED proofs
           \/ pc[c] = "verified" /\ Writes(c, VerifiedOf(c)) /\ UNCHANGED proofs
           \/ pc[c] = "reserve" /\ Writes(c, ReservedOf(c)) /\ UNCHANGED proofs
           \/ pc[c] = "finish" /\ Writes(c, IssuedOf(c)) /\ UNCHANGED proofs
<1>1. CASE Adopt(c)
  BY <1>1, ReplaceWrites DEF Adopt, ReplaceSteps
<1>2. CASE MarkValidating(c)
  BY <1>2, ReplaceWrites DEF MarkValidating, ReplaceSteps
<1>3. CASE MarkVerified(c)
  BY <1>3, ReplaceWrites DEF MarkVerified, ReplaceSteps
<1>4. CASE Reserve(c)
  BY <1>4, ReplaceWrites DEF Reserve, ReplaceSteps
<1>5. CASE Finish(c)
  BY <1>5, ReplaceWrites DEF Finish, ReplaceSteps
<1>6. CASE \/ Load(c) \/ Find(c) \/ Resolve(c) \/ Build(c) \/ Save(c) \/ SaveIndex(c)
           \/ Recheck(c) \/ SaveQr(c) \/ Compare(c)
  BY <1>6 DEF Load, Find, Resolve, Build, Save, SaveIndex, Recheck, SaveQr, Compare,
     storeVars
<1>. QED
  BY <1>1, <1>2, <1>3, <1>4, <1>5, <1>6 DEF Step

-----------------------------------------------------------------------------
\* The invariant

\* Whatever the session becomes, it has both halves of a reservation or none.
LEMMA ReservationStaysWhole ==
    ASSUME AtomicReplace, IInv, LedgerInv, [Next]_vars
    PROVE  session'.proof = NoId => session'.key = NoKey
<1>. USE IssueConstants
<1>1. session \in Session /\ \A c \in IssueCalls : snap[c] \in Session
  BY DEF IInv, TypeOK, StoreTypeOK
<1>2. ASSUME NEW c \in IssueCalls, Step(c)
      PROVE  session'.proof = NoId => session'.key = NoKey
  <2>1. ASSUME NEW status \in Statuses, Writes(c, [snap[c] EXCEPT !.status = status])
        PROVE  session'.proof = session.proof /\ session'.key = session.key
    BY <1>1, <2>1 DEF Writes, Session
  <2>2. ASSUME Writes(c, ReservedOf(c)), pc[c] = "reserve"
        PROVE  session' = session \/ session'.proof # NoId
    <3>1. cand[c].id # NoId
      BY <2>2 DEF IInv, LocalsAssigned
    <3>. QED
      BY <1>1, <2>2, <3>1 DEF Writes, ReservedOf, Session
  <2>. QED
    BY <1>2, <2>1, <2>2, StepWrites
       DEF LedgerInv, IssuedOf, ValidatingOf, VerifiedOf, Statuses
<1>3. ASSUME DeviceReportsFailure
      PROVE  session'.proof = session.proof /\ session'.key = session.key
  BY <1>1, <1>3 DEF DeviceReportsFailure, Put, Session
<1>4. ASSUME MarkFailed PROVE session'.key = NoKey
  BY <1>4 DEF MarkFailed, FailedCopy, BlankSession, Put
<1>. QED
  BY <1>2, <1>3, <1>4 DEF LedgerInv, Next, Receive, Fail, RotateKey, vars, storeVars

\* Requests that end, retry or begin have nothing to write from.
LEMMA RestingHoldsNothing ==
    ASSUME NEW c, pc'[c] \in {"load", "done", "find", "recheck", "qr"}
    PROVE  HoldsOpen(c)' /\ CandidateIsWhole(c)'
BY DEF HoldsOpen, CandidateIsWhole, Writing

LEMMA LocalsStep ==
    ASSUME IInv, LedgerInv, NEW c \in IssueCalls, Step(c)
    PROVE  \A d \in IssueCalls : HoldsOpen(d)' /\ CandidateIsWhole(d)'
<1>. USE IssueConstants
<1>1. /\ session \in Session /\ snap \in [Calls -> Session]
      /\ pc \in [IssueCalls -> Steps] /\ cand \in [IssueCalls -> Reservation]
      /\ activeKey \in Keys
  BY DEF IInv, TypeOK, StoreTypeOK
<1>2. ASSUME NEW d \in IssueCalls, d # c
      PROVE  pc'[d] = pc[d] /\ snap'[d] = snap[d] /\ cand'[d] = cand[d]
  <2>. USE <1>1, <1>2 DEF Goto, KeepLocals, LoadSession, HoldReplaced, DropRecord,
           clientVars, End, Continue, NextAttempt, DidNotConverge
  <2>1. CASE Load(c) BY <2>1 DEF Load, AfterLoad
  <2>2. CASE Find(c) BY <2>2 DEF Find
  <2>3. CASE Adopt(c) BY <2>3 DEF Adopt
  <2>4. CASE MarkValidating(c) BY <2>4 DEF MarkValidating
  <2>5. CASE MarkVerified(c) BY <2>5 DEF MarkVerified
  <2>6. CASE Resolve(c) BY <2>6 DEF Resolve
  <2>7. CASE Reserve(c) BY <2>7 DEF Reserve
  <2>8. CASE Build(c) BY <2>8 DEF Build
  <2>9. CASE Save(c) \/ SaveIndex(c) BY <2>9 DEF Save, SaveIndex
  <2>10. CASE Finish(c) BY <2>10 DEF Finish
  <2>11. CASE Recheck(c) \/ SaveQr(c) BY <2>11 DEF Recheck, SaveQr
  <2>12. CASE Compare(c) BY <2>12 DEF Compare, CompareEtag, issueVars
  <2>. QED
    BY <2>1, <2>2, <2>3, <2>4, <2>5, <2>6, <2>7, <2>8, <2>9, <2>10, <2>11, <2>12
       DEF Step
<1>3. HoldsOpen(c)' /\ CandidateIsWhole(c)'
  <2>1. ASSUME Continue(c) \/ \E code, id : End(c, code, id)
        PROVE  HoldsOpen(c)' /\ CandidateIsWhole(c)'
    BY <1>1, <2>1, RestingHoldsNothing
       DEF Continue, NextAttempt, DidNotConverge, End, Goto
  <2>2. CASE Load(c)
    <3>1. CASE AfterLoad(c) /\ LoadSession(c)
      BY <1>1, <3>1 DEF AfterLoad, LoadSession, Goto, HoldsOpen, CandidateIsWhole,
         Writing, Open
    <3>. QED
      BY <2>1, <2>2, <3>1 DEF Load
  <2>3. CASE Find(c)
    <3>1. CASE Goto(c, "adopt") /\ snap[c].status \in Reserved /\ UNCHANGED clientVars
      BY <1>1, <3>1 DEF Goto, Reserved, HoldsOpen, CandidateIsWhole, Open, clientVars
    <3>2. CASE Goto(c, "build") /\ snap[c].status \in Reserved /\ UNCHANGED clientVars
      BY <1>1, <3>2 DEF Goto, Reserved, HoldsOpen, CandidateIsWhole, Open, clientVars
    <3>. QED
      BY <2>1, <2>3, <3>1, <3>2 DEF Find, Continue
  <2>4. CASE Adopt(c)
    BY <2>1, <2>4 DEF Adopt
  <2>5. CASE MarkValidating(c)
    <3>1. CASE HoldReplaced(c, ValidatingOf(c)) /\ Goto(c, "verified")
      BY <1>1, <3>1 DEF HoldReplaced, ValidatingOf, Goto, HoldsOpen, CandidateIsWhole,
         Open, Session
    <3>. QED
      BY <2>1, <2>5, <3>1 DEF MarkValidating
  <2>6. CASE MarkVerified(c)
    <3>1. CASE HoldReplaced(c, VerifiedOf(c)) /\ Goto(c, "resolve")
      BY <1>1, <3>1 DEF HoldReplaced, VerifiedOf, Goto, HoldsOpen, CandidateIsWhole,
         Open, Session
    <3>. QED
      BY <2>1, <2>6, <3>1 DEF MarkVerified
  <2>7. CASE Resolve(c)
    BY <1>1, <2>7 DEF Resolve, Goto, LedgerInv, HoldsOpen, CandidateIsWhole, Writing,
       clientVars
  <2>8. CASE Reserve(c)
    <3>1. CASE HoldReplaced(c, ReservedOf(c)) /\ Goto(c, "build")
      BY <1>1, <2>8, <3>1 DEF Reserve, HoldReplaced, ReservedOf, Goto, LedgerInv,
         HoldsOpen, CandidateIsWhole, Writing, Open, Session
    <3>. QED
      BY <2>1, <2>8, <3>1 DEF Reserve
  <2>9. CASE Build(c)
    <3>1. CASE Goto(c, "save") /\ UNCHANGED clientVars
      BY <1>1, <2>9, <3>1 DEF Build, Goto, LedgerInv, HoldsOpen, CandidateIsWhole,
         Writing, clientVars
    <3>. QED
      BY <2>1, <2>9, <3>1 DEF Build
  <2>10. CASE Save(c)
    <3>1. CASE (Goto(c, "index") \/ Goto(c, "finish")) /\ UNCHANGED clientVars
      BY <1>1, <2>10, <3>1 DEF Save, Goto, LedgerInv, HoldsOpen, CandidateIsWhole,
         Writing, clientVars
    <3>. QED
      BY <2>1, <2>10, <3>1 DEF Save
  <2>11. CASE SaveIndex(c)
    BY <1>1, <2>11 DEF SaveIndex, Goto, LedgerInv, HoldsOpen, CandidateIsWhole,
       Writing, clientVars
  <2>12. CASE Finish(c) \/ Recheck(c) \/ SaveQr(c)
    BY <1>1, <2>1, <2>12, RestingHoldsNothing DEF Finish, Recheck, SaveQr, Goto
  <2>13. CASE Compare(c)
    BY <2>13 DEF Compare, CompareEtag, issueVars, LedgerInv, HoldsOpen, CandidateIsWhole
  <2>. QED
    BY <2>2, <2>3, <2>4, <2>5, <2>6, <2>7, <2>8, <2>9, <2>10, <2>11, <2>12, <2>13
       DEF Step
<1>. QED
  BY <1>2, <1>3 DEF LedgerInv, HoldsOpen, CandidateIsWhole

LEMMA LedgerInvStep ==
    ASSUME AtomicReplace, IInv, LedgerInv, [Next]_vars
    PROVE  LedgerInv'
<1>. USE IssueConstants
<1>1. /\ pc \in [IssueCalls -> Steps] /\ snap \in [Calls -> Session]
      /\ cand \in [IssueCalls -> Reservation]
  BY DEF IInv, TypeOK, StoreTypeOK
<1>2. ASSUME NEW c \in IssueCalls, Receive(c) \/ Fail(c)
      PROVE  \A d \in IssueCalls : HoldsOpen(d)' /\ CandidateIsWhole(d)'
  BY <1>1, <1>2 DEF Receive, Fail, Goto, DropRecord, clientVars, LedgerInv, HoldsOpen,
     CandidateIsWhole, Writing
<1>3. CASE DeviceReportsFailure \/ MarkFailed \/ RotateKey \/ UNCHANGED vars
  <2>1. UNCHANGED <<pc, snap, cand>>
    BY <1>3 DEF DeviceReportsFailure, MarkFailed, RotateKey, vars, clientVars, issueVars
  <2>. QED
    BY <2>1, ReservationStaysWhole DEF LedgerInv, HoldsOpen, CandidateIsWhole
<1>. QED
  BY <1>2, <1>3, LocalsStep, ReservationStaysWhole DEF LedgerInv, Next

-----------------------------------------------------------------------------
\* The refinement

LEMMA UnseenByLedger ==
    ASSUME UNCHANGED <<session, proofs>>
    PROVE  UNCHANGED Ledger!ledgerVars
BY DEF Ledger!ledgerVars, Phase

\* A write on the session that a request holds is a claim, an announcement, or
\* nothing to the ledger.
LEMMA WriteIsLedgerStep ==
    ASSUME AtomicReplace, IInv, LedgerInv, NEW c \in IssueCalls, Step(c),
           session' # session
    PROVE  Ledger!Claim \/ Ledger!Announce \/ UNCHANGED Ledger!ledgerVars
<1>. USE IssueConstants
<1>1. session \in Session /\ snap[c] \in Session
  BY DEF IInv, TypeOK, StoreTypeOK
<1>2. HoldsOpen(c) /\ CandidateIsWhole(c) /\ \E r \in Reservation : FollowsReservation(c, r)
  BY DEF LedgerInv, IInv, OneReservation
<1>3. ASSUME Writes(c, IssuedOf(c)), pc[c] \in {"adopt", "finish"}, UNCHANGED proofs
      PROVE  Ledger!Announce
  <2>1. /\ session' = [session EXCEPT !.status = "proof_issued"]
        /\ Open(session.status)
    BY <1>2, <1>3 DEF Writes, IssuedOf, HoldsOpen, Writing
  <2>2. proofs # {}
    BY <1>2, <1>3 DEF FollowsReservation, Saved, Building, Stored
  <2>3. Phase = "open" /\ Phase' = "issued"
    BY <1>1, <2>1 DEF Phase, Open, Session
  <2>4. session'.proof = session.proof /\ session'.key = session.key
    BY <1>1, <2>1 DEF Session
  <2>. QED
    BY <1>3, <2>2, <2>3, <2>4 DEF Ledger!Announce
<1>4. ASSUME NEW status \in {"validating", "verified"},
             Writes(c, [snap[c] EXCEPT !.status = status]),
             pc[c] \in {"validating", "verified"}, UNCHANGED proofs
      PROVE  UNCHANGED Ledger!ledgerVars
  <2>1. session' = [session EXCEPT !.status = status] /\ Open(session.status)
    BY <1>2, <1>4 DEF Writes, HoldsOpen, Writing
  <2>2. Phase' = Phase
    BY <1>1, <2>1 DEF Phase, Open, Session
  <2>3. session'.proof = session.proof /\ session'.key = session.key
    BY <1>1, <2>1 DEF Session
  <2>. QED
    BY <1>4, <2>2, <2>3 DEF Ledger!ledgerVars
<1>5. ASSUME Writes(c, ReservedOf(c)), pc[c] = "reserve", UNCHANGED proofs
      PROVE  Ledger!Claim
  <2>1. snap[c] = session /\ session' = ReservedOf(c) /\ Open(session.status)
    BY <1>2, <1>5 DEF Writes, HoldsOpen, Writing
  <2>2. session.proof = NoId /\ session.key = NoKey
    BY <1>2, <1>5, <2>1 DEF FollowsReservation, LedgerInv
  <2>3. /\ session'.proof = cand[c].id /\ session'.key = cand[c].key
        /\ session'.status = session.status
    BY <1>1, <2>1 DEF ReservedOf, Session
  <2>4. Phase = "open" /\ Phase' = "open"
    BY <2>1, <2>3 DEF Phase, Open
  <2>5. cand[c].id \in ProofIds /\ cand[c].key \in Keys
    BY <1>2, <1>5 DEF CandidateIsWhole
  <2>. QED
    BY <1>5, <2>2, <2>3, <2>4, <2>5 DEF Ledger!Claim, Ledger!NoClaim
<1>. QED
  BY <1>3, <1>4, <1>5, StepWrites DEF IssuedOf, ValidatingOf, VerifiedOf

\* A Proof is published under the claim, and only where there is none.
LEMMA SaveIsLedgerStep ==
    ASSUME Backend = "azure", IInv, LedgerInv, NEW c \in IssueCalls, Save(c)
    PROVE  Ledger!Publish \/ UNCHANGED Ledger!ledgerVars
<1>. DEFINE p == built[c]
<1>1. PICK r \in Reservation : OneReservation(r)
  BY DEF IInv
<1>2. /\ p.id = r.id /\ p.key = r.key /\ p.id # NoId /\ p # NoProof
      /\ p \in Proof \cup {NoProof}
  BY <1>1 DEF Save, IInv, TypeOK, OneReservation, FollowsReservation, WorksUnder, Building,
     LocalsAssigned
<1>3. \A q \in proofs : q.id = p.id
  BY <1>1, <1>2 DEF OneReservation
<1>4. CASE ~ProofConflicts(p) /\ WriteProof(p)
  <2>1. proofs' = proofs \cup {p}
    BY <1>4 DEF WriteProof
  <2>2. proofs = {} \/ p \in proofs
    BY <1>3, <1>4 DEF ProofConflicts, Stored
  <2>3. CASE proofs = {}
    <3>1. p = [id |-> p.id, key |-> p.key, manifest |-> p.manifest, salt |-> p.salt]
          /\ p.id \in ProofIds /\ p.key \in Keys \cup {NoKey}
          /\ p.manifest \in Manifests /\ p.salt \in Salts
      BY <1>2 DEF Proof
    <3>2. UNCHANGED session
      BY DEF Save
    <3>3. \/ session.proof = p.id /\ session.key = p.key
          \/ session.proof = NoId /\ session.key = NoKey /\ Phase = "failed"
      BY <1>1, <1>2 DEF OneReservation, Reserves, Dropped, LedgerInv, Phase
    <3>. QED
      BY <2>1, <2>3, <3>1, <3>2, <3>3 DEF Ledger!Publish, Ledger!NoClaim, Phase
  <2>4. CASE p \in proofs
    BY <2>1, <2>4, UnseenByLedger DEF Save
  <2>. QED
    BY <2>2, <2>3, <2>4
<1>. QED
  BY <1>4, UnseenByLedger DEF Save

LEMMA StepIsLedgerStep ==
    ASSUME Backend = "azure", IInv, LedgerInv, [Next]_vars
    PROVE  [Ledger!Next]_(Ledger!ledgerVars)
<1>1. AtomicReplace
  BY DEF AtomicReplace
<1>2. ASSUME NEW c \in IssueCalls, Step(c)
      PROVE  [Ledger!Next]_(Ledger!ledgerVars)
  <2>1. CASE Save(c)
    BY <2>1, SaveIsLedgerStep DEF Ledger!Next
  <2>2. CASE session' # session
    BY <1>1, <1>2, <2>2, WriteIsLedgerStep DEF Ledger!Next
  <2>3. CASE ~Save(c) /\ session' = session
    <3>1. UNCHANGED proofs
      BY <1>2, <2>3 DEF Step, Load, Find, Adopt, MarkValidating, MarkVerified, Resolve,
         Reserve, Build, SaveIndex, Finish, Recheck, SaveQr, Compare, storeVars
    <3>. QED
      BY <2>3, <3>1, UnseenByLedger
  <2>. QED
    BY <2>1, <2>2, <2>3
<1>3. CASE DeviceReportsFailure
  <2>1. session \in Session
    BY DEF IInv, TypeOK, StoreTypeOK
  <2>2. /\ session'.proof = session.proof /\ session'.key = session.key
        /\ session'.status = "failed" /\ session.status # "failed"
        /\ UNCHANGED proofs
    BY <1>3, <2>1 DEF DeviceReportsFailure, Put, Session
  <2>3. Phase' = "failed"
    BY <2>2 DEF Phase
  <2>. QED
    BY <2>2, <2>3 DEF Ledger!Close, Ledger!Next
<1>4. CASE MarkFailed
  <2>1. /\ session'.proof = NoId /\ session'.key = NoKey /\ session'.status = "failed"
        /\ UNCHANGED proofs
    BY <1>4 DEF MarkFailed, FailedCopy, BlankSession, Put
  <2>2. Phase' = "failed"
    BY <2>1 DEF Phase
  <2>. QED
    BY <2>1, <2>2 DEF Ledger!Close, Ledger!NoClaim, Ledger!Next
<1>5. ASSUME \/ \E c \in IssueCalls : Receive(c) \/ Fail(c)
             \/ RotateKey \/ UNCHANGED vars
      PROVE  UNCHANGED Ledger!ledgerVars
  BY <1>5, UnseenByLedger DEF Receive, Fail, RotateKey, vars, storeVars
<1>. QED
  BY <1>2, <1>3, <1>4, <1>5 DEF Next

\* Whatever requests race, crash, take over or are sent again, and whatever
\* replies are lost: what readers find in the store is what ProofLedger
\* promises, for any number of requests, keys and failures.
THEOREM ImplementsLedgerHolds ==
    ASSUME Backend = "azure" PROVE Spec => ImplementsLedger
<1>1. AtomicReplace
  BY DEF AtomicReplace
<1>2. Init => Ledger!Init
  BY DEF Init, StoreInit, BlankSession, Ledger!Init, Ledger!NoClaim, Phase
<1>3. IInv /\ LedgerInv /\ [Next]_vars => LedgerInv'
  BY <1>1, LedgerInvStep
<1>4. IInv /\ LedgerInv /\ [Next]_vars => [Ledger!Next]_(Ledger!ledgerVars)
  BY StepIsLedgerStep
<1>5. Spec => []IInv
  BY <1>1, IInvHolds
<1>. QED
  BY <1>2, <1>3, <1>4, <1>5, LedgerInvInit, PTL DEF Spec, ImplementsLedger, Ledger!Spec

-----------------------------------------------------------------------------
\* The session under a reservation is open until it is decided, once

Decided == ~Open(session.status)

\* Between a reservation and its last write nobody else writes the session
\* but to decide it, ...
UnderReservation == {"find", "adopt", "build", "save", "index", "finish"}

\* ... so a request that finds its record stale, or has made the last write,
\* or was told of an issued Proof, knows that it is decided.
IssueDecided(c) ==
    /\ pc[c] \in UnderReservation /\ ~EtagCurrent(c) => Decided
    /\ pc[c] \in {"recheck", "qr"} => Decided
    /\ answer[c].proof # NoId => Decided

DecidedInv ==
    /\ \A c \in IssueCalls : IssueDecided(c)
    /\ session.proof # NoId => session.key \in Keys

\* What a step of a request makes of the session: nothing; a step towards the
\* reservation; or the decision, on an open session.
NotYetReserved == session.proof = NoId /\ Open(session.status)
Decides ==
    /\ session'.status = "proof_issued" /\ Open(session.status)
    /\ session'.proof = session.proof /\ session'.key = session.key

LEMMA StepDecides ==
    ASSUME AtomicReplace, IInv, LedgerInv, NEW c \in IssueCalls, Step(c)
    PROVE  \/ UNCHANGED <<session, stamp>>
           \/ /\ NotYetReserved
              /\ session'.proof # NoId => session'.key \in Keys
           \/ Decides
<1>. USE IssueConstants
<1>1. /\ session \in Session /\ snap[c] \in Session
      /\ HoldsOpen(c) /\ CandidateIsWhole(c) /\ LocalsAssigned
      /\ \E r \in Reservation : FollowsReservation(c, r)
  BY DEF IInv, TypeOK, StoreTypeOK, LedgerInv, OneReservation
<1>2. ASSUME NEW s, pc[c] \in ReplaceSteps, ReplaceSession(c, s) \/ ReplaceConflicts(c, s)
      PROVE  UNCHANGED <<session, stamp>> \/ (snap[c] = session /\ session' = s)
  BY <1>2, ReplaceIsCurrent, ConflictIsCurrent DEF Put
<1>3. ASSUME pc[c] \in {"adopt", "finish"}, snap[c] = session, session' = IssuedOf(c)
      PROVE  Decides
  BY <1>1, <1>3 DEF IssuedOf, HoldsOpen, Writing, Decides, Session
<1>4. ASSUME NEW status \in {"validating", "verified"}, pc[c] \in {"validating", "verified"},
             snap[c] = session, session' = [snap[c] EXCEPT !.status = status]
      PROVE  NotYetReserved /\ session'.proof = NoId
  BY <1>1, <1>4 DEF HoldsOpen, Writing, FollowsReservation, NotYetReserved, Session
<1>5. ASSUME pc[c] = "reserve", snap[c] = session, session' = ReservedOf(c)
      PROVE  NotYetReserved /\ session'.key \in Keys
  BY <1>1, <1>5 DEF HoldsOpen, Writing, FollowsReservation, CandidateIsWhole, ReservedOf,
     NotYetReserved, Session
<1>6. CASE Adopt(c) \/ Finish(c)
  BY <1>2, <1>3, <1>6 DEF Adopt, Finish, ReplaceSteps
<1>7. CASE MarkValidating(c) \/ MarkVerified(c)
  BY <1>2, <1>4, <1>7 DEF MarkValidating, MarkVerified, ReplaceSteps, ValidatingOf,
     VerifiedOf
<1>8. CASE Reserve(c)
  BY <1>2, <1>5, <1>8 DEF Reserve, ReplaceSteps
<1>9. CASE \/ Load(c) \/ Find(c) \/ Resolve(c) \/ Build(c) \/ Save(c) \/ SaveIndex(c)
           \/ Recheck(c) \/ SaveQr(c) \/ Compare(c)
  BY <1>9 DEF Load, Find, Resolve, Build, Save, SaveIndex, Recheck, SaveQr, Compare,
     storeVars
<1>. QED
  BY <1>6, <1>7, <1>8, <1>9 DEF Step

\* What any step of issue_proof leaves as it is, once it is so.
StoreMoves ==
    /\ session.proof # NoId =>
         (session'.proof = session.proof /\ session'.key = session.key) \/ Dropped'
    /\ session'.proof # NoId => session.proof # NoId \/ session'.key \in Keys
    /\ Dropped => Dropped'
    /\ Decided => Decided'
    /\ session.status = "failed" => session'.status = "failed"
    /\ manifest' = manifest
    /\ \A id : Stored(id) => Stored(id)'

LEMMA NextMoves ==
    ASSUME AtomicReplace, IInv, LedgerInv, [Next]_vars
    PROVE  StoreMoves
<1>1. session \in Session
  BY DEF IInv, TypeOK, StoreTypeOK
<1>2. manifest' = manifest
  BY DEF Next, Receive, Fail, Step, Load, Find, Adopt, MarkValidating, MarkVerified,
     Resolve, Reserve, Build, Save, SaveIndex, Finish, Recheck, SaveQr, Compare,
     DeviceReportsFailure, MarkFailed, RotateKey, vars, storeVars
<1>3. ASSUME NEW c \in IssueCalls, Step(c)
      PROVE  /\ session.proof # NoId => session'.proof = session.proof /\ session'.key = session.key
             /\ session'.proof # NoId => session.proof # NoId \/ session'.key \in Keys
             /\ Decided => Decided'
             /\ session.status = "failed" => session'.status = "failed"
             /\ Dropped => Dropped'
  BY <1>3, StepDecides DEF NotYetReserved, Decides, Decided, Open, Dropped
<1>4. CASE DeviceReportsFailure
  BY <1>1, <1>2, <1>4, RecordsStay DEF DeviceReportsFailure, Put, Session, Decided, Open,
     Dropped, StoreMoves
<1>5. CASE MarkFailed
  BY <1>2, <1>5, RecordsStay DEF MarkFailed, FailedCopy, BlankSession, Put, Decided, Open,
     Dropped, StoreMoves
<1>6. ASSUME \/ \E c \in IssueCalls : Receive(c) \/ Fail(c)
             \/ RotateKey \/ UNCHANGED vars
      PROVE  UNCHANGED session
  BY <1>6 DEF Receive, Fail, RotateKey, vars, storeVars
<1>. QED
  BY <1>2, <1>3, <1>4, <1>5, <1>6, RecordsStay DEF Next, StoreMoves, Decided, Dropped

\* A request that waits keeps its part: a stale record means a decision.
LEMMA OthersDecided ==
    ASSUME AtomicReplace, IInv, LedgerInv, DecidedInv, [Next]_vars, NEW d \in IssueCalls,
           pc'[d] = pc[d], answer'[d] = answer[d], snap'[d] = snap[d], etag'[d] = etag[d]
    PROVE  IssueDecided(d)'
<1>1. IssueDecided(d) /\ (Decided => Decided')
  BY NextMoves DEF StoreMoves, DecidedInv
<1>2. ASSUME pc[d] \in UnderReservation PROVE session.proof # NoId \/ Decided
  BY <1>2 DEF IInv, OneReservation, FollowsReservation, WorksUnder, UnderReservation,
     Reserves, Dropped, Decided, Open
<1>3. UNCHANGED <<session, stamp>> \/ session.proof = NoId \/ Decided'
  <2>1. ASSUME NEW c \in IssueCalls, Step(c)
        PROVE  UNCHANGED <<session, stamp>> \/ session.proof = NoId \/ Decided'
    BY <2>1, StepDecides DEF NotYetReserved, Decides, Decided, Open
  <2>2. CASE DeviceReportsFailure
    <3>1. session \in Session
      BY DEF IInv, TypeOK, StoreTypeOK
    <3>. QED
      BY <2>2, <3>1 DEF DeviceReportsFailure, Put, Session, Decided, Open
  <2>3. CASE MarkFailed
    BY <2>3 DEF MarkFailed, FailedCopy, BlankSession, Put, Decided, Open
  <2>4. ASSUME \/ \E c \in IssueCalls : Receive(c) \/ Fail(c)
               \/ RotateKey \/ UNCHANGED vars
        PROVE  UNCHANGED <<session, stamp>>
    BY <2>4 DEF Receive, Fail, RotateKey, vars, storeVars
  <2>. QED
    BY <2>1, <2>2, <2>3, <2>4 DEF Next
<1>4. ASSUME pc'[d] \in UnderReservation, ~EtagCurrent(d)'
      PROVE  Decided'
  BY <1>1, <1>2, <1>3, <1>4 DEF IssueDecided, EtagCurrent
<1>. QED
  BY <1>1, <1>4 DEF IssueDecided

\* A request that ends without naming a Proof, or tries again, knows no more.
LEMMA UnansweredDecided ==
    ASSUME TypeInv, NEW c \in IssueCalls, IssueDecided(c), Decided => Decided',
           Continue(c) \/ \E code : End(c, code, NoId)
    PROVE  IssueDecided(c)'
BY DEF TypeInv, LocalTypes, Continue, NextAttempt, DidNotConverge, End, Goto, IssueDecided,
   UnderReservation

LEMMA StepDecided ==
    ASSUME AtomicReplace, IInv, LedgerInv, DecidedInv, NEW c \in IssueCalls, Step(c)
    PROVE  IssueDecided(c)'
<1>. USE IssueConstants
<1>1. /\ IssueDecided(c) /\ (Decided => Decided') /\ TypeInv
      /\ pc \in [IssueCalls -> Steps] /\ snap \in [Calls -> Session]
      /\ etag \in [Calls -> Nat] /\ session \in Session
      /\ answer \in [IssueCalls -> [code : Codes, proof : ProofIds \cup {NoId}]]
  BY NextMoves, IInvSplits DEF Next, StoreMoves, DecidedInv, TypeInv, LocalTypes, StoreTypes
<1>2. ASSUME pc'[c] \notin UnderReservation \cup {"recheck", "qr"}, UNCHANGED answer
      PROVE  IssueDecided(c)'
  BY <1>1, <1>2 DEF IssueDecided
<1>3. ASSUME pc[c] \in UnderReservation, pc'[c] \in UnderReservation,
             UNCHANGED <<session, stamp, clientVars, answer>>
      PROVE  IssueDecided(c)'
  BY <1>1, <1>3 DEF IssueDecided, EtagCurrent, clientVars, UnderReservation, Decided
<1>4. ASSUME EtagCurrent(c)', pc'[c] \notin {"recheck", "qr"}, UNCHANGED answer
      PROVE  IssueDecided(c)'
  BY <1>1, <1>4 DEF IssueDecided
<1>5. ASSUME Decided' PROVE IssueDecided(c)'
  BY <1>5 DEF IssueDecided
<1>6. ASSUME NEW s, HoldReplaced(c, s), Put(s) PROVE EtagCurrent(c)'
  BY <1>1, <1>6 DEF HoldReplaced, Put, EtagCurrent
<1>7. ASSUME pc[c] \in {"adopt", "finish"},
             ReplaceSession(c, IssuedOf(c)) \/ ReplaceConflicts(c, IssuedOf(c))
      PROVE  Decided'
  <2>1. ASSUME Put(IssuedOf(c)) PROVE Decided'
    BY <1>1, <2>1 DEF Put, IssuedOf, Session, Decided, Open
  <2>2. CASE ~EtagCurrent(c) /\ UNCHANGED <<session, stamp>>
    BY <1>1, <1>7, <2>2 DEF IssueDecided, UnderReservation
  <2>. QED
    BY <1>7, <2>1, <2>2 DEF ReplaceSession, ReplaceConflicts
<1>8. CASE Load(c)
  <2>1. CASE AfterLoad(c) /\ LoadSession(c) /\ KeepLocals
    <3>1. EtagCurrent(c)' /\ pc'[c] \in {"find", "validating", "resolve"}
      BY <1>1, <1>8, <2>1 DEF Load, storeVars, AfterLoad, LoadSession, Goto, EtagCurrent
    <3>. QED
      BY <1>4, <2>1, <3>1 DEF KeepLocals
  <2>. QED
    BY <1>1, <1>8, <2>1, UnansweredDecided DEF Load
<1>9. CASE Find(c)
  <2>1. CASE (Goto(c, "adopt") \/ Goto(c, "build")) /\ UNCHANGED <<clientVars, answer>>
    BY <1>1, <1>3, <1>9, <2>1 DEF Find, Goto, storeVars, UnderReservation
  <2>2. CASE snap[c].status = "proof_issued"
    <3>1. Coherent(c)
      BY DEF IInv
    <3>2. Decided
      BY <1>1, <1>9, <2>2, <3>1 DEF Find, IssueDecided, UnderReservation, Coherent, Holding,
         Decided, Open
    <3>. QED
      BY <1>1, <1>5, <3>2
  <2>. QED
    BY <1>1, <1>9, <2>1, <2>2, UnansweredDecided DEF Find, Continue, KeepLocals
<1>10. CASE Adopt(c)
  BY <1>5, <1>7, <1>10 DEF Adopt
<1>11. CASE MarkValidating(c) \/ MarkVerified(c)
  <2>1. CASE (Goto(c, "verified") \/ Goto(c, "resolve")) /\ KeepLocals
    BY <1>1, <1>2, <2>1 DEF Goto, KeepLocals, UnderReservation
  <2>. QED
    BY <1>1, <1>11, <2>1, UnansweredDecided DEF MarkValidating, MarkVerified
<1>12. CASE Resolve(c)
  BY <1>1, <1>2, <1>12 DEF Resolve, Goto, UnderReservation
<1>13. CASE Reserve(c)
  <2>1. CASE /\ ReplaceSession(c, ReservedOf(c)) /\ HoldReplaced(c, ReservedOf(c))
             /\ Goto(c, "build") /\ KeepLocals
    BY <1>1, <1>4, <1>6, <2>1 DEF ReplaceSession, Goto, KeepLocals
  <2>. QED
    BY <1>1, <1>13, <2>1, UnansweredDecided DEF Reserve
<1>14. CASE Build(c)
  <2>1. CASE Goto(c, "save") /\ UNCHANGED <<clientVars, answer>>
    BY <1>1, <1>3, <1>14, <2>1 DEF Build, Goto, storeVars, UnderReservation
  <2>. QED
    BY <1>1, <1>14, <2>1, UnansweredDecided DEF Build
<1>15. CASE Save(c)
  <2>1. CASE (Goto(c, "index") \/ Goto(c, "finish")) /\ UNCHANGED <<clientVars, answer>>
    BY <1>1, <1>3, <1>15, <2>1 DEF Save, Goto, UnderReservation
  <2>2. CASE End(c, "ERR_PROOF_CONFLICT", NoId)
    BY <1>1, <2>2, UnansweredDecided
  <2>. QED
    BY <1>15, <2>1, <2>2 DEF Save, KeepLocals
<1>16. CASE SaveIndex(c)
  BY <1>1, <1>3, <1>16 DEF SaveIndex, Goto, KeepLocals, UnderReservation
<1>17. CASE Finish(c)
  BY <1>5, <1>7, <1>17 DEF Finish
<1>18. CASE Recheck(c)
  BY <1>1, <1>5, <1>18 DEF Recheck, IssueDecided
<1>19. CASE SaveQr(c)
  BY <1>1, <1>5, <1>19 DEF SaveQr, IssueDecided
<1>20. CASE Compare(c)
  BY <1>20 DEF Compare, CompareEtag
<1>. QED
  BY <1>8, <1>9, <1>10, <1>11, <1>12, <1>13, <1>14, <1>15, <1>16, <1>17, <1>18, <1>19,
     <1>20 DEF Step

LEMMA DecidedStep ==
    ASSUME AtomicReplace, IInv, LedgerInv, DecidedInv, [Next]_vars
    PROVE  DecidedInv'
<1>1. TypeInv
  BY IInvSplits
<1>2. ASSUME NEW d \in IssueCalls PROVE IssueDecided(d)'
  <2>1. CASE DeviceReportsFailure \/ MarkFailed \/ RotateKey \/ UNCHANGED vars
    BY <2>1, OthersDecided DEF DeviceReportsFailure, MarkFailed, RotateKey, vars, clientVars, issueVars
  <2>2. CASE Receive(d) \/ Fail(d)
    BY <1>1, <2>2, NextMoves DEF TypeInv, LocalTypes, Receive, Fail, Goto, NoAnswer,
       IssueDecided, UnderReservation
  <2>3. ASSUME NEW c \in IssueCalls, c # d, Receive(c) \/ Step(c) \/ Fail(c)
        PROVE  IssueDecided(d)'
    BY <1>1, <2>3, OthersHold, OthersDecided
  <2>. QED
    BY <2>1, <2>2, <2>3, StepDecided DEF Next
<1>. QED
  BY <1>2, NextMoves DEF DecidedInv, StoreMoves, Dropped

-----------------------------------------------------------------------------
\* What a reader has read, and how it may have become stale

\* Steps of a reader that has read the Proof, the session, ...
HasProof == {"session", "manifest", "device", "media", "judge"}
HasSession == HasProof \ {"session"}
HasManifest == HasSession \ {"manifest"}
HasDevice == HasManifest \ {"device"}

ProofSeen(r) ==
    rpc[r] \in HasProof =>
        /\ Stored(asked[r])
        /\ seen[r].proof.key = session.key \/ Dropped
        /\ seen[r].proof.manifest = manifest

\* A session that was decided when it was read is decided still.
SessionSeen(r) ==
    rpc[r] \in HasSession =>
        /\ seen[r].session.proof = asked[r] \/ seen[r].session.status = "failed"
        /\ told[r] => ~Open(seen[r].session.status)
        /\ seen[r].session.status = "proof_issued" => Decided
        /\ seen[r].session.status = "failed" => session.status = "failed"

WorldSeen(r) ==
    /\ rpc[r] \in HasManifest => seen[r].manifest = manifest
    /\ rpc[r] \in HasDevice /\ seen[r].device = "failed" => device = "disabled"
    /\ rpc[r] = "judge" =>
         /\ seen[r].media = "failed" => media = "altered"
         /\ seen[r].media = "passed" => Backend = "azure"

\* What excuses an INVALID.
Spoilt ==
    \/ session.status = "failed" \/ device = "disabled" \/ media = "altered"
    \/ Signer = "stub" /\ \E j, k \in Keys : j # k

Answered(r) ==
    /\ verdict[r] # "none" => rpc[r] = "done"
    /\ verdict[r] = "not_found" => ~told[r]
    /\ verdict[r] = "INVALID" /\ told[r] => Spoilt
    /\ verdict[r] = "VALID" =>
         Signer = "key_vault" /\ Backend = "azure" /\ Decided /\ Stored(asked[r])

ReaderInv(r) ==
    /\ rpc[r] # "idle" => asked[r] # NoId /\ (asked[r] = session.proof \/ Dropped)
    /\ told[r] => rpc[r] # "idle" /\ Stored(asked[r]) /\ Decided
    /\ ProofSeen(r) /\ SessionSeen(r) /\ WorldSeen(r)
    /\ Answered(r)

VerifyInv ==
    /\ IInv /\ LedgerInv /\ ServedInv /\ DecidedInv
    /\ ReaderTypeOK
    /\ \A r \in Readers : ReaderInv(r)

-----------------------------------------------------------------------------
\* Types of the readers

LEMMA ReaderTypeInit == ASSUME VerifyInit PROVE ReaderTypeOK
<1>1. NothingSeen \in Reading
  BY EmptyLocals DEF NothingSeen, Reading, Checks
<1>. QED
  BY <1>1 DEF VerifyInit, ReaderTypeOK, ReaderSteps, Verdicts

LEMMA ReaderTypeStep ==
    ASSUME TypeInv, ReaderTypeOK, [VerifyNext]_allVars
    PROVE  ReaderTypeOK'
<1>. USE DEF ReaderTypeOK, readerVars, worldVars, ReaderGoto, ReaderEnds, ReaderSteps
<1>1. session \in Session /\ manifest \in Manifests \cup {NoManifest} /\ proofs \subseteq Proof
  BY DEF TypeInv, StoreTypes
<1>2. NothingSeen \in Reading
  BY EmptyLocals DEF NothingSeen, Reading, Checks
<1>3. ASSUME NEW r \in Readers, Ask(r) PROVE ReaderTypeOK'
  <2>1. told' \in [Readers -> BOOLEAN]
    BY <1>3 DEF Ask, Announced
  <2>2. asked' \in [Readers -> ProofIds \cup {NoId}]
    BY <1>3 DEF Ask
  <2>. QED
    BY <1>2, <1>3, <2>1, <2>2 DEF Ask, Verdicts
<1>4. ASSUME NEW r \in Readers, ReadPage(r) PROVE ReaderTypeOK'
  BY <1>4 DEF ReadPage, Verdicts
<1>5. ASSUME NEW r \in Readers, ReadProof(r) PROVE ReaderTypeOK'
  <2>1. ASSUME Stored(asked[r]) PROVE StoredProof(asked[r]) \in Proof
    BY <1>1, <2>1 DEF Stored, StoredProof
  <2>2. seen' \in [Readers -> Reading]
    BY <1>5, <2>1 DEF ReadProof, Reading
  <2>. QED
    BY <1>5, <2>2 DEF ReadProof, Verdicts
<1>6. ASSUME NEW r \in Readers, ReadSession(r) PROVE ReaderTypeOK'
  BY <1>1, <1>6 DEF ReadSession, Sees, Reading
<1>7. ASSUME NEW r \in Readers, ReadManifest(r) PROVE ReaderTypeOK'
  BY <1>1, <1>7 DEF ReadManifest, Sees, Reading
<1>8. ASSUME NEW r \in Readers, ReadDevice(r) PROVE ReaderTypeOK'
  <2>1. PICK found \in Checks : seen' = [seen EXCEPT ![r].device = found]
    BY <1>8 DEF ReadDevice, Checks
  <2>2. seen' \in [Readers -> Reading]
    BY <2>1 DEF Reading
  <2>. QED
    BY <1>8, <2>2 DEF ReadDevice, Sees
<1>9. ASSUME NEW r \in Readers, ReadMedia(r) PROVE ReaderTypeOK'
  <2>1. PICK found \in Checks : seen' = [seen EXCEPT ![r].media = found]
    BY <1>9 DEF ReadMedia, Checks
  <2>2. seen' \in [Readers -> Reading]
    BY <2>1 DEF Reading
  <2>. QED
    BY <1>9, <2>2 DEF ReadMedia, Sees
<1>10. ASSUME NEW r \in Readers, Judge(r) PROVE ReaderTypeOK'
  BY <1>2, <1>10 DEF Judge, StatusOf, Verdicts
<1>11. CASE \/ Next /\ UNCHANGED <<readerVars, worldVars>>
            \/ ShowQr \/ DisableDevice \/ AlterMedia \/ UNCHANGED allVars
  BY <1>11 DEF ShowQr, DisableDevice, AlterMedia, allVars
<1>. QED
  BY <1>3, <1>4, <1>5, <1>6, <1>7, <1>8, <1>9, <1>10, <1>11 DEF VerifyNext, Read

-----------------------------------------------------------------------------
\* What a reader knows stays true while others work ...

LEMMA WaitingReader ==
    ASSUME StoreMoves, NEW r \in Readers, ReaderInv(r),
           rpc'[r] = rpc[r], asked'[r] = asked[r], told'[r] = told[r],
           seen'[r] = seen[r], verdict'[r] = verdict[r],
           device = "disabled" => device' = "disabled",
           media = "altered" => media' = "altered"
    PROVE  ReaderInv(r)'
<1>1. rpc[r] # "idle" =>
        /\ asked[r] # NoId
        /\ Dropped' \/ (/\ ~Dropped /\ asked[r] = session.proof
                        /\ session'.proof = session.proof /\ session'.key = session.key)
  BY DEF ReaderInv, StoreMoves
<1>2. /\ ProofSeen(r)' /\ SessionSeen(r)' /\ WorldSeen(r)'
  BY <1>1 DEF ReaderInv, StoreMoves, ProofSeen, SessionSeen, WorldSeen, HasProof,
     HasSession, HasManifest, HasDevice
<1>3. Spoilt => Spoilt'
  BY DEF Spoilt, StoreMoves
<1>4. Answered(r)'
  BY <1>3 DEF ReaderInv, StoreMoves, Answered
<1>. QED
  BY <1>1, <1>2, <1>4 DEF ReaderInv, StoreMoves

\* ... and its own reads add to it.  Whoever was told of the Proof asks for
\* one that is stored, of a session that is decided.
LEMMA AskStep ==
    ASSUME VerifyInv, NEW r \in Readers, Ask(r)
    PROVE  ReaderInv(r)'
<1>. USE DEF VerifyInv, ReaderTypeOK
<1>1. PICK id \in ProofIds : /\ Known(id)
                             /\ asked' = [asked EXCEPT ![r] = id]
                             /\ told' = [told EXCEPT ![r] = Announced(id)]
  BY DEF Ask
<1>2. /\ rpc'[r] \in {"page", "proof"} /\ asked'[r] = id
      /\ told'[r] = Announced(id) /\ verdict'[r] = "none" /\ id # NoId
  BY <1>1, StoreConstants DEF Ask, ReaderGoto
<1>3. UNCHANGED <<session, proofs>>
  BY DEF Ask, vars, storeVars
<1>4. id = session.proof \/ Dropped
  BY <1>1 DEF Known, Stored, IInv, ProofMatchesReservation, Reserves
<1>5. Announced(id) => Stored(id) /\ Decided
  <2>1. ASSUME NEW c \in IssueCalls, answer[c].proof = id
        PROVE  Stored(id) /\ Decided
    BY <1>2, <2>1 DEF IInv, AnswerIsFinal, AnswerStandsFor, DecidedInv, IssueDecided
  <2>2. ASSUME session.status = "proof_issued", session.proof = id
        PROVE  Stored(id) /\ Decided
    BY <2>2 DEF IInv, IssuedIsStored, Decided, Open
  <2>. QED
    BY <2>1, <2>2 DEF Announced
<1>6. ProofSeen(r)' /\ SessionSeen(r)' /\ WorldSeen(r)' /\ Answered(r)'
  BY <1>2 DEF ProofSeen, SessionSeen, WorldSeen, Answered, HasProof, HasSession,
     HasManifest, HasDevice
<1>7. told'[r] => rpc'[r] # "idle" /\ Stored(asked[r])' /\ Decided'
  BY <1>2, <1>3, <1>5 DEF Stored, Decided
<1>. QED
  BY <1>2, <1>3, <1>4, <1>6, <1>7 DEF ReaderInv, Dropped

LEMMA ReadStep ==
    ASSUME VerifyInv, NEW r \in Readers, Read(r)
    PROVE  ReaderInv(r)'
<1>. USE DEF ReaderTypeOK, Reading
<1>1. /\ ReaderInv(r) /\ UNCHANGED <<vars, asked, told, worldVars>>
      /\ rpc \in [Readers -> ReaderSteps] /\ seen \in [Readers -> Reading]
      /\ verdict \in [Readers -> Verdicts]
  BY DEF VerifyInv, Read, ReadPage, ReadProof, ReadSession, ReadManifest, ReadDevice,
     ReadMedia, Judge, Sees
<1>2. UNCHANGED <<session, manifest, proofs, device, media, asked, told>>
  BY <1>1 DEF vars, storeVars, worldVars
<1>3. rpc[r] # "idle" /\ rpc[r] # "done" /\ rpc'[r] # "idle"
  BY <1>1 DEF Read, ReadPage, ReadProof, ReadSession, ReadManifest, ReadDevice, ReadMedia,
     Judge, Sees, ReaderGoto, ReaderEnds
<1>4. /\ rpc'[r] # "idle" => asked'[r] # NoId /\ (asked'[r] = session'.proof \/ Dropped')
      /\ told'[r] => rpc'[r] # "idle" /\ Stored(asked[r])' /\ Decided'
  BY <1>1, <1>2, <1>3 DEF ReaderInv, Stored, Decided, Dropped
<1>5. verdict[r] = "none"
  BY <1>1, <1>3 DEF ReaderInv, Answered
<1>6. ASSUME ReaderEnds(r, "not_found"), ~Stored(asked[r]) PROVE ReaderInv(r)'
  <2>1. rpc'[r] = "done" /\ verdict'[r] = "not_found" /\ ~told[r]
    BY <1>1, <1>6 DEF ReaderEnds, ReaderGoto, Verdicts, ReaderInv
  <2>2. ProofSeen(r)' /\ SessionSeen(r)' /\ WorldSeen(r)' /\ Answered(r)'
    BY <1>2, <2>1 DEF ProofSeen, SessionSeen, WorldSeen, Answered, HasProof, HasSession,
       HasManifest, HasDevice
  <2>. QED
    BY <1>4, <2>2 DEF ReaderInv
<1>7. ASSUME UNCHANGED verdict, ProofSeen(r)', SessionSeen(r)', WorldSeen(r)'
      PROVE  ReaderInv(r)'
  BY <1>4, <1>5, <1>7 DEF ReaderInv, Answered
<1>8. CASE ReadPage(r)
  <2>1. CASE ReaderGoto(r, "proof") /\ UNCHANGED verdict
    BY <1>1, <1>7, <2>1 DEF ReaderGoto, ProofSeen, SessionSeen, WorldSeen, HasProof,
       HasSession, HasManifest, HasDevice
  <2>. QED
    BY <1>6, <1>8, <2>1 DEF ReadPage
<1>9. CASE ReadProof(r)
  <2>1. CASE /\ Stored(asked[r]) /\ ReaderGoto(r, "session") /\ UNCHANGED verdict
             /\ seen' = [seen EXCEPT ![r].proof = StoredProof(asked[r])]
    <3>1. StoredProof(asked[r]) \in proofs
      BY <2>1 DEF Stored, StoredProof
    <3>2. /\ StoredProof(asked[r]).key = session.key \/ Dropped
          /\ StoredProof(asked[r]).manifest = manifest
      BY <3>1 DEF VerifyInv, IInv, ProofMatchesReservation, Reserves
    <3>3. rpc'[r] = "session" /\ seen'[r].proof = StoredProof(asked[r])
      BY <1>1, <2>1 DEF ReaderGoto
    <3>4. ProofSeen(r)'
      BY <1>2, <2>1, <3>2, <3>3 DEF ProofSeen, Stored, Dropped
    <3>. QED
      BY <1>7, <2>1, <3>3, <3>4 DEF SessionSeen, WorldSeen, HasProof, HasSession,
         HasManifest, HasDevice
  <2>. QED
    BY <1>6, <1>9, <2>1 DEF ReadProof
<1>10. CASE ReadSession(r)
  <2>1. /\ rpc[r] = "session" /\ rpc'[r] = "manifest" /\ UNCHANGED verdict
        /\ seen'[r].session = session /\ seen'[r].proof = seen[r].proof
    BY <1>1, <1>10 DEF ReadSession, Sees, ReaderGoto
  <2>2. ProofSeen(r)'
    BY <1>1, <1>2, <2>1 DEF ReaderInv, ProofSeen, HasProof, Stored, Dropped
  <2>3. SessionSeen(r)'
    BY <1>1, <1>2, <2>1 DEF ReaderInv, SessionSeen, Decided, Open, Dropped
  <2>. QED
    BY <1>7, <2>1, <2>2, <2>3 DEF WorldSeen, HasManifest, HasSession, HasProof, HasDevice
<1>11. CASE ReadManifest(r)
  <2>1. /\ rpc[r] = "manifest" /\ rpc'[r] = "device" /\ UNCHANGED verdict
        /\ seen'[r].session = seen[r].session /\ seen'[r].proof = seen[r].proof
        /\ seen'[r].manifest = manifest
    BY <1>1, <1>11 DEF ReadManifest, Sees, ReaderGoto
  <2>2. ProofSeen(r)' /\ SessionSeen(r)'
    BY <1>1, <1>2, <2>1 DEF ReaderInv, ProofSeen, SessionSeen, HasProof, HasSession,
       Stored, Decided, Dropped
  <2>. QED
    BY <1>2, <1>7, <2>1, <2>2 DEF WorldSeen, HasDevice, HasManifest, HasSession, HasProof
<1>12. CASE ReadDevice(r)
  <2>1. /\ rpc[r] = "device" /\ rpc'[r] = "media" /\ UNCHANGED verdict
        /\ seen'[r].session = seen[r].session /\ seen'[r].proof = seen[r].proof
        /\ seen'[r].manifest = seen[r].manifest
        /\ seen'[r].device = IF device = "active" THEN "passed" ELSE "failed"
    BY <1>1, <1>12 DEF ReadDevice, Sees, ReaderGoto
  <2>2. ProofSeen(r)' /\ SessionSeen(r)'
    BY <1>1, <1>2, <2>1 DEF ReaderInv, ProofSeen, SessionSeen, HasProof, HasSession,
       Stored, Decided, Dropped
  <2>3. device \in {"active", "disabled"}
    BY DEF VerifyInv
  <2>4. WorldSeen(r)'
    BY <1>1, <1>2, <2>1, <2>3 DEF ReaderInv, WorldSeen, HasManifest, HasSession, HasProof
  <2>. QED
    BY <1>7, <2>1, <2>2, <2>4
<1>13. CASE ReadMedia(r)
  <2>1. /\ rpc[r] = "media" /\ rpc'[r] = "judge" /\ UNCHANGED verdict
        /\ seen'[r].session = seen[r].session /\ seen'[r].proof = seen[r].proof
        /\ seen'[r].manifest = seen[r].manifest /\ seen'[r].device = seen[r].device
        /\ seen'[r].media = "passed" => Backend = "azure"
        /\ seen'[r].media = "failed" => media = "altered"
    BY <1>1, <1>13 DEF ReadMedia, Sees, ReaderGoto
  <2>2. ProofSeen(r)' /\ SessionSeen(r)'
    BY <1>1, <1>2, <2>1 DEF ReaderInv, ProofSeen, SessionSeen, HasProof, HasSession,
       Stored, Decided, Dropped
  <2>3. WorldSeen(r)'
    BY <1>1, <1>2, <2>1 DEF ReaderInv, WorldSeen, HasManifest, HasSession, HasProof,
       HasDevice
  <2>. QED
    BY <1>7, <2>1, <2>2, <2>3
<1>14. CASE Judge(r)
  <2>1. PICK signature \in Signature(r) :
          ReaderEnds(r, StatusOf({ProofIdentity(r), ManifestHash(r), signature,
                                  seen[r].device, seen[r].media}))
    BY <1>14 DEF Judge
  <2>. DEFINE checks == {ProofIdentity(r), ManifestHash(r), signature,
                         seen[r].device, seen[r].media}
  <2>2. rpc[r] = "judge" /\ rpc'[r] = "done" /\ verdict'[r] = StatusOf(checks)
    BY <1>1, <1>14, <2>1 DEF Judge, ReaderEnds, ReaderGoto
  <2>3. /\ Stored(asked[r]) /\ (seen[r].proof.key = session.key \/ Dropped)
        /\ seen[r].proof.manifest = manifest /\ seen[r].manifest = manifest
        /\ seen[r].session.proof = asked[r] \/ seen[r].session.status = "failed"
        /\ told[r] => ~Open(seen[r].session.status)
        /\ seen[r].session.status = "proof_issued" => Decided
        /\ seen[r].session.status = "failed" => session.status = "failed"
    BY <1>1, <2>2 DEF ReaderInv, ProofSeen, SessionSeen, WorldSeen, HasProof, HasSession,
       HasManifest
  <2>4. /\ seen[r].device = "failed" => device = "disabled"
        /\ seen[r].media = "failed" => media = "altered"
        /\ seen[r].media = "passed" => Backend = "azure"
        /\ seen[r].media \in Checks
    BY <1>1, <2>2 DEF ReaderInv, WorldSeen, HasDevice, HasManifest, HasSession, HasProof
  <2>5. ManifestHash(r) = "passed"
    BY <2>3 DEF ManifestHash, Passed
  <2>6. /\ ProofIdentity(r) = "failed" => seen[r].session.status # "proof_issued"
        /\ ProofIdentity(r) # "failed" => seen[r].session.status = "proof_issued"
    BY <2>3 DEF ProofIdentity, Passed
  <2>7. ASSUME signature = "failed"
        PROVE  session.status = "failed" \/ (Signer = "stub" /\ \E j, k \in Keys : j # k)
    <3>1. Signer = "stub" /\ (session.key # activeKey \/ Dropped)
      BY <2>3, <2>7 DEF Signature, Passed
    <3>2. activeKey \in Keys /\ (session.key \in Keys \/ Dropped)
      BY <1>1, <1>3 DEF ReaderInv, VerifyInv, DecidedInv, IInv, TypeOK
    <3>. QED
      BY <3>1, <3>2 DEF Dropped
  <2>8. ASSUME verdict'[r] = "INVALID", told[r] PROVE Spoilt'
    <3>1. "failed" \in checks
      BY <2>2, <2>8 DEF StatusOf
    <3>2. CASE ProofIdentity(r) = "failed"
      BY <1>2, <2>3, <2>6, <2>8, <3>2 DEF Open, Spoilt
    <3>. QED
      BY <1>2, <2>4, <2>5, <2>7, <3>1, <3>2 DEF Spoilt
  <2>9. ASSUME verdict'[r] = "VALID"
        PROVE  Signer = "key_vault" /\ Backend = "azure" /\ Decided /\ Stored(asked[r])
    <3>1. "failed" \notin checks /\ "unknown" \notin checks /\ Signer # "stub"
      BY <2>2, <2>9 DEF StatusOf
    <3>. QED
      BY <2>3, <2>4, <2>6, <3>1, IssueConstants DEF Checks
  <2>10. Answered(r)'
    BY <1>2, <2>2, <2>8, <2>9 DEF Answered, StatusOf, Stored, Decided
  <2>11. ProofSeen(r)' /\ SessionSeen(r)' /\ WorldSeen(r)'
    BY <2>2 DEF ProofSeen, SessionSeen, WorldSeen, HasProof, HasSession, HasManifest,
       HasDevice
  <2>. QED
    BY <1>4, <2>10, <2>11 DEF ReaderInv
<1>. QED
  BY <1>8, <1>9, <1>10, <1>11, <1>12, <1>13, <1>14 DEF Read

-----------------------------------------------------------------------------
\* The invariant

\* An image made on demand is all that get_proof_qr adds to the store.
LEMMA ShowQrKeeps ==
    ASSUME IInv, LedgerInv, ServedInv, DecidedInv, ShowQr
    PROVE  IInv' /\ LedgerInv' /\ ServedInv' /\ DecidedInv' /\ StoreMoves
<1>0. PICK p \in proofs : qr' = qr \cup {p.id}
  BY DEF ShowQr
<1>1. /\ UNCHANGED <<session, stamp, manifest, proofs, proofIndex>>
      /\ UNCHANGED <<snap, etag, armed, pc, attempt, cand, built, answer, activeKey, failures>>
      /\ qr' = qr \cup {p.id} /\ Stored(p.id)
  BY <1>0 DEF ShowQr, clientVars, issueVars, Stored
<1>2. qr' \subseteq ProofIds
  BY <1>1 DEF IInv, TypeOK, StoreTypeOK, Proof
<1>3. TypeOK' /\ LocalsAssigned'
  BY <1>1, <1>2 DEF IInv, TypeOK, StoreTypeOK, LocalsAssigned
<1>4. /\ \A c \in IssueCalls : Coherent(c)'
      /\ \E r \in Reservation : OneReservation(r)'
  <2>1. ASSUME NEW r \in Reservation, OneReservation(r) PROVE OneReservation(r)'
    BY <1>1, <2>1 DEF OneReservation, FollowsReservation, WorksUnder, Stored, Dropped, Reserves
  <2>. QED
    BY <1>1, <2>1 DEF IInv, Coherent, EtagCurrent
<1>5. OneProof' /\ ProofMatchesReservation' /\ IssuedIsStored' /\ AnswerIsFinal'
  BY <1>1 DEF IInv, OneProof, ProofMatchesReservation, IssuedIsStored, AnswerIsFinal,
     AnswerStandsFor, Stored, Dropped, Reserves
<1>6. LedgerInv'
  BY <1>1 DEF LedgerInv, HoldsOpen, CandidateIsWhole
<1>7. ServedInv'
  BY <1>1 DEF ServedInv, Serves, Indexed, Stored
<1>8. DecidedInv'
  BY <1>1 DEF DecidedInv, IssueDecided, EtagCurrent, Decided
<1>9. StoreMoves
  BY <1>1 DEF StoreMoves, Decided, Stored, Dropped
<1>. QED
  BY <1>3, <1>4, <1>5, <1>6, <1>7, <1>8, <1>9 DEF IInv

\* Of all that goes on around the requests only get_proof_qr writes.
LEMMA ReadersLeaveStore ==
    ASSUME [VerifyNext]_allVars
    PROVE  [Next]_vars \/ ShowQr
<1>1. ASSUME NEW r \in Readers, Ask(r) \/ Read(r) PROVE UNCHANGED vars
  BY <1>1 DEF Ask, Read, ReadPage, ReadProof, ReadSession, ReadManifest, ReadDevice,
     ReadMedia, Judge, Sees
<1>2. ASSUME DisableDevice \/ AlterMedia \/ UNCHANGED allVars PROVE UNCHANGED vars
  BY <1>2 DEF DisableDevice, AlterMedia, allVars
<1>. QED
  BY <1>1, <1>2 DEF VerifyNext

\* The requests' part of the invariant, whichever actor steps.
LEMMA StoreStep ==
    ASSUME AtomicReplace, IInv, LedgerInv, ServedInv, DecidedInv, [VerifyNext]_allVars
    PROVE  IInv' /\ LedgerInv' /\ ServedInv' /\ DecidedInv' /\ StoreMoves
<1>1. CASE [Next]_vars
  BY <1>1, IInvSplits, IInvStep, LedgerInvStep, ServedInvStep, DecidedStep, NextMoves
<1>2. CASE ShowQr
  BY <1>2, ShowQrKeeps
<1>. QED
  BY <1>1, <1>2, ReadersLeaveStore

\* A step of one reader leaves the others alone.
LEMMA OtherReaders ==
    ASSUME ReaderTypeOK, NEW r \in Readers, Ask(r) \/ Read(r),
           NEW d \in Readers, d # r
    PROVE  /\ rpc'[d] = rpc[d] /\ asked'[d] = asked[d] /\ told'[d] = told[d]
           /\ seen'[d] = seen[d] /\ verdict'[d] = verdict[d]
           /\ UNCHANGED <<vars, worldVars>>
<1>. USE DEF ReaderTypeOK, ReaderGoto, ReaderEnds, Sees
<1>1. CASE Ask(r)
  BY <1>1 DEF Ask
<1>2. CASE ReadPage(r) \/ ReadProof(r)
  BY <1>2 DEF ReadPage, ReadProof
<1>3. CASE ReadSession(r) \/ ReadManifest(r) \/ ReadDevice(r) \/ ReadMedia(r)
  BY <1>3 DEF ReadSession, ReadManifest, ReadDevice, ReadMedia
<1>4. CASE Judge(r)
  BY <1>4 DEF Judge
<1>. QED
  BY <1>1, <1>2, <1>3, <1>4 DEF Read

LEMMA VerifyInvStep ==
    ASSUME AtomicReplace, VerifyInv, [VerifyNext]_allVars
    PROVE  VerifyInv'
<1>1. IInv' /\ LedgerInv' /\ ServedInv' /\ DecidedInv' /\ StoreMoves
  BY StoreStep DEF VerifyInv
<1>2. ReaderTypeOK'
  BY ReaderTypeStep, IInvSplits DEF VerifyInv
<1>3. ASSUME NEW d \in Readers PROVE ReaderInv(d)'
  <2>1. CASE Ask(d) \/ Read(d)
    BY <2>1, AskStep, ReadStep
  <2>2. ASSUME NEW r \in Readers, r # d, Ask(r) \/ Read(r) PROVE ReaderInv(d)'
    <3>1. UNCHANGED <<device, media>>
      BY <2>2, OtherReaders DEF VerifyInv, worldVars
    <3>. QED
      BY <1>1, <2>2, <3>1, OtherReaders, WaitingReader DEF VerifyInv
  <2>3. CASE \/ Next /\ UNCHANGED <<readerVars, worldVars>>
             \/ ShowQr \/ DisableDevice \/ AlterMedia \/ UNCHANGED allVars
    <3>1. /\ UNCHANGED readerVars
          /\ device = "disabled" => device' = "disabled"
          /\ media = "altered" => media' = "altered"
      BY <2>3 DEF ShowQr, DisableDevice, AlterMedia, allVars, worldVars
    <3>. QED
      BY <1>1, <3>1, WaitingReader DEF VerifyInv, readerVars
  <2>. QED
    BY <2>1, <2>2, <2>3 DEF VerifyNext
<1>. QED
  BY <1>1, <1>2, <1>3 DEF VerifyInv

LEMMA VerifyInvInit == ASSUME VerifyInit PROVE VerifyInv
<1>1. Init
  BY DEF VerifyInit
<1>2. IInv /\ LedgerInv
  BY <1>1, TypeInvInit, SafeInvInit, IInvSplits, LedgerInvInit
<1>3. ServedInv
  BY <1>1, ServedInvInit
<1>4. DecidedInv
  BY <1>1 DEF Init, StoreInit, DecidedInv, IssueDecided, UnderReservation, NoAnswer,
     BlankSession
<1>5. \A r \in Readers : ReaderInv(r)
  BY DEF VerifyInit, ReaderInv, ProofSeen, SessionSeen, WorldSeen, Answered, HasProof,
     HasSession, HasManifest, HasDevice
<1>. QED
  BY <1>2, <1>3, <1>4, <1>5, ReaderTypeInit DEF VerifyInv

\* Where replace_session is atomic, every reachable state of requests and
\* readers satisfies the invariant.
THEOREM VerifyInvHolds == ASSUME AtomicReplace PROVE VerifySpec => []VerifyInv
<1>1. VerifyInv /\ [VerifyNext]_allVars => VerifyInv'
  BY VerifyInvStep
<1>. QED
  BY <1>1, VerifyInvInit, PTL DEF VerifySpec

-----------------------------------------------------------------------------
\* What the readers are promised

\* Whoever was told of a Proof and has it verified while requests still race,
\* adopt or take over is never told that it is missing, and that it is invalid
\* only for what an operator, the device or the configuration has done.
THEOREM NoFalseAlarmHolds == ASSUME AtomicReplace PROVE VerifySpec => []NoFalseAlarm
<1>1. VerifyInv => NoFalseAlarm
  BY DEF VerifyInv, ReaderInv, Answered, Spoilt, NoFalseAlarm
<1>. QED
  BY <1>1, VerifyInvHolds, PTL

\* The types are kept by every actor, with any lock.
LEMMA AnyStepKeepsTypes ==
    ASSUME TypeInv, [VerifyNext]_allVars
    PROVE  TypeInv'
<1>1. CASE ShowQr
  <2>1. PICK p \in proofs : qr' = qr \cup {p.id}
    BY <1>1 DEF ShowQr
  <2>2. p.id \in ProofIds
    BY DEF TypeInv, StoreTypes, Proof
  <2>. QED
    BY <1>1, <2>1, <2>2 DEF ShowQr, clientVars, issueVars, TypeInv, LocalTypes, StoreTypes,
       LocalsAssigned
<1>. QED
  BY <1>1, ReadersLeaveStore, TypeInvStep

\* Requests, store and readers keep their types on both backends, with any lock.
THEOREM ReaderTypesCorrect == VerifySpec => [](TypeOK /\ ReaderTypeOK)
<1>1. VerifyInit => TypeInv /\ ReaderTypeOK
  BY TypeInvInit, ReaderTypeInit DEF VerifyInit
<1>2. TypeInv /\ ReaderTypeOK /\ [VerifyNext]_allVars => TypeInv' /\ ReaderTypeOK'
  BY AnyStepKeepsTypes, ReaderTypeStep
<1>. QED
  BY <1>1, <1>2, TypeInvIsTypeOK, PTL DEF VerifySpec

\* A QR image leads to a page that finds its Proof, whether issue_proof or a
\* reader had it stored, on both backends, with any lock.
THEOREM QrHasProofHolds == VerifySpec => []QrHasProof
<1>1. VerifyInit => TypeInv /\ ServedInv
  BY TypeInvInit, ServedInvInit DEF VerifyInit
<1>2. TypeInv /\ ServedInv /\ [VerifyNext]_allVars => TypeInv' /\ ServedInv'
  <2>. SUFFICES ASSUME TypeInv, ServedInv, [VerifyNext]_allVars
                PROVE  TypeInv' /\ ServedInv'
    OBVIOUS
  <2>1. CASE ShowQr
    <3>0. PICK p \in proofs : qr' = qr \cup {p.id}
      BY <2>1 DEF ShowQr
    <3>1. /\ UNCHANGED <<pc, built, answer, failures, proofs, proofIndex>>
          /\ qr' = qr \cup {p.id} /\ Stored(p.id)
      BY <2>1, <3>0 DEF ShowQr, issueVars, Stored
    <3>2. ServedInv'
      BY <3>1 DEF ServedInv, Serves, Indexed, Stored
    <3>. QED
      BY <3>2, AnyStepKeepsTypes
  <2>. QED
    BY <2>1, AnyStepKeepsTypes, ReadersLeaveStore, ServedInvStep
<1>3. ServedInv => QrHasProof
  BY DEF ServedInv, QrHasProof
<1>. QED
  BY <1>1, <1>2, <1>3, PTL DEF VerifySpec

\* Without blobs to look into there is no VALID.
LocalReaderInv ==
    /\ TypeInv /\ ReaderTypeOK
    /\ \A r \in Readers :
         (rpc[r] = "judge" => seen[r].media # "passed") /\ verdict[r] # "VALID"

LEMMA LocalReaderStep ==
    ASSUME Backend # "azure", LocalReaderInv, [VerifyNext]_allVars
    PROVE  LocalReaderInv'
<1>. USE DEF LocalReaderInv, ReaderTypeOK, Reading, ReaderGoto, ReaderEnds
<1>1. TypeInv'
  BY AnyStepKeepsTypes
<1>2. ReaderTypeOK'
  BY ReaderTypeStep
<1>3. ASSUME NEW r \in Readers, Ask(r) \/ Read(r)
      PROVE  (rpc'[r] = "judge" => seen'[r].media # "passed") /\ verdict'[r] # "VALID"
  <2>1. CASE Ask(r)
    BY <2>1 DEF Ask
  <2>2. CASE ReadPage(r) \/ ReadProof(r)
    BY <2>2 DEF ReadPage, ReadProof
  <2>3. CASE ReadSession(r) \/ ReadManifest(r) \/ ReadDevice(r)
    BY <2>3 DEF ReadSession, ReadManifest, ReadDevice, Sees
  <2>4. CASE ReadMedia(r)
    BY <2>4 DEF ReadMedia, Sees
  <2>5. CASE Judge(r)
    BY <2>5 DEF Judge, StatusOf, Checks
  <2>. QED
    BY <1>3, <2>1, <2>2, <2>3, <2>4, <2>5 DEF Read
<1>4. ASSUME NEW d \in Readers
      PROVE  (rpc'[d] = "judge" => seen'[d].media # "passed") /\ verdict'[d] # "VALID"
  <2>1. CASE \/ Next /\ UNCHANGED <<readerVars, worldVars>>
             \/ ShowQr \/ DisableDevice \/ AlterMedia \/ UNCHANGED allVars
    BY <2>1 DEF ShowQr, DisableDevice, AlterMedia, allVars, readerVars
  <2>. QED
    BY <1>3, <2>1, OtherReaders DEF VerifyNext
<1>. QED
  BY <1>1, <1>2, <1>4

\* VALID is said of nothing but a stored Proof of the accepted manifest, which the
\* session has issued under the key it reserved, or which it named before a failure
\* was written over it; on local files it is not said at all, whatever their lock.
THEOREM ValidIsIssuedHolds == VerifySpec => []ValidIsIssued
<1>1. CASE Backend = "azure"
  <2>1. AtomicReplace
    BY <1>1 DEF AtomicReplace
  <2>2. VerifyInv => ValidIsIssued
    <3>. SUFFICES ASSUME VerifyInv, NEW r \in Readers, verdict[r] = "VALID"
                  PROVE  /\ Signer = "key_vault" /\ Backend = "azure"
                         /\ session.status \in {"proof_issued", "failed"}
                         /\ \E p \in proofs :
                              /\ p.id = asked[r] /\ p.manifest = manifest
                              /\ Reserves(p.id, p.key) \/ Dropped
      BY DEF ValidIsIssued
    <3>1. /\ Signer = "key_vault" /\ Backend = "azure" /\ Decided /\ Stored(asked[r])
      BY DEF VerifyInv, ReaderInv, Answered
    <3>. QED
      BY <3>1 DEF VerifyInv, IInv, ProofMatchesReservation, Stored, Decided, Open
  <2>. QED
    BY <2>1, <2>2, VerifyInvHolds, PTL
<1>2. CASE Backend # "azure"
  <2>1. VerifyInit => LocalReaderInv
    BY ReaderTypeInit, TypeInvInit DEF VerifyInit, LocalReaderInv
  <2>2. LocalReaderInv /\ [VerifyNext]_allVars => LocalReaderInv'
    BY <1>2, LocalReaderStep
  <2>3. LocalReaderInv => ValidIsIssued
    BY DEF LocalReaderInv, ValidIsIssued
  <2>. QED
    BY <2>1, <2>2, <2>3, PTL DEF VerifySpec
<1>. QED
  BY <1>1, <1>2
=============================================================================
