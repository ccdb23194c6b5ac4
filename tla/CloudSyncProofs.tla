--------------------------- MODULE CloudSyncProofs ---------------------------
(***************************************************************************)
(* Theorems about CloudSync: one run of the edge program against the       *)
(* handlers over local files, for any number of workers, attempts and      *)
(* failures, and every time at which the client gives up waiting.          *)
(*                                                                         *)
(* Only the call the client waits for is at work, as long as it waits, so  *)
(* the session a call has loaded is the one it writes over.                *)
(***************************************************************************)
EXTENDS CloudSync, TLAPS

-----------------------------------------------------------------------------
\* The inductive invariant

\* At every time: types, and locals that are assigned before they are used.
IngestLocals(c) ==
    /\ ingestPc[c] # "idle" => payload[c] \in Manifests
    /\ ingestPc[c] \in {"check", "save"} => snap[c].status \in Ingest!Accepting

IssueLocals(c) ==
    /\ issuePc[c] \in {"find", "adopt"} => snap[c].proof # NoId
    /\ issuePc[c] \in {"reserve", "build"} => cand[c].id # NoId
    /\ issuePc[c] \in Issue!Building => built[c] # NoProof

\* A call runs one handler at a time.
OneHandler(c) == ingestPc[c] \in {"idle", "done"} \/ issuePc[c] \in {"idle", "done"}

BaseInv ==
    /\ SyncTypeOK
    /\ \A c \in Workers : IngestLocals(c) /\ IssueLocals(c) /\ OneHandler(c)

\* As long as the client waits for an answer, or has read a proof_id ...
Awaited == clientPc # "done" \/ reported # NoId

\* ... no call is at work but the one it waits for, ...
Alone ==
    /\ ours # NoCall <=> clientPc \in {"ingested", "issued"}
    /\ clientPc # "start" => startPc = "done"
    /\ \A c \in Workers :
         /\ ~Idle(c) => c = ours
         /\ ingestPc[c] \notin {"idle", "done"} => clientPc = "ingested"
         /\ issuePc[c] \notin {"idle", "done"} => clientPc = "issued"
         /\ Idle(c) => ~armed[c]

Unreserved ==
    session.proof = NoId /\ proofs = {} /\ \A c \in Calls : snap[c].proof = NoId

\* ... which has stored the manifest when it says so, ...
Handed == {"waiting", "capturing", "uploaded", "result", "recheck"}
HandsIn(c) ==
    /\ payload[c] = captured
    /\ ingestPc[c] \in Handed => manifest = captured
    /\ ingestPc[c] = "done" /\ ingestAnswer[c] = "200" => manifest = captured

\* ... or makes the session's first Proof, without ever losing a write.
Issues(c) ==
    /\ manifest = captured
    /\ issuePc[c] \notin {"idle", "find", "adopt", "index", "recheck"}
    /\ issuePc[c] \in {"load", "validating", "verified", "resolve", "reserve"} =>
         Unreserved
    /\ issuePc[c] \in {"build", "save", "finish"} =>
         snap[c] = session /\ session.proof # NoId
    /\ issuePc[c] = "build" => cand[c].id = session.proof
    /\ issuePc[c] \in {"save", "finish", "qr"} =>
         built[c].id = session.proof /\ built[c].manifest = captured
    /\ issuePc[c] \in {"finish", "qr"} => built[c] \in proofs
    /\ issuePc[c] = "qr" => session.status = "proof_issued"
    /\ issuePc[c] = "done" /\ issueAnswer[c].proof # NoId =>
         /\ session.status = "proof_issued" /\ session.proof = issueAnswer[c].proof
         /\ \E p \in proofs : p.id = session.proof /\ p.manifest = captured

AwaitedInv ==
    /\ Alone
    /\ clientPc \in {"start", "capture", "ingest", "ingested", "issue"} => Unreserved
    /\ clientPc = "ingested" => HandsIn(ours)
    /\ clientPc = "issue" => manifest = captured
    /\ clientPc = "issued" => Issues(ours)
    /\ reported # NoId <=> clientPc \in {"verify", "done"}
    /\ ReportedIsIssued

SyncInv == BaseInv /\ (Awaited => AwaitedInv)

-----------------------------------------------------------------------------
\* Types, handler by handler

StartTypes ==
    /\ startPc \in Start!Steps /\ startAnswer \in Start!Codes
    /\ commanded \in BOOLEAN

TeleTypes ==
    /\ telePc \in [Workers -> Tele!Steps]
    /\ message \in [Workers -> Tele!Messages \cup {Tele!NoMessage}]
    /\ round \in [Workers -> 0 .. StatusAttempts - 1]
    /\ outcome \in [Workers -> Tele!Outcomes]

IngestTypes ==
    /\ ingestPc \in [Workers -> Ingest!Steps]
    /\ payload \in [Workers -> Manifests \cup {NoManifest}]
    /\ ingestAnswer \in [Workers -> Ingest!Codes]
    /\ result \in Manifests \cup {"failed", NoResult}
    /\ expired \in BOOLEAN

IssueTypes ==
    /\ issuePc \in [Workers -> Issue!Steps]
    /\ attempt \in [Workers -> 0 .. MaxAttempts - 1]
    /\ cand \in [Workers -> Issue!Reservation]
    /\ built \in [Workers -> Proof \cup {NoProof}]
    /\ issueAnswer \in [Workers -> [code : Issue!Codes, proof : ProofIds \cup {NoId}]]
    /\ activeKey \in Keys

HeldTypes ==
    /\ snap \in [Calls -> Session]
    /\ etag \in [Calls -> Nat]
    /\ armed \in [Calls -> BOOLEAN]

StoreTypes ==
    /\ session \in Session
    /\ stamp \in Nat
    /\ manifest \in Manifests \cup {NoManifest}
    /\ proofs \subseteq Proof
    /\ proofIndex \subseteq ProofIds
    /\ qr \subseteq ProofIds

ClientTypes ==
    /\ clientPc \in ClientSteps
    /\ ours \in Workers \cup {NoCall}
    /\ reported \in ProofIds \cup {NoId}
    /\ exit \in {"running", "warning", "invalid", "error"}
    /\ clientPc \in {"ingested", "issued"} => ours \in Workers
    /\ clientPc = "verify" => reported # NoId
    /\ exit # "running" <=> clientPc = "done"

Types ==
    /\ StartTypes /\ TeleTypes /\ IngestTypes /\ IssueTypes
    /\ HeldTypes /\ StoreTypes
    /\ failures \in 0 .. MaxFailures
    /\ captured \in Manifests

LEMMA SameTypes ==
    /\ Start!StoreTypeOK <=> HeldTypes /\ StoreTypes
    /\ Tele!StoreTypeOK <=> HeldTypes /\ StoreTypes
    /\ Ingest!StoreTypeOK <=> HeldTypes /\ StoreTypes
    /\ Issue!StoreTypeOK <=> HeldTypes /\ StoreTypes
<1>1. Start!Session = Session /\ Tele!Session = Session /\ Ingest!Session = Session
      /\ Issue!Session = Session
  BY DEF Session, Start!Session, Tele!Session, Ingest!Session, Issue!Session,
     Statuses, Start!Statuses, Tele!Statuses, Ingest!Statuses, Issue!Statuses
<1>2. Start!Proof = Proof /\ Tele!Proof = Proof /\ Ingest!Proof = Proof /\ Issue!Proof = Proof
  BY DEF Proof, Start!Proof, Tele!Proof, Ingest!Proof, Issue!Proof
<1>. QED
  BY <1>1, <1>2 DEF HeldTypes, StoreTypes, Start!StoreTypeOK, Tele!StoreTypeOK,
     Ingest!StoreTypeOK, Issue!StoreTypeOK

LEMMA TypesAreTypeOK == SyncTypeOK <=> Types /\ ClientTypes
<1>1. Issue!Proof = Proof
  BY DEF Proof, Issue!Proof
<1>2. TypeOK <=> Types
  BY <1>1, SameTypes DEF TypeOK, Types, StartTypes, TeleTypes, IngestTypes, IssueTypes,
     Start!TypeOK, Tele!TypeOK, Ingest!TypeOK, Issue!TypeOK
<1>. QED
  BY <1>2 DEF SyncTypeOK, ClientTypes

-----------------------------------------------------------------------------
\* Local files

Rests == UNCHANGED <<session, stamp>>
Writes(s) == session' = s /\ UNCHANGED stamp

LEMMA Locally ==
    /\ Backend = "local" /\ ~UseIotHub
    /\ Workers \subseteq Calls /\ Starter \in Calls /\ Starter \notin Workers
    /\ BlankSession \in Session /\ BlankSession.proof = NoId
BY CloudSyncConstants, CloudConstants DEF Start!StartConstants, Tele!TelemetryConstants,
   BlankSession, Session, Statuses

LEMMA StartStore ==
    ASSUME NEW c, NEW s
    PROVE  /\ Start!ReplaceSession(c, s) => Writes(s)
           /\ Start!ReplaceConflicts(c, s) => Rests
           /\ Start!CompareEtag(c) =>
                armed' = [armed EXCEPT ![c] = TRUE] /\ UNCHANGED <<snap, etag>>
           /\ Start!Put(s) => Writes(s)
           /\ Start!HoldReplaced(c, s) <=> HoldReplaced(c, s)
           /\ Start!DropRecord(c) <=> DropRecord(c)
           /\ Start!BlankSession = BlankSession
BY Locally DEF Writes, Rests, Start!ReplaceSession, Start!ReplaceConflicts, Start!Put,
   Start!Unacknowledged, Start!EtagCurrent, Start!CompareEtag, Start!AtomicReplace,
   Start!HoldReplaced, HoldReplaced, Start!DropRecord, DropRecord, Start!BlankSession,
   BlankSession

LEMMA IngestStore ==
    ASSUME NEW c, NEW s
    PROVE  /\ Ingest!ReplaceSession(c, s) => Writes(s)
           /\ Ingest!ReplaceConflicts(c, s) => Rests
           /\ Ingest!Put(s) => Writes(s)
           /\ Ingest!CompareEtag(c) =>
                armed' = [armed EXCEPT ![c] = TRUE] /\ UNCHANGED <<snap, etag>>
           /\ Ingest!LoadSession(c) <=> LoadSession(c)
           /\ Ingest!HoldReplaced(c, s) <=> HoldReplaced(c, s)
           /\ Ingest!DropRecord(c) <=> DropRecord(c)
           /\ ~Ingest!ManifestConflicts(s)
BY Locally DEF Writes, Rests, Ingest!ReplaceSession, Ingest!ReplaceConflicts, Ingest!Put,
   Ingest!Unacknowledged, Ingest!EtagCurrent, Ingest!CompareEtag, Ingest!AtomicReplace,
   Ingest!LoadSession, LoadSession, Ingest!HoldReplaced, HoldReplaced,
   Ingest!DropRecord, DropRecord, Ingest!BlankSession, BlankSession,
   Ingest!ManifestConflicts

LEMMA IssueStore ==
    ASSUME NEW c, NEW s
    PROVE  /\ Issue!ReplaceSession(c, s) => Writes(s) /\ (armed[c] \/ snap[c] = session)
           /\ Issue!ReplaceConflicts(c, s) => Rests /\ snap[c] # session
           /\ Issue!CompareEtag(c) =>
                armed' = [armed EXCEPT ![c] = TRUE] /\ UNCHANGED <<snap, etag>>
           /\ Issue!LoadSession(c) <=> LoadSession(c)
           /\ Issue!HoldReplaced(c, s) <=> HoldReplaced(c, s)
           /\ Issue!DropRecord(c) <=> DropRecord(c)
           /\ ~Issue!ProofConflicts(s)
BY Locally DEF Writes, Rests, Issue!ReplaceSession, Issue!ReplaceConflicts, Issue!Put,
   Issue!Unacknowledged, Issue!EtagCurrent, Issue!CompareEtag, Issue!AtomicReplace,
   Issue!LoadSession, LoadSession, Issue!HoldReplaced, HoldReplaced,
   Issue!DropRecord, DropRecord, Issue!BlankSession, BlankSession,
   Issue!ProofConflicts

-----------------------------------------------------------------------------
\* What a call does to its own record

Own(c) ==
    /\ HeldTypes'
    /\ \A d \in Calls \ {c} : snap'[d] = snap[d] /\ armed'[d] = armed[d]

LEMMA Owns ==
    ASSUME HeldTypes, StoreTypes, NEW c \in Calls, NEW s \in Session, UNCHANGED stamp
    PROVE  /\ UNCHANGED clientVars => Own(c) /\ snap'[c] = snap[c] /\ armed'[c] = armed[c]
           /\ armed' = [armed EXCEPT ![c] = TRUE] /\ UNCHANGED <<snap, etag>> =>
                Own(c) /\ snap'[c] = snap[c]
           /\ DropRecord(c) => Own(c) /\ snap'[c] = BlankSession /\ ~armed'[c]
           /\ LoadSession(c) => Own(c) /\ snap'[c] = session /\ armed'[c] = armed[c]
           /\ HoldReplaced(c, s) => Own(c) /\ snap'[c] = s /\ ~armed'[c]
<1>1. /\ stamp \in Nat /\ session \in Session /\ BlankSession \in Session
      /\ snap \in [Calls -> Session] /\ etag \in [Calls -> Nat] /\ armed \in [Calls -> BOOLEAN]
  BY Locally DEF HeldTypes, StoreTypes
<1>2. ASSUME UNCHANGED clientVars
      PROVE  Own(c) /\ snap'[c] = snap[c] /\ armed'[c] = armed[c]
  BY <1>1, <1>2 DEF clientVars, Own, HeldTypes
<1>3. ASSUME armed' = [armed EXCEPT ![c] = TRUE], UNCHANGED <<snap, etag>>
      PROVE  Own(c) /\ snap'[c] = snap[c]
  BY <1>1, <1>3 DEF Own, HeldTypes
<1>4. ASSUME DropRecord(c) PROVE Own(c) /\ snap'[c] = BlankSession /\ ~armed'[c]
  BY <1>1, <1>4 DEF DropRecord, Own, HeldTypes
<1>5. ASSUME LoadSession(c) PROVE Own(c) /\ snap'[c] = session /\ armed'[c] = armed[c]
  BY <1>1, <1>5 DEF LoadSession, Own, HeldTypes
<1>6. ASSUME HoldReplaced(c, s) PROVE Own(c) /\ snap'[c] = s /\ ~armed'[c]
  BY <1>1, <1>6 DEF HoldReplaced, Own, HeldTypes
<1>. QED
  BY <1>2, <1>3, <1>4, <1>5, <1>6

\* A session with another status.
LEMMA Restated ==
    ASSUME NEW s \in Session, NEW status \in Statuses
    PROVE  LET t == [s EXCEPT !.status = status]
           IN  t \in Session /\ t.status = status /\ t.proof = s.proof /\ t.key = s.key
BY DEF Session

\* What a call finds.
LEMMA CallFinds ==
    ASSUME BaseInv, NEW c \in Workers
    PROVE  /\ Types /\ IngestTypes /\ IssueTypes /\ HeldTypes /\ StoreTypes
           /\ c \in Calls /\ session \in Session /\ stamp \in Nat /\ failures \in 0 .. MaxFailures
           /\ snap[c] \in Session /\ snap[c].status \in Statuses
           /\ IngestLocals(c) /\ IssueLocals(c)
           /\ MaxFailures \in Nat
<1>1. MaxFailures \in Nat
  BY CloudConstants DEF Start!StartConstants
<1>. QED
  BY <1>1, Locally, TypesAreTypeOK DEF BaseInv, Types, HeldTypes, StoreTypes, Session

-----------------------------------------------------------------------------
\* ingest_evidence

IngestOthers(c) ==
    \A d \in Workers \ {c} :
        /\ ingestPc'[d] = ingestPc[d]
        /\ payload'[d] = payload[d] /\ ingestAnswer'[d] = ingestAnswer[d]

IngestServed(c) ==
    /\ IngestTypes' /\ StoreTypes' /\ failures' \in 0 .. MaxFailures
    /\ IngestOthers(c) /\ Own(c) /\ IngestLocals(c)'
    /\ ingestPc[c] \notin {"idle", "done"}
    /\ payload' = payload
    /\ UNCHANGED proofs
    /\ ingestPc'[c] \in {"idle", "done"} => ~armed'[c]
    /\ Unreserved => session'.proof = NoId /\ snap'[c].proof = NoId
    /\ HandsIn(c) =>
         /\ ingestPc'[c] \in Handed => manifest' = payload[c]
         /\ ingestPc'[c] = "done" /\ ingestAnswer'[c] = "200" => manifest' = payload[c]

LEMMA IngestEnds ==
    ASSUME BaseInv, NEW c \in Workers, NEW code \in Ingest!Codes, UNCHANGED stamp,
           Ingest!Answer(c, code), Ingest!DropRecord(c), UNCHANGED <<payload, expired>>,
           ingestPc[c] # "idle",
           result' \in Manifests \cup {"failed", NoResult}
    PROVE  /\ IngestTypes' /\ IngestOthers(c) /\ Own(c) /\ IngestLocals(c)'
           /\ snap'[c].proof = NoId /\ ~armed'[c]
           /\ ingestPc'[c] = "done" /\ ingestAnswer'[c] = code
<1>1. /\ IngestTypes /\ HeldTypes /\ StoreTypes /\ IngestLocals(c)
      /\ c \in Calls /\ BlankSession \in Session
  BY CallFinds, Locally
<1>2. Own(c) /\ snap'[c] = BlankSession /\ ~armed'[c]
  BY <1>1, Owns, IngestStore
<1>3. /\ ingestPc' = [ingestPc EXCEPT ![c] = "done"]
      /\ ingestAnswer' = [ingestAnswer EXCEPT ![c] = code]
  BY DEF Ingest!Answer, Ingest!Goto
<1>4. IngestTypes' /\ IngestOthers(c) /\ ingestPc'[c] = "done" /\ ingestAnswer'[c] = code
  BY <1>1, <1>3 DEF IngestTypes, IngestOthers, Ingest!Steps
<1>. QED
  BY <1>1, <1>2, <1>4, Locally DEF IngestLocals

LEMMA IngestGoes ==
    ASSUME BaseInv, NEW c \in Workers, NEW next \in Ingest!Steps,
           Ingest!Goto(c, next), Ingest!KeepLocals,
           result' \in Manifests \cup {"failed", NoResult}
    PROVE  /\ IngestTypes' /\ IngestOthers(c) /\ ingestPc'[c] = next
           /\ UNCHANGED <<payload, failures, ingestAnswer>>
BY CallFinds DEF Ingest!Goto, Ingest!KeepLocals, IngestTypes, IngestOthers

\* A step that writes the session, or conflicts.
LEMMA IngestWrites ==
    ASSUME BaseInv, NEW c \in Workers, NEW status \in Statuses,
           LET s == Ingest!WithStatus(c, status) IN
           \/ Ingest!ReplaceSession(c, s) \/ Ingest!ReplaceConflicts(c, s) \/ Ingest!Put(s),
           UNCHANGED <<manifest, proofs, proofIndex, qr>>
    PROVE  /\ StoreTypes' /\ UNCHANGED stamp
           /\ Unreserved => session'.proof = NoId /\ Ingest!WithStatus(c, status).proof = NoId
           /\ Ingest!WithStatus(c, status) \in Session
           /\ Ingest!WithStatus(c, status).status = status
<1>. DEFINE s == Ingest!WithStatus(c, status)
<1>1. StoreTypes /\ snap[c] \in Session /\ c \in Calls
  BY CallFinds
<1>2. s \in Session /\ s.status = status /\ s.proof = snap[c].proof
  BY <1>1, Restated DEF Ingest!WithStatus
<1>. HIDE DEF s
<1>3. Writes(s) \/ Rests
  BY IngestStore DEF s
<1>. QED
  BY <1>1, <1>2, <1>3 DEF s, Writes, Rests, StoreTypes, Unreserved

LEMMA IngestReads ==
    ASSUME BaseInv, NEW c \in Workers,
           \/ Ingest!Load(c) \/ Ingest!Existing(c) \/ Ingest!Check(c)
           \/ Ingest!FailResult(c) \/ Ingest!SaveResult(c) \/ Ingest!Recheck(c)
    PROVE  IngestServed(c)
<1>1. /\ IngestTypes /\ HeldTypes /\ StoreTypes /\ c \in Calls /\ failures \in 0 .. MaxFailures
      /\ IngestLocals(c) /\ BlankSession \in Session /\ session \in Session
  BY CallFinds, Locally
<1>2. UNCHANGED <<session, stamp, manifest, proofs, proofIndex, qr>>
  BY DEF Ingest!Load, Ingest!Existing, Ingest!Check, Ingest!FailResult,
     Ingest!SaveResult, Ingest!Recheck, Ingest!storeVars
<1>3. StoreTypes' /\ result \in Manifests \cup {"failed", NoResult}
  BY <1>1, <1>2 DEF StoreTypes, IngestTypes
<1>4. ASSUME NEW code \in Ingest!Codes, Ingest!End(c, code),
             ingestPc[c] \notin {"idle", "done"},
             HandsIn(c) /\ code = "200" => manifest = payload[c],
             result' \in Manifests \cup {"failed", NoResult}
      PROVE  IngestServed(c)
  <2>1. Ingest!Answer(c, code) /\ Ingest!DropRecord(c) /\ UNCHANGED <<payload, expired, failures>>
    BY <1>4 DEF Ingest!End
  <2>. QED
    BY <1>1, <1>2, <1>3, <1>4, <2>1, IngestEnds DEF IngestServed, Unreserved, Handed
<1>5. ASSUME NEW next \in Ingest!Steps, Ingest!Goto(c, next), Ingest!KeepLocals,
             UNCHANGED result, next \notin Handed \cup {"idle", "done"},
             ingestPc[c] \notin {"idle", "done"},
             LoadSession(c) \/ UNCHANGED clientVars,
             next \in {"check", "save"} =>
                UNCHANGED clientVars /\ snap[c].status \in Ingest!Accepting
      PROVE  IngestServed(c)
  <2>1. /\ IngestTypes' /\ IngestOthers(c) /\ ingestPc'[c] = next
        /\ UNCHANGED <<payload, failures, ingestAnswer>>
    BY <1>3, <1>5, IngestGoes
  <2>2. Own(c) /\ snap'[c] \in {snap[c], session} /\ (UNCHANGED clientVars => snap'[c] = snap[c])
    BY <1>1, <1>2, <1>5, Owns
  <2>. QED
    BY <1>1, <1>2, <1>3, <1>5, <2>1, <2>2 DEF IngestServed, IngestLocals, Unreserved,
       Ingest!Accepting
<1>6. CASE Ingest!Load(c)
  BY <1>5, <1>6, IngestStore DEF Ingest!Load, Ingest!Steps, Handed
<1>7. CASE Ingest!Existing(c)
  <2>1. UNCHANGED Ingest!clientVars => UNCHANGED clientVars
    BY DEF Ingest!clientVars, clientVars
  <2>2. "check" \in Ingest!Steps \ (Handed \cup {"idle", "done"})
        /\ {"200", "ERR_EVIDENCE_CONFLICT", "ERR_EVIDENCE_NOT_ACCEPTED"} \subseteq Ingest!Codes
    BY DEF Ingest!Steps, Handed, Ingest!Codes
  <2>. QED
    BY <1>3, <1>4, <1>5, <1>7, <2>1, <2>2 DEF Ingest!Existing
<1>8. CASE Ingest!Check(c)
  <2>1. UNCHANGED Ingest!clientVars => UNCHANGED clientVars
    BY DEF Ingest!clientVars, clientVars
  <2>2. PICK next \in {"save", "fail_load", "fail_save"} : Ingest!Goto(c, next)
    BY <1>8 DEF Ingest!Check
  <2>. QED
    BY <1>1, <1>5, <1>8, <2>1, <2>2 DEF Ingest!Check, Ingest!Steps, Handed, IngestLocals
<1>9. CASE Ingest!FailResult(c)
  BY <1>4, <1>9 DEF Ingest!FailResult, Ingest!Codes
<1>10. CASE Ingest!SaveResult(c) \/ Ingest!Recheck(c)
  <2>1. HandsIn(c) => manifest = payload[c]
    BY <1>10 DEF HandsIn, Handed, Ingest!SaveResult, Ingest!Recheck
  <2>2. payload[c] \in Manifests
    BY <1>1, <1>10 DEF IngestLocals, Ingest!SaveResult, Ingest!Recheck
  <2>. QED
    BY <1>3, <1>4, <1>10, <2>1, <2>2 DEF Ingest!SaveResult, Ingest!Recheck, Ingest!Codes
<1>. QED
  BY <1>6, <1>7, <1>8, <1>9, <1>10

LEMMA IngestRejects ==
    ASSUME BaseInv, NEW c \in Workers, Ingest!FailLoad(c) \/ Ingest!FailSave(c)
    PROVE  IngestServed(c)
<1>1. /\ IngestTypes /\ HeldTypes /\ StoreTypes /\ c \in Calls /\ failures \in 0 .. MaxFailures
      /\ IngestLocals(c) /\ stamp \in Nat
      /\ result \in Manifests \cup {"failed", NoResult}
  BY CallFinds DEF IngestTypes
<1>2. CASE Ingest!FailLoad(c)
  <2>1. /\ ingestPc[c] = "fail_load" /\ UNCHANGED <<session, stamp, manifest, proofs, proofIndex, qr>>
        /\ Ingest!Goto(c, "fail_save") /\ Ingest!KeepLocals /\ UNCHANGED result
        /\ etag' = [etag EXCEPT ![c] = stamp] /\ UNCHANGED <<snap, armed>>
    BY <1>2 DEF Ingest!FailLoad, Ingest!storeVars
  <2>2. /\ IngestTypes' /\ IngestOthers(c) /\ ingestPc'[c] = "fail_save"
        /\ UNCHANGED <<payload, failures, ingestAnswer>>
    BY <1>1, <2>1, IngestGoes DEF Ingest!Steps
  <2>3. Own(c)
    BY <1>1, <2>1 DEF Own, HeldTypes
  <2>. QED
    BY <1>1, <2>1, <2>2, <2>3 DEF IngestServed, IngestLocals, StoreTypes, Unreserved, Handed
<1>3. CASE Ingest!FailSave(c)
  <2>1. /\ ingestPc[c] = "fail_save" /\ UNCHANGED <<manifest, proofs, proofIndex, qr, result>>
        /\ Ingest!Put(Ingest!WithStatus(c, "failed"))
        /\ Ingest!Goto(c, "fail_result") /\ UNCHANGED clientVars /\ Ingest!KeepLocals
    BY <1>3, Locally DEF Ingest!FailSave, Ingest!clientVars, clientVars
  <2>2. /\ StoreTypes' /\ UNCHANGED stamp
        /\ Unreserved => session'.proof = NoId
    BY <2>1, IngestWrites DEF Statuses
  <2>3. /\ IngestTypes' /\ IngestOthers(c) /\ ingestPc'[c] = "fail_result"
        /\ UNCHANGED <<payload, failures, ingestAnswer>>
    BY <1>1, <2>1, IngestGoes DEF Ingest!Steps
  <2>4. Own(c) /\ snap'[c] = snap[c]
    BY <1>1, <2>1, <2>2, Owns, Locally
  <2>. QED
    BY <1>1, <2>1, <2>2, <2>3, <2>4 DEF IngestServed, IngestLocals, Unreserved, Handed
<1>. QED
  BY <1>2, <1>3

LEMMA IngestSaves ==
    ASSUME BaseInv, NEW c \in Workers, Ingest!SaveManifest(c)
    PROVE  IngestServed(c)
<1>1. /\ IngestTypes /\ HeldTypes /\ StoreTypes /\ c \in Calls /\ failures \in 0 .. MaxFailures
      /\ IngestLocals(c) /\ result \in Manifests \cup {"failed", NoResult}
      /\ BlankSession \in Session
  BY CallFinds, Locally DEF IngestTypes
<1>2. /\ ingestPc[c] = "save" /\ UNCHANGED <<session, stamp, proofs, proofIndex, qr, result>>
      /\ manifest' = payload[c] /\ UNCHANGED clientVars /\ Ingest!KeepLocals
      /\ Ingest!Goto(c, Ingest!AfterManifest(snap[c].status))
  BY IngestStore DEF Ingest!SaveManifest, Ingest!clientVars, clientVars
<1>3. PICK next \in {"waiting", "capturing", "uploaded"} :
         next = Ingest!AfterManifest(snap[c].status)
  BY <1>1, <1>2 DEF IngestLocals, Ingest!Accepting, Ingest!AfterManifest
<1>4. /\ IngestTypes' /\ IngestOthers(c) /\ ingestPc'[c] = next
      /\ UNCHANGED <<payload, failures, ingestAnswer>>
  BY <1>1, <1>2, <1>3, IngestGoes DEF Ingest!Steps
<1>5. Own(c) /\ snap'[c] = snap[c]
  BY <1>1, <1>2, Owns
<1>6. payload[c] \in Manifests
  BY <1>1, <1>2 DEF IngestLocals
<1>. QED
  BY <1>1, <1>2, <1>3, <1>4, <1>5, <1>6 DEF IngestServed, IngestLocals, StoreTypes, Unreserved

LEMMA IngestMoves ==
    ASSUME BaseInv, NEW c \in Workers,
           Ingest!ToWaiting(c) \/ Ingest!ToCapturing(c) \/ Ingest!ToUploaded(c)
    PROVE  IngestServed(c)
<1>1. /\ IngestTypes /\ HeldTypes /\ StoreTypes /\ c \in Calls /\ failures \in 0 .. MaxFailures
      /\ IngestLocals(c) /\ result \in Manifests \cup {"failed", NoResult}
      /\ BlankSession \in Session
  BY CallFinds, Locally DEF IngestTypes
<1>2. /\ ingestPc[c] \in {"waiting", "capturing", "uploaded"}
      /\ UNCHANGED <<manifest, proofs, proofIndex, qr, result>>
  BY DEF Ingest!ToWaiting, Ingest!ToCapturing, Ingest!ToUploaded
<1>3. HandsIn(c) => manifest' = payload[c]
  BY <1>2 DEF HandsIn, Handed
<1>4. ASSUME NEW status \in Statuses, NEW next \in {"capturing", "uploaded", "result", "recheck"},
             \/ Ingest!ReplaceSession(c, Ingest!WithStatus(c, status))
             \/ Ingest!ReplaceConflicts(c, Ingest!WithStatus(c, status)),
             \/ Ingest!HoldReplaced(c, Ingest!WithStatus(c, status))
             \/ Ingest!DropRecord(c),
             Ingest!Goto(c, next), Ingest!KeepLocals
      PROVE  IngestServed(c)
  <2>. DEFINE s == Ingest!WithStatus(c, status)
  <2>1. /\ StoreTypes' /\ UNCHANGED stamp /\ s \in Session
        /\ Unreserved => session'.proof = NoId /\ s.proof = NoId
    BY <1>2, <1>4, IngestWrites
  <2>2. HoldReplaced(c, s) \/ DropRecord(c)
    BY <1>4, IngestStore
  <2>. HIDE DEF s
  <2>3. Own(c) /\ snap'[c] \in {s, BlankSession}
    BY <1>1, <2>1, <2>2, Owns
  <2>4. /\ IngestTypes' /\ IngestOthers(c) /\ ingestPc'[c] = next
        /\ UNCHANGED <<payload, failures, ingestAnswer>>
    BY <1>1, <1>2, <1>4, IngestGoes DEF Ingest!Steps
  <2>. QED
    BY <1>1, <1>2, <1>3, <1>4, <2>1, <2>3, <2>4, Locally DEF IngestServed, IngestLocals
<1>5. ASSUME NEW status \in Statuses,
             Ingest!ReplaceConflicts(c, Ingest!WithStatus(c, status)),
             Ingest!End(c, "ERR_STORAGE_CONFLICT")
      PROVE  IngestServed(c)
  <2>1. /\ StoreTypes' /\ UNCHANGED stamp
        /\ Unreserved => session'.proof = NoId
    BY <1>2, <1>5, IngestWrites
  <2>2. /\ IngestTypes' /\ IngestOthers(c) /\ Own(c) /\ IngestLocals(c)'
        /\ snap'[c].proof = NoId /\ ~armed'[c]
        /\ ingestPc'[c] = "done" /\ ingestAnswer'[c] = "ERR_STORAGE_CONFLICT"
        /\ UNCHANGED <<payload, failures>>
    BY <1>1, <1>2, <1>5, <2>1, IngestEnds DEF Ingest!End, Ingest!Codes
  <2>. QED
    BY <1>1, <1>2, <1>3, <2>1, <2>2 DEF IngestServed
<1>6. CASE Ingest!Compares(c)
  <2>1. /\ armed' = [armed EXCEPT ![c] = TRUE] /\ UNCHANGED <<snap, etag>>
        /\ UNCHANGED <<session, stamp, ingestPc>> /\ Ingest!KeepLocals
    BY <1>6, IngestStore DEF Ingest!Compares
  <2>2. Own(c) /\ snap'[c] = snap[c]
    BY <1>1, <2>1, Owns, Locally
  <2>3. IngestTypes' /\ IngestOthers(c) /\ StoreTypes' /\ UNCHANGED <<payload, failures>>
    BY <1>1, <1>2, <2>1 DEF IngestTypes, IngestOthers, StoreTypes, Ingest!KeepLocals
  <2>. QED
    BY <1>1, <1>2, <1>3, <2>1, <2>2, <2>3 DEF IngestServed, IngestLocals, Unreserved, Handed
<1>7. {"waiting_device", "capturing", "evidence_uploaded"} \subseteq Statuses
  BY DEF Statuses
<1>8. CASE Ingest!ToWaiting(c) \/ Ingest!ToCapturing(c)
  BY <1>4, <1>5, <1>6, <1>7, <1>8 DEF Ingest!ToWaiting, Ingest!ToCapturing, Ingest!Advance
<1>9. CASE Ingest!ToUploaded(c)
  BY <1>4, <1>6, <1>7, <1>9 DEF Ingest!ToUploaded
<1>. QED
  BY <1>8, <1>9

LEMMA IngestFails ==
    ASSUME BaseInv, NEW c \in Workers, Ingest!Fail(c)
    PROVE  IngestServed(c)
<1>1. /\ IngestTypes /\ HeldTypes /\ StoreTypes /\ c \in Calls /\ failures \in 0 .. MaxFailures
      /\ result \in Manifests \cup {"failed", NoResult} /\ MaxFailures \in Nat
  BY CallFinds DEF IngestTypes
<1>2. /\ ingestPc[c] \notin {"idle", "done"}
      /\ UNCHANGED <<session, stamp, manifest, proofs, proofIndex, qr, payload, result, expired>>
      /\ failures < MaxFailures /\ failures' = failures + 1
      /\ Ingest!Answer(c, "lost") /\ Ingest!DropRecord(c)
  BY DEF Ingest!Fail, Ingest!storeVars
<1>3. failures' \in 0 .. MaxFailures /\ StoreTypes' /\ "lost" \in Ingest!Codes
  BY <1>1, <1>2 DEF StoreTypes, Ingest!Codes
<1>4. /\ IngestTypes' /\ IngestOthers(c) /\ Own(c) /\ IngestLocals(c)'
      /\ snap'[c].proof = NoId /\ ~armed'[c]
      /\ ingestPc'[c] = "done" /\ ingestAnswer'[c] = "lost"
  BY <1>1, <1>2, <1>3, IngestEnds
<1>. QED
  BY <1>2, <1>3, <1>4 DEF IngestServed, Unreserved, Handed

LEMMA IngestServes ==
    ASSUME BaseInv, NEW c \in Workers, IngestStep(c)
    PROVE  IngestServed(c)
BY IngestReads, IngestRejects, IngestSaves, IngestMoves, IngestFails
   DEF IngestStep, Ingest!Step

-----------------------------------------------------------------------------
\* issue_proof

IssueOthers(c) ==
    \A d \in Workers \ {c} :
        /\ issuePc'[d] = issuePc[d] /\ cand'[d] = cand[d] /\ built'[d] = built[d]

IssueServed(c) ==
    /\ IssueTypes' /\ StoreTypes' /\ failures' \in 0 .. MaxFailures
    /\ IssueOthers(c) /\ Own(c) /\ IssueLocals(c)'
    /\ issuePc[c] \notin {"idle", "done"}
    /\ UNCHANGED manifest
    /\ issuePc'[c] \in {"idle", "done"} => ~armed'[c]
    /\ Issues(c) => Issues(c)'

\* Wherever the request begins or ends.
LEMMA IssuesOpen ==
    ASSUME NEW c \in Workers, Issues(c), UNCHANGED <<manifest, captured>>,
           \/ /\ issuePc'[c] \in {"load", "validating", "verified", "resolve", "reserve"}
              /\ Unreserved'
           \/ issuePc'[c] = "done" /\ issueAnswer'[c].proof = NoId
    PROVE  Issues(c)'
BY DEF Issues

\* A step before the reservation leaves the session without one.
LEMMA StaysUnreserved ==
    ASSUME NEW c \in Calls, Unreserved, Own(c), snap'[c].proof = NoId,
           session'.proof = NoId, UNCHANGED proofs
    PROVE  Unreserved'
BY DEF Unreserved, Own

LEMMA IssueEnds ==
    ASSUME BaseInv, NEW c \in Workers, NEW code \in Issue!Codes,
           NEW id \in ProofIds \cup {NoId}, UNCHANGED stamp,
           issuePc' = [issuePc EXCEPT ![c] = "done"],
           issueAnswer' = [issueAnswer EXCEPT ![c] = [code |-> code, proof |-> id]],
           attempt' = [attempt EXCEPT ![c] = 0],
           cand' = [cand EXCEPT ![c] = Issue!NoReservation],
           built' = [built EXCEPT ![c] = NoProof],
           Issue!DropRecord(c), UNCHANGED activeKey
    PROVE  /\ IssueTypes' /\ IssueOthers(c) /\ Own(c) /\ IssueLocals(c)'
           /\ snap'[c].proof = NoId /\ ~armed'[c]
           /\ issuePc'[c] = "done" /\ issueAnswer'[c].proof = id
<1>1. /\ IssueTypes /\ HeldTypes /\ StoreTypes /\ c \in Calls /\ BlankSession \in Session
      /\ MaxAttempts \in Nat \ {0}
  BY CallFinds, Locally, CloudConstants
<1>2. Own(c) /\ snap'[c] = BlankSession /\ ~armed'[c]
  BY <1>1, Owns, IssueStore
<1>3. Issue!NoReservation \in Issue!Reservation /\ 0 \in 0 .. MaxAttempts - 1
      /\ "done" \in Issue!Steps
  BY <1>1 DEF Issue!NoReservation, Issue!Reservation, Issue!Steps
<1>4. /\ IssueTypes' /\ IssueOthers(c)
      /\ issuePc'[c] = "done" /\ issueAnswer'[c].proof = id
  BY <1>1, <1>3 DEF IssueTypes, IssueOthers
<1>5. IssueLocals(c)'
  BY <1>4 DEF IssueLocals, Issue!Building
<1>. QED
  BY <1>2, <1>4, <1>5, Locally

LEMMA IssueFinds ==
    ASSUME BaseInv, NEW c \in Workers
    PROVE  /\ IssueTypes /\ HeldTypes /\ StoreTypes /\ c \in Calls /\ IssueLocals(c)
           /\ failures \in 0 .. MaxFailures /\ BlankSession \in Session
           /\ snap[c] \in Session /\ snap[c].status \in Statuses
           /\ session \in Session
           /\ MaxAttempts \in Nat \ {0} /\ attempt[c] \in 0 .. MaxAttempts - 1
           /\ NoId \in ProofIds \cup {NoId}
BY CallFinds, Locally, CloudConstants DEF IssueTypes

\* The request ends without a Proof.
LEMMA IssueGivesUp ==
    ASSUME BaseInv, UNCHANGED captured, NEW c \in Workers, NEW code \in Issue!Codes,
           Issue!End(c, code, NoId), issuePc[c] \notin {"idle", "done"},
           StoreTypes', UNCHANGED <<stamp, manifest>>
    PROVE  IssueServed(c)
<1>1. /\ issuePc' = [issuePc EXCEPT ![c] = "done"]
      /\ issueAnswer' = [issueAnswer EXCEPT ![c] = [code |-> code, proof |-> NoId]]
      /\ attempt' = [attempt EXCEPT ![c] = 0]
      /\ cand' = [cand EXCEPT ![c] = Issue!NoReservation]
      /\ built' = [built EXCEPT ![c] = NoProof]
      /\ Issue!DropRecord(c) /\ UNCHANGED <<activeKey, failures>>
  BY DEF Issue!End, Issue!Goto
<1>2. /\ IssueTypes' /\ IssueOthers(c) /\ Own(c) /\ IssueLocals(c)' /\ ~armed'[c]
      /\ issuePc'[c] = "done" /\ issueAnswer'[c].proof = NoId
  BY <1>1, IssueFinds, IssueEnds
<1>3. Issues(c) => Issues(c)'
  BY <1>2, IssuesOpen
<1>. QED
  BY <1>1, <1>2, <1>3, IssueFinds DEF IssueServed

\* The next attempt, or the last one's end.
LEMMA IssueContinues ==
    ASSUME BaseInv, UNCHANGED captured, NEW c \in Workers, Issue!Continue(c),
           issuePc[c] \notin {"idle", "done"},
           StoreTypes', UNCHANGED <<stamp, manifest, proofs>>,
           Issues(c) => Unreserved /\ session'.proof = NoId
    PROVE  IssueServed(c)
<1>1. CASE Issue!NextAttempt(c)
  <2>1. /\ attempt[c] + 1 < MaxAttempts
        /\ issuePc' = [issuePc EXCEPT ![c] = "load"]
        /\ attempt' = [attempt EXCEPT ![c] = attempt[c] + 1]
        /\ cand' = [cand EXCEPT ![c] = Issue!NoReservation]
        /\ Issue!DropRecord(c) /\ UNCHANGED <<built, issueAnswer, activeKey, failures>>
    BY <1>1 DEF Issue!NextAttempt, Issue!Goto
  <2>2. /\ attempt[c] + 1 \in 0 .. MaxAttempts - 1
        /\ Issue!NoReservation \in Issue!Reservation /\ "load" \in Issue!Steps
    BY <2>1, IssueFinds DEF Issue!NoReservation, Issue!Reservation, Issue!Steps
  <2>3. /\ IssueTypes' /\ IssueOthers(c) /\ issuePc'[c] = "load"
    BY <2>1, <2>2, IssueFinds DEF IssueTypes, IssueOthers
  <2>4. Own(c) /\ snap'[c] = BlankSession
    BY <2>1, IssueFinds, IssueStore, Owns
  <2>5. IssueLocals(c)'
    BY <2>3 DEF IssueLocals, Issue!Building
  <2>6. Issues(c) => Issues(c)'
    <3>. SUFFICES ASSUME Issues(c) PROVE Issues(c)'
      OBVIOUS
    <3>1. Unreserved'
      BY <2>4, StaysUnreserved, IssueFinds, Locally
    <3>. QED
      BY <2>3, <3>1, IssuesOpen
  <2>. QED
    BY <2>1, <2>3, <2>4, <2>5, <2>6, IssueFinds DEF IssueServed
<1>2. CASE Issue!DidNotConverge(c)
  BY <1>2, IssueGivesUp DEF Issue!DidNotConverge, Issue!Codes
<1>. QED
  BY <1>1, <1>2 DEF Issue!Continue

LEMMA IssueGoes ==
    ASSUME BaseInv, NEW c \in Workers, NEW next \in Issue!Steps,
           Issue!Goto(c, next), Issue!KeepLocals
    PROVE  /\ IssueTypes' /\ IssueOthers(c) /\ issuePc'[c] = next
           /\ UNCHANGED <<failures, cand, built, issueAnswer>>
BY IssueFinds DEF Issue!Goto, Issue!KeepLocals, IssueTypes, IssueOthers

LEMMA IssueLoads ==
    ASSUME BaseInv, UNCHANGED captured, NEW c \in Workers, Issue!Load(c)
    PROVE  IssueServed(c)
<1>1. /\ issuePc[c] = "load"
      /\ UNCHANGED <<session, stamp, manifest, proofs, proofIndex, qr>>
  BY DEF Issue!Load, Issue!storeVars
<1>2. StoreTypes' /\ (Issues(c) => Unreserved /\ session'.proof = NoId)
  BY <1>1, IssueFinds DEF StoreTypes, Issues, Unreserved
<1>3. CASE Issue!AfterLoad(c) /\ Issue!LoadSession(c) /\ Issue!KeepLocals
  <2>1. PICK next \in {"find", "validating", "resolve"} :
           /\ Issue!Goto(c, next)
           /\ next = "find" <=> session.proof # NoId
    BY <1>3 DEF Issue!AfterLoad
  <2>2. /\ IssueTypes' /\ IssueOthers(c) /\ issuePc'[c] = next
        /\ UNCHANGED <<failures, cand, built, issueAnswer>>
    BY <1>3, <2>1, IssueGoes DEF Issue!Steps
  <2>3. Own(c) /\ snap'[c] = session
    BY <1>1, <1>3, IssueStore, IssueFinds, Owns
  <2>4. IssueLocals(c)'
    BY <2>1, <2>2, <2>3 DEF IssueLocals, Issue!Building
  <2>5. Issues(c) => Issues(c)'
    <3>. SUFFICES ASSUME Issues(c) PROVE Issues(c)'
      OBVIOUS
    <3>1. Unreserved' /\ next # "find"
      BY <1>1, <1>2, <2>1, <2>3, StaysUnreserved, IssueFinds
    <3>. QED
      BY <1>1, <2>2, <3>1, IssuesOpen
  <2>. QED
    BY <1>1, <1>2, <2>2, <2>3, <2>4, <2>5, IssueFinds DEF IssueServed
<1>4. CASE Issue!Continue(c)
  BY <1>1, <1>2, <1>4, IssueContinues
<1>5. CASE Issue!End(c, "ERR_EVIDENCE_NOT_ACCEPTED", NoId)
  BY <1>1, <1>2, <1>5, IssueGivesUp DEF Issue!Codes
<1>. QED
  BY <1>3, <1>4, <1>5 DEF Issue!Load

LEMMA IssueLooks ==
    ASSUME BaseInv, UNCHANGED captured, NEW c \in Workers, Issue!Find(c)
    PROVE  IssueServed(c)
<1>. DEFINE id == snap[c].proof
<1>1. /\ issuePc[c] = "find" /\ id # NoId /\ ~Issues(c)
      /\ UNCHANGED <<session, stamp, manifest, proofs, proofIndex, qr>>
  BY IssueFinds DEF Issue!Find, Issue!storeVars, IssueLocals, Issues
<1>2. StoreTypes' /\ id \in ProofIds
  BY <1>1, IssueFinds DEF StoreTypes, Session
<1>3. CASE Issue!Goto(c, "adopt") /\ UNCHANGED Issue!clientVars /\ Issue!KeepLocals
  <2>1. /\ IssueTypes' /\ IssueOthers(c) /\ issuePc'[c] = "adopt"
        /\ UNCHANGED <<failures, cand, built, issueAnswer>>
    BY <1>3, IssueGoes DEF Issue!Steps
  <2>2. Own(c) /\ snap'[c] = snap[c]
    BY <1>1, <1>3, IssueFinds, Owns DEF Issue!clientVars, clientVars
  <2>3. IssueLocals(c)'
    BY <1>1, <2>1, <2>2 DEF IssueLocals, Issue!Building
  <2>. QED
    BY <1>1, <1>2, <2>1, <2>2, <2>3, IssueFinds DEF IssueServed
<1>4. CASE Issue!End(c, "200", id)
  <2>1. /\ issuePc' = [issuePc EXCEPT ![c] = "done"]
        /\ issueAnswer' = [issueAnswer EXCEPT ![c] = [code |-> "200", proof |-> id]]
        /\ attempt' = [attempt EXCEPT ![c] = 0]
        /\ cand' = [cand EXCEPT ![c] = Issue!NoReservation]
        /\ built' = [built EXCEPT ![c] = NoProof]
        /\ Issue!DropRecord(c) /\ UNCHANGED <<activeKey, failures>>
    BY <1>4 DEF Issue!End, Issue!Goto
  <2>2. IssueTypes' /\ IssueOthers(c) /\ Own(c) /\ IssueLocals(c)' /\ ~armed'[c]
    BY <1>1, <1>2, <2>1, IssueEnds DEF Issue!Codes
  <2>. QED
    BY <1>1, <1>2, <2>1, <2>2, IssueFinds DEF IssueServed
<1>5. CASE Issue!End(c, "ERR_PROOF_CONFLICT", NoId)
  BY <1>1, <1>2, <1>5, IssueGivesUp DEF Issue!Codes
<1>6. CASE Issue!NextAttempt(c)
  BY <1>1, <1>2, <1>6, IssueContinues DEF Issue!Continue
<1>7. CASE /\ Issue!Goto(c, "build")
           /\ cand' = [cand EXCEPT ![c] = Issue!TakenOver(c)]
           /\ UNCHANGED <<Issue!clientVars, attempt, built, issueAnswer, activeKey, failures>>
  <2>1. Issue!TakenOver(c) \in Issue!Reservation /\ Issue!TakenOver(c).id = id
    BY <1>2, IssueFinds DEF Issue!TakenOver, Issue!Reservation, Session
  <2>2. IssueTypes' /\ IssueOthers(c) /\ issuePc'[c] = "build" /\ cand'[c].id = id
    BY <1>7, <2>1, IssueFinds DEF IssueTypes, IssueOthers, Issue!Goto, Issue!Steps
  <2>3. Own(c) /\ snap'[c] = snap[c]
    BY <1>1, <1>7, IssueFinds, Owns DEF Issue!clientVars, clientVars
  <2>4. IssueLocals(c)'
    BY <1>1, <2>2 DEF IssueLocals, Issue!Building
  <2>. QED
    BY <1>1, <1>2, <1>7, <2>2, <2>3, <2>4, IssueFinds DEF IssueServed
<1>. QED
  BY <1>3, <1>4, <1>5, <1>6, <1>7 DEF Issue!Find

\* A write of issue_proof, or a conflict, which wrote nothing.
LEMMA IssueWrites ==
    ASSUME BaseInv, NEW c \in Workers, NEW s \in Session,
           UNCHANGED <<manifest, proofs, proofIndex, qr>>,
           Issue!ReplaceSession(c, s) \/ Issue!ReplaceConflicts(c, s)
    PROVE  StoreTypes' /\ UNCHANGED stamp
BY IssueFinds, IssueStore DEF StoreTypes, Writes, Rests

LEMMA IssueAdopts ==
    ASSUME BaseInv, UNCHANGED captured, NEW c \in Workers, Issue!Adopt(c)
    PROVE  IssueServed(c)
<1>. DEFINE s == [snap[c] EXCEPT !.status = "proof_issued"]
            id == snap[c].proof
<1>1. /\ issuePc[c] = "adopt" /\ id # NoId /\ ~Issues(c) /\ id \in ProofIds
      /\ UNCHANGED <<manifest, proofs, proofIndex, qr>>
      /\ s \in Session
  BY IssueFinds, Restated DEF Issue!Adopt, IssueLocals, Issues, Session, Statuses
<1>2. StoreTypes' /\ UNCHANGED stamp
  BY <1>1, IssueWrites DEF Issue!Adopt, Issue!IssuedOf
<1>3. CASE Issue!End(c, "200", id)
  <2>1. /\ issuePc' = [issuePc EXCEPT ![c] = "done"]
        /\ issueAnswer' = [issueAnswer EXCEPT ![c] = [code |-> "200", proof |-> id]]
        /\ attempt' = [attempt EXCEPT ![c] = 0]
        /\ cand' = [cand EXCEPT ![c] = Issue!NoReservation]
        /\ built' = [built EXCEPT ![c] = NoProof]
        /\ Issue!DropRecord(c) /\ UNCHANGED <<activeKey, failures>>
    BY <1>3 DEF Issue!End, Issue!Goto
  <2>2. IssueTypes' /\ IssueOthers(c) /\ Own(c) /\ IssueLocals(c)' /\ ~armed'[c]
    BY <1>1, <1>2, <2>1, IssueEnds DEF Issue!Codes
  <2>. QED
    BY <1>1, <1>2, <2>1, <2>2, IssueFinds DEF IssueServed
<1>4. CASE Issue!Continue(c)
  BY <1>1, <1>2, <1>4, IssueContinues
<1>. QED
  BY <1>3, <1>4 DEF Issue!Adopt

LEMMA IssueMarks ==
    ASSUME BaseInv, UNCHANGED captured, NEW c \in Workers,
           Issue!MarkValidating(c) \/ Issue!MarkVerified(c)
    PROVE  IssueServed(c)
<1>0. PICK status \in {"validating", "verified"}, next \in {"verified", "resolve"} :
         /\ issuePc[c] \in {"validating", "verified"}
         /\ UNCHANGED <<manifest, proofs, proofIndex, qr>>
         /\ \/ /\ Issue!ReplaceSession(c, [snap[c] EXCEPT !.status = status])
               /\ Issue!HoldReplaced(c, [snap[c] EXCEPT !.status = status])
               /\ Issue!Goto(c, next) /\ Issue!KeepLocals
            \/ /\ Issue!ReplaceConflicts(c, [snap[c] EXCEPT !.status = status])
               /\ Issue!Continue(c)
  <2>1. CASE Issue!MarkValidating(c)
    BY <2>1 DEF Issue!MarkValidating, Issue!ValidatingOf
  <2>2. CASE Issue!MarkVerified(c)
    BY <2>2 DEF Issue!MarkVerified, Issue!VerifiedOf
  <2>. QED
    BY <2>1, <2>2
<1>. DEFINE s == [snap[c] EXCEPT !.status = status]
<1>a. status \in Statuses
  BY DEF Statuses
<1>1. s \in Session /\ s.proof = snap[c].proof
  BY <1>a, IssueFinds, Restated
<1>. HIDE DEF s
<1>2. StoreTypes' /\ UNCHANGED stamp
  BY <1>0, <1>1, IssueWrites DEF s
<1>3. Issues(c) => Unreserved /\ s.proof = NoId
  BY <1>0, <1>1, IssueFinds DEF Issues, Unreserved
<1>4. CASE /\ Issue!ReplaceSession(c, s) /\ Issue!HoldReplaced(c, s)
           /\ Issue!Goto(c, next) /\ Issue!KeepLocals
  <2>1. session' = s /\ Own(c) /\ snap'[c] = s
    BY <1>1, <1>2, <1>4, IssueStore, IssueFinds, Owns DEF Writes
  <2>2. /\ IssueTypes' /\ IssueOthers(c) /\ issuePc'[c] = next
        /\ UNCHANGED <<failures, cand, built, issueAnswer>>
    BY <1>4, IssueGoes DEF Issue!Steps
  <2>3. IssueLocals(c)'
    BY <2>2 DEF IssueLocals, Issue!Building
  <2>4. Issues(c) => Issues(c)'
    BY <1>0, <1>3, <2>1, <2>2, IssueFinds, StaysUnreserved, IssuesOpen
  <2>. QED
    BY <1>0, <1>2, <2>1, <2>2, <2>3, <2>4, IssueFinds DEF IssueServed
<1>5. CASE Issue!ReplaceConflicts(c, s) /\ Issue!Continue(c)
  <2>1. Rests
    BY <1>5, IssueStore
  <2>. QED
    BY <1>0, <1>2, <1>3, <1>5, <2>1, IssueContinues DEF Rests, Unreserved
<1>. QED
  BY <1>0, <1>4, <1>5 DEF s

LEMMA IssueResolves ==
    ASSUME BaseInv, UNCHANGED captured, NEW c \in Workers, Issue!Resolve(c)
    PROVE  IssueServed(c)
<1>1. /\ issuePc[c] = "resolve"
      /\ UNCHANGED <<session, stamp, manifest, proofs, proofIndex, qr>>
      /\ UNCHANGED clientVars
      /\ Issue!Goto(c, "reserve")
      /\ UNCHANGED <<attempt, built, issueAnswer, activeKey, failures>>
  BY DEF Issue!Resolve, Issue!storeVars, Issue!clientVars, clientVars
<1>2. PICK id \in ProofIds : cand' = [cand EXCEPT ![c] = [id |-> id, key |-> activeKey]]
  BY DEF Issue!Resolve
<1>3. [id |-> id, key |-> activeKey] \in Issue!Reservation
  BY IssueFinds DEF IssueTypes, Issue!Reservation
<1>4. IssueTypes' /\ IssueOthers(c) /\ issuePc'[c] = "reserve" /\ cand'[c].id = id
  BY <1>1, <1>2, <1>3, IssueFinds DEF IssueTypes, IssueOthers, Issue!Goto, Issue!Steps
<1>5. Own(c) /\ snap'[c] = snap[c]
  BY <1>1, IssueFinds, Owns
<1>6. IssueLocals(c)'
  BY <1>4, StoreConstants DEF IssueLocals, Issue!Building
<1>7. Issues(c) => Issues(c)'
  <2>. SUFFICES ASSUME Issues(c) PROVE Issues(c)'
    OBVIOUS
  <2>1. Unreserved'
    BY <1>1, <1>5, IssueFinds, StaysUnreserved DEF Issues, Unreserved
  <2>. QED
    BY <1>1, <1>4, <2>1, IssuesOpen
<1>. QED
  BY <1>1, <1>4, <1>5, <1>6, <1>7, IssueFinds DEF IssueServed, StoreTypes

LEMMA IssueReserves ==
    ASSUME BaseInv, UNCHANGED captured, NEW c \in Workers, Issue!Reserve(c)
    PROVE  IssueServed(c)
<1>. DEFINE s == Issue!ReservedOf(c)
<1>1. /\ issuePc[c] = "reserve" /\ cand[c].id # NoId
      /\ UNCHANGED <<manifest, proofs, proofIndex, qr>>
  BY IssueFinds DEF Issue!Reserve, IssueLocals
<1>2. s \in Session /\ s.proof = cand[c].id
  <2>1. cand[c] \in Issue!Reservation
    BY IssueFinds DEF IssueTypes
  <2>. QED
    BY <2>1, IssueFinds DEF Issue!ReservedOf, Issue!Reservation, Session
<1>. HIDE DEF s
<1>3. StoreTypes' /\ UNCHANGED stamp
  BY <1>1, <1>2, IssueWrites DEF Issue!Reserve, s
<1>4. CASE /\ Issue!ReplaceSession(c, s) /\ Issue!HoldReplaced(c, s)
           /\ Issue!Goto(c, "build") /\ Issue!KeepLocals
  <2>1. session' = s /\ Own(c) /\ snap'[c] = s
    BY <1>2, <1>3, <1>4, IssueStore, IssueFinds, Owns DEF Writes
  <2>2. /\ IssueTypes' /\ IssueOthers(c) /\ issuePc'[c] = "build"
        /\ UNCHANGED <<failures, cand, built, issueAnswer>>
    BY <1>4, IssueGoes DEF Issue!Steps
  <2>3. IssueLocals(c)'
    BY <1>1, <2>2 DEF IssueLocals, Issue!Building
  <2>4. Issues(c) => Issues(c)'
    BY <1>1, <1>2, <2>1, <2>2 DEF Issues
  <2>. QED
    BY <1>1, <1>3, <2>1, <2>2, <2>3, <2>4, IssueFinds DEF IssueServed
<1>5. CASE Issue!ReplaceConflicts(c, s) /\ Issue!Continue(c)
  <2>1. Rests
    BY <1>5, IssueStore
  <2>2. Issues(c) => Unreserved
    BY <1>1 DEF Issues
  <2>. QED
    BY <1>1, <1>3, <1>5, <2>1, <2>2, IssueContinues DEF Rests, Unreserved
<1>. QED
  BY <1>4, <1>5 DEF Issue!Reserve, s

LEMMA IssueBuilds ==
    ASSUME BaseInv, UNCHANGED captured, NEW c \in Workers, Issue!Build(c)
    PROVE  IssueServed(c)
<1>1. /\ issuePc[c] = "build" /\ cand[c].id # NoId /\ cand[c] \in Issue!Reservation
      /\ UNCHANGED <<session, stamp, manifest, proofs, proofIndex, qr>>
  BY IssueFinds DEF Issue!Build, Issue!storeVars, IssueLocals, IssueTypes
<1>2. StoreTypes'
  BY <1>1, IssueFinds DEF StoreTypes
<1>3. ASSUME manifest # NoManifest, NEW salt \in Issue!Signatures,
             built' = [built EXCEPT ![c] =
               [id |-> cand[c].id, key |-> cand[c].key, manifest |-> manifest, salt |-> salt]],
             Issue!Goto(c, "save"),
             UNCHANGED <<Issue!clientVars, attempt, cand, issueAnswer, activeKey, failures>>
      PROVE  IssueServed(c)
  <2>. DEFINE p == [id |-> cand[c].id, key |-> cand[c].key, manifest |-> manifest, salt |-> salt]
  <2>1. salt \in Salts /\ manifest \in Manifests
    BY <1>3, CloudConstants, IssueFinds DEF Issue!Signatures, StoreTypes
  <2>2. p \in Proof /\ p.id = cand[c].id /\ p.manifest = manifest
    BY <1>1, <2>1 DEF Proof, Issue!Reservation
  <2>3. p # NoProof
    BY <2>2, NoProofIsNoRecord
  <2>. HIDE DEF p
  <2>4. /\ IssueTypes' /\ IssueOthers(c) /\ issuePc'[c] = "save" /\ built'[c] = p
        /\ UNCHANGED failures
    BY <1>3, <2>2, IssueFinds DEF IssueTypes, IssueOthers, Issue!Goto, Issue!Steps, p
  <2>5. Own(c) /\ snap'[c] = snap[c]
    BY <1>1, <1>3, IssueFinds, Owns DEF Issue!clientVars, clientVars
  <2>6. IssueLocals(c)'
    BY <2>3, <2>4 DEF IssueLocals
  <2>7. Issues(c) => Issues(c)'
    BY <1>1, <2>2, <2>4, <2>5 DEF Issues
  <2>. QED
    BY <1>1, <1>2, <2>4, <2>5, <2>6, <2>7, IssueFinds DEF IssueServed
<1>4. ASSUME NEW code \in Issue!Codes, Issue!End(c, code, NoId) PROVE IssueServed(c)
  BY <1>1, <1>2, <1>4, IssueGivesUp
<1>. QED
  BY <1>3, <1>4 DEF Issue!Build, Issue!Codes

LEMMA IssueSaves ==
    ASSUME BaseInv, UNCHANGED captured, NEW c \in Workers, Issue!Save(c)
    PROVE  IssueServed(c)
<1>1. /\ issuePc[c] = "save" /\ built[c] # NoProof /\ built[c] \in Proof
      /\ UNCHANGED <<session, stamp, manifest, proofIndex, qr>>
      /\ proofs' = {q \in proofs : q.id # built[c].id} \cup {built[c]}
      /\ UNCHANGED clientVars
      /\ Issue!Goto(c, "finish") /\ Issue!KeepLocals
  <2>1. ~Issue!ProofConflicts(built[c])
    BY IssueStore
  <2>. QED
    BY <2>1, IssueFinds, Locally DEF Issue!Save, Issue!WriteProof, Issue!clientVars, clientVars,
       IssueLocals, IssueTypes, Issue!Building
<1>2. StoreTypes'
  BY <1>1, IssueFinds DEF StoreTypes
<1>3. /\ IssueTypes' /\ IssueOthers(c) /\ issuePc'[c] = "finish"
      /\ UNCHANGED <<failures, cand, built, issueAnswer>>
  BY <1>1, IssueGoes DEF Issue!Steps
<1>4. Own(c) /\ snap'[c] = snap[c]
  BY <1>1, IssueFinds, Owns
<1>5. IssueLocals(c)'
  BY <1>1, <1>3 DEF IssueLocals
<1>6. Issues(c) => Issues(c)'
  BY <1>1, <1>3, <1>4 DEF Issues
<1>. QED
  BY <1>1, <1>2, <1>3, <1>4, <1>5, <1>6, IssueFinds DEF IssueServed

\* With local files there is no table row.
LEMMA IssueIndexes ==
    ASSUME BaseInv, UNCHANGED captured, NEW c \in Workers, Issue!SaveIndex(c)
    PROVE  IssueServed(c)
<1>1. /\ issuePc[c] = "index" /\ built[c] # NoProof /\ built[c] \in Proof
      /\ UNCHANGED <<session, stamp, manifest, proofs, qr, clientVars>>
      /\ proofIndex' = proofIndex \cup {built[c].id}
      /\ Issue!Goto(c, "finish") /\ Issue!KeepLocals
      /\ built[c].id \in ProofIds
  BY IssueFinds DEF Issue!SaveIndex, Issue!clientVars, clientVars, IssueLocals, IssueTypes,
     Issue!Building, Proof
<1>2. StoreTypes'
  BY <1>1, IssueFinds DEF StoreTypes
<1>3. /\ IssueTypes' /\ IssueOthers(c) /\ issuePc'[c] = "finish"
      /\ UNCHANGED <<failures, cand, built, issueAnswer>>
  BY <1>1, IssueGoes DEF Issue!Steps
<1>4. Own(c) /\ snap'[c] = snap[c]
  BY <1>1, IssueFinds, Owns
<1>5. IssueLocals(c)' /\ ~Issues(c)
  BY <1>1, <1>3 DEF IssueLocals, Issues
<1>. QED
  BY <1>1, <1>2, <1>3, <1>4, <1>5, IssueFinds DEF IssueServed

LEMMA IssueFinishes ==
    ASSUME BaseInv, UNCHANGED captured, NEW c \in Workers, Issue!Finish(c)
    PROVE  IssueServed(c)
<1>. DEFINE s == [snap[c] EXCEPT !.status = "proof_issued"]
<1>0. "proof_issued" \in Statuses
  BY DEF Statuses
<1>1. s \in Session /\ s.status = "proof_issued" /\ s.proof = snap[c].proof
  BY <1>0, IssueFinds, Restated
<1>. HIDE DEF s
<1>2. /\ issuePc[c] = "finish" /\ built[c] # NoProof
      /\ UNCHANGED <<manifest, proofs, proofIndex, qr>>
      /\ Issue!DropRecord(c) /\ Issue!KeepLocals
      /\ \/ Issue!ReplaceSession(c, s) /\ Issue!Goto(c, "qr")
         \/ Issue!ReplaceConflicts(c, s) /\ Issue!Goto(c, "recheck")
  BY IssueFinds DEF Issue!Finish, Issue!IssuedOf, s, IssueLocals, Issue!Building
<1>3. StoreTypes' /\ UNCHANGED stamp
  BY <1>1, <1>2, IssueWrites
<1>4. PICK next \in {"qr", "recheck"} :
         /\ Issue!Goto(c, next)
         /\ next = "recheck" => snap[c] # session
         /\ next = "qr" => session' = s
  BY <1>2, IssueStore DEF Writes
<1>5. /\ IssueTypes' /\ IssueOthers(c) /\ issuePc'[c] = next
      /\ UNCHANGED <<failures, cand, built, issueAnswer>>
  BY <1>2, <1>4, IssueGoes DEF Issue!Steps
<1>6. Own(c)
  BY <1>2, <1>3, IssueFinds, IssueStore, Owns
<1>7. IssueLocals(c)'
  BY <1>2, <1>5 DEF IssueLocals
<1>8. Issues(c) => Issues(c)'
  BY <1>1, <1>2, <1>4, <1>5 DEF Issues
<1>. QED
  BY <1>2, <1>3, <1>5, <1>6, <1>7, <1>8, IssueFinds DEF IssueServed

LEMMA IssueRechecks ==
    ASSUME BaseInv, UNCHANGED captured, NEW c \in Workers, Issue!Recheck(c)
    PROVE  IssueServed(c)
<1>1. /\ issuePc[c] = "recheck" /\ built[c] # NoProof /\ ~Issues(c)
      /\ UNCHANGED <<session, stamp, manifest, proofs, proofIndex, qr>>
  BY IssueFinds DEF Issue!Recheck, Issue!storeVars, IssueLocals, Issue!Building, Issues
<1>2. StoreTypes'
  BY <1>1, IssueFinds DEF StoreTypes
<1>3. CASE Issue!Goto(c, "qr") /\ UNCHANGED Issue!clientVars /\ Issue!KeepLocals
  <2>1. /\ IssueTypes' /\ IssueOthers(c) /\ issuePc'[c] = "qr"
        /\ UNCHANGED <<failures, cand, built, issueAnswer>>
    BY <1>3, IssueGoes DEF Issue!Steps
  <2>2. Own(c) /\ snap'[c] = snap[c]
    BY <1>1, <1>3, IssueFinds, Owns DEF Issue!clientVars, clientVars
  <2>3. IssueLocals(c)'
    BY <1>1, <2>1 DEF IssueLocals
  <2>. QED
    BY <1>1, <1>2, <2>1, <2>2, <2>3, IssueFinds DEF IssueServed
<1>4. CASE Issue!End(c, "ERR_PROOF_CONFLICT", NoId)
  BY <1>1, <1>2, <1>4, IssueGivesUp DEF Issue!Codes
<1>. QED
  BY <1>3, <1>4 DEF Issue!Recheck

LEMMA IssueAnswers ==
    ASSUME BaseInv, UNCHANGED captured, NEW c \in Workers, Issue!SaveQr(c)
    PROVE  IssueServed(c)
<1>. DEFINE id == built[c].id
<1>1. /\ issuePc[c] = "qr" /\ built[c] # NoProof /\ built[c] \in Proof /\ id \in ProofIds
      /\ UNCHANGED <<session, stamp, manifest, proofs, proofIndex>>
      /\ qr' = qr \cup {id}
  BY IssueFinds DEF Issue!SaveQr, IssueLocals, IssueTypes, Issue!Building, Proof
<1>2. StoreTypes'
  BY <1>1, IssueFinds DEF StoreTypes
<1>3. /\ issuePc' = [issuePc EXCEPT ![c] = "done"]
      /\ issueAnswer' = [issueAnswer EXCEPT ![c] = [code |-> "201", proof |-> id]]
      /\ attempt' = [attempt EXCEPT ![c] = 0]
      /\ cand' = [cand EXCEPT ![c] = Issue!NoReservation]
      /\ built' = [built EXCEPT ![c] = NoProof]
      /\ Issue!DropRecord(c) /\ UNCHANGED <<activeKey, failures>>
  BY DEF Issue!SaveQr, Issue!End, Issue!Goto
<1>4. /\ IssueTypes' /\ IssueOthers(c) /\ Own(c) /\ IssueLocals(c)' /\ ~armed'[c]
      /\ issuePc'[c] = "done" /\ issueAnswer'[c].proof = id
  BY <1>1, <1>3, IssueEnds DEF Issue!Codes
<1>5. Issues(c) => Issues(c)'
  BY <1>1, <1>4 DEF Issues
<1>. QED
  BY <1>1, <1>2, <1>3, <1>4, <1>5, IssueFinds DEF IssueServed

LEMMA IssueCompares ==
    ASSUME BaseInv, UNCHANGED captured, NEW c \in Workers, Issue!Compare(c)
    PROVE  IssueServed(c)
<1>1. /\ issuePc[c] \notin {"idle", "done"}
      /\ UNCHANGED <<session, stamp, manifest, proofs, proofIndex, qr>>
      /\ UNCHANGED <<issuePc, attempt, cand, built, issueAnswer, activeKey, failures>>
      /\ armed' = [armed EXCEPT ![c] = TRUE] /\ UNCHANGED <<snap, etag>>
  BY IssueStore DEF Issue!Compare, Issue!storeVars, Issue!issueVars, Issue!ReplaceSteps
<1>2. Own(c) /\ snap'[c] = snap[c]
  BY <1>1, IssueFinds, Owns
<1>3. IssueTypes' /\ StoreTypes' /\ IssueOthers(c)
  BY <1>1, IssueFinds DEF IssueTypes, StoreTypes, IssueOthers
<1>4. IssueLocals(c)'
  BY <1>1, IssueFinds DEF IssueLocals
<1>5. Issues(c) => Issues(c)'
  BY <1>1 DEF Issues, Unreserved
<1>. QED
  BY <1>1, <1>2, <1>3, <1>4, <1>5, IssueFinds DEF IssueServed

LEMMA IssueFails ==
    ASSUME BaseInv, UNCHANGED captured, NEW c \in Workers, Issue!Fail(c)
    PROVE  IssueServed(c)
<1>1. /\ issuePc[c] \notin {"idle", "done"}
      /\ UNCHANGED <<session, stamp, manifest, proofs, proofIndex, qr>>
      /\ failures < MaxFailures /\ failures' = failures + 1
      /\ issuePc' = [issuePc EXCEPT ![c] = "done"]
      /\ issueAnswer' = [issueAnswer EXCEPT ![c] = [code |-> "lost", proof |-> NoId]]
      /\ attempt' = [attempt EXCEPT ![c] = 0]
      /\ cand' = [cand EXCEPT ![c] = Issue!NoReservation]
      /\ built' = [built EXCEPT ![c] = NoProof]
      /\ Issue!DropRecord(c) /\ UNCHANGED activeKey
  BY DEF Issue!Fail, Issue!storeVars, Issue!Goto
<1>2. StoreTypes' /\ failures' \in 0 .. MaxFailures
  BY <1>1, IssueFinds, CallFinds DEF StoreTypes
<1>3. /\ IssueTypes' /\ IssueOthers(c) /\ Own(c) /\ IssueLocals(c)' /\ ~armed'[c]
      /\ issuePc'[c] = "done" /\ issueAnswer'[c].proof = NoId
  BY <1>1, IssueFinds, IssueEnds DEF Issue!Codes
<1>4. Issues(c) => Issues(c)'
  BY <1>1, <1>3, IssuesOpen
<1>. QED
  BY <1>1, <1>2, <1>3, <1>4 DEF IssueServed

LEMMA IssueServes ==
    ASSUME BaseInv, NEW c \in Workers, IssueStep(c)
    PROVE  IssueServed(c)
BY IssueLoads, IssueLooks, IssueAdopts, IssueMarks, IssueResolves, IssueReserves, IssueBuilds,
   IssueSaves, IssueIndexes, IssueFinishes, IssueRechecks, IssueAnswers, IssueCompares, IssueFails
   DEF IssueStep, Issue!Step

-----------------------------------------------------------------------------
\* start_session

StartServed ==
    /\ StartTypes' /\ StoreTypes' /\ failures' \in 0 .. MaxFailures
    /\ Own(Starter)
    /\ startPc # "done"
    /\ UNCHANGED manifest
    /\ Unreserved => Unreserved'

LEMMA StartServes ==
    ASSUME BaseInv, StartSession
    PROVE  StartServed
<1>. DEFINE d == Starter
<1>1. /\ StartTypes /\ HeldTypes /\ StoreTypes
      /\ d \in Calls /\ Start!c = d /\ BlankSession \in Session /\ BlankSession.proof = NoId
      /\ snap[d] \in Session /\ stamp \in Nat
      /\ failures \in 0 .. MaxFailures /\ MaxFailures \in Nat
  BY Locally, TypesAreTypeOK, CloudConstants
     DEF BaseInv, Types, HeldTypes, StoreTypes, Start!c, Start!StartConstants
<1>2. ASSUME NEW s \in Session, Unreserved => s.proof = NoId,
             UNCHANGED <<manifest, proofs, proofIndex, qr>>,
             \/ Start!ReplaceSession(d, s) \/ Start!ReplaceConflicts(d, s) \/ Start!Put(s)
             \/ UNCHANGED <<session, stamp>>,
             \/ Start!HoldReplaced(d, s) \/ Start!DropRecord(d) \/ Start!CompareEtag(d)
             \/ UNCHANGED clientVars
             \/ etag' = [etag EXCEPT ![d] = stamp] /\ UNCHANGED <<snap, armed>>,
             startPc # "done", startPc' \in Start!Steps, startAnswer' \in Start!Codes,
             commanded' \in BOOLEAN,
             UNCHANGED failures \/ Start!Unavailable
      PROVE  StartServed
  <2>1. Writes(s) \/ Rests
    BY <1>2, StartStore DEF Rests
  <2>2. /\ StoreTypes' /\ UNCHANGED stamp
        /\ Unreserved => session'.proof = NoId
    BY <1>1, <1>2, <2>1 DEF StoreTypes, Writes, Rests, Unreserved
  <2>3. failures' \in 0 .. MaxFailures
    BY <1>1, <1>2 DEF Start!Unavailable
  <2>4. Own(d) /\ snap'[d] \in {snap[d], s, BlankSession}
    <3>1. ASSUME etag' = [etag EXCEPT ![d] = stamp], UNCHANGED <<snap, armed>>
          PROVE  Own(d) /\ snap'[d] = snap[d]
      BY <1>1, <3>1 DEF Own, HeldTypes
    <3>. QED
      BY <1>1, <1>2, <2>2, <3>1, StartStore, Owns
  <2>5. Unreserved => Unreserved'
    BY <1>1, <1>2, <2>2, <2>4, StaysUnreserved DEF Unreserved
  <2>. QED
    BY <1>2, <2>2, <2>3, <2>4, <2>5 DEF StartServed, StartTypes
<1>3. ASSUME NEW status \in Statuses
      PROVE  /\ Start!WithStatus(status) \in Session
             /\ Unreserved => Start!WithStatus(status).proof = NoId
  BY <1>1, <1>3, Restated DEF Start!WithStatus, Unreserved
<1>4. {"challenge_issued", "waiting_device", "failed"} \subseteq Statuses
  BY DEF Statuses
<1>5. CASE Start!Create
  BY <1>1, <1>2, <1>5, StartStore DEF Start!Create, Start!NoOtherRecord, Start!Steps,
     StartTypes
<1>6. CASE Start!CreateFails \/ Start!Fail
  BY <1>1, <1>2, <1>6 DEF Start!CreateFails, Start!Fail, Start!End, Start!Steps, Start!Codes,
     Start!storeVars, StartTypes
<1>7. CASE Start!Targets \/ Start!Dispatch
  BY <1>1, <1>2, <1>7 DEF Start!Targets, Start!Dispatch, Start!ToMarkFailed, Start!Steps,
     Start!storeVars, Start!clientVars, clientVars, StartTypes
<1>8. CASE Start!Challenge
  <2>. DEFINE s == Start!WithStatus("challenge_issued")
  <2>1. s \in Session /\ (Unreserved => s.proof = NoId)
    BY <1>3, <1>4
  <2>. HIDE DEF s
  <2>2. /\ startPc = "challenge" /\ UNCHANGED <<manifest, proofs, proofIndex, qr, commanded>>
        /\ \/ Start!ReplaceSession(d, s) /\ Start!HoldReplaced(d, s)
              /\ startPc' = "waiting" /\ UNCHANGED <<startAnswer, failures>>
           \/ Start!ReplaceConflicts(d, s) /\ Start!DropRecord(d)
              /\ startPc' = "done" /\ startAnswer' = "ERR_STORAGE_CONFLICT"
              /\ UNCHANGED failures
           \/ Start!CompareEtag(d) /\ UNCHANGED <<session, stamp, startPc, startAnswer, failures>>
    BY <1>1, <1>8 DEF Start!Challenge, Start!NoOtherRecord, Start!End, Start!Compares, s
  <2>. QED
    BY <1>1, <1>2, <2>1, <2>2 DEF Start!Steps, Start!Codes, StartTypes
<1>9. CASE Start!Waiting
  <2>. DEFINE s == Start!WithStatus("waiting_device")
  <2>1. s \in Session /\ (Unreserved => s.proof = NoId)
    BY <1>3, <1>4
  <2>. HIDE DEF s
  <2>2. /\ startPc = "waiting" /\ UNCHANGED <<manifest, proofs, proofIndex, qr, commanded>>
        /\ \/ Start!ReplaceSession(d, s) /\ Start!HoldReplaced(d, s)
              /\ startPc' = "dispatched" /\ UNCHANGED <<startAnswer, failures>>
           \/ Start!ReplaceConflicts(d, s) /\ Start!DropRecord(d)
              /\ startPc' = "done" /\ startAnswer' = "ERR_STORAGE_CONFLICT"
              /\ UNCHANGED failures
           \/ Start!CompareEtag(d) /\ UNCHANGED <<session, stamp, startPc, startAnswer, failures>>
    BY <1>1, <1>9, Locally DEF Start!Waiting, Start!NoOtherRecord, Start!End, Start!Compares, s
  <2>. QED
    BY <1>1, <1>2, <2>1, <2>2 DEF Start!Steps, Start!Codes, StartTypes
<1>10. CASE Start!Dispatched
  BY <1>1, <1>2, <1>10, Locally DEF Start!Dispatched, Start!End, Start!Steps, Start!Codes,
     Start!storeVars, StartTypes
<1>11. CASE Start!FailLoad
  BY <1>1, <1>2, <1>11 DEF Start!FailLoad, Start!Steps, Start!storeVars, StartTypes
<1>12. CASE Start!FailSave
  <2>. DEFINE s == Start!WithStatus("failed")
  <2>1. s \in Session /\ (Unreserved => s.proof = NoId)
    BY <1>3, <1>4
  <2>. HIDE DEF s
  <2>2. /\ startPc = "fail_save" /\ UNCHANGED <<manifest, proofs, proofIndex, qr>>
        /\ UNCHANGED <<commanded, failures>>
        /\ Start!ReplaceSession(d, s) \/ Start!ReplaceConflicts(d, s)
        /\ Start!DropRecord(d) /\ startPc' = "done"
        /\ startAnswer' \in {"ERR_STORAGE_UNAVAILABLE", "ERR_DEVICE_COMMAND", "ERR_INTERNAL"}
    BY <1>1, <1>12 DEF Start!FailSave, Start!NoOtherRecord, Start!End, Start!GiveUp, s
  <2>. QED
    BY <1>1, <1>2, <2>1, <2>2 DEF Start!Steps, Start!Codes, StartTypes
<1>. QED
  BY <1>5, <1>6, <1>7, <1>8, <1>9, <1>10, <1>11, <1>12 DEF StartSession, Start!Step

-----------------------------------------------------------------------------
\* The invariant, step by step

\* Nothing but the client moved.
LEMMA ClientMoves ==
    ASSUME BaseInv, UNCHANGED vars, ClientTypes'
    PROVE  BaseInv'
<1>1. /\ UNCHANGED <<session, stamp, manifest, proofs, proofIndex, qr, snap, etag, armed>>
      /\ UNCHANGED <<failures, captured, startPc, startAnswer, commanded>>
      /\ UNCHANGED <<telePc, message, round, outcome>>
      /\ UNCHANGED <<ingestPc, payload, ingestAnswer, result, expired>>
      /\ UNCHANGED <<issuePc, attempt, cand, built, issueAnswer, activeKey>>
  BY DEF vars, storeVars, clientVars, startV, teleV, ingestV, issueV
<1>2. Types
  BY TypesAreTypeOK DEF BaseInv
<1>3. Types'
  BY <1>1, <1>2 DEF Types, StartTypes, TeleTypes, IngestTypes, IssueTypes, HeldTypes, StoreTypes
<1>4. ASSUME NEW c \in Workers PROVE IngestLocals(c)' /\ IssueLocals(c)' /\ OneHandler(c)'
  <2>1. IngestLocals(c) /\ IssueLocals(c) /\ OneHandler(c)
    BY DEF BaseInv
  <2>. QED
    BY <1>1, <2>1 DEF IngestLocals, IssueLocals, OneHandler
<1>5. SyncTypeOK'
  BY <1>3, TypesAreTypeOK, PTL
<1>. QED
  BY <1>4, <1>5 DEF BaseInv

\* What stays while only the client moves.
LEMMA CloudRests ==
    ASSUME UNCHANGED vars
    PROVE  /\ UNCHANGED <<session, manifest, proofs, captured, startPc, armed>>
           /\ Unreserved' <=> Unreserved
           /\ \A c : Idle(c)' <=> Idle(c)
           /\ UNCHANGED <<ingestPc, payload, ingestAnswer, issuePc, issueAnswer>>
BY DEF vars, storeVars, clientVars, startV, ingestV, issueV, Unreserved, Idle

LEMMA IngestKeeps ==
    ASSUME SyncInv, NEW c \in Workers, IngestStep(c), UNCHANGED clientRunV
    PROVE  SyncInv'
<1>1. /\ BaseInv /\ ClientTypes /\ Types
  BY TypesAreTypeOK DEF SyncInv, BaseInv
<1>2. IngestServed(c)
  BY <1>1, IngestServes
<1>3. /\ UNCHANGED <<startPc, startAnswer, commanded, telePc, message, round, outcome>>
      /\ UNCHANGED <<issuePc, attempt, cand, built, issueAnswer, activeKey, captured>>
      /\ UNCHANGED <<clientPc, ours, reported, exit>>
  BY DEF IngestStep, startV, teleV, issueV, clientRunV
<1>4. BaseInv'
  <2>1. Types' /\ ClientTypes'
    BY <1>1, <1>2, <1>3 DEF IngestServed, Own, Types, StartTypes, TeleTypes, IssueTypes, ClientTypes
  <2>2. ASSUME NEW d \in Workers PROVE IngestLocals(d)' /\ IssueLocals(d)' /\ OneHandler(d)'
    <3>1. IngestLocals(d) /\ IssueLocals(d) /\ OneHandler(d) /\ d \in Calls
      BY <1>1, Locally DEF BaseInv
    <3>2. CASE d = c
      BY <1>2, <1>3, <3>1, <3>2 DEF IngestServed, IngestLocals, IssueLocals, OneHandler,
         Issue!Building
    <3>3. CASE d # c
      BY <1>2, <1>3, <3>1, <3>3 DEF IngestServed, IngestOthers, Own, IngestLocals, IssueLocals,
         OneHandler
    <3>. QED
      BY <3>2, <3>3
  <2>3. SyncTypeOK'
    BY <2>1, TypesAreTypeOK, PTL
  <2>. QED
    BY <2>2, <2>3 DEF BaseInv
<1>5. ASSUME Awaited PROVE AwaitedInv'
  <2>1. AwaitedInv /\ Alone
    BY <1>5 DEF SyncInv, AwaitedInv
  <2>2. c = ours /\ clientPc = "ingested" /\ HandsIn(c) /\ Unreserved /\ reported = NoId
    BY <1>2, <2>1 DEF IngestServed, Alone, AwaitedInv, Idle
  <2>3. Unreserved'
    BY <1>2, <2>2, Locally, StaysUnreserved DEF IngestServed
  <2>4. HandsIn(c)'
    BY <1>2, <1>3, <2>2 DEF IngestServed, HandsIn
  <2>5. Alone'
    BY <1>2, <1>3, <2>1, <2>2, Locally DEF Alone, Idle, IngestServed, IngestOthers, Own
  <2>. QED
    BY <1>3, <2>1, <2>2, <2>3, <2>4, <2>5 DEF AwaitedInv, ReportedIsIssued
<1>. QED
  BY <1>3, <1>4, <1>5 DEF SyncInv, Awaited

LEMMA IssueKeeps ==
    ASSUME SyncInv, NEW c \in Workers, IssueStep(c), UNCHANGED clientRunV
    PROVE  SyncInv'
<1>1. /\ BaseInv /\ ClientTypes /\ Types
  BY TypesAreTypeOK DEF SyncInv, BaseInv
<1>2. IssueServed(c)
  BY <1>1, IssueServes
<1>3. /\ UNCHANGED <<startPc, startAnswer, commanded, telePc, message, round, outcome>>
      /\ UNCHANGED <<ingestPc, payload, ingestAnswer, result, expired, captured>>
      /\ UNCHANGED <<clientPc, ours, reported, exit>>
  BY DEF IssueStep, startV, teleV, ingestV, clientRunV
<1>5. ASSUME Awaited PROVE AwaitedInv'
  <2>1. AwaitedInv /\ Alone
    BY <1>5 DEF SyncInv, AwaitedInv
  <2>2. c = ours /\ clientPc = "issued" /\ Issues(c) /\ reported = NoId
    BY <1>2, <2>1 DEF IssueServed, Alone, AwaitedInv, Idle
  <2>3. Issues(c)'
    BY <1>2, <2>2 DEF IssueServed
  <2>4. Alone'
    BY <1>2, <1>3, <2>1, <2>2, Locally DEF Alone, Idle, IssueServed, IssueOthers, Own
  <2>. QED
    BY <1>3, <2>1, <2>2, <2>3, <2>4 DEF AwaitedInv, ReportedIsIssued
<1>6. BaseInv'
  <2>1. Types' /\ ClientTypes'
    BY <1>1, <1>2, <1>3 DEF IssueServed, Own, Types, StartTypes, TeleTypes, IngestTypes, ClientTypes
  <2>2. ASSUME NEW d \in Workers PROVE IngestLocals(d)' /\ IssueLocals(d)' /\ OneHandler(d)'
    <3>1. IngestLocals(d) /\ IssueLocals(d) /\ OneHandler(d) /\ d \in Calls
      BY <1>1, Locally DEF BaseInv
    <3>2. CASE d = c
      BY <1>2, <1>3, <3>1, <3>2 DEF IssueServed, IngestLocals, IssueLocals, OneHandler
    <3>3. CASE d # c
      BY <1>2, <1>3, <3>1, <3>3 DEF IssueServed, IssueOthers, Own, IngestLocals, IssueLocals,
         OneHandler
    <3>. QED
      BY <3>2, <3>3
  <2>3. SyncTypeOK'
    BY <2>1, TypesAreTypeOK, PTL
  <2>. QED
    BY <2>2, <2>3 DEF BaseInv
<1>. QED
  BY <1>3, <1>5, <1>6 DEF SyncInv, Awaited

LEMMA StartKeeps ==
    ASSUME SyncInv, StartSession, UNCHANGED clientRunV
    PROVE  SyncInv'
<1>1. /\ BaseInv /\ ClientTypes /\ Types
  BY TypesAreTypeOK DEF SyncInv, BaseInv
<1>2. StartServed
  BY <1>1, StartServes
<1>3. /\ UNCHANGED <<telePc, message, round, outcome>>
      /\ UNCHANGED <<ingestPc, payload, ingestAnswer, result, expired>>
      /\ UNCHANGED <<issuePc, attempt, cand, built, issueAnswer, activeKey, captured>>
      /\ UNCHANGED <<clientPc, ours, reported, exit>>
  BY DEF StartSession, teleV, ingestV, issueV, clientRunV
<1>4. BaseInv'
  <2>1. Types' /\ ClientTypes'
    BY <1>1, <1>2, <1>3 DEF StartServed, Own, Types, TeleTypes, IngestTypes, IssueTypes, ClientTypes
  <2>2. ASSUME NEW d \in Workers PROVE IngestLocals(d)' /\ IssueLocals(d)' /\ OneHandler(d)'
    <3>1. IngestLocals(d) /\ IssueLocals(d) /\ OneHandler(d) /\ d \in Calls \ {Starter}
      BY <1>1, Locally DEF BaseInv
    <3>. QED
      BY <1>2, <1>3, <3>1 DEF StartServed, Own, IngestLocals, IssueLocals, OneHandler
  <2>3. SyncTypeOK'
    BY <2>1, TypesAreTypeOK, PTL
  <2>. QED
    BY <2>2, <2>3 DEF BaseInv
<1>5. ASSUME Awaited PROVE AwaitedInv'
  <2>1. AwaitedInv /\ Alone
    BY <1>5 DEF SyncInv, AwaitedInv
  <2>2. clientPc = "start" /\ Unreserved /\ reported = NoId
    BY <1>2, <2>1 DEF StartServed, Alone, AwaitedInv
  <2>3. Unreserved'
    BY <1>2, <2>2 DEF StartServed
  <2>4. Alone'
    BY <1>2, <1>3, <2>1, <2>2, Locally DEF Alone, Idle, StartServed, Own
  <2>. QED
    BY <1>3, <2>1, <2>2, <2>3, <2>4 DEF AwaitedInv, ReportedIsIssued
<1>. QED
  BY <1>3, <1>4, <1>5 DEF SyncInv, Awaited

LEMMA ExpireKeeps ==
    ASSUME SyncInv, Expire, UNCHANGED clientRunV
    PROVE  SyncInv'
<1>1. BaseInv /\ ClientTypes /\ Types
  BY TypesAreTypeOK DEF SyncInv, BaseInv
<1>2. /\ UNCHANGED <<session, stamp, manifest, proofs, proofIndex, qr, snap, etag, armed>>
      /\ UNCHANGED <<failures, captured, startPc, startAnswer, commanded>>
      /\ UNCHANGED <<telePc, message, round, outcome>>
      /\ UNCHANGED <<ingestPc, payload, ingestAnswer, result>> /\ expired' = TRUE
      /\ UNCHANGED <<issuePc, attempt, cand, built, issueAnswer, activeKey>>
      /\ UNCHANGED <<clientPc, ours, reported, exit>>
  BY DEF Expire, Ingest!Expire, Ingest!storeVars, Ingest!clientVars, startV, teleV, issueV,
     clientRunV
<1>3. BaseInv'
  <2>1. Types' /\ ClientTypes'
    BY <1>1, <1>2 DEF Types, StartTypes, TeleTypes, IngestTypes, IssueTypes, HeldTypes,
       StoreTypes, ClientTypes
  <2>2. ASSUME NEW d \in Workers PROVE IngestLocals(d)' /\ IssueLocals(d)' /\ OneHandler(d)'
    <3>1. IngestLocals(d) /\ IssueLocals(d) /\ OneHandler(d)
      BY <1>1 DEF BaseInv
    <3>. QED
      BY <1>2, <3>1 DEF IngestLocals, IssueLocals, OneHandler
  <2>3. SyncTypeOK'
    BY <2>1, TypesAreTypeOK, PTL
  <2>. QED
    BY <2>2, <2>3 DEF BaseInv
<1>4. ASSUME Awaited PROVE AwaitedInv'
  <2>1. AwaitedInv
    BY <1>4 DEF SyncInv
  <2>2. Alone'
    BY <1>2, <2>1 DEF AwaitedInv, Alone, Idle
  <2>3. HandsIn(ours)' <=> HandsIn(ours)
    BY <1>2 DEF HandsIn
  <2>4. Issues(ours)' <=> Issues(ours)
    BY <1>2 DEF Issues, Unreserved
  <2>. QED
    BY <1>2, <2>1, <2>2, <2>3, <2>4 DEF AwaitedInv, Unreserved, ReportedIsIssued
<1>. QED
  BY <1>2, <1>3, <1>4 DEF SyncInv, Awaited

\* The client goes on, or gives up.
LEMMA ClientGoes ==
    ASSUME SyncInv,
           Started \/ Capture \/ Ingested \/ Issued \/ Verify \/ TimeOut
    PROVE  SyncInv'
<1>1. /\ BaseInv /\ ClientTypes /\ Types
  BY TypesAreTypeOK DEF SyncInv, BaseInv
<1>2. UNCHANGED vars
  BY DEF Started, Capture, Ingested, Issued, Verify, TimeOut
<1>3. clientPc # "done" /\ Awaited /\ AwaitedInv /\ Alone
  BY DEF SyncInv, Awaited, AwaitedInv, Started, Capture, Ingested, Issued, Verify, TimeOut
<1>4. BaseInv'
  <2>1. ClientTypes'
    <3>1. ours' \in Workers \cup {NoCall} /\ reported' \in ProofIds \cup {NoId}
      <4>1. CASE Issued
        <5>1. ours \in Workers /\ issueAnswer[ours] \in [code : Issue!Codes, proof : ProofIds \cup {NoId}]
          BY <1>1, <4>1 DEF ClientTypes, Types, IssueTypes, Issued
        <5>. QED
          BY <4>1, <5>1 DEF Issued
      <4>. QED
        BY <1>1, <4>1 DEF Started, Capture, Ingested, Verify, TimeOut, ClientTypes
    <3>2. CASE Started \/ Capture \/ Ingested \/ TimeOut
      BY <1>1, <3>1, <3>2 DEF Started, Capture, Ingested, TimeOut, Continue, Error, ClientTypes,
         ClientSteps
    <3>3. CASE Issued \/ Verify
      BY <1>1, <3>1, <3>3 DEF Issued, Verify, Continue, Error, ClientTypes, ClientSteps
    <3>. QED
      BY <3>2, <3>3
  <2>. QED
    BY <1>1, <1>2, <2>1, ClientMoves
<1>5. ASSUME Awaited' PROVE AwaitedInv'
  <2>1. /\ UNCHANGED <<session, manifest, proofs, captured, startPc, armed>>
        /\ Unreserved' <=> Unreserved
        /\ UNCHANGED <<ingestPc, payload, ingestAnswer, issuePc, issueAnswer>>
        /\ \A c : Idle(c)' <=> Idle(c)
    BY <1>2, CloudRests
  <2>2. CASE Started \/ Capture
    <3>1. clientPc' \in {"capture", "ingest"} /\ ours' = ours /\ reported' = reported
          /\ clientPc \in {"start", "capture"} /\ reported = NoId /\ startPc = "done"
      BY <1>3, <1>5, <2>2 DEF Started, Capture, Continue, Error, Awaited, AwaitedInv, Alone
    <3>2. Alone'
      BY <1>3, <2>1, <3>1 DEF Alone
    <3>. QED
      BY <1>3, <2>1, <3>1, <3>2 DEF AwaitedInv, ReportedIsIssued
  <2>3. CASE Ingested
    <3>1. clientPc' = "issue" /\ ours' = NoCall /\ reported' = reported
          /\ clientPc = "ingested" /\ reported = NoId /\ startPc = "done"
          /\ ingestPc[ours] = "done" /\ ingestAnswer[ours] = "200"
      BY <1>3, <1>5, <2>3 DEF Ingested, Continue, Error, Awaited, AwaitedInv, Alone
    <3>2. manifest = captured
      BY <1>3, <3>1 DEF AwaitedInv, HandsIn
    <3>3. Alone'
      BY <1>3, <2>1, <3>1 DEF Alone, Idle
    <3>. QED
      BY <1>3, <2>1, <3>1, <3>2, <3>3 DEF AwaitedInv, ReportedIsIssued
  <2>4. CASE Issued
    <3>1. clientPc' \in {"verify", "done"} /\ ours' = NoCall /\ reported' = issueAnswer[ours].proof
          /\ clientPc = "issued" /\ startPc = "done" /\ reported' # NoId
          /\ issuePc[ours] = "done" /\ Issues(ours)
      BY <1>3, <1>5, <2>4 DEF Issued, Continue, Error, Awaited, AwaitedInv, Alone
    <3>2. /\ session.status = "proof_issued" /\ session.proof = reported'
          /\ \E p \in proofs : p.id = reported' /\ p.manifest = captured
      BY <3>1 DEF Issues
    <3>3. Alone'
      BY <1>3, <2>1, <3>1 DEF Alone, Idle
    <3>4. ReportedIsIssued'
      BY <2>1, <3>2 DEF ReportedIsIssued
    <3>. QED
      BY <3>1, <3>3, <3>4 DEF AwaitedInv
  <2>5. CASE Verify \/ TimeOut
    <3>1. clientPc' = "done" /\ ours' = ours /\ reported' = reported /\ reported # NoId
      BY <1>5, <2>5 DEF Verify, TimeOut, Error, Awaited
    <3>2. clientPc = "verify" /\ startPc = "done" /\ ours = NoCall
      BY <1>3, <3>1 DEF AwaitedInv, Alone
    <3>3. Alone'
      BY <1>3, <2>1, <3>1, <3>2 DEF Alone
    <3>4. ReportedIsIssued'
      BY <1>3, <2>1, <3>1 DEF AwaitedInv, ReportedIsIssued
    <3>. QED
      BY <3>1, <3>3, <3>4 DEF AwaitedInv
  <2>. QED
    BY <2>2, <2>3, <2>4, <2>5
<1>. QED
  BY <1>4, <1>5 DEF SyncInv

\* The client sends its manifest, or asks for the Proof.
LEMMA ClientSends ==
    ASSUME SyncInv, HandIn \/ AskForProof
    PROVE  SyncInv'
<1>1. /\ BaseInv /\ ClientTypes /\ Types
  BY TypesAreTypeOK DEF SyncInv, BaseInv
<1>2. Awaited /\ Awaited' /\ AwaitedInv /\ Alone /\ reported = NoId
  BY DEF SyncInv, Awaited, AwaitedInv, HandIn, AskForProof, Continue
<1>3. CASE HandIn
  <2>1. PICK c \in Workers :
           /\ Idle(c) /\ Ingest!Receive(c) /\ payload'[c] = captured /\ ours' = c
    BY <1>3 DEF HandIn
  <2>2. /\ clientPc = "ingest" /\ clientPc' = "ingested" /\ UNCHANGED <<exit, reported>>
        /\ UNCHANGED <<startPc, startAnswer, commanded, telePc, message, round, outcome>>
        /\ UNCHANGED <<issuePc, attempt, cand, built, issueAnswer, activeKey, captured>>
    BY <1>3 DEF HandIn, Continue, startV, teleV, issueV
  <2>3. /\ UNCHANGED <<session, stamp, manifest, proofs, proofIndex, qr, snap, etag, armed>>
        /\ UNCHANGED <<result, expired, failures>>
        /\ ingestPc' = [ingestPc EXCEPT ![c] = "load"]
        /\ ingestAnswer' = [ingestAnswer EXCEPT ![c] = "none"]
    BY <2>1 DEF Ingest!Receive, Ingest!Goto, Ingest!storeVars, Ingest!clientVars
  <2>4. PICK m \in Manifests : payload' = [payload EXCEPT ![c] = m]
    BY <2>1 DEF Ingest!Receive
  <2>5. /\ ingestPc \in [Workers -> Ingest!Steps] /\ ingestAnswer \in [Workers -> Ingest!Codes]
        /\ payload \in [Workers -> Manifests \cup {NoManifest}]
    BY <1>1 DEF Types, IngestTypes
  <2>6. Types' /\ ClientTypes'
    <3>1. IngestTypes'
      BY <1>1, <2>3, <2>4, <2>5 DEF Types, IngestTypes, Ingest!Steps, Ingest!Codes
    <3>. QED
      BY <1>1, <2>1, <2>2, <2>3, <3>1 DEF Types, StartTypes, TeleTypes, IssueTypes, HeldTypes,
         StoreTypes, ClientTypes, ClientSteps
  <2>7. ASSUME NEW d \in Workers PROVE IngestLocals(d)' /\ IssueLocals(d)' /\ OneHandler(d)'
    <3>1. IngestLocals(d) /\ IssueLocals(d) /\ OneHandler(d)
      BY <1>1 DEF BaseInv
    <3>. QED
      BY <2>1, <2>2, <2>3, <2>4, <2>5, <3>1 DEF IngestLocals, IssueLocals, OneHandler, Idle
  <2>8. SyncTypeOK'
    BY <2>6, TypesAreTypeOK, PTL
  <2>9. Alone'
    BY <1>2, <2>1, <2>2, <2>3, <2>5, Locally DEF Alone, Idle, NoCall
  <2>10. Unreserved' /\ HandsIn(c)'
    BY <1>2, <2>1, <2>2, <2>3, <2>5 DEF AwaitedInv, Unreserved, HandsIn, Handed
  <2>11. AwaitedInv'
    BY <1>2, <2>1, <2>2, <2>9, <2>10 DEF AwaitedInv, ReportedIsIssued
  <2>. QED
    BY <2>7, <2>8, <2>11 DEF SyncInv, BaseInv
<1>4. CASE AskForProof
  <2>1. PICK c \in Workers : Idle(c) /\ Issue!Receive(c) /\ ours' = c
    BY <1>4 DEF AskForProof
  <2>2. /\ clientPc = "issue" /\ clientPc' = "issued" /\ UNCHANGED <<exit, reported>>
        /\ UNCHANGED <<startPc, startAnswer, commanded, telePc, message, round, outcome>>
        /\ UNCHANGED <<ingestPc, payload, ingestAnswer, result, expired, captured>>
    BY <1>4 DEF AskForProof, Continue, startV, teleV, ingestV
  <2>3. /\ UNCHANGED <<session, stamp, manifest, proofs, proofIndex, qr, snap, etag, armed>>
        /\ UNCHANGED <<attempt, cand, built, activeKey, failures>>
        /\ issuePc' = [issuePc EXCEPT ![c] = "load"]
        /\ issueAnswer' = [issueAnswer EXCEPT ![c] = Issue!NoAnswer]
    BY <2>1 DEF Issue!Receive, Issue!Goto, Issue!storeVars, Issue!clientVars
  <2>4. /\ issuePc \in [Workers -> Issue!Steps]
        /\ issueAnswer \in [Workers -> [code : Issue!Codes, proof : ProofIds \cup {NoId}]]
    BY <1>1 DEF Types, IssueTypes
  <2>5. Issue!NoAnswer \in [code : Issue!Codes, proof : ProofIds \cup {NoId}]
        /\ "load" \in Issue!Steps
    BY DEF Issue!NoAnswer, Issue!Codes, Issue!Steps
  <2>6. Types' /\ ClientTypes'
    <3>1. IssueTypes'
      BY <1>1, <2>3, <2>4, <2>5 DEF Types, IssueTypes
    <3>. QED
      BY <1>1, <2>1, <2>2, <2>3, <3>1 DEF Types, StartTypes, TeleTypes, IngestTypes, HeldTypes,
         StoreTypes, ClientTypes, ClientSteps
  <2>7. ASSUME NEW d \in Workers PROVE IngestLocals(d)' /\ IssueLocals(d)' /\ OneHandler(d)'
    <3>1. IngestLocals(d) /\ IssueLocals(d) /\ OneHandler(d)
      BY <1>1 DEF BaseInv
    <3>. QED
      BY <2>1, <2>2, <2>3, <2>4, <3>1 DEF IngestLocals, IssueLocals, OneHandler, Idle,
         Issue!Building
  <2>8. SyncTypeOK'
    BY <2>6, TypesAreTypeOK, PTL
  <2>9. Alone'
    BY <1>2, <2>1, <2>2, <2>3, <2>4, Locally DEF Alone, Idle, NoCall
  <2>10. manifest = captured /\ Unreserved' /\ issuePc'[c] = "load"
    BY <1>2, <2>2, <2>3, <2>4 DEF AwaitedInv, Unreserved
  <2>11. Issues(c)'
    BY <2>2, <2>3, <2>10 DEF Issues
  <2>12. AwaitedInv'
    BY <1>2, <2>1, <2>2, <2>9, <2>11 DEF AwaitedInv, ReportedIsIssued
  <2>. QED
    BY <2>7, <2>8, <2>12 DEF SyncInv, BaseInv
<1>. QED
  BY <1>3, <1>4

LEMMA SyncInvInit == SyncInit => SyncInv
<1>. SUFFICES ASSUME SyncInit PROVE SyncInv
  OBVIOUS
<1>1. Init /\ clientPc = "start" /\ ours = NoCall /\ reported = NoId /\ exit = "running"
  BY DEF SyncInit
<1>2. /\ session = BlankSession /\ manifest = NoManifest /\ startPc = "create"
      /\ stamp = 0 /\ proofs = {} /\ proofIndex = {} /\ qr = {}
      /\ snap = [c \in Calls |-> BlankSession] /\ etag = [c \in Calls |-> 0]
      /\ armed = [c \in Calls |-> FALSE]
      /\ startAnswer = "none" /\ commanded = FALSE /\ failures = 0
  BY <1>1 DEF Init, Start!Init, Start!StoreInit, Start!BlankSession, BlankSession
<1>3. /\ MaxAttempts \in Nat \ {0} /\ MaxFailures \in Nat /\ StatusAttempts \in Nat \ {0}
  BY CloudConstants DEF Start!StartConstants, Tele!TelemetryConstants
<1>4. StartTypes /\ HeldTypes /\ StoreTypes /\ failures \in 0 .. MaxFailures
  <2>1. StartTypes /\ failures \in 0 .. MaxFailures
    <3>1. failures \in 0 .. MaxFailures
      BY <1>2, <1>3
    <3>2. commanded \in BOOLEAN
      BY <1>2
    <3>3. startPc \in Start!Steps /\ startAnswer \in Start!Codes
      BY <1>2 DEF Start!Steps, Start!Codes
    <3>. QED
      BY <3>1, <3>2, <3>3 DEF StartTypes
  <2>2. HeldTypes
    BY <1>2, Locally DEF HeldTypes
  <2>3. StoreTypes
    BY <1>2, Locally DEF StoreTypes
  <2>. QED
    BY <2>1, <2>2, <2>3
<1>5. TeleTypes
  BY <1>1, <1>3 DEF Init, TeleTypes, Tele!Steps, Tele!Outcomes
<1>6. IngestTypes
  BY <1>1 DEF Init, IngestTypes, Ingest!Steps, Ingest!Codes
<1>7. IssueTypes
  <2>1. Issue!NoReservation \in Issue!Reservation
        /\ Issue!NoAnswer \in [code : Issue!Codes, proof : ProofIds \cup {NoId}]
    BY DEF Issue!NoReservation, Issue!Reservation, Issue!NoAnswer, Issue!Codes
  <2>. QED
    BY <1>1, <1>3, <2>1 DEF Init, IssueTypes, Issue!Steps
<1>8. Types /\ ClientTypes
  BY <1>1, <1>4, <1>5, <1>6, <1>7 DEF Init, Types, ClientTypes, ClientSteps
<1>9. \A c \in Workers : /\ ingestPc[c] = "idle" /\ issuePc[c] = "idle"
                         /\ c \in Calls /\ armed[c] = FALSE
  BY <1>1, <1>2, Locally DEF Init
<1>10. \A c \in Workers : IngestLocals(c) /\ IssueLocals(c) /\ OneHandler(c)
  BY <1>9 DEF IngestLocals, IssueLocals, OneHandler, Issue!Building
<1>11. Unreserved /\ Alone
  BY <1>1, <1>2, <1>9, Locally DEF Unreserved, Alone, Idle
<1>. QED
  BY <1>1, <1>8, <1>10, <1>11, TypesAreTypeOK DEF SyncInv, BaseInv, AwaitedInv, ReportedIsIssued

LEMMA SyncInvStep == SyncInv /\ [SyncNext]_syncVars => SyncInv'
<1>. SUFFICES ASSUME SyncInv, [SyncNext]_syncVars PROVE SyncInv'
  OBVIOUS
<1>1. CASE Client
  BY <1>1, ClientGoes, ClientSends DEF Client
<1>2. CASE CloudSteps
  BY <1>2, StartKeeps, ExpireKeeps, IngestKeeps, IssueKeeps DEF CloudSteps
<1>3. CASE UNCHANGED syncVars
  <2>1. UNCHANGED vars /\ UNCHANGED <<clientPc, ours, reported, exit>>
    BY <1>3 DEF syncVars, clientRunV
  <2>2. BaseInv /\ ClientTypes
    BY TypesAreTypeOK DEF SyncInv, BaseInv
  <2>3. BaseInv'
    BY <2>1, <2>2, ClientMoves DEF ClientTypes
  <2>4. ASSUME Awaited PROVE AwaitedInv'
    <3>1. /\ UNCHANGED <<session, manifest, proofs, captured, startPc, armed, snap, cand, built>>
          /\ UNCHANGED <<ingestPc, payload, ingestAnswer, issuePc, issueAnswer>>
      BY <2>1 DEF vars, storeVars, clientVars, startV, ingestV, issueV
    <3>2. Unreserved' <=> Unreserved
      BY <3>1 DEF Unreserved
    <3>3. HandsIn(ours)' <=> HandsIn(ours)
      BY <2>1, <3>1 DEF HandsIn
    <3>4. Issues(ours)' <=> Issues(ours)
      BY <2>1, <3>1, <3>2 DEF Issues
    <3>5. Alone' <=> Alone
      BY <2>1, <3>1 DEF Alone, Idle
    <3>6. ReportedIsIssued' <=> ReportedIsIssued
      BY <2>1, <3>1 DEF ReportedIsIssued
    <3>. QED
      BY <2>1, <2>4, <3>1, <3>2, <3>3, <3>4, <3>5, <3>6 DEF SyncInv, AwaitedInv
  <2>. QED
    BY <2>1, <2>3, <2>4 DEF SyncInv, Awaited
<1>. QED
  BY <1>1, <1>2, <1>3 DEF SyncNext

-----------------------------------------------------------------------------
\* Theorems

\* Whatever the client waits for and whenever it gives up, no other call is at
\* work while it waits, a 200 of ingest_evidence has stored what it captured,
\* and issue_proof never loses a write to another request.
THEOREM SyncInvHolds == SyncSpec => []SyncInv
BY SyncInvInit, SyncInvStep, PTL DEF SyncSpec

\* Every variable of the client and of the four handlers keeps its type.
THEOREM SyncTypeCorrect == SyncSpec => []SyncTypeOK
<1>1. SyncInv => SyncTypeOK
  BY DEF SyncInv, BaseInv
<1>. QED
  BY <1>1, SyncInvHolds, PTL

\* The proof_id that the program prints is that of the session's Proof, over
\* the manifest it captured, when issue_proof answers and ever after: no call
\* that the client gave up earlier is still there to change it.
THEOREM ReportedIsIssuedHolds == SyncSpec => []ReportedIsIssued
<1>1. SyncInv => ReportedIsIssued
  BY DEF SyncInv, Awaited, AwaitedInv, ReportedIsIssued
<1>. QED
  BY <1>1, SyncInvHolds, PTL
=============================================================================
