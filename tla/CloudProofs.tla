----------------------------- MODULE CloudProofs -----------------------------
(***************************************************************************)
(* Theorems about Cloud: all handlers over one session, with an IoT Hub,   *)
(* for any number of workers, messages, attempts and failures; and about   *)
(* System, which joins Cloud to the device.                                *)
(*                                                                         *)
(* The instances' operators over the store are those of SessionStore under *)
(* another name; with an IoT Hub the storage is Azure, and a write is one  *)
(* of two shapes (Writes, Rests below).                                    *)
(***************************************************************************)
EXTENDS System, TLAPS

Stage(k) == Rank[session.status] >= k

\* A record whose etag is current is what is stored.
Current(c) == etag[c] = stamp => snap[c] = session

-----------------------------------------------------------------------------
\* The inductive invariant

StoreInv ==
    /\ \A c \in Calls : etag[c] <= stamp /\ ~armed[c]
    /\ \A p \in proofs : p.manifest = manifest
    /\ commanded => Stage(2)

\* start_session writes the status after the one it holds, and until its
\* command is out nobody else writes.
StartInv ==
    LET held == snap[Starter].status IN
    /\ startPc = "create" => session = BlankSession
    /\ startPc \in {"create", "targets", "challenge", "waiting", "dispatch"} =>
         ~commanded
    /\ startPc \in {"targets", "challenge"} => held = "created"
    /\ startPc = "waiting" => held = "challenge_issued"
    /\ startPc \in {"targets", "challenge", "waiting"} => Current(Starter)
    /\ startPc \in {"dispatch", "dispatched"} => held = "waiting_device" /\ Stage(2)
    /\ startPc = "dispatched" => commanded
    /\ startPc \in {"fail_load", "fail_save"} =>
         \/ held = "waiting_device" /\ Stage(2)
         \/ held \in {"created", "challenge_issued"} /\ ~commanded
    /\ startPc = "fail_save" /\ ~commanded => etag[Starter] = stamp
    /\ StartAnswerStands

\* One handler at a time works for a message, and a manifest reaches it when
\* the device is known to capture.
CallInv(c) ==
    /\ telePc[c] # "idle" => commanded
    /\ ingestPc[c] # "idle" => telePc[c] = "ingest" /\ payload[c] = message[c].manifest
    /\ issuePc[c] # "idle" => telePc[c] = "issue"
    /\ telePc[c] \in {"ingest", "issue"} =>
         /\ message[c].kind = "manifest" /\ message[c].manifest \in Manifests
         /\ Stage(3)
    /\ telePc[c] = "issue" => manifest = message[c].manifest

\* A report that lost to another write finds the session where it wanted it.
TeleInv(c) ==
    /\ telePc[c] = "replace" =>
         /\ Tele!Behind(snap[c].status, Tele!Target(c))
         /\ Current(c)
    /\ telePc[c] = "replace" /\ message[c].kind # "failed" =>
         /\ round[c] = 0
         /\ etag[c] = stamp \/ Stage(3)
    /\ telePc[c] = "load" /\ message[c].kind # "failed" /\ round[c] # 0 => Stage(3)
    /\ telePc[c] \in {"idle", "done"} => round[c] = 0
    /\ telePc[c] # "done" => outcome[c] = "none"
    /\ outcome[c] # "ERR_TRANSITION_INVALID"
    /\ outcome[c] = "ERR_CONFLICT" => message[c].kind = "failed"
    /\ outcome[c] = "accepted" =>
         /\ Stage(Rank[Tele!Target(c)])
         /\ message[c].kind = "manifest" =>
              \E p \in proofs : p.manifest = message[c].manifest

IngestHolding == {"existing", "check", "save", "waiting", "capturing", "uploaded"}
Handed == {"waiting", "capturing", "uploaded", "result", "recheck"}
IngestInv(c) ==
    LET held == snap[c].status IN
    /\ ingestPc[c] \in {"check", "save"} => held \in Ingest!Accepting
    /\ ingestPc[c] = "waiting" => held = "challenge_issued"
    /\ ingestPc[c] = "capturing" => held = "waiting_device"
    /\ ingestPc[c] = "uploaded" => held = "capturing"
    /\ ingestPc[c] \in IngestHolding => Current(c)
    /\ ingestPc[c] \in Handed => manifest = payload[c]
    /\ ingestPc[c] = "done" /\ ingestAnswer[c] = "200" => manifest = payload[c]

IssueInv(c) ==
    LET held == snap[c].status IN
    /\ issuePc[c] = "validating" => held = "evidence_uploaded"
    /\ issuePc[c] = "verified" => held = "validating"
    /\ issuePc[c] \in {"resolve", "reserve"} => held = "verified"
    /\ issuePc[c] \in {"adopt", "build", "save", "index", "finish"} => held \in Issue!Reserved
    /\ issuePc[c] \in {"validating", "verified", "resolve", "reserve"} =>
         snap[c].proof = NoId
    /\ issuePc[c] \in {"find", "adopt"} => snap[c].proof # NoId
    /\ issuePc[c] = "adopt" => Stored(snap[c].proof)
    /\ issuePc[c] \in {"reserve", "build"} => cand[c].id # NoId
    /\ issuePc[c] \in Issue!Building => built[c] # NoProof /\ built[c].manifest = manifest
    /\ issuePc[c] \in Issue!Saved => Stored(built[c].id)
    /\ issuePc[c] \in Issue!Holding => Current(c)
    /\ issueAnswer[c].proof # NoId => Stored(issueAnswer[c].proof)

WorkerInv(c) == CallInv(c) /\ TeleInv(c) /\ IngestInv(c) /\ IssueInv(c)

CloudInv ==
    /\ TypeOK
    /\ StoreInv
    /\ StartInv
    /\ \A c \in Workers : WorkerInv(c)

-----------------------------------------------------------------------------
\* Types, handler by handler

StartTypes ==
    /\ startPc \in Start!Steps /\ startAnswer \in Start!Codes
    /\ commanded \in BOOLEAN

TeleTypes ==
    /\ telePc \in [Workers -> Tele!Steps]
    /\ message \in [Workers -> Tele!Messages \cup {Tele!NoMessage}]
    /\ round \in [Workers -> 0 .. StatusAttempts - 1]
    /\ outcome \in [Workers -> Tele!Outcomes]

IngestTypes ==
    /\ ingestPc \in [Workers -> Ingest!Steps]
    /\ payload \in [Workers -> Manifests \cup {NoManifest}]
    /\ ingestAnswer \in [Workers -> Ingest!Codes]
    /\ result \in Manifests \cup {"failed", NoResult}
    /\ expired \in BOOLEAN

IssueTypes ==
    /\ issuePc \in [Workers -> Issue!Steps]
    /\ attempt \in [Workers -> 0 .. MaxAttempts - 1]
    /\ cand \in [Workers -> Issue!Reservation]
    /\ built \in [Workers -> Proof \cup {NoProof}]
    /\ issueAnswer \in [Workers -> [code : Issue!Codes, proof : ProofIds \cup {NoId}]]
    /\ activeKey \in Keys

HeldTypes ==
    /\ snap \in [Calls -> Session]
    /\ etag \in [Calls -> Nat]
    /\ armed \in [Calls -> BOOLEAN]

StoreTypes ==
    /\ session \in Session
    /\ stamp \in Nat
    /\ manifest \in Manifests \cup {NoManifest}
    /\ proofs \subseteq Proof
    /\ proofIndex \subseteq ProofIds
    /\ qr \subseteq ProofIds

Types ==
    /\ StartTypes /\ TeleTypes /\ IngestTypes /\ IssueTypes
    /\ HeldTypes /\ StoreTypes
    /\ failures \in 0 .. MaxFailures
    /\ captured \in Manifests

LEMMA SameTypes ==
    /\ Start!StoreTypeOK <=> HeldTypes /\ StoreTypes
    /\ Tele!StoreTypeOK <=> HeldTypes /\ StoreTypes
    /\ Ingest!StoreTypeOK <=> HeldTypes /\ StoreTypes
    /\ Issue!StoreTypeOK <=> HeldTypes /\ StoreTypes
<1>1. Start!Session = Session /\ Tele!Session = Session /\ Ingest!Session = Session
      /\ Issue!Session = Session
  BY DEF Session, Start!Session, Tele!Session, Ingest!Session, Issue!Session,
     Statuses, Start!Statuses, Tele!Statuses, Ingest!Statuses, Issue!Statuses
<1>2. Start!Proof = Proof /\ Tele!Proof = Proof /\ Ingest!Proof = Proof /\ Issue!Proof = Proof
  BY DEF Proof, Start!Proof, Tele!Proof, Ingest!Proof, Issue!Proof
<1>. QED
  BY <1>1, <1>2 DEF HeldTypes, StoreTypes, Start!StoreTypeOK, Tele!StoreTypeOK,
     Ingest!StoreTypeOK, Issue!StoreTypeOK

LEMMA TypesAreTypeOK == TypeOK <=> Types
<1>1. Issue!Proof = Proof
  BY DEF Proof, Issue!Proof
<1>. QED
  BY <1>1, SameTypes DEF TypeOK, Types, StartTypes, TeleTypes, IngestTypes, IssueTypes,
     Start!TypeOK, Tele!TypeOK, Ingest!TypeOK, Issue!TypeOK

-----------------------------------------------------------------------------
\* The store of the instances

Writes(c, s) == etag[c] = stamp /\ session' = s /\ stamp' = stamp + 1

Rests == UNCHANGED <<session, stamp>>

LEMMA OnAzure == ASSUME UseIotHub PROVE Backend = "azure"
BY CloudConstants DEF Start!StartConstants

LEMMA StartStore ==
    ASSUME UseIotHub, NEW c, NEW s
    PROVE  /\ Start!ReplaceSession(c, s) => Writes(c, s)
           /\ Start!ReplaceConflicts(c, s) => Writes(c, s) \/ (Rests /\ etag[c] # stamp)
           /\ ~Start!CompareEtag(c)
           /\ Start!Put(s) => session' = s /\ stamp' = stamp + 1
           /\ Start!HoldReplaced(c, s) <=> HoldReplaced(c, s)
           /\ Start!DropRecord(c) <=> DropRecord(c)
           /\ Start!BlankSession = BlankSession
BY OnAzure DEF Writes, Rests, Start!ReplaceSession, Start!ReplaceConflicts, Start!Put,
   Start!Unacknowledged, Start!EtagCurrent, Start!CompareEtag, Start!AtomicReplace,
   Start!HoldReplaced, HoldReplaced, Start!DropRecord, DropRecord, Start!BlankSession,
   BlankSession

LEMMA TeleStore ==
    ASSUME UseIotHub, NEW c, NEW s
    PROVE  /\ Tele!ReplaceSession(c, s) => Writes(c, s)
           /\ Tele!ReplaceConflicts(c, s) => Writes(c, s) \/ (Rests /\ etag[c] # stamp)
           /\ Tele!LoadSession(c) <=> LoadSession(c)
           /\ Tele!DropRecord(c) <=> DropRecord(c)
BY OnAzure DEF Writes, Rests, Tele!ReplaceSession, Tele!ReplaceConflicts, Tele!Put,
   Tele!Unacknowledged, Tele!EtagCurrent, Tele!AtomicReplace, Tele!LoadSession, LoadSession,
   Tele!DropRecord, DropRecord, Tele!BlankSession, BlankSession

LEMMA IngestStore ==
    ASSUME UseIotHub, NEW c, NEW s
    PROVE  /\ Ingest!ReplaceSession(c, s) => Writes(c, s)
           /\ Ingest!ReplaceConflicts(c, s) => Writes(c, s) \/ (Rests /\ etag[c] # stamp)
           /\ Ingest!EtagCurrent(c) /\ Ingest!Put(s) => Writes(c, s)
           /\ ~Ingest!CompareEtag(c)
           /\ Ingest!LoadSession(c) <=> LoadSession(c)
           /\ Ingest!HoldReplaced(c, s) <=> HoldReplaced(c, s)
           /\ Ingest!DropRecord(c) <=> DropRecord(c)
BY OnAzure DEF Writes, Rests, Ingest!ReplaceSession, Ingest!ReplaceConflicts, Ingest!Put,
   Ingest!Unacknowledged, Ingest!EtagCurrent, Ingest!CompareEtag, Ingest!AtomicReplace,
   Ingest!LoadSession, LoadSession, Ingest!HoldReplaced, HoldReplaced,
   Ingest!DropRecord, DropRecord, Ingest!BlankSession, BlankSession

LEMMA IssueStore ==
    ASSUME UseIotHub, NEW c, NEW s
    PROVE  /\ Issue!ReplaceSession(c, s) => Writes(c, s)
           /\ Issue!ReplaceConflicts(c, s) => Writes(c, s) \/ (Rests /\ etag[c] # stamp)
           /\ ~Issue!CompareEtag(c)
           /\ Issue!LoadSession(c) <=> LoadSession(c)
           /\ Issue!HoldReplaced(c, s) <=> HoldReplaced(c, s)
           /\ Issue!DropRecord(c) <=> DropRecord(c)
BY OnAzure DEF Writes, Rests, Issue!ReplaceSession, Issue!ReplaceConflicts, Issue!Put,
   Issue!Unacknowledged, Issue!EtagCurrent, Issue!CompareEtag, Issue!AtomicReplace,
   Issue!LoadSession, LoadSession, Issue!HoldReplaced, HoldReplaced,
   Issue!DropRecord, DropRecord, Issue!BlankSession, BlankSession

-----------------------------------------------------------------------------
\* What a call does to its own record

\* Call c moves its own record, and no etag runs ahead of the store.
Own(c) ==
    /\ HeldTypes'
    /\ etag'[c] <= stamp' /\ ~armed'[c]
    /\ \A d \in Calls \ {c} :
         snap'[d] = snap[d] /\ etag'[d] = etag[d] /\ armed'[d] = armed[d]

LEMMA Blank == BlankSession \in Session
BY DEF BlankSession, Session, Statuses

LEMMA Owns ==
    ASSUME HeldTypes, StoreTypes, StoreInv, NEW c \in Calls, NEW s \in Session,
           stamp' \in Nat, stamp' >= stamp
    PROVE  /\ UNCHANGED clientVars => Own(c) /\ snap'[c] = snap[c] /\ etag'[c] = etag[c]
           /\ DropRecord(c) => Own(c)
           /\ LoadSession(c) /\ Rests => Own(c) /\ snap'[c] = session /\ etag'[c] = stamp
           /\ HoldReplaced(c, s) => Own(c) /\ snap'[c] = s /\ etag'[c] = stamp'
<1>1. etag[c] \in Nat /\ etag[c] <= stamp /\ ~armed[c] /\ stamp \in Nat /\ session \in Session
  BY DEF HeldTypes, StoreTypes, StoreInv
<1>2. ASSUME UNCHANGED clientVars
      PROVE  Own(c) /\ snap'[c] = snap[c] /\ etag'[c] = etag[c]
  BY <1>1, <1>2 DEF clientVars, Own, HeldTypes
<1>3. ASSUME DropRecord(c) PROVE Own(c)
  BY <1>1, <1>3, Blank DEF DropRecord, Own, HeldTypes
<1>4. ASSUME LoadSession(c), Rests
      PROVE  Own(c) /\ snap'[c] = session /\ etag'[c] = stamp
  BY <1>1, <1>4 DEF LoadSession, Rests, Own, HeldTypes
<1>5. ASSUME HoldReplaced(c, s)
      PROVE  Own(c) /\ snap'[c] = s /\ etag'[c] = stamp'
  BY <1>1, <1>5 DEF HoldReplaced, Own, HeldTypes
<1>. QED
  BY <1>2, <1>3, <1>4, <1>5

-----------------------------------------------------------------------------
\* What any step does to what is stored

\* The status climbs, from waiting_device really, and a reservation stays.
Grows ==
    /\ stamp' = stamp + 1
    /\ Rank[session.status] <= Rank[session'.status]
    /\ Rank[session.status] = 2 => Rank[session'.status] > 2
    /\ \/ session.proof = NoId
       \/ session'.status = "failed"
       \/ session'.proof = session.proof /\ session'.key = session.key

Moves ==
    /\ StoreTypes'
    /\ manifest # NoManifest => manifest' = manifest
    /\ proofs \subseteq proofs'
    /\ \A p \in proofs' : p.manifest = manifest'
    /\ Rests \/ Grows

LEMMA Ranks ==
    /\ \A s \in Statuses : Rank[s] \in 0 .. 9
    /\ \A s \in Statuses : Rank[s] >= 9 => s = "failed"
    /\ \A s \in Statuses : Rank[s] >= 2 <=> s \notin {"created", "challenge_issued"}
    /\ \A s \in Statuses : Rank[s] >= 3 <=> s \notin {"created", "challenge_issued", "waiting_device"}
    /\ Rank["created"] = 0 /\ Rank["challenge_issued"] = 1 /\ Rank["waiting_device"] = 2
    /\ Rank["capturing"] = 3 /\ Rank["evidence_uploaded"] = 4 /\ Rank["validating"] = 5
    /\ Rank["verified"] = 6 /\ Rank["proof_issuing"] = 7 /\ Rank["proof_issued"] = 8
    /\ Rank["failed"] = 9
BY DEF Rank, Statuses

\* A session with another status.
LEMMA Restated ==
    ASSUME NEW s \in Session, NEW status \in Statuses
    PROVE  LET t == [s EXCEPT !.status = status]
           IN  t \in Session /\ t.status = status /\ t.proof = s.proof /\ t.key = s.key
BY DEF Session

\* A guarded write of a session whose status is further on.
LEMMA WriteGrows ==
    ASSUME StoreTypes, NEW c \in Calls, Current(c), NEW s \in Session, Writes(c, s),
           Rank[snap[c].status] <= Rank[s.status],
           Rank[snap[c].status] = 2 => Rank[s.status] > 2,
           \/ snap[c].proof = NoId
           \/ s.proof = snap[c].proof /\ s.key = snap[c].key
    PROVE  Grows /\ session' \in Session /\ stamp' \in Nat
BY DEF StoreTypes, Current, Writes, Grows

\* A failure may be written over anything.
LEMMA FailureGrows ==
    ASSUME StoreTypes, NEW c \in Calls, NEW s \in Session, Writes(c, s),
           s.status = "failed"
    PROVE  Grows /\ session' \in Session /\ stamp' \in Nat
<1>1. session.status \in Statuses
  BY DEF StoreTypes, Session
<1>2. Rank[session.status] \in 0 .. 9
  BY <1>1, Ranks
<1>. QED
  BY <1>2, Ranks DEF StoreTypes, Writes, Grows

\* A step that changes the session at most.
LEMMA SessionMoves ==
    ASSUME StoreTypes, StoreInv, UNCHANGED <<manifest, proofs, proofIndex, qr>>,
           Rests \/ (Grows /\ session' \in Session /\ stamp' \in Nat)
    PROVE  Moves
BY DEF StoreTypes, StoreInv, Moves, Rests

LEMMA QuietMoves ==
    ASSUME StoreTypes, StoreInv, UNCHANGED storeVars
    PROVE  Moves /\ Rests
BY SessionMoves DEF storeVars, Rests

LEMMA StampGrows ==
    ASSUME StoreTypes, Rests \/ Grows
    PROVE  /\ stamp' \in Nat /\ stamp' >= stamp
           /\ \A k \in 0 .. 9 : StoreTypes' /\ Stage(k) => Stage(k)'
<1>1. stamp \in Nat
  BY DEF StoreTypes
<1>2. session.status \in Statuses /\ (StoreTypes' => session'.status \in Statuses)
  BY DEF StoreTypes, Session
<1>3. Rank[session.status] \in 0 .. 9 /\ (StoreTypes' => Rank[session'.status] \in 0 .. 9)
  BY <1>2, Ranks
<1>. QED
  BY <1>1, <1>3 DEF Rests, Grows, Stage

-----------------------------------------------------------------------------
\* A handler that does not step keeps its part of the invariant

LEMMA CurrentStays ==
    ASSUME Types, StoreInv, Moves, NEW d \in Calls, Current(d),
           snap'[d] = snap[d], etag'[d] = etag[d]
    PROVE  Current(d)'
<1>1. etag[d] \in Nat /\ etag[d] <= stamp /\ stamp \in Nat
  BY DEF Types, HeldTypes, StoreTypes, StoreInv
<1>. QED
  BY <1>1 DEF Current, Moves, Rests, Grows

LEMMA TeleStays ==
    ASSUME Types, StoreInv, Moves, NEW d \in Workers, TeleInv(d),
           telePc'[d] = telePc[d], message'[d] = message[d], round'[d] = round[d],
           outcome'[d] = outcome[d],
           telePc[d] = "replace" => snap'[d] = snap[d] /\ etag'[d] = etag[d]
    PROVE  TeleInv(d)'
<1>1. d \in Calls
  BY CloudConstants DEF Tele!TelemetryConstants
<1>2. \A k \in 0 .. 9 : Stage(k) => Stage(k)'
  BY StampGrows DEF Moves, Types
<1>3. Tele!Target(d)' = Tele!Target(d) /\ Rank[Tele!Target(d)] \in 0 .. 9
  BY Ranks DEF Tele!Target, Statuses
<1>4. etag[d] \in Nat /\ stamp \in Nat /\ etag[d] <= stamp
  BY <1>1 DEF Types, HeldTypes, StoreTypes, StoreInv
<1>5. ASSUME telePc[d] = "replace"
      PROVE  /\ Tele!Behind(snap[d].status, Tele!Target(d))'
             /\ Current(d)'
  <2>1. Tele!Behind(snap[d].status, Tele!Target(d)) /\ Current(d)
    BY <1>5 DEF TeleInv
  <2>2. snap'[d].status = snap[d].status
    BY <1>5
  <2>3. Tele!Behind(snap[d].status, Tele!Target(d))'
    BY <1>3, <2>1, <2>2 DEF Tele!Behind, Tele!Ordered
  <2>. QED
    BY <1>1, <1>5, <2>1, <2>3, CurrentStays
<1>6. ASSUME telePc[d] = "replace", message[d].kind # "failed"
      PROVE  round'[d] = 0 /\ (etag'[d] = stamp' \/ Stage(3)')
  <2>1. round[d] = 0 /\ (etag[d] = stamp \/ Stage(3))
    BY <1>6 DEF TeleInv
  <2>2. ASSUME etag[d] = stamp, Grows PROVE Stage(3)'
    <3>1. snap[d] = session /\ Tele!Behind(snap[d].status, "capturing")
      BY <1>6, <2>2 DEF TeleInv, Current, Tele!Target
    <3>2. session.status \in Statuses /\ session'.status \in Statuses
      BY DEF Types, StoreTypes, Moves, Session
    <3>3. Rank[session.status] = 2
      <4>1. Tele!Rank = Rank
        BY DEF Tele!Rank, Rank, Tele!Statuses, Statuses
      <4>2. Rank[session.status] + 1 = 3
        BY <3>1, <4>1, Ranks DEF Tele!Behind
      <4>3. Rank[session.status] \in 0 .. 9
        BY <3>2, Ranks
      <4>. QED
        BY <4>2, <4>3
    <3>4. Rank[session'.status] > 2 /\ Rank[session'.status] \in 0 .. 9
      BY <2>2, <3>2, <3>3, Ranks DEF Grows
    <3>. QED
      BY <3>4 DEF Stage
  <2>. QED
    BY <1>2, <1>6, <2>1, <2>2 DEF Moves, Rests
<1>7. ASSUME outcome[d] = "accepted"
      PROVE  /\ Stage(Rank[Tele!Target(d)])'
             /\ message'[d].kind = "manifest" =>
                  \E p \in proofs' : p.manifest = message'[d].manifest
  <2>1. Stage(Rank[Tele!Target(d)]) /\ proofs \subseteq proofs'
    BY <1>7 DEF TeleInv, Moves
  <2>2. Stage(Rank[Tele!Target(d)])'
    <3>. DEFINE k == Rank[Tele!Target(d)]
    <3>1. k' = k
      BY <1>3 DEF Rank
    <3>2. Rank[session'.status] >= k
      BY <1>2, <1>3, <2>1 DEF Stage
    <3>. QED
      BY <3>1, <3>2 DEF Stage
  <2>. QED
    BY <1>7, <2>1, <2>2 DEF TeleInv
<1>8. telePc[d] = "load" /\ message[d].kind # "failed" /\ round[d] # 0 => Stage(3)'
  BY <1>2 DEF TeleInv
<1>. QED
  BY <1>5, <1>6, <1>7, <1>8 DEF TeleInv

LEMMA IngestStays ==
    ASSUME Types, StoreInv, Moves, NEW d \in Workers, IngestInv(d),
           ingestPc[d] # "idle" => payload[d] \in Manifests,
           ingestPc'[d] = ingestPc[d], payload'[d] = payload[d],
           ingestAnswer'[d] = ingestAnswer[d],
           ingestPc[d] # "idle" => snap'[d] = snap[d] /\ etag'[d] = etag[d]
    PROVE  IngestInv(d)'
<1>1. d \in Calls
  BY CloudConstants DEF Tele!TelemetryConstants
<1>2. CASE ingestPc[d] = "idle"
  BY <1>2 DEF IngestInv, IngestHolding, Handed
<1>3. CASE ingestPc[d] # "idle"
  <2>1. ingestPc[d] \in IngestHolding => Current(d)'
    BY <1>1, <1>3, CurrentStays DEF IngestInv
  <2>2. manifest = payload[d] => manifest' = payload[d]
    BY <1>3, StoreConstants DEF Moves
  <2>. QED
    BY <1>3, <2>1, <2>2 DEF IngestInv
<1>. QED
  BY <1>2, <1>3

LEMMA StoredStays == ASSUME Moves, NEW id, Stored(id) PROVE Stored(id)'
BY DEF Moves, Stored

LEMMA IssueStays ==
    ASSUME Types, StoreInv, Moves, NEW d \in Workers, IssueInv(d),
           issuePc'[d] = issuePc[d], cand'[d] = cand[d], built'[d] = built[d],
           issueAnswer'[d] = issueAnswer[d],
           issuePc[d] # "idle" => snap'[d] = snap[d] /\ etag'[d] = etag[d]
    PROVE  IssueInv(d)'
<1>1. d \in Calls
  BY CloudConstants DEF Tele!TelemetryConstants
<1>2. ASSUME issueAnswer[d].proof # NoId PROVE Stored(issueAnswer[d].proof)'
  BY <1>2 DEF IssueInv, Moves, Stored
<1>3. CASE issuePc[d] = "idle"
  BY <1>2, <1>3 DEF IssueInv, Issue!Building, Issue!Saved, Issue!Holding, Issue!ReplaceSteps
<1>4. CASE issuePc[d] # "idle"
  <2>1. issuePc[d] \in Issue!Holding => Current(d)'
    BY <1>1, <1>4, CurrentStays DEF IssueInv
  <2>2. issuePc[d] \in Issue!Building => built[d] # NoProof /\ built[d].manifest = manifest'
    <3>1. ASSUME issuePc[d] \in Issue!Building, built[d] # NoProof
          PROVE  built[d].manifest # NoManifest
      <4>1. built[d] \in Proof
        BY <3>1 DEF Types, IssueTypes
      <4>. QED
        BY <4>1, StoreConstants DEF Proof
    <3>. QED
      BY <3>1 DEF IssueInv, Moves
  <2>3. issuePc[d] = "adopt" => Stored(snap[d].proof)'
    BY <1>4 DEF IssueInv, Moves, Stored
  <2>4. issuePc[d] \in Issue!Saved => Stored(built[d].id)'
    BY <1>4 DEF IssueInv, Moves, Stored
  <2>. QED
    BY <1>2, <1>4, <2>1, <2>2, <2>3, <2>4
       DEF IssueInv, Issue!Building, Issue!Saved, Issue!Holding, Issue!ReplaceSteps
<1>. QED
  BY <1>3, <1>4

LEMMA CallStays ==
    ASSUME Types, StoreInv, Moves, NEW d \in Workers, CallInv(d),
           commanded => commanded',
           telePc'[d] = telePc[d], message'[d] = message[d],
           ingestPc'[d] = ingestPc[d], payload'[d] = payload[d], issuePc'[d] = issuePc[d]
    PROVE  CallInv(d)'
<1>1. Stage(3) => Stage(3)'
  BY StampGrows DEF Moves, Types
<1>2. telePc[d] = "issue" => manifest' = message[d].manifest
  BY StoreConstants DEF CallInv, Moves
<1>. QED
  BY <1>1, <1>2 DEF CallInv

\* A worker that does not step keeps all of it.
SameWorker(d) ==
    /\ telePc'[d] = telePc[d] /\ message'[d] = message[d] /\ round'[d] = round[d]
    /\ outcome'[d] = outcome[d]
    /\ ingestPc'[d] = ingestPc[d] /\ payload'[d] = payload[d]
    /\ ingestAnswer'[d] = ingestAnswer[d]
    /\ issuePc'[d] = issuePc[d] /\ cand'[d] = cand[d] /\ built'[d] = built[d]
    /\ issueAnswer'[d] = issueAnswer[d]

LEMMA Bystander ==
    ASSUME Types, StoreInv, Moves, NEW d \in Workers, WorkerInv(d), SameWorker(d),
           snap'[d] = snap[d], etag'[d] = etag[d], commanded => commanded'
    PROVE  WorkerInv(d)'
<1>1. CallInv(d) /\ TeleInv(d) /\ IngestInv(d) /\ IssueInv(d)
  BY DEF WorkerInv
<1>2. ingestPc[d] # "idle" => payload[d] \in Manifests
  BY <1>1 DEF CallInv
<1>3. CallInv(d)'
  BY <1>1, CallStays DEF SameWorker
<1>4. TeleInv(d)'
  BY <1>1, TeleStays DEF SameWorker
<1>5. IngestInv(d)'
  BY <1>1, <1>2, IngestStays DEF SameWorker
<1>6. IssueInv(d)'
  BY <1>1, IssueStays DEF SameWorker
<1>. QED
  BY <1>3, <1>4, <1>5, <1>6 DEF WorkerInv

-----------------------------------------------------------------------------
\* A message's own processing: telemetry

TeleOthers(c) ==
    \A d \in Workers \ {c} :
        /\ telePc'[d] = telePc[d] /\ message'[d] = message[d]
        /\ round'[d] = round[d] /\ outcome'[d] = outcome[d]

LEMMA TeleEnds ==
    ASSUME UseIotHub, Types, NEW c \in Workers, NEW how \in Tele!Outcomes, Tele!End(c, how)
    PROVE  /\ TeleTypes' /\ TeleOthers(c) /\ DropRecord(c)
           /\ telePc'[c] = "done" /\ outcome'[c] = how /\ round'[c] = 0
           /\ UNCHANGED <<message, failures>>
<1>1. 0 \in 0 .. StatusAttempts - 1
  BY CloudConstants DEF Tele!TelemetryConstants
<1>. QED
  BY <1>1, TeleStore DEF Tele!End, Tele!Goto, Types, TeleTypes, TeleOthers, Tele!Steps

\* A message that ends in an error no report may end in needs no more.
LEMMA ErrorKeepsTele ==
    ASSUME NEW c \in Workers, telePc'[c] = "done", round'[c] = 0,
           outcome'[c] \notin {"accepted", "ERR_TRANSITION_INVALID", "ERR_CONFLICT"}
    PROVE  TeleInv(c)'
BY DEF TeleInv

LEMMA TargetIs ==
    ASSUME NEW c \in Workers
    PROVE  /\ Tele!Target(c) \in {"capturing", "failed"} /\ Tele!Target(c) \in Statuses
           /\ Tele!Target(c) = "failed" <=> message[c].kind = "failed"
           /\ Rank[Tele!Target(c)] = IF message[c].kind = "failed" THEN 9 ELSE 3
BY Ranks DEF Tele!Target, Statuses

LEMMA TeleRank == Tele!Rank = Rank /\ Tele!Ordered = Statuses \ {"proof_issuing", "failed"}
BY DEF Tele!Rank, Rank, Tele!Statuses, Statuses, Tele!Ordered

LEMMA ManifestMessages ==
    ASSUME TeleTypes, NEW c \in Workers, message[c].kind = "manifest"
    PROVE  message[c].manifest \in Manifests
<1>1. message[c] \in Tele!Messages \cup {Tele!NoMessage}
  BY DEF TeleTypes
<1>. QED
  BY <1>1 DEF Tele!Messages, Tele!NoMessage, Tele!StatusMessage, Tele!ManifestMessage

\* The status a report found itself behind, or past.
LEMMA BehindIs ==
    ASSUME NEW s \in Statuses, NEW c \in Workers, Tele!Behind(s, Tele!Target(c))
    PROVE  /\ Rank[s] <= Rank[Tele!Target(c)]
           /\ Rank[s] = 2 => Rank[Tele!Target(c)] > 2
           /\ message[c].kind # "failed" => Rank[s] = 2
<1>1. Rank[s] \in 0 .. 9
  BY Ranks
<1>. QED
  BY <1>1, TargetIs, TeleRank, Ranks DEF Tele!Behind

LEMMA ReachedIs ==
    ASSUME NEW c \in Workers, Tele!Reached(session.status, Tele!Target(c)),
           session.status \in Statuses
    PROVE  Stage(Rank[Tele!Target(c)])
<1>1. Rank[session.status] \in 0 .. 9
  BY Ranks
<1>. QED
  BY <1>1, TargetIs, TeleRank, Ranks DEF Tele!Reached, Stage

\* From waiting_device on a report is either behind or past.
LEMMA NoneTooEarly ==
    ASSUME NEW c \in Workers, session.status \in Tele!Ordered, Stage(2)
    PROVE  \/ Tele!Behind(session.status, Tele!Target(c))
           \/ Tele!Reached(session.status, Tele!Target(c))
<1>1. session.status \in Statuses /\ session.status # "failed"
  BY TeleRank
<1>2. Rank[session.status] \in 2 .. 9
  BY <1>1, Ranks DEF Stage
<1>3. CASE message[c].kind = "failed"
  BY <1>1, <1>3, TargetIs DEF Tele!Behind
<1>4. CASE message[c].kind # "failed"
  <2>1. Tele!Target(c) = "capturing" /\ Rank["capturing"] = 3
    BY <1>4, Ranks DEF Tele!Target
  <2>2. Rank[session.status] = 3 => session.status = "capturing"
    BY <1>1 DEF Rank, Statuses
  <2>3. Rank[session.status] = 2 \/ Rank[session.status] = 3 \/ Rank[session.status] > 3
    BY <1>2
  <2>. QED
    BY <2>1, <2>2, <2>3, TeleRank DEF Tele!Behind, Tele!Reached
<1>. QED
  BY <1>3, <1>4

\* A message whose status is settled.
LEMMA SettledServes ==
    ASSUME UseIotHub, Types, NEW c \in Workers, Tele!Settled(c), outcome[c] = "none",
           Stage(Rank[Tele!Target(c)])'
    PROVE  /\ TeleTypes' /\ TeleOthers(c) /\ DropRecord(c) /\ TeleInv(c)'
           /\ UNCHANGED <<message, failures>>
           /\ \/ telePc'[c] = "done"
              \/ /\ telePc'[c] = "ingest" /\ Stage(3)'
                 /\ message[c].kind = "manifest" /\ message[c].manifest \in Manifests
<1>1. CASE message[c].kind # "manifest" /\ Tele!End(c, "accepted")
  <2>1. "accepted" \in Tele!Outcomes
    BY DEF Tele!Outcomes
  <2>2. /\ TeleTypes' /\ TeleOthers(c) /\ DropRecord(c)
        /\ telePc'[c] = "done" /\ outcome'[c] = "accepted" /\ round'[c] = 0
        /\ UNCHANGED <<message, failures>>
    BY <1>1, <2>1, TeleEnds
  <2>. QED
    BY <1>1, <2>2 DEF TeleInv
<1>2. CASE /\ message[c].kind = "manifest"
           /\ Tele!Goto(c, "ingest")
           /\ round' = [round EXCEPT ![c] = 0]
           /\ Tele!DropRecord(c)
           /\ UNCHANGED <<message, outcome, failures>>
  <2>1. 0 \in 0 .. StatusAttempts - 1
    BY CloudConstants DEF Tele!TelemetryConstants
  <2>2. TeleTypes' /\ TeleOthers(c) /\ telePc'[c] = "ingest" /\ DropRecord(c)
    BY <1>2, <2>1, TeleStore DEF Tele!Goto, Types, TeleTypes, TeleOthers, Tele!Steps
  <2>3. message[c].manifest \in Manifests
    BY <1>2, ManifestMessages DEF Types
  <2>4. Stage(3)'
    <3>1. Rank[Tele!Target(c)]' = 3
      BY <1>2, Ranks DEF Tele!Target, Rank, Statuses
    <3>. QED
      BY <3>1 DEF Stage
  <2>5. TeleInv(c)'
    BY <1>2, <2>2, Zenon DEF TeleInv
  <2>. QED
    BY <1>2, <2>2, <2>3, <2>4, <2>5
<1>. QED
  BY <1>1, <1>2 DEF Tele!Settled

LEMMA WorkersCall == Workers \subseteq Calls /\ Starter \in Calls /\ Starter \notin Workers
BY CloudConstants DEF Start!StartConstants, Tele!TelemetryConstants

LEMMA InvParts ==
    ASSUME CloudInv
    PROVE  /\ Types /\ HeldTypes /\ StoreTypes /\ StoreInv /\ StartInv
           /\ \A c \in Workers : CallInv(c) /\ TeleInv(c) /\ IngestInv(c) /\ IssueInv(c)
           /\ stamp \in Nat /\ session \in Session /\ session.status \in Statuses
           /\ \A c \in Calls : snap[c] \in Session /\ snap[c].status \in Statuses
BY TypesAreTypeOK DEF CloudInv, WorkerInv, Types, HeldTypes, StoreTypes, Session

\* What a step of telemetry leaves behind.
TeleServed(c) ==
    /\ TeleTypes' /\ TeleOthers(c) /\ Own(c) /\ Moves /\ TeleInv(c)'
    /\ UNCHANGED <<message, failures>>
    /\ telePc[c] \in {"load", "replace"}
    /\ \/ telePc'[c] \in {"load", "replace", "done"}
       \/ /\ telePc'[c] = "ingest" /\ Stage(3)'
          /\ message[c].kind = "manifest" /\ message[c].manifest \in Manifests

LEMMA TeleLoads ==
    ASSUME UseIotHub, CloudInv, NEW c \in Workers, Tele!Load(c)
    PROVE  TeleServed(c)
<1>1. /\ Types /\ HeldTypes /\ StoreTypes /\ StoreInv /\ CallInv(c) /\ TeleInv(c)
      /\ c \in Calls /\ session.status \in Statuses /\ stamp \in Nat /\ session \in Session
  BY InvParts, WorkersCall
<1>2. telePc[c] = "load" /\ UNCHANGED storeVars /\ outcome[c] = "none"
  BY <1>1 DEF Tele!Load, Tele!storeVars, storeVars, TeleInv
<1>3. Moves /\ Rests /\ stamp' \in Nat /\ stamp' >= stamp
  BY <1>1, <1>2, QuietMoves DEF Rests
<1>4. DropRecord(c) => Own(c)
  BY <1>1, <1>3, Owns
<1>5. CASE Tele!Behind(session.status, Tele!Target(c))
           /\ Tele!LoadSession(c) /\ Tele!Goto(c, "replace")
           /\ UNCHANGED <<message, round, outcome, failures>>
  <2>1. LoadSession(c)
    BY <1>5, TeleStore
  <2>2. Own(c) /\ snap'[c] = session /\ etag'[c] = stamp
    BY <1>1, <1>3, <2>1, Owns
  <2>3. telePc'[c] = "replace" /\ TeleTypes' /\ TeleOthers(c)
    BY <1>1, <1>5 DEF Tele!Goto, Types, TeleTypes, TeleOthers, Tele!Steps
  <2>4. Tele!Target(c)' = Tele!Target(c) /\ Current(c)'
    BY <1>3, <1>5, <2>2 DEF Tele!Target, Current, Rests
  <2>5. message[c].kind # "failed" => round[c] = 0
    <3>1. message[c].kind # "failed" => Rank[session.status] = 2
      BY <1>1, <1>5, BehindIs
    <3>. QED
      BY <1>1, <1>2, <3>1 DEF TeleInv, Stage
  <2>6. Tele!Behind(snap[c].status, Tele!Target(c))'
    BY <1>5, <2>2, <2>4 DEF Tele!Behind, Tele!Ordered
  <2>7. TeleInv(c)'
    BY <1>2, <1>3, <1>5, <2>2, <2>3, <2>4, <2>5, <2>6 DEF TeleInv, Rests
  <2>. QED
    BY <1>2, <1>3, <1>5, <2>2, <2>3, <2>7 DEF TeleServed
<1>6. CASE Tele!Reached(session.status, Tele!Target(c)) /\ Tele!Settled(c)
  <2>1. Stage(Rank[Tele!Target(c)])
    BY <1>1, <1>6, ReachedIs
  <2>2. Tele!Target(c)' = Tele!Target(c)
    BY <1>6 DEF Tele!Settled, Tele!End, Tele!Target
  <2>3. Stage(Rank[Tele!Target(c)])'
    BY <1>3, <2>1, <2>2 DEF Stage, Rests, Rank
  <2>. QED
    BY <1>1, <1>2, <1>3, <1>4, <1>6, <2>3, SettledServes DEF TeleServed
<1>7. CASE /\ ~Tele!Behind(session.status, Tele!Target(c))
           /\ ~Tele!Reached(session.status, Tele!Target(c))
           /\ Tele!End(c, IF session.status \in Tele!Ordered THEN "ERR_TRANSITION_INVALID"
                                                              ELSE "ERR_STATUS_INVALID")
  <2>1. Stage(2)
    BY <1>1, <1>2 DEF CallInv, StoreInv
  <2>2. Tele!End(c, "ERR_STATUS_INVALID")
    BY <1>7, <2>1, NoneTooEarly
  <2>3. "ERR_STATUS_INVALID" \in Tele!Outcomes
    BY DEF Tele!Outcomes
  <2>4. /\ TeleTypes' /\ TeleOthers(c) /\ DropRecord(c)
        /\ telePc'[c] = "done" /\ outcome'[c] = "ERR_STATUS_INVALID" /\ round'[c] = 0
        /\ UNCHANGED <<message, failures>>
    BY <1>1, <2>2, <2>3, TeleEnds
  <2>5. TeleInv(c)'
    BY <2>4, ErrorKeepsTele
  <2>. QED
    BY <1>2, <1>3, <1>4, <2>4, <2>5 DEF TeleServed
<1>. QED
  BY <1>5, <1>6, <1>7 DEF Tele!Load

LEMMA TeleReplaces ==
    ASSUME UseIotHub, StatusAttempts > 1, CloudInv, NEW c \in Workers, Tele!Replace(c)
    PROVE  TeleServed(c)
<1>. DEFINE target == Tele!Target(c)
            updated == [snap[c] EXCEPT !.status = target]
<1>1. /\ Types /\ HeldTypes /\ StoreTypes /\ StoreInv /\ CallInv(c) /\ TeleInv(c)
      /\ c \in Calls /\ session.status \in Statuses /\ stamp \in Nat /\ session \in Session
      /\ snap[c] \in Session /\ snap[c].status \in Statuses
  BY InvParts, WorkersCall
<1>2. /\ telePc[c] = "replace" /\ UNCHANGED <<manifest, proofs, proofIndex, qr>>
      /\ outcome[c] = "none" /\ Tele!Behind(snap[c].status, target) /\ Current(c)
  BY <1>1 DEF Tele!Replace, TeleInv
<1>3. updated \in Session /\ updated.status = target /\ updated.proof = snap[c].proof
      /\ updated.key = snap[c].key
  BY <1>1, Restated, TargetIs
<1>4. ASSUME Writes(c, updated)
      PROVE  Grows /\ session' \in Session /\ stamp' \in Nat
  <2>1. /\ Rank[snap[c].status] <= Rank[updated.status]
        /\ Rank[snap[c].status] = 2 => Rank[updated.status] > 2
    BY <1>1, <1>2, <1>3, BehindIs
  <2>. QED
    BY <1>1, <1>2, <1>3, <1>4, <2>1, WriteGrows
<1>5. ASSUME Writes(c, updated) \/ Rests
      PROVE  Moves /\ stamp' \in Nat /\ stamp' >= stamp /\ (DropRecord(c) => Own(c))
  <2>1. Moves
    BY <1>1, <1>2, <1>4, <1>5, SessionMoves
  <2>2. stamp' \in Nat /\ stamp' >= stamp
    BY <1>1, <2>1, StampGrows DEF Moves
  <2>. QED
    BY <1>1, <2>1, <2>2, Owns
<1>6. CASE Tele!ReplaceSession(c, updated) /\ Tele!Settled(c)
  <2>1. Writes(c, updated)
    BY <1>6, TeleStore
  <2>2. Tele!Target(c)' = target
    BY <1>6 DEF Tele!Settled, Tele!End, Tele!Target
  <2>3. Stage(Rank[target])'
    <3>1. session'.status = target /\ Rank[target] \in 0 .. 9
      BY <1>3, <2>1, TargetIs, Ranks DEF Writes
    <3>2. Rank' = Rank
      BY DEF Rank, Statuses
    <3>. QED
      BY <2>2, <3>1, <3>2 DEF Stage
  <2>. QED
    BY <1>1, <1>2, <1>5, <1>6, <2>1, <2>3, SettledServes DEF TeleServed
<1>7. CASE Tele!ReplaceConflicts(c, updated) /\ Tele!NextRound(c)
  <2>1. Writes(c, updated) \/ (Rests /\ etag[c] # stamp)
    BY <1>7, TeleStore
  <2>2. message[c].kind # "failed" => round[c] = 0 /\ Stage(3)'
    <3>1. ASSUME message[c].kind # "failed" PROVE Stage(3)'
      <4>1. CASE Writes(c, updated)
        BY <1>3, <3>1, <4>1, TargetIs, Ranks DEF Writes, Stage
      <4>2. CASE Rests /\ etag[c] # stamp
        BY <1>1, <1>2, <3>1, <4>2 DEF TeleInv, Rests, Stage
      <4>. QED
        BY <2>1, <4>1, <4>2
    <3>. QED
      BY <1>1, <1>2, <3>1 DEF TeleInv
  <2>3. CASE /\ round[c] + 1 < StatusAttempts
             /\ Tele!Goto(c, "load")
             /\ round' = [round EXCEPT ![c] = @ + 1]
             /\ Tele!DropRecord(c)
             /\ UNCHANGED <<message, outcome, failures>>
    <3>1. round[c] + 1 \in 0 .. StatusAttempts - 1
      BY <1>1, <2>3, CloudConstants DEF Types, TeleTypes, Tele!TelemetryConstants
    <3>2. TeleTypes' /\ TeleOthers(c) /\ telePc'[c] = "load" /\ DropRecord(c)
      BY <1>1, <2>3, <3>1, TeleStore DEF Tele!Goto, Types, TeleTypes, TeleOthers, Tele!Steps
    <3>3. TeleInv(c)'
      BY <1>2, <2>2, <2>3, <3>2 DEF TeleInv
    <3>. QED
      BY <1>2, <1>5, <2>1, <2>3, <3>2, <3>3 DEF TeleServed
  <2>4. CASE round[c] + 1 = StatusAttempts /\ Tele!End(c, "ERR_CONFLICT")
    <3>1. message[c].kind = "failed"
      BY <2>2, <2>4
    <3>2. "ERR_CONFLICT" \in Tele!Outcomes
      BY DEF Tele!Outcomes
    <3>3. /\ TeleTypes' /\ TeleOthers(c) /\ DropRecord(c)
          /\ telePc'[c] = "done" /\ outcome'[c] = "ERR_CONFLICT" /\ round'[c] = 0
          /\ UNCHANGED <<message, failures>>
      BY <1>1, <2>4, <3>2, TeleEnds
    <3>4. TeleInv(c)'
      BY <3>1, <3>3 DEF TeleInv
    <3>. QED
      BY <1>2, <1>5, <2>1, <3>3, <3>4 DEF TeleServed
  <2>. QED
    BY <1>7, <2>3, <2>4 DEF Tele!NextRound
<1>. QED
  BY <1>2, <1>6, <1>7 DEF Tele!Replace

LEMMA TeleFails ==
    ASSUME UseIotHub, CloudInv, NEW c \in Workers,
           telePc[c] \in {"load", "replace"}, Tele!Fail(c)
    PROVE  /\ TeleTypes' /\ TeleOthers(c) /\ Own(c) /\ Moves /\ TeleInv(c)'
           /\ UNCHANGED message /\ failures' \in 0 .. MaxFailures
           /\ telePc'[c] = "done"
<1>1. /\ Types /\ HeldTypes /\ StoreTypes /\ StoreInv /\ c \in Calls /\ stamp \in Nat
      /\ BlankSession \in Session
  BY InvParts, WorkersCall, Blank
<1>2. UNCHANGED storeVars /\ DropRecord(c)
  BY TeleStore DEF Tele!Fail, Tele!storeVars, storeVars
<1>3. Moves /\ Rests
  BY <1>1, <1>2, QuietMoves
<1>4. Own(c)
  BY <1>1, <1>2, <1>3, Owns DEF Rests
<1>5. 0 \in 0 .. StatusAttempts - 1 /\ MaxFailures \in Nat
  BY CloudConstants DEF Tele!TelemetryConstants
<1>6. /\ TeleTypes' /\ TeleOthers(c) /\ telePc'[c] = "done" /\ outcome'[c] = "lost"
      /\ round'[c] = 0
  BY <1>1, <1>5 DEF Tele!Fail, Tele!Goto, Types, TeleTypes, TeleOthers, Tele!Steps,
     Tele!Outcomes
<1>7. TeleInv(c)'
  BY <1>6, ErrorKeepsTele
<1>8. failures' \in 0 .. MaxFailures /\ UNCHANGED message
  BY <1>1, <1>5 DEF Tele!Fail, Types
<1>. QED
  BY <1>3, <1>4, <1>6, <1>7, <1>8

-----------------------------------------------------------------------------
\* ingest_evidence within a manifest's call

IngestOthers(c) ==
    \A d \in Workers \ {c} :
        ingestPc'[d] = ingestPc[d] /\ ingestAnswer'[d] = ingestAnswer[d]

\* What a step of ingest_evidence leaves behind.
IngestServed(c) ==
    /\ IngestTypes' /\ IngestOthers(c) /\ Own(c) /\ Moves /\ IngestInv(c)'
    /\ payload' = payload /\ failures' \in 0 .. MaxFailures
    /\ ingestPc[c] # "idle"

\* What a step of ingest_evidence finds.
LEMMA IngestFinds ==
    ASSUME CloudInv, NEW c \in Workers, ingestPc[c] # "idle"
    PROVE  /\ Types /\ IngestTypes /\ HeldTypes /\ StoreTypes /\ StoreInv /\ IngestInv(c)
           /\ c \in Calls /\ session.status \in Statuses /\ stamp \in Nat
           /\ session \in Session /\ snap[c] \in Session /\ snap[c].status \in Statuses
           /\ payload[c] \in Manifests /\ payload[c] # NoManifest
           /\ failures \in 0 .. MaxFailures
BY InvParts, WorkersCall, StoreConstants DEF CallInv, Types

LEMMA IngestEnds ==
    ASSUME UseIotHub, IngestTypes, NEW c \in Workers, NEW code \in Ingest!Codes,
           Ingest!End(c, code), code = "200" => manifest' = payload[c]
    PROVE  /\ DropRecord(c) /\ IngestOthers(c) /\ IngestInv(c)'
           /\ UNCHANGED <<payload, expired, failures>>
           /\ result' \in Manifests \cup {"failed", NoResult} => IngestTypes'
<1>1. /\ ingestPc' = [ingestPc EXCEPT ![c] = "done"]
      /\ ingestAnswer' = [ingestAnswer EXCEPT ![c] = code]
      /\ DropRecord(c) /\ UNCHANGED <<payload, expired, failures>>
  BY IngestStore DEF Ingest!End, Ingest!Answer, Ingest!Goto
<1>2. IngestInv(c)'
  BY <1>1 DEF IngestTypes, IngestInv, IngestHolding, Handed
<1>. QED
  BY <1>1, <1>2 DEF IngestTypes, IngestOthers, Ingest!Steps

LEMMA IngestGoes ==
    ASSUME UseIotHub, IngestTypes, NEW c \in Workers, NEW next \in Ingest!Steps,
           Ingest!Goto(c, next), Ingest!KeepLocals, UNCHANGED result
    PROVE  /\ IngestTypes' /\ IngestOthers(c) /\ ingestPc'[c] = next
           /\ UNCHANGED <<payload, expired, failures, ingestAnswer>>
BY DEF Ingest!Goto, Ingest!KeepLocals, IngestTypes, IngestOthers

LEMMA IngestReads ==
    ASSUME UseIotHub, CloudInv, NEW c \in Workers, ingestPc[c] # "idle",
           \/ Ingest!Load(c) \/ Ingest!Existing(c) \/ Ingest!Check(c)
           \/ Ingest!FailLoad(c) \/ Ingest!FailResult(c)
           \/ Ingest!SaveResult(c) \/ Ingest!Recheck(c)
    PROVE  IngestServed(c)
<1>1. /\ Types /\ IngestTypes /\ HeldTypes /\ StoreTypes /\ StoreInv /\ IngestInv(c)
      /\ c \in Calls /\ stamp \in Nat /\ session \in Session /\ payload[c] \in Manifests
      /\ failures \in 0 .. MaxFailures /\ BlankSession \in Session
  BY IngestFinds, Blank
<1>2. UNCHANGED storeVars
  BY DEF Ingest!Load, Ingest!Existing, Ingest!Check, Ingest!FailLoad, Ingest!FailResult,
     Ingest!SaveResult, Ingest!Recheck, Ingest!storeVars, storeVars
<1>3. Moves /\ Rests /\ stamp' \in Nat /\ stamp' >= stamp /\ UNCHANGED <<manifest, session>>
  BY <1>1, <1>2, QuietMoves DEF Rests, storeVars
<1>4. (DropRecord(c) => Own(c)) /\ (UNCHANGED clientVars => Own(c))
  BY <1>1, <1>3, Owns
<1>5. ASSUME NEW code \in Ingest!Codes, Ingest!End(c, code), code = "200" => manifest = payload[c],
             result' \in Manifests \cup {"failed", NoResult}
      PROVE  IngestServed(c)
  <2>1. code = "200" => manifest' = payload[c]
    BY <1>3, <1>5
  <2>2. /\ DropRecord(c) /\ IngestOthers(c) /\ IngestInv(c)' /\ IngestTypes'
        /\ UNCHANGED <<payload, failures>>
    BY <1>1, <1>5, <2>1, IngestEnds
  <2>. QED
    BY <1>1, <1>3, <1>4, <2>2 DEF IngestServed
<1>6. result \in Manifests \cup {"failed", NoResult}
  BY <1>1 DEF IngestTypes
<1>7. CASE Ingest!Load(c)
  <2>1. Ingest!Goto(c, "existing") /\ Ingest!KeepLocals /\ UNCHANGED result /\ LoadSession(c)
    BY <1>7, IngestStore DEF Ingest!Load
  <2>2. IngestTypes' /\ IngestOthers(c) /\ ingestPc'[c] = "existing"
        /\ UNCHANGED <<payload, failures, ingestAnswer>>
    BY <1>1, <2>1, IngestGoes DEF Ingest!Steps
  <2>3. Own(c) /\ snap'[c] = session /\ etag'[c] = stamp
    BY <1>1, <1>3, <2>1, Owns
  <2>4. IngestInv(c)'
    BY <1>3, <2>2, <2>3 DEF IngestInv, IngestHolding, Handed, Current
  <2>. QED
    BY <1>1, <1>3, <2>2, <2>3, <2>4 DEF IngestServed
<1>8. CASE Ingest!Existing(c)
  <2>1. ingestPc[c] = "existing" /\ UNCHANGED result
    BY <1>8 DEF Ingest!Existing
  <2>2. CASE /\ snap[c].status \in Ingest!Accepting /\ Ingest!Goto(c, "check")
             /\ UNCHANGED Ingest!clientVars /\ Ingest!KeepLocals
    <3>1. IngestTypes' /\ IngestOthers(c) /\ ingestPc'[c] = "check"
          /\ UNCHANGED <<payload, failures, ingestAnswer>>
      BY <1>1, <2>1, <2>2, IngestGoes DEF Ingest!Steps
    <3>2. UNCHANGED clientVars
      BY <2>2 DEF Ingest!clientVars, clientVars
    <3>3. Own(c) /\ snap'[c] = snap[c] /\ etag'[c] = etag[c]
      BY <1>1, <1>3, <3>2, Owns
    <3>4. Current(c)'
      BY <1>1, <1>3, <2>1, <3>3 DEF IngestInv, IngestHolding, Current, Rests
    <3>5. IngestInv(c)'
      BY <2>2, <3>1, <3>3, <3>4 DEF IngestInv, Handed, Ingest!Accepting
    <3>. QED
      BY <1>1, <1>3, <3>1, <3>3, <3>5 DEF IngestServed
  <2>3. CASE \E code \in Ingest!Codes : Ingest!End(c, code) /\ (code = "200" => manifest = payload[c])
    BY <1>5, <1>6, <2>1, <2>3
  <2>. QED
    BY <1>8, <2>2, <2>3 DEF Ingest!Existing, Ingest!Codes
<1>9. CASE Ingest!Check(c)
  <2>1. ingestPc[c] = "check" /\ UNCHANGED result /\ UNCHANGED clientVars /\ Ingest!KeepLocals
    BY <1>9 DEF Ingest!Check, Ingest!clientVars, clientVars
  <2>2. Ingest!Goto(c, "save") \/ Ingest!Goto(c, "fail_load")
    BY <1>9, OnAzure DEF Ingest!Check
  <2>3. /\ IngestTypes' /\ IngestOthers(c) /\ ingestPc'[c] \in {"save", "fail_load"}
        /\ UNCHANGED <<payload, failures, ingestAnswer>>
    BY <1>1, <2>1, <2>2, IngestGoes DEF Ingest!Steps
  <2>4. Own(c) /\ snap'[c] = snap[c] /\ etag'[c] = etag[c]
    BY <1>1, <1>3, <2>1, Owns
  <2>5. Current(c)'
    BY <1>1, <1>3, <2>1, <2>4 DEF IngestInv, IngestHolding, Current, Rests
  <2>6. IngestInv(c)'
    BY <1>1, <2>1, <2>3, <2>4, <2>5 DEF IngestInv, Handed, Ingest!Accepting
  <2>. QED
    BY <1>1, <1>3, <2>3, <2>4, <2>6 DEF IngestServed
<1>10. CASE Ingest!FailLoad(c)
  <2>1. /\ Ingest!Goto(c, "fail_save") /\ UNCHANGED result /\ Ingest!KeepLocals
        /\ etag' = [etag EXCEPT ![c] = stamp] /\ UNCHANGED <<snap, armed>>
    BY <1>10 DEF Ingest!FailLoad
  <2>2. /\ IngestTypes' /\ IngestOthers(c) /\ ingestPc'[c] = "fail_save"
        /\ UNCHANGED <<payload, failures, ingestAnswer>>
    BY <1>1, <2>1, IngestGoes DEF Ingest!Steps
  <2>3. Own(c)
    BY <1>1, <1>3, <2>1 DEF Own, HeldTypes, StoreInv, Rests
  <2>4. IngestInv(c)'
    BY <2>2 DEF IngestInv, IngestHolding, Handed
  <2>. QED
    BY <1>1, <1>3, <2>2, <2>3, <2>4 DEF IngestServed
<1>11. CASE Ingest!FailResult(c)
  BY <1>5, <1>11 DEF Ingest!FailResult, Ingest!Codes
<1>12. CASE Ingest!SaveResult(c) \/ Ingest!Recheck(c)
  <2>1. manifest = payload[c]
    BY <1>1, <1>12 DEF Ingest!SaveResult, Ingest!Recheck, IngestInv, Handed
  <2>. QED
    BY <1>1, <1>5, <1>6, <1>12, <2>1 DEF Ingest!SaveResult, Ingest!Recheck, Ingest!Codes
<1>. QED
  BY <1>7, <1>8, <1>9, <1>10, <1>11, <1>12

\* A write of ingest_evidence, acknowledged or not.
LEMMA IngestWrites ==
    ASSUME UseIotHub, CloudInv, NEW c \in Workers, ingestPc[c] # "idle",
           NEW status \in Statuses, UNCHANGED <<manifest, proofs, proofIndex, qr>>,
           Writes(c, Ingest!WithStatus(c, status)) \/ Rests,
           \/ status = "failed"
           \/ Current(c) /\ Rank[status] > Rank[snap[c].status]
    PROVE  /\ Moves /\ stamp' \in Nat /\ stamp' >= stamp
           /\ Ingest!WithStatus(c, status) \in Session
           /\ Ingest!WithStatus(c, status).status = status
<1>. DEFINE s == Ingest!WithStatus(c, status)
<1>1. /\ StoreTypes /\ StoreInv /\ c \in Calls /\ snap[c] \in Session
      /\ snap[c].status \in Statuses
  BY IngestFinds
<1>2. s = [snap[c] EXCEPT !.status = status]
  BY DEF Ingest!WithStatus
<1>3. s \in Session /\ s.status = status /\ s.proof = snap[c].proof /\ s.key = snap[c].key
  BY <1>1, <1>2, Restated
<1>4. ASSUME Writes(c, s)
      PROVE  Grows /\ session' \in Session /\ stamp' \in Nat
  <2>1. CASE status = "failed"
    BY <1>1, <1>3, <1>4, <2>1, FailureGrows
  <2>2. CASE Current(c) /\ Rank[status] > Rank[snap[c].status]
    <3>1. Rank[snap[c].status] \in 0 .. 9 /\ Rank[s.status] \in 0 .. 9
      BY <1>1, <1>3, Ranks
    <3>2. /\ Rank[snap[c].status] <= Rank[s.status]
          /\ Rank[snap[c].status] = 2 => Rank[s.status] > 2
      BY <1>3, <2>2, <3>1
    <3>. QED
      BY <1>1, <1>3, <1>4, <2>2, <3>2, WriteGrows
  <2>. QED
    BY <2>1, <2>2
<1>5. Moves
  BY <1>1, <1>4, SessionMoves
<1>. QED
  BY <1>1, <1>3, <1>5, StampGrows DEF Moves

LEMMA IngestFailSaves ==
    ASSUME UseIotHub, CloudInv, NEW c \in Workers, ingestPc[c] # "idle", Ingest!FailSave(c)
    PROVE  IngestServed(c)
<1>. DEFINE s == Ingest!WithStatus(c, "failed")
<1>1. /\ Types /\ IngestTypes /\ HeldTypes /\ StoreTypes /\ StoreInv /\ IngestInv(c)
      /\ c \in Calls /\ stamp \in Nat /\ failures \in 0 .. MaxFailures
      /\ BlankSession \in Session
  BY IngestFinds, Blank
<1>2. UNCHANGED <<manifest, proofs, proofIndex, qr, result>> /\ "failed" \in Statuses
  BY DEF Ingest!FailSave, Statuses
<1>3. Writes(c, s) \/ Rests
  BY IngestStore, OnAzure DEF Ingest!FailSave
<1>4. Moves /\ stamp' \in Nat /\ stamp' >= stamp
  BY <1>2, <1>3, IngestWrites
<1>5. (DropRecord(c) => Own(c)) /\ (UNCHANGED clientVars => Own(c))
  BY <1>1, <1>4, Owns
<1>6. CASE Ingest!Goto(c, "fail_result") /\ UNCHANGED Ingest!clientVars /\ Ingest!KeepLocals
  <2>1. IngestTypes' /\ IngestOthers(c) /\ ingestPc'[c] = "fail_result"
        /\ UNCHANGED <<payload, failures, ingestAnswer>>
    BY <1>1, <1>2, <1>6, IngestGoes DEF Ingest!Steps
  <2>2. IngestInv(c)'
    BY <2>1 DEF IngestInv, IngestHolding, Handed
  <2>3. UNCHANGED clientVars
    BY <1>6 DEF Ingest!clientVars, clientVars
  <2>. QED
    BY <1>1, <1>4, <1>5, <2>1, <2>2, <2>3 DEF IngestServed
<1>7. CASE Ingest!End(c, "ERR_INTERNAL")
  <2>1. result' \in Manifests \cup {"failed", NoResult} /\ "ERR_INTERNAL" \in Ingest!Codes
    BY <1>1, <1>2 DEF IngestTypes, Ingest!Codes
  <2>2. /\ DropRecord(c) /\ IngestOthers(c) /\ IngestInv(c)' /\ IngestTypes'
        /\ UNCHANGED <<payload, failures>>
    BY <1>1, <1>7, <2>1, IngestEnds
  <2>. QED
    BY <1>1, <1>4, <1>5, <2>2 DEF IngestServed
<1>. QED
  BY <1>6, <1>7 DEF Ingest!FailSave

LEMMA IngestSaves ==
    ASSUME UseIotHub, CloudInv, NEW c \in Workers, ingestPc[c] # "idle", Ingest!SaveManifest(c)
    PROVE  IngestServed(c)
<1>1. /\ Types /\ IngestTypes /\ HeldTypes /\ StoreTypes /\ StoreInv /\ IngestInv(c)
      /\ c \in Calls /\ stamp \in Nat /\ failures \in 0 .. MaxFailures
      /\ payload[c] \in Manifests /\ BlankSession \in Session
  BY IngestFinds, Blank
<1>2. /\ Rests /\ UNCHANGED <<proofs, proofIndex, qr, result>> /\ ingestPc[c] = "save"
      /\ stamp' \in Nat /\ stamp' >= stamp
  BY <1>1 DEF Ingest!SaveManifest, Rests
<1>3. (DropRecord(c) => Own(c))
      /\ (UNCHANGED clientVars => Own(c) /\ snap'[c] = snap[c] /\ etag'[c] = etag[c])
  BY <1>1, <1>2, Owns
<1>4. CASE /\ ~Ingest!ManifestConflicts(payload[c]) /\ manifest' = payload[c]
           /\ Ingest!Goto(c, Ingest!AfterManifest(snap[c].status))
           /\ UNCHANGED Ingest!clientVars /\ Ingest!KeepLocals
  <2>1. manifest \in {payload[c], NoManifest}
    BY <1>4, OnAzure DEF Ingest!ManifestConflicts
  <2>2. \A p \in proofs : p.manifest = manifest'
    <3>1. ASSUME NEW p \in proofs PROVE p.manifest # NoManifest
      <4>1. p \in Proof
        BY <1>1 DEF StoreTypes
      <4>. QED
        BY <4>1, StoreConstants DEF Proof
    <3>. QED
      BY <1>1, <1>4, <2>1, <3>1 DEF StoreInv
  <2>3. Moves
    BY <1>1, <1>2, <1>4, <2>1, <2>2 DEF Moves, StoreTypes, Rests
  <2>4. UNCHANGED clientVars
    BY <1>4 DEF Ingest!clientVars, clientVars
  <2>5. snap[c].status \in Ingest!Accepting /\ Current(c)
    BY <1>1, <1>2 DEF IngestInv, IngestHolding
  <2>6. \/ snap[c].status = "challenge_issued"
           /\ Ingest!AfterManifest(snap[c].status) = "waiting"
        \/ snap[c].status = "waiting_device"
           /\ Ingest!AfterManifest(snap[c].status) = "capturing"
        \/ snap[c].status = "capturing"
           /\ Ingest!AfterManifest(snap[c].status) = "uploaded"
    BY <2>5 DEF Ingest!AfterManifest, Ingest!Accepting
  <2>7. Ingest!AfterManifest(snap[c].status) \in Ingest!Steps
    BY <2>6 DEF Ingest!Steps
  <2>8. /\ IngestTypes' /\ IngestOthers(c)
        /\ ingestPc'[c] = Ingest!AfterManifest(snap[c].status)
        /\ UNCHANGED <<payload, failures, ingestAnswer>>
    BY <1>1, <1>2, <1>4, <2>7, IngestGoes
  <2>9. Own(c) /\ snap'[c] = snap[c] /\ etag'[c] = etag[c]
    BY <1>3, <2>4
  <2>10. Current(c)'
    BY <1>2, <2>5, <2>9 DEF Current, Rests
  <2>11. IngestInv(c)'
    BY <1>4, <2>6, <2>8, <2>9, <2>10 DEF IngestInv, Handed
  <2>. QED
    BY <1>1, <1>2, <2>3, <2>8, <2>9, <2>11 DEF IngestServed
<1>5. CASE Ingest!End(c, "ERR_EVIDENCE_CONFLICT") /\ UNCHANGED manifest
  <2>1. Moves
    BY <1>1, <1>2, <1>5, SessionMoves
  <2>2. result' \in Manifests \cup {"failed", NoResult}
        /\ "ERR_EVIDENCE_CONFLICT" \in Ingest!Codes
    BY <1>1, <1>2 DEF IngestTypes, Ingest!Codes
  <2>3. /\ DropRecord(c) /\ IngestOthers(c) /\ IngestInv(c)' /\ IngestTypes'
        /\ UNCHANGED <<payload, failures>>
    BY <1>1, <1>5, <2>2, IngestEnds
  <2>. QED
    BY <1>1, <1>2, <1>3, <2>1, <2>3 DEF IngestServed
<1>. QED
  BY <1>4, <1>5 DEF Ingest!SaveManifest

\* The two writes on the way to the upload.
LEMMA IngestAdvances ==
    ASSUME UseIotHub, CloudInv, NEW c \in Workers,
           NEW status \in {"waiting_device", "capturing"}, NEW next \in {"capturing", "uploaded"},
           UNCHANGED <<manifest, proofs, proofIndex, qr, result>>,
           Ingest!Advance(c, status, next),
           \/ ingestPc[c] = "waiting" /\ status = "waiting_device" /\ next = "capturing"
           \/ ingestPc[c] = "capturing" /\ status = "capturing" /\ next = "uploaded"
    PROVE  IngestServed(c)
<1>. DEFINE s == Ingest!WithStatus(c, status)
<1>1. /\ Types /\ IngestTypes /\ HeldTypes /\ StoreTypes /\ StoreInv /\ IngestInv(c)
      /\ c \in Calls /\ stamp \in Nat /\ failures \in 0 .. MaxFailures
      /\ payload[c] \in Manifests /\ BlankSession \in Session
  BY IngestFinds, Blank
<1>2. /\ status \in Statuses /\ Current(c) /\ manifest = payload[c]
      /\ Rank[status] > Rank[snap[c].status]
  BY <1>1, Ranks DEF Statuses, IngestInv, IngestHolding, Handed
<1>3. Writes(c, s) \/ Rests
  BY IngestStore DEF Ingest!Advance, Ingest!Compares
<1>4. Moves /\ stamp' \in Nat /\ stamp' >= stamp /\ s \in Session /\ s.status = status
  BY <1>2, <1>3, IngestWrites
<1>5. (DropRecord(c) => Own(c))
      /\ (HoldReplaced(c, s) => Own(c) /\ snap'[c] = s /\ etag'[c] = stamp')
  BY <1>1, <1>4, Owns
<1>6. CASE /\ Ingest!ReplaceSession(c, s) /\ Ingest!HoldReplaced(c, s)
           /\ Ingest!Goto(c, next) /\ Ingest!KeepLocals
  <2>1. IngestTypes' /\ IngestOthers(c) /\ ingestPc'[c] = next
        /\ UNCHANGED <<payload, failures, ingestAnswer>>
    BY <1>1, <1>6, IngestGoes DEF Ingest!Steps
  <2>2. Own(c) /\ snap'[c] = s /\ session' = s
    BY <1>5, <1>6, IngestStore DEF Writes
  <2>3. IngestInv(c)'
    BY <1>2, <1>4, <2>1, <2>2 DEF IngestInv, Handed, Current
  <2>. QED
    BY <1>1, <1>4, <2>1, <2>2, <2>3 DEF IngestServed
<1>7. CASE Ingest!End(c, "ERR_STORAGE_CONFLICT")
  <2>1. result' \in Manifests \cup {"failed", NoResult}
        /\ "ERR_STORAGE_CONFLICT" \in Ingest!Codes
    BY <1>1 DEF IngestTypes, Ingest!Codes
  <2>2. /\ DropRecord(c) /\ IngestOthers(c) /\ IngestInv(c)' /\ IngestTypes'
        /\ UNCHANGED <<payload, failures>>
    BY <1>1, <1>7, <2>1, IngestEnds
  <2>. QED
    BY <1>1, <1>4, <1>5, <2>2 DEF IngestServed
<1>. QED
  BY <1>6, <1>7, IngestStore DEF Ingest!Advance, Ingest!Compares

LEMMA IngestUploads ==
    ASSUME UseIotHub, CloudInv, NEW c \in Workers, Ingest!ToUploaded(c)
    PROVE  IngestServed(c)
<1>. DEFINE s == Ingest!WithStatus(c, "evidence_uploaded")
<1>0. ingestPc[c] = "uploaded" /\ UNCHANGED <<manifest, proofs, proofIndex, qr, result>>
  BY DEF Ingest!ToUploaded
<1>1. /\ Types /\ IngestTypes /\ HeldTypes /\ StoreTypes /\ StoreInv /\ IngestInv(c)
      /\ c \in Calls /\ stamp \in Nat /\ failures \in 0 .. MaxFailures
      /\ payload[c] \in Manifests /\ BlankSession \in Session
  BY <1>0, IngestFinds, Blank
<1>2. /\ "evidence_uploaded" \in Statuses /\ Current(c) /\ manifest = payload[c]
      /\ Rank["evidence_uploaded"] > Rank[snap[c].status]
  BY <1>0, <1>1, Ranks DEF Statuses, IngestInv, IngestHolding, Handed
<1>3. Writes(c, s) \/ Rests
  BY IngestStore DEF Ingest!ToUploaded, Ingest!Compares
<1>4. Moves /\ stamp' \in Nat /\ stamp' >= stamp
  BY <1>0, <1>2, <1>3, IngestWrites
<1>5. DropRecord(c) => Own(c)
  BY <1>1, <1>4, Owns
<1>6. ASSUME NEW next \in {"result", "recheck"}, Ingest!Goto(c, next), Ingest!DropRecord(c),
             Ingest!KeepLocals
      PROVE  IngestServed(c)
  <2>1. IngestTypes' /\ IngestOthers(c) /\ ingestPc'[c] = next
        /\ UNCHANGED <<payload, failures, ingestAnswer>>
    BY <1>0, <1>1, <1>6, IngestGoes DEF Ingest!Steps
  <2>2. Own(c)
    BY <1>5, <1>6, IngestStore
  <2>3. IngestInv(c)'
    BY <1>0, <1>2, <2>1 DEF IngestInv, IngestHolding
  <2>. QED
    BY <1>0, <1>1, <1>4, <2>1, <2>2, <2>3 DEF IngestServed
<1>. QED
  BY <1>6, IngestStore DEF Ingest!ToUploaded, Ingest!Compares

LEMMA IngestServes ==
    ASSUME UseIotHub, CloudInv, NEW c \in Workers, Ingest!Step(c)
    PROVE  IngestServed(c)
<1>1. ingestPc[c] # "idle"
  BY DEF Ingest!Step, Ingest!Load, Ingest!Existing, Ingest!Check, Ingest!FailLoad,
     Ingest!FailSave, Ingest!FailResult, Ingest!SaveManifest, Ingest!ToWaiting,
     Ingest!ToCapturing, Ingest!ToUploaded, Ingest!SaveResult, Ingest!Recheck
<1>2. CASE Ingest!ToWaiting(c)
  BY <1>2, IngestAdvances DEF Ingest!ToWaiting
<1>3. CASE Ingest!ToCapturing(c)
  BY <1>3, IngestAdvances DEF Ingest!ToCapturing
<1>. QED
  BY <1>1, <1>2, <1>3, IngestReads, IngestFailSaves, IngestSaves, IngestUploads
     DEF Ingest!Step

LEMMA IngestFails ==
    ASSUME UseIotHub, CloudInv, NEW c \in Workers, Ingest!Fail(c)
    PROVE  IngestServed(c)
<1>0. ingestPc[c] # "idle"
  BY DEF Ingest!Fail
<1>1. /\ Types /\ IngestTypes /\ HeldTypes /\ StoreTypes /\ StoreInv /\ c \in Calls
      /\ stamp \in Nat /\ failures \in 0 .. MaxFailures /\ BlankSession \in Session
  BY <1>0, IngestFinds, Blank
<1>2. UNCHANGED storeVars /\ DropRecord(c) /\ UNCHANGED <<payload, result, expired>>
  BY IngestStore DEF Ingest!Fail, Ingest!storeVars, storeVars
<1>3. Moves /\ Rests
  BY <1>1, <1>2, QuietMoves
<1>4. Own(c)
  BY <1>1, <1>2, <1>3, Owns DEF Rests
<1>5. failures' \in 0 .. MaxFailures
  BY <1>1, CloudConstants DEF Ingest!Fail, Tele!TelemetryConstants
<1>6. /\ ingestPc' = [ingestPc EXCEPT ![c] = "done"]
      /\ ingestAnswer' = [ingestAnswer EXCEPT ![c] = "lost"]
  BY DEF Ingest!Fail, Ingest!Answer, Ingest!Goto
<1>7. IngestTypes' /\ IngestOthers(c) /\ IngestInv(c)'
  BY <1>1, <1>2, <1>6 DEF IngestTypes, IngestOthers, IngestInv, IngestHolding, Handed,
     Ingest!Steps, Ingest!Codes
<1>. QED
  BY <1>0, <1>2, <1>3, <1>4, <1>5, <1>7 DEF IngestServed

-----------------------------------------------------------------------------
\* issue_proof within a manifest's call

IssueOthers(c) ==
    \A d \in Workers \ {c} :
        /\ issuePc'[d] = issuePc[d] /\ cand'[d] = cand[d] /\ built'[d] = built[d]
        /\ issueAnswer'[d] = issueAnswer[d]

\* What a step of issue_proof leaves behind.
IssueServed(c) ==
    /\ IssueTypes' /\ IssueOthers(c) /\ Own(c) /\ Moves /\ IssueInv(c)'
    /\ failures' \in 0 .. MaxFailures
    /\ issuePc[c] # "idle"

\* What a step of issue_proof finds.
LEMMA IssueFinds ==
    ASSUME CloudInv, NEW c \in Workers, issuePc[c] # "idle"
    PROVE  /\ Types /\ IssueTypes /\ HeldTypes /\ StoreTypes /\ StoreInv /\ IssueInv(c)
           /\ c \in Calls /\ session.status \in Statuses /\ stamp \in Nat
           /\ session \in Session /\ snap[c] \in Session /\ snap[c].status \in Statuses
           /\ manifest \in Manifests /\ manifest # NoManifest
           /\ failures \in 0 .. MaxFailures /\ BlankSession \in Session
BY InvParts, WorkersCall, StoreConstants, Blank DEF CallInv, Types

LEMMA IssueConstantsHold ==
    /\ MaxAttempts \in Nat \ {0} /\ 0 \in 0 .. MaxAttempts - 1 /\ MaxFailures \in Nat
    /\ Issue!NoReservation \in Issue!Reservation
    /\ Issue!NoAnswer \in [code : Issue!Codes, proof : ProofIds \cup {NoId}]
BY CloudConstants DEF Tele!TelemetryConstants, Issue!NoReservation, Issue!Reservation,
   Issue!NoAnswer, Issue!Codes

LEMMA IssueEnds ==
    ASSUME UseIotHub, IssueTypes, NEW c \in Workers, NEW code \in Issue!Codes,
           NEW id \in ProofIds \cup {NoId}, Issue!End(c, code, id),
           id # NoId => Stored(id)'
    PROVE  /\ DropRecord(c) /\ IssueTypes' /\ IssueOthers(c) /\ IssueInv(c)'
           /\ UNCHANGED failures
<1>1. /\ issuePc' = [issuePc EXCEPT ![c] = "done"]
      /\ issueAnswer' = [issueAnswer EXCEPT ![c] = [code |-> code, proof |-> id]]
      /\ attempt' = [attempt EXCEPT ![c] = 0]
      /\ cand' = [cand EXCEPT ![c] = Issue!NoReservation]
      /\ built' = [built EXCEPT ![c] = NoProof]
      /\ DropRecord(c) /\ UNCHANGED <<activeKey, failures>>
  BY IssueStore DEF Issue!End, Issue!Goto
<1>2. issuePc'[c] = "done" /\ issueAnswer'[c].proof = id
  BY <1>1 DEF IssueTypes
<1>3. Stored(issueAnswer[c].proof)' <=> \E p \in proofs' : p.id = issueAnswer'[c].proof
  BY DEF Stored
<1>4. Stored(id)' <=> \E p \in proofs' : p.id = id
  BY DEF Stored
<1>5. IssueInv(c)'
  BY <1>2, <1>3, <1>4 DEF IssueInv, Issue!Building, Issue!Saved, Issue!Holding, Issue!ReplaceSteps
<1>6. IssueTypes'
  BY <1>1, IssueConstantsHold DEF IssueTypes, Issue!Steps
<1>. QED
  BY <1>1, <1>5, <1>6 DEF IssueOthers, IssueTypes

\* The next attempt, or the end of them.
LEMMA IssueContinues ==
    ASSUME UseIotHub, IssueTypes, NEW c \in Workers, Moves, IssueInv(c),
           Issue!Continue(c) \/ Issue!NextAttempt(c)
    PROVE  /\ DropRecord(c) /\ IssueTypes' /\ IssueOthers(c) /\ IssueInv(c)'
           /\ UNCHANGED failures
<1>1. CASE Issue!NextAttempt(c)
  <2>1. /\ issuePc' = [issuePc EXCEPT ![c] = "load"]
        /\ attempt' = [attempt EXCEPT ![c] = @ + 1] /\ attempt[c] + 1 < MaxAttempts
        /\ cand' = [cand EXCEPT ![c] = Issue!NoReservation]
        /\ DropRecord(c) /\ UNCHANGED <<built, issueAnswer, activeKey, failures>>
    BY <1>1, IssueStore DEF Issue!NextAttempt, Issue!Goto
  <2>2. issuePc'[c] = "load"
    BY <2>1 DEF IssueTypes
  <2>3. issueAnswer[c].proof # NoId => Stored(issueAnswer[c].proof)'
    BY <2>1 DEF IssueInv, Moves, Stored
  <2>4. IssueInv(c)'
    BY <2>1, <2>2, <2>3 DEF IssueInv, Issue!Building, Issue!Saved, Issue!Holding, Issue!ReplaceSteps
  <2>5. attempt[c] + 1 \in 0 .. MaxAttempts - 1
    BY <2>1, IssueConstantsHold DEF IssueTypes
  <2>6. IssueTypes'
    BY <2>1, <2>5, IssueConstantsHold DEF IssueTypes, Issue!Steps
  <2>. QED
    BY <2>1, <2>4, <2>6 DEF IssueOthers, IssueTypes
<1>2. CASE Issue!DidNotConverge(c)
  BY <1>2, IssueEnds DEF Issue!DidNotConverge, Issue!Codes
<1>. QED
  BY <1>1, <1>2 DEF Issue!Continue

LEMMA IssueGoes ==
    ASSUME IssueTypes, NEW c \in Workers, NEW next \in Issue!Steps,
           Issue!Goto(c, next), Issue!KeepLocals
    PROVE  /\ IssueTypes' /\ IssueOthers(c) /\ issuePc'[c] = next
           /\ UNCHANGED <<failures, attempt, cand, built, issueAnswer>>
BY DEF Issue!Goto, Issue!KeepLocals, IssueTypes, IssueOthers

LEMMA AnswersStay ==
    ASSUME Moves, NEW c \in Workers, IssueInv(c), UNCHANGED issueAnswer
    PROVE  issueAnswer'[c].proof # NoId => Stored(issueAnswer[c].proof)'
BY DEF IssueInv, Moves, Stored

\* What a write of issue_proof makes of the store, acknowledged or not.
LEMMA IssueWrites ==
    ASSUME UseIotHub, CloudInv, NEW c \in Workers, issuePc[c] # "idle",
           NEW s \in Session, UNCHANGED <<manifest, proofs, proofIndex, qr>>,
           Issue!ReplaceSession(c, s) \/ Issue!ReplaceConflicts(c, s), Current(c),
           Rank[snap[c].status] >= 3, Rank[s.status] >= Rank[snap[c].status],
           \/ snap[c].proof = NoId
           \/ s.proof = snap[c].proof /\ s.key = snap[c].key
    PROVE  /\ Moves /\ stamp' \in Nat /\ stamp' >= stamp
           /\ DropRecord(c) => Own(c)
           /\ HoldReplaced(c, s) => Own(c) /\ snap'[c] = s /\ etag'[c] = stamp'
           /\ Issue!ReplaceSession(c, s) => session' = s
           /\ Issue!HoldReplaced(c, s) => HoldReplaced(c, s)
<1>1. StoreTypes /\ StoreInv /\ HeldTypes /\ c \in Calls /\ snap[c].status \in Statuses
  BY IssueFinds
<1>2. Writes(c, s) \/ Rests
  BY IssueStore
<1>3. ASSUME Writes(c, s)
      PROVE  Grows /\ session' \in Session /\ stamp' \in Nat
  <2>1. Rank[snap[c].status] \in 0 .. 9
    BY <1>1, Ranks
  <2>2. /\ Rank[snap[c].status] <= Rank[s.status]
        /\ Rank[snap[c].status] = 2 => Rank[s.status] > 2
    BY <2>1
  <2>. QED
    BY <1>1, <1>3, <2>2, WriteGrows
<1>4. Moves
  BY <1>1, <1>2, <1>3, SessionMoves
<1>5. stamp' \in Nat /\ stamp' >= stamp
  BY <1>1, <1>4, StampGrows DEF Moves
<1>. QED
  BY <1>1, <1>4, <1>5, Owns, IssueStore DEF Writes

\* A step of issue_proof that stores nothing.
LEMMA IssueReads ==
    ASSUME UseIotHub, CloudInv, NEW c \in Workers, issuePc[c] # "idle",
           UNCHANGED storeVars
    PROVE  /\ Moves /\ Rests /\ UNCHANGED <<manifest, proofs, session>>
           /\ DropRecord(c) => Own(c)
           /\ UNCHANGED clientVars => Own(c) /\ snap'[c] = snap[c] /\ etag'[c] = etag[c]
           /\ LoadSession(c) => Own(c) /\ snap'[c] = session /\ etag'[c] = stamp
<1>1. StoreTypes /\ StoreInv /\ HeldTypes /\ c \in Calls /\ BlankSession \in Session
      /\ stamp \in Nat
  BY IssueFinds
<1>2. Moves /\ Rests
  BY <1>1, QuietMoves
<1>3. stamp' \in Nat /\ stamp' >= stamp
  BY <1>1, <1>2 DEF Rests
<1>. QED
  BY <1>1, <1>2, <1>3, Owns DEF storeVars

LEMMA SameStored == \A id : Issue!Stored(id) <=> Stored(id)
BY DEF Issue!Stored, Stored

\* The status at these steps decides what the request may write.
LEMMA HeldStage ==
    ASSUME NEW c \in Workers, IssueInv(c), snap[c].status \in Statuses
    PROVE  /\ issuePc[c] \in {"validating", "verified", "resolve", "reserve", "adopt",
                              "build", "save", "index", "finish"} =>
                Rank[snap[c].status] >= 3
           /\ issuePc[c] = "validating" => Rank[snap[c].status] <= 5
           /\ issuePc[c] = "verified" => Rank[snap[c].status] <= 6
           /\ issuePc[c] \in {"adopt", "finish"} => Rank[snap[c].status] <= 8
BY Ranks DEF IssueInv, Issue!Reserved

LEMMA IssueLoads ==
    ASSUME UseIotHub, CloudInv, NEW c \in Workers, Issue!Load(c)
    PROVE  IssueServed(c)
<1>0. issuePc[c] = "load" /\ UNCHANGED storeVars
  BY DEF Issue!Load, Issue!storeVars, storeVars
<1>1. IssueTypes /\ IssueInv(c) /\ failures \in 0 .. MaxFailures
  BY <1>0, IssueFinds
<1>2. /\ Moves /\ Rests /\ UNCHANGED session
      /\ DropRecord(c) => Own(c)
      /\ LoadSession(c) => Own(c) /\ snap'[c] = session /\ etag'[c] = stamp
  BY <1>0, IssueReads
<1>3. CASE Issue!AfterLoad(c) /\ Issue!LoadSession(c) /\ Issue!KeepLocals
  <2>1. LoadSession(c)
    BY <1>3, IssueStore
  <2>2. Own(c) /\ snap'[c] = session /\ etag'[c] = stamp /\ Current(c)'
    BY <1>2, <2>1 DEF Current
  <2>3. PICK next \in {"find", "validating", "resolve"} :
           /\ Issue!Goto(c, next)
           /\ next = "find" => session.proof # NoId
           /\ next = "validating" => session.proof = NoId /\ session.status = "evidence_uploaded"
           /\ next = "resolve" => session.proof = NoId /\ session.status = "verified"
    BY <1>3 DEF Issue!AfterLoad
  <2>4. /\ IssueTypes' /\ IssueOthers(c) /\ issuePc'[c] = next
        /\ UNCHANGED <<failures, cand, built, issueAnswer>>
    BY <1>1, <1>3, <2>3, IssueGoes DEF Issue!Steps
  <2>5. issueAnswer'[c].proof # NoId => Stored(issueAnswer[c].proof)'
    BY <1>1, <1>2, <2>4, AnswersStay
  <2>6. IssueInv(c)'
    BY <2>2, <2>3, <2>4, <2>5 DEF IssueInv, Issue!Building, Issue!Saved, Issue!Holding,
       Issue!ReplaceSteps
  <2>. QED
    BY <1>0, <1>1, <1>2, <2>2, <2>4, <2>6 DEF IssueServed
<1>4. CASE Issue!Continue(c)
  BY <1>0, <1>1, <1>2, <1>4, IssueContinues DEF IssueServed
<1>5. CASE Issue!End(c, "ERR_EVIDENCE_NOT_ACCEPTED", NoId)
  BY <1>0, <1>1, <1>2, <1>5, IssueEnds DEF IssueServed, Issue!Codes
<1>. QED
  BY <1>3, <1>4, <1>5 DEF Issue!Load

LEMMA IssueLooks ==
    ASSUME UseIotHub, CloudInv, NEW c \in Workers, Issue!Find(c)
    PROVE  IssueServed(c)
<1>0. issuePc[c] = "find" /\ UNCHANGED storeVars
  BY DEF Issue!Find, Issue!storeVars, storeVars
<1>1. /\ IssueTypes /\ IssueInv(c) /\ failures \in 0 .. MaxFailures
      /\ snap[c] \in Session /\ snap[c].proof # NoId /\ Current(c)
  BY <1>0, IssueFinds DEF IssueInv, Issue!Holding
<1>2. /\ Moves /\ Rests /\ UNCHANGED <<proofs, session>>
      /\ DropRecord(c) => Own(c)
      /\ UNCHANGED clientVars => Own(c) /\ snap'[c] = snap[c] /\ etag'[c] = etag[c]
  BY <1>0, IssueReads
<1>3. snap[c].proof \in ProofIds
  BY <1>1 DEF Session
<1>4. CASE /\ Issue!Stored(snap[c].proof) /\ snap[c].status \in Issue!Reserved
           /\ Issue!Goto(c, "adopt")
           /\ UNCHANGED Issue!clientVars /\ Issue!KeepLocals
  <2>1. Own(c) /\ snap'[c] = snap[c] /\ etag'[c] = etag[c]
    BY <1>2, <1>4 DEF Issue!clientVars, clientVars
  <2>2. Current(c)'
    BY <1>1, <1>2, <2>1 DEF Current, Rests
  <2>3. /\ IssueTypes' /\ IssueOthers(c) /\ issuePc'[c] = "adopt"
        /\ UNCHANGED <<failures, cand, built, issueAnswer>>
    BY <1>1, <1>4, IssueGoes DEF Issue!Steps
  <2>4. issueAnswer'[c].proof # NoId => Stored(issueAnswer[c].proof)'
    BY <1>1, <1>2, <2>3, AnswersStay
  <2>5. Stored(snap[c].proof)'
    BY <1>2, <1>4, <2>1, SameStored DEF Stored
  <2>6. IssueInv(c)'
    BY <1>1, <1>4, <2>1, <2>2, <2>3, <2>4, <2>5 DEF IssueInv, Issue!Building, Issue!Saved,
       Issue!Holding, Issue!ReplaceSteps, Issue!Reserved
  <2>. QED
    BY <1>0, <1>1, <1>2, <2>1, <2>3, <2>6 DEF IssueServed
<1>5. CASE Issue!Stored(snap[c].proof) /\ Issue!End(c, "200", snap[c].proof)
  <2>1. Stored(snap[c].proof)
    BY <1>5, SameStored
  <2>2. PICK id \in ProofIds : id = snap[c].proof
    BY <1>3
  <2>3. Stored(id) /\ Issue!End(c, "200", id)
    BY <1>5, <2>1, <2>2
  <2>4. Stored(id)'
    BY <1>2, <2>3 DEF Stored
  <2>. QED
    BY <1>0, <1>1, <1>2, <2>3, <2>4, IssueEnds DEF IssueServed, Issue!Codes
<1>6. CASE Issue!End(c, "ERR_PROOF_CONFLICT", NoId)
  BY <1>0, <1>1, <1>2, <1>6, IssueEnds DEF IssueServed, Issue!Codes
<1>7. CASE Issue!NextAttempt(c)
  BY <1>0, <1>1, <1>2, <1>7, IssueContinues DEF IssueServed
<1>8. CASE /\ snap[c].status \in Issue!Reserved
           /\ Issue!Goto(c, "build")
           /\ cand' = [cand EXCEPT ![c] = Issue!TakenOver(c)]
           /\ UNCHANGED <<Issue!clientVars, attempt, built, issueAnswer, activeKey, failures>>
  <2>1. Own(c) /\ snap'[c] = snap[c] /\ etag'[c] = etag[c]
    BY <1>2, <1>8 DEF Issue!clientVars, clientVars
  <2>2. Current(c)'
    BY <1>1, <1>2, <2>1 DEF Current, Rests
  <2>3. Issue!TakenOver(c) \in Issue!Reservation /\ Issue!TakenOver(c).id # NoId
    BY <1>1, <1>3 DEF Issue!TakenOver, Issue!Reservation, Session
  <2>4. /\ IssueTypes' /\ IssueOthers(c) /\ issuePc'[c] = "build"
        /\ cand'[c].id # NoId /\ UNCHANGED <<failures, built, issueAnswer>>
    BY <1>1, <1>8, <2>3 DEF Issue!Goto, IssueTypes, IssueOthers, Issue!Steps
  <2>5. issueAnswer'[c].proof # NoId => Stored(issueAnswer[c].proof)'
    BY <1>1, <1>2, <2>4, AnswersStay
  <2>6. IssueInv(c)'
    BY <1>1, <1>8, <2>1, <2>2, <2>4, <2>5 DEF IssueInv, Issue!Building, Issue!Saved,
       Issue!Holding, Issue!ReplaceSteps, Issue!Reserved
  <2>. QED
    BY <1>0, <1>1, <1>2, <2>1, <2>4, <2>6 DEF IssueServed
<1>. QED
  BY <1>4, <1>5, <1>6, <1>7, <1>8 DEF Issue!Find

LEMMA IssueAdopts ==
    ASSUME UseIotHub, CloudInv, NEW c \in Workers, Issue!Adopt(c)
    PROVE  IssueServed(c)
<1>. DEFINE s == Issue!IssuedOf(c)
<1>0. issuePc[c] = "adopt" /\ UNCHANGED <<manifest, proofs, proofIndex, qr>>
  BY DEF Issue!Adopt
<1>1. /\ IssueTypes /\ IssueInv(c) /\ failures \in 0 .. MaxFailures /\ StoreTypes
      /\ snap[c] \in Session /\ snap[c].status \in Statuses
      /\ Current(c) /\ Stored(snap[c].proof)
  BY <1>0, IssueFinds DEF IssueInv, Issue!Holding, Issue!ReplaceSteps
<1>2. /\ s \in Session /\ s.status = "proof_issued"
      /\ s.proof = snap[c].proof /\ s.key = snap[c].key
  BY <1>1, Restated DEF Issue!IssuedOf, Statuses
<1>3. Rank[snap[c].status] >= 3 /\ Rank[s.status] >= Rank[snap[c].status]
  BY <1>0, <1>1, <1>2, HeldStage, Ranks
<1>4. Moves /\ (DropRecord(c) => Own(c))
  BY <1>0, <1>1, <1>2, <1>3, IssueWrites DEF Issue!Adopt
<1>5. CASE Issue!End(c, "200", snap[c].proof)
  <2>1. PICK id \in ProofIds \cup {NoId} : id = snap[c].proof
    BY <1>1 DEF Session
  <2>2. Stored(id) /\ Issue!End(c, "200", id)
    BY <1>1, <1>5, <2>1
  <2>3. Stored(id)'
    BY <1>0, <2>2 DEF Stored
  <2>. QED
    BY <1>0, <1>1, <1>4, <2>2, <2>3, IssueEnds DEF IssueServed, Issue!Codes
<1>6. CASE Issue!Continue(c)
  BY <1>0, <1>1, <1>4, <1>6, IssueContinues DEF IssueServed
<1>. QED
  BY <1>5, <1>6 DEF Issue!Adopt

\* The two writes before the reservation.
LEMMA IssueMarks ==
    ASSUME UseIotHub, CloudInv, NEW c \in Workers,
           Issue!MarkValidating(c) \/ Issue!MarkVerified(c)
    PROVE  IssueServed(c)
<1>0. PICK status \in {"validating", "verified"}, next \in {"verified", "resolve"} :
         /\ UNCHANGED <<manifest, proofs, proofIndex, qr>>
         /\ \/ issuePc[c] = "validating" /\ status = "validating" /\ next = "verified"
            \/ issuePc[c] = "verified" /\ status = "verified" /\ next = "resolve"
         /\ \/ /\ Issue!ReplaceSession(c, [snap[c] EXCEPT !.status = status])
               /\ Issue!HoldReplaced(c, [snap[c] EXCEPT !.status = status])
               /\ Issue!Goto(c, next) /\ Issue!KeepLocals
            \/ /\ Issue!ReplaceConflicts(c, [snap[c] EXCEPT !.status = status])
               /\ Issue!Continue(c)
  <2>1. CASE Issue!MarkValidating(c)
    BY <2>1 DEF Issue!MarkValidating, Issue!ValidatingOf
  <2>2. CASE Issue!MarkVerified(c)
    BY <2>2 DEF Issue!MarkVerified, Issue!VerifiedOf
  <2>. QED
    BY <2>1, <2>2
<1>. DEFINE s == [snap[c] EXCEPT !.status = status]
<1>1. /\ IssueTypes /\ IssueInv(c) /\ failures \in 0 .. MaxFailures /\ StoreTypes
      /\ snap[c] \in Session /\ snap[c].status \in Statuses
      /\ Current(c) /\ snap[c].proof = NoId
  BY <1>0, IssueFinds DEF IssueInv, Issue!Holding, Issue!ReplaceSteps
<1>2. /\ s \in Session /\ s.status = status
      /\ s.proof = snap[c].proof /\ s.key = snap[c].key
  <2>1. status \in Statuses
    BY DEF Statuses
  <2>. QED
    BY <1>1, <2>1, Restated
<1>3. Rank[snap[c].status] >= 3 /\ Rank[s.status] >= Rank[snap[c].status]
  BY <1>0, <1>1, <1>2, HeldStage, Ranks
<1>. HIDE DEF s
<1>4. /\ Moves /\ (DropRecord(c) => Own(c))
      /\ HoldReplaced(c, s) => Own(c) /\ snap'[c] = s /\ etag'[c] = stamp'
      /\ Issue!ReplaceSession(c, s) => session' = s
      /\ Issue!HoldReplaced(c, s) => HoldReplaced(c, s)
  BY <1>0, <1>1, <1>2, <1>3, IssueWrites DEF s
<1>5. CASE /\ Issue!ReplaceSession(c, s) /\ Issue!HoldReplaced(c, s)
           /\ Issue!Goto(c, next) /\ Issue!KeepLocals
  <2>1. Own(c) /\ snap'[c] = s /\ session' = s
    BY <1>4, <1>5
  <2>2. /\ IssueTypes' /\ IssueOthers(c) /\ issuePc'[c] = next
        /\ UNCHANGED <<failures, cand, built, issueAnswer>>
    BY <1>1, <1>5, IssueGoes DEF Issue!Steps
  <2>3. issueAnswer'[c].proof # NoId => Stored(issueAnswer[c].proof)'
    BY <1>1, <1>4, <2>2, AnswersStay
  <2>4. IssueInv(c)'
    BY <1>0, <1>1, <1>2, <2>1, <2>2, <2>3 DEF IssueInv, Issue!Building, Issue!Saved,
       Issue!Holding, Issue!ReplaceSteps, Current
  <2>. QED
    BY <1>0, <1>1, <1>4, <2>1, <2>2, <2>4 DEF IssueServed
<1>6. CASE Issue!Continue(c)
  BY <1>0, <1>1, <1>4, <1>6, IssueContinues DEF IssueServed
<1>. QED
  BY <1>0, <1>5, <1>6 DEF s

LEMMA IssueResolves ==
    ASSUME UseIotHub, CloudInv, NEW c \in Workers, Issue!Resolve(c)
    PROVE  IssueServed(c)
<1>0. issuePc[c] = "resolve" /\ UNCHANGED storeVars /\ UNCHANGED clientVars
  BY DEF Issue!Resolve, Issue!storeVars, storeVars, Issue!clientVars, clientVars
<1>1. /\ IssueTypes /\ IssueInv(c) /\ failures \in 0 .. MaxFailures
      /\ Current(c) /\ snap[c].proof = NoId /\ snap[c].status = "verified"
  BY <1>0, IssueFinds DEF IssueInv, Issue!Holding
<1>2. /\ Moves /\ Rests /\ UNCHANGED session /\ Own(c)
      /\ snap'[c] = snap[c] /\ etag'[c] = etag[c]
  BY <1>0, IssueReads
<1>3. PICK id \in ProofIds : cand' = [cand EXCEPT ![c] = [id |-> id, key |-> activeKey]]
  BY DEF Issue!Resolve
<1>4. issuePc' = [issuePc EXCEPT ![c] = "reserve"]
      /\ UNCHANGED <<attempt, built, issueAnswer, activeKey, failures>>
  BY DEF Issue!Resolve, Issue!Goto
<1>5. [id |-> id, key |-> activeKey] \in Issue!Reservation /\ id # NoId
  BY <1>1, StoreConstants DEF IssueTypes, Issue!Reservation
<1>6. IssueTypes' /\ IssueOthers(c)
  BY <1>1, <1>3, <1>4, <1>5 DEF IssueTypes, IssueOthers, Issue!Steps
<1>7. issuePc'[c] = "reserve" /\ cand'[c].id # NoId
  BY <1>1, <1>3, <1>4, <1>5 DEF IssueTypes
<1>8. issueAnswer'[c].proof # NoId => Stored(issueAnswer[c].proof)'
  BY <1>1, <1>2, <1>4, AnswersStay
<1>9. IssueInv(c)'
  BY <1>1, <1>2, <1>4, <1>7, <1>8 DEF IssueInv, Issue!Building, Issue!Saved, Issue!Holding,
     Issue!ReplaceSteps, Current, Rests
<1>. QED
  BY <1>0, <1>1, <1>2, <1>4, <1>6, <1>9 DEF IssueServed

LEMMA IssueReserves ==
    ASSUME UseIotHub, CloudInv, NEW c \in Workers, Issue!Reserve(c)
    PROVE  IssueServed(c)
<1>. DEFINE s == Issue!ReservedOf(c)
<1>0. issuePc[c] = "reserve" /\ UNCHANGED <<manifest, proofs, proofIndex, qr>>
  BY DEF Issue!Reserve
<1>1. /\ IssueTypes /\ IssueInv(c) /\ failures \in 0 .. MaxFailures /\ StoreTypes
      /\ snap[c] \in Session /\ snap[c].status = "verified"
      /\ Current(c) /\ snap[c].proof = NoId /\ cand[c] \in Issue!Reservation
      /\ cand[c].id # NoId
  BY <1>0, IssueFinds DEF IssueInv, Issue!Holding, Issue!ReplaceSteps, IssueTypes
<1>2. s \in Session /\ s.status = "verified"
  BY <1>1 DEF Issue!ReservedOf, Session, Issue!Reservation
<1>3. Rank[snap[c].status] >= 3 /\ Rank[s.status] >= Rank[snap[c].status]
  BY <1>1, <1>2, Ranks
<1>. HIDE DEF s
<1>4. /\ Moves /\ (DropRecord(c) => Own(c))
      /\ HoldReplaced(c, s) => Own(c) /\ snap'[c] = s /\ etag'[c] = stamp'
      /\ Issue!ReplaceSession(c, s) => session' = s
      /\ Issue!HoldReplaced(c, s) => HoldReplaced(c, s)
  BY <1>0, <1>1, <1>2, <1>3, IssueWrites DEF Issue!Reserve, s
<1>5. CASE /\ Issue!ReplaceSession(c, s) /\ Issue!HoldReplaced(c, s)
           /\ Issue!Goto(c, "build") /\ Issue!KeepLocals
  <2>1. Own(c) /\ snap'[c] = s /\ session' = s
    BY <1>4, <1>5
  <2>2. /\ IssueTypes' /\ IssueOthers(c) /\ issuePc'[c] = "build"
        /\ UNCHANGED <<failures, cand, built, issueAnswer>>
    BY <1>1, <1>5, IssueGoes DEF Issue!Steps
  <2>3. issueAnswer'[c].proof # NoId => Stored(issueAnswer[c].proof)'
    BY <1>1, <1>4, <2>2, AnswersStay
  <2>4. IssueInv(c)'
    BY <1>0, <1>1, <1>2, <2>1, <2>2, <2>3 DEF IssueInv, Issue!Building, Issue!Saved,
       Issue!Holding, Issue!ReplaceSteps, Issue!Reserved, Current
  <2>. QED
    BY <1>0, <1>1, <1>4, <2>1, <2>2, <2>4 DEF IssueServed
<1>6. CASE Issue!Continue(c)
  BY <1>0, <1>1, <1>4, <1>6, IssueContinues DEF IssueServed
<1>. QED
  BY <1>5, <1>6 DEF Issue!Reserve, s

LEMMA IssueBuilds ==
    ASSUME UseIotHub, CloudInv, NEW c \in Workers, Issue!Build(c)
    PROVE  IssueServed(c)
<1>0. issuePc[c] = "build" /\ UNCHANGED storeVars
  BY DEF Issue!Build, Issue!storeVars, storeVars
<1>1. /\ IssueTypes /\ IssueInv(c) /\ failures \in 0 .. MaxFailures
      /\ Current(c) /\ snap[c].status \in Issue!Reserved
      /\ cand[c] \in Issue!Reservation /\ cand[c].id # NoId /\ manifest \in Manifests
  BY <1>0, IssueFinds DEF IssueInv, Issue!Holding, IssueTypes
<1>2. /\ Moves /\ Rests /\ UNCHANGED <<manifest, session>> /\ (DropRecord(c) => Own(c))
      /\ UNCHANGED clientVars => Own(c) /\ snap'[c] = snap[c] /\ etag'[c] = etag[c]
  BY <1>0, IssueReads
<1>3. ASSUME NEW code \in Issue!Codes, Issue!End(c, code, NoId) PROVE IssueServed(c)
  BY <1>0, <1>1, <1>2, <1>3, IssueEnds DEF IssueServed
<1>4. ASSUME NEW salt \in Issue!Signatures,
             built' = [built EXCEPT ![c] = [id |-> cand[c].id, key |-> cand[c].key,
                                            manifest |-> manifest, salt |-> salt]],
             Issue!Goto(c, "save"),
             UNCHANGED <<Issue!clientVars, attempt, cand, issueAnswer, activeKey, failures>>
      PROVE  IssueServed(c)
  <2>1. salt \in Salts
    BY CloudConstants DEF Issue!Signatures
  <2>. DEFINE p == [id |-> cand[c].id, key |-> cand[c].key, manifest |-> manifest, salt |-> salt]
  <2>2. p \in Proof /\ p # NoProof /\ p.manifest = manifest
    BY <1>1, <2>1, NoProofIsNoRecord DEF Proof, Issue!Reservation
  <2>3. Own(c) /\ snap'[c] = snap[c] /\ etag'[c] = etag[c]
    BY <1>2, <1>4 DEF Issue!clientVars, clientVars
  <2>4. issuePc' = [issuePc EXCEPT ![c] = "save"]
    BY <1>4 DEF Issue!Goto
  <2>5. IssueTypes' /\ IssueOthers(c)
    BY <1>1, <1>4, <2>2, <2>4 DEF IssueTypes, IssueOthers, Issue!Steps
  <2>6. issuePc'[c] = "save" /\ built'[c] # NoProof /\ built'[c].manifest = manifest'
    BY <1>1, <1>2, <1>4, <2>2, <2>4 DEF IssueTypes
  <2>7. issueAnswer'[c].proof # NoId => Stored(issueAnswer[c].proof)'
    BY <1>1, <1>2, <1>4, AnswersStay
  <2>8. IssueInv(c)'
    BY <1>1, <1>2, <2>3, <2>6, <2>7 DEF IssueInv, Issue!Building, Issue!Saved, Issue!Holding,
       Issue!ReplaceSteps, Issue!Reserved, Current, Rests
  <2>. QED
    BY <1>0, <1>1, <1>2, <1>4, <2>3, <2>5, <2>8 DEF IssueServed
<1>. QED
  BY <1>3, <1>4 DEF Issue!Build, Issue!Codes

LEMMA IssueSaves ==
    ASSUME UseIotHub, CloudInv, NEW c \in Workers, Issue!Save(c)
    PROVE  IssueServed(c)
<1>0. issuePc[c] = "save" /\ Rests /\ UNCHANGED <<manifest, proofIndex, qr>>
  BY DEF Issue!Save, Rests
<1>1. /\ Types /\ IssueTypes /\ HeldTypes /\ StoreTypes /\ StoreInv /\ IssueInv(c)
      /\ failures \in 0 .. MaxFailures /\ c \in Calls /\ stamp \in Nat
      /\ BlankSession \in Session
  BY <1>0, IssueFinds
<1>2. /\ Current(c) /\ snap[c].status \in Issue!Reserved
      /\ built[c] \in Proof /\ built[c].manifest = manifest
  BY <1>0, <1>1 DEF IssueInv, Issue!Holding, Issue!Building, IssueTypes
<1>3. stamp' \in Nat /\ stamp' >= stamp
  BY <1>0, <1>1 DEF Rests
<1>4. /\ DropRecord(c) => Own(c)
      /\ UNCHANGED clientVars => Own(c) /\ snap'[c] = snap[c] /\ etag'[c] = etag[c]
  BY <1>1, <1>3, Owns
<1>5. ASSUME UNCHANGED clientVars PROVE Own(c) /\ snap'[c] = snap[c] /\ Current(c)'
  BY <1>0, <1>2, <1>4, <1>5 DEF Current, Rests
<1>6. CASE /\ Issue!WriteProof(built[c]) /\ Issue!Goto(c, "index")
           /\ UNCHANGED Issue!clientVars /\ Issue!KeepLocals
  <2>1. proofs' = proofs \cup {built[c]}
    BY <1>6, OnAzure DEF Issue!WriteProof
  <2>2. Moves
    BY <1>0, <1>1, <1>2, <2>1 DEF Moves, StoreTypes, StoreInv, Rests
  <2>3. Own(c) /\ snap'[c] = snap[c] /\ Current(c)'
    BY <1>5, <1>6 DEF Issue!clientVars, clientVars
  <2>4. /\ IssueTypes' /\ IssueOthers(c) /\ issuePc'[c] = "index"
        /\ UNCHANGED <<failures, cand, built, issueAnswer>>
    BY <1>1, <1>6, IssueGoes DEF Issue!Steps
  <2>5. issueAnswer'[c].proof # NoId => Stored(issueAnswer[c].proof)'
    BY <1>1, <2>2, <2>4, AnswersStay
  <2>6. Stored(built[c].id)'
    BY <2>1, <2>4 DEF Stored
  <2>7. built'[c] # NoProof /\ built'[c].manifest = manifest'
    BY <1>0, <1>2, <2>4, NoProofIsNoRecord
  <2>8. IssueInv(c)'
    BY <1>2, <2>3, <2>4, <2>5, <2>6, <2>7 DEF IssueInv, Issue!Building, Issue!Saved,
       Issue!Holding, Issue!ReplaceSteps, Issue!Reserved
  <2>. QED
    BY <1>0, <1>1, <2>2, <2>3, <2>4, <2>8 DEF IssueServed
<1>7. CASE /\ Issue!ProofConflicts(built[c])
           /\ built' = [built EXCEPT ![c] = Issue!StoredProof(built[c].id)]
           /\ Issue!Goto(c, "finish")
           /\ UNCHANGED <<proofs, Issue!clientVars, attempt, cand, issueAnswer, activeKey,
                          failures>>
  <2>1. PICK q \in proofs : q = Issue!StoredProof(built[c].id)
    BY <1>7 DEF Issue!ProofConflicts, Issue!Stored, Issue!StoredProof
  <2>2. q \in Proof /\ q # NoProof /\ q.manifest = manifest
    BY <1>1, NoProofIsNoRecord DEF StoreTypes, StoreInv
  <2>3. Moves
    BY <1>0, <1>1, <1>7, SessionMoves
  <2>4. Own(c) /\ snap'[c] = snap[c] /\ Current(c)'
    BY <1>5, <1>7 DEF Issue!clientVars, clientVars
  <2>5. built' = [built EXCEPT ![c] = q] /\ issuePc' = [issuePc EXCEPT ![c] = "finish"]
    BY <1>7, <2>1 DEF Issue!Goto
  <2>6. IssueTypes' /\ IssueOthers(c)
    BY <1>1, <1>7, <2>2, <2>5 DEF IssueTypes, IssueOthers, Issue!Steps
  <2>7. issuePc'[c] = "finish" /\ built'[c] = q
    BY <1>1, <2>5 DEF IssueTypes
  <2>8. issueAnswer'[c].proof # NoId => Stored(issueAnswer[c].proof)'
    BY <1>1, <1>7, <2>3, AnswersStay
  <2>9. Stored(built[c].id)'
    BY <1>7, <2>7 DEF Stored
  <2>10. IssueInv(c)'
    BY <1>0, <1>2, <2>2, <2>4, <2>7, <2>8, <2>9 DEF IssueInv, Issue!Building, Issue!Saved,
       Issue!Holding, Issue!ReplaceSteps, Issue!Reserved
  <2>. QED
    BY <1>0, <1>1, <1>7, <2>3, <2>4, <2>6, <2>10 DEF IssueServed
<1>8. CASE Issue!End(c, "ERR_PROOF_CONFLICT", NoId) /\ UNCHANGED proofs
  <2>1. Moves
    BY <1>0, <1>1, <1>8, SessionMoves
  <2>. QED
    BY <1>0, <1>1, <1>4, <1>8, <2>1, IssueEnds DEF IssueServed, Issue!Codes
<1>. QED
  BY <1>6, <1>7, <1>8, OnAzure DEF Issue!Save

LEMMA IssueIndexes ==
    ASSUME UseIotHub, CloudInv, NEW c \in Workers, Issue!SaveIndex(c)
    PROVE  IssueServed(c)
<1>0. /\ issuePc[c] = "index" /\ Rests /\ UNCHANGED <<manifest, proofs, qr, clientVars>>
      /\ proofIndex' = proofIndex \cup {built[c].id} /\ Issue!Goto(c, "finish")
      /\ Issue!KeepLocals
  BY DEF Issue!SaveIndex, Rests, Issue!clientVars, clientVars
<1>1. /\ IssueTypes /\ HeldTypes /\ StoreTypes /\ StoreInv /\ IssueInv(c)
      /\ failures \in 0 .. MaxFailures /\ c \in Calls /\ stamp \in Nat
      /\ BlankSession \in Session
  BY <1>0, IssueFinds
<1>2. /\ Current(c) /\ snap[c].status \in Issue!Reserved /\ Stored(built[c].id)
      /\ built[c] \in Proof /\ built[c] # NoProof /\ built[c].manifest = manifest
  BY <1>0, <1>1 DEF IssueInv, Issue!Holding, Issue!Building, Issue!Saved, IssueTypes
<1>3. Moves
  <2>1. built[c].id \in ProofIds
    BY <1>2 DEF Proof
  <2>. QED
    BY <1>0, <1>1, <2>1 DEF Moves, StoreTypes, StoreInv, Rests
<1>4. Own(c) /\ snap'[c] = snap[c] /\ Current(c)'
  <2>1. stamp' \in Nat /\ stamp' >= stamp
    BY <1>0, <1>1 DEF Rests
  <2>. QED
    BY <1>0, <1>1, <1>2, <2>1, Owns DEF Current, Rests
<1>5. /\ IssueTypes' /\ IssueOthers(c) /\ issuePc'[c] = "finish"
      /\ UNCHANGED <<failures, cand, built, issueAnswer>>
  BY <1>0, <1>1, IssueGoes DEF Issue!Steps
<1>6. issueAnswer'[c].proof # NoId => Stored(issueAnswer[c].proof)'
  BY <1>1, <1>3, <1>5, AnswersStay
<1>7. Stored(built[c].id)'
  BY <1>0, <1>2, <1>5 DEF Stored
<1>8. IssueInv(c)'
  BY <1>0, <1>2, <1>4, <1>5, <1>6, <1>7 DEF IssueInv, Issue!Building, Issue!Saved,
     Issue!Holding, Issue!ReplaceSteps, Issue!Reserved
<1>. QED
  BY <1>0, <1>1, <1>3, <1>4, <1>5, <1>8 DEF IssueServed

LEMMA IssueFinishes ==
    ASSUME UseIotHub, CloudInv, NEW c \in Workers, Issue!Finish(c)
    PROVE  IssueServed(c)
<1>. DEFINE s == Issue!IssuedOf(c)
<1>0. /\ issuePc[c] = "finish" /\ UNCHANGED <<manifest, proofs, proofIndex, qr>>
      /\ DropRecord(c) /\ Issue!KeepLocals
  BY IssueStore DEF Issue!Finish
<1>1. /\ IssueTypes /\ IssueInv(c) /\ failures \in 0 .. MaxFailures
      /\ snap[c] \in Session /\ snap[c].status \in Statuses /\ Current(c)
      /\ built[c] # NoProof /\ built[c].manifest = manifest /\ Stored(built[c].id)
  BY <1>0, IssueFinds DEF IssueInv, Issue!Holding, Issue!ReplaceSteps, Issue!Building,
     Issue!Saved
<1>2. /\ s \in Session /\ s.status = "proof_issued"
      /\ s.proof = snap[c].proof /\ s.key = snap[c].key
  BY <1>1, Restated DEF Issue!IssuedOf, Statuses
<1>3. Rank[snap[c].status] >= 3 /\ Rank[s.status] >= Rank[snap[c].status]
  BY <1>0, <1>1, <1>2, HeldStage, Ranks
<1>4. Moves /\ Own(c)
  BY <1>0, <1>1, <1>2, <1>3, IssueWrites DEF Issue!Finish
<1>5. PICK next \in {"qr", "recheck"} : Issue!Goto(c, next)
  BY DEF Issue!Finish
<1>6. /\ IssueTypes' /\ IssueOthers(c) /\ issuePc'[c] = next
      /\ UNCHANGED <<failures, cand, built, issueAnswer>>
  BY <1>0, <1>1, <1>5, IssueGoes DEF Issue!Steps
<1>7. issueAnswer'[c].proof # NoId => Stored(issueAnswer[c].proof)'
  BY <1>1, <1>4, <1>6, AnswersStay
<1>8. Stored(built[c].id)'
  BY <1>0, <1>1, <1>6 DEF Stored
<1>9. IssueInv(c)'
  BY <1>0, <1>1, <1>6, <1>7, <1>8 DEF IssueInv, Issue!Building, Issue!Saved,
     Issue!Holding, Issue!ReplaceSteps
<1>. QED
  BY <1>0, <1>1, <1>4, <1>6, <1>9 DEF IssueServed

LEMMA IssueRechecks ==
    ASSUME UseIotHub, CloudInv, NEW c \in Workers, Issue!Recheck(c)
    PROVE  IssueServed(c)
<1>0. issuePc[c] = "recheck" /\ UNCHANGED storeVars
  BY DEF Issue!Recheck, Issue!storeVars, storeVars
<1>1. /\ IssueTypes /\ IssueInv(c) /\ failures \in 0 .. MaxFailures
      /\ built[c] # NoProof /\ built[c].manifest = manifest /\ Stored(built[c].id)
  BY <1>0, IssueFinds DEF IssueInv, Issue!Building, Issue!Saved
<1>2. /\ Moves /\ Rests /\ UNCHANGED <<manifest, proofs>> /\ (DropRecord(c) => Own(c))
      /\ UNCHANGED clientVars => Own(c)
  BY <1>0, IssueReads
<1>3. CASE Issue!Goto(c, "qr") /\ UNCHANGED Issue!clientVars /\ Issue!KeepLocals
  <2>1. Own(c)
    BY <1>2, <1>3 DEF Issue!clientVars, clientVars
  <2>2. /\ IssueTypes' /\ IssueOthers(c) /\ issuePc'[c] = "qr"
        /\ UNCHANGED <<failures, cand, built, issueAnswer>>
    BY <1>1, <1>3, IssueGoes DEF Issue!Steps
  <2>3. issueAnswer'[c].proof # NoId => Stored(issueAnswer[c].proof)'
    BY <1>1, <1>2, <2>2, AnswersStay
  <2>4. Stored(built[c].id)'
    BY <1>1, <1>2, <2>2 DEF Stored
  <2>5. IssueInv(c)'
    BY <1>1, <1>2, <2>2, <2>3, <2>4 DEF IssueInv, Issue!Building, Issue!Saved,
       Issue!Holding, Issue!ReplaceSteps
  <2>. QED
    BY <1>0, <1>1, <1>2, <2>1, <2>2, <2>5 DEF IssueServed
<1>4. CASE Issue!End(c, "ERR_PROOF_CONFLICT", NoId)
  BY <1>0, <1>1, <1>2, <1>4, IssueEnds DEF IssueServed, Issue!Codes
<1>. QED
  BY <1>3, <1>4 DEF Issue!Recheck

LEMMA IssueSavesQr ==
    ASSUME UseIotHub, CloudInv, NEW c \in Workers, Issue!SaveQr(c)
    PROVE  IssueServed(c)
<1>0. /\ issuePc[c] = "qr" /\ Rests /\ UNCHANGED <<manifest, proofs, proofIndex>>
      /\ qr' = qr \cup {built[c].id}
  BY DEF Issue!SaveQr, Rests
<1>1. /\ IssueTypes /\ HeldTypes /\ StoreTypes /\ StoreInv /\ IssueInv(c)
      /\ failures \in 0 .. MaxFailures /\ c \in Calls /\ stamp \in Nat
      /\ BlankSession \in Session
  BY <1>0, IssueFinds
<1>2. built[c] \in Proof /\ Stored(built[c].id)
  BY <1>0, <1>1 DEF IssueInv, Issue!Building, Issue!Saved, IssueTypes
<1>3. PICK id \in ProofIds : id = built[c].id
  BY <1>2 DEF Proof
<1>4. Issue!End(c, "201", id) /\ Stored(id)
  BY <1>2, <1>3 DEF Issue!SaveQr
<1>5. Stored(id)'
  BY <1>0, <1>4 DEF Stored
<1>6. Moves
  BY <1>0, <1>1, <1>3 DEF Moves, StoreTypes, StoreInv, Rests
<1>7. /\ DropRecord(c) /\ IssueTypes' /\ IssueOthers(c) /\ IssueInv(c)'
      /\ UNCHANGED failures
  BY <1>1, <1>4, <1>5, IssueEnds DEF Issue!Codes
<1>8. Own(c)
  <2>1. stamp' \in Nat /\ stamp' >= stamp
    BY <1>0, <1>1 DEF Rests
  <2>. QED
    BY <1>1, <1>7, <2>1, Owns
<1>. QED
  BY <1>0, <1>1, <1>6, <1>7, <1>8 DEF IssueServed

LEMMA IssueServes ==
    ASSUME UseIotHub, CloudInv, NEW c \in Workers, Issue!Step(c)
    PROVE  IssueServed(c)
<1>1. ~Issue!Compare(c)
  BY IssueStore DEF Issue!Compare
<1>. QED
  BY <1>1, IssueLoads, IssueLooks, IssueAdopts, IssueMarks, IssueResolves, IssueReserves,
     IssueBuilds, IssueSaves, IssueIndexes, IssueFinishes, IssueRechecks, IssueSavesQr
     DEF Issue!Step

LEMMA IssueFails ==
    ASSUME UseIotHub, CloudInv, NEW c \in Workers, Issue!Fail(c)
    PROVE  IssueServed(c)
<1>0. issuePc[c] # "idle" /\ UNCHANGED storeVars /\ DropRecord(c)
  BY IssueStore DEF Issue!Fail, Issue!storeVars, storeVars
<1>1. IssueTypes /\ IssueInv(c) /\ failures \in 0 .. MaxFailures
  BY <1>0, IssueFinds
<1>2. Moves /\ Own(c)
  BY <1>0, IssueReads
<1>3. /\ issuePc' = [issuePc EXCEPT ![c] = "done"]
      /\ issueAnswer' = [issueAnswer EXCEPT ![c] = [code |-> "lost", proof |-> NoId]]
      /\ attempt' = [attempt EXCEPT ![c] = 0]
      /\ cand' = [cand EXCEPT ![c] = Issue!NoReservation]
      /\ built' = [built EXCEPT ![c] = NoProof]
      /\ activeKey' = activeKey
      /\ failures' \in 0 .. MaxFailures
  BY <1>1, IssueConstantsHold DEF Issue!Fail, Issue!Goto
<1>4. IssueTypes' /\ IssueOthers(c)
  BY <1>1, <1>3, IssueConstantsHold DEF IssueTypes, IssueOthers, Issue!Steps, Issue!Codes
<1>5. issuePc'[c] = "done" /\ issueAnswer'[c].proof = NoId
  BY <1>1, <1>3 DEF IssueTypes
<1>6. IssueInv(c)'
  BY <1>5 DEF IssueInv, Issue!Building, Issue!Saved, Issue!Holding, Issue!ReplaceSteps
<1>. QED
  BY <1>0, <1>2, <1>3, <1>4, <1>6 DEF IssueServed

-----------------------------------------------------------------------------
\* A worker's step, among start_session and the other workers

LEMMA StoreStays ==
    ASSUME Types, StoreInv, NEW c \in Calls, Own(c), Moves,
           commanded' => commanded \/ Stage(2)'
    PROVE  StoreInv'
<1>1. stamp' \in Nat /\ stamp' >= stamp /\ stamp \in Nat /\ (Stage(2) => Stage(2)')
  BY StampGrows DEF Types, StoreTypes, Moves
<1>2. ASSUME NEW d \in Calls PROVE etag'[d] <= stamp' /\ ~armed'[d]
  <2>1. etag[d] \in Nat /\ etag[d] <= stamp /\ ~armed[d]
    BY DEF Types, HeldTypes, StoreInv
  <2>. QED
    BY <1>1, <2>1 DEF Own
<1>. QED
  BY <1>1, <1>2 DEF StoreInv, Moves

\* The device speaks only once start_session has sent its command, and then
\* all that start_session still relies on is how far the session has come.
LEMMA StartStays ==
    ASSUME Types, StartInv, Moves, commanded, UNCHANGED startV,
           snap'[Starter] = snap[Starter]
    PROVE  StartInv'
<1>1. \A k \in 0 .. 9 : Stage(k) => Stage(k)'
  BY StampGrows DEF Types, Moves
<1>2. session.status \in Statuses /\ session'.status \in Statuses
  BY DEF Types, StoreTypes, Moves, Session
<1>3. /\ startPc \notin {"create", "targets", "challenge", "waiting", "dispatch"}
      /\ UNCHANGED <<startPc, startAnswer, commanded>>
  BY DEF StartInv, startV
<1>4. session.status = "failed" => session'.status = "failed"
  BY <1>1, <1>2, Ranks DEF Stage
<1>5. ASSUME session'.status \in {"created", "challenge_issued"}
      PROVE  session.status \in {"created", "challenge_issued"}
  BY <1>1, <1>2, <1>5, Ranks DEF Stage
<1>6. StartAnswerStands => StartAnswerStands'
  <2>1. Start!Rank = Rank /\ Start!Rank' = Rank
    BY DEF Start!Rank, Rank, Start!Statuses, Statuses
  <2>2. Start!Rank["waiting_device"] = 2
    BY <2>1, Ranks
  <2>. QED
    BY <1>1, <1>3, <1>4, <1>5, <2>1, <2>2 DEF StartAnswerStands, Start!StartAnswerStands,
       Start!Halfway, Stage
<1>. QED
  BY <1>1, <1>3, <1>6 DEF StartInv

LEMMA WorkerSteps ==
    ASSUME CloudInv, NEW c \in Workers, commanded, Own(c), Moves,
           UNCHANGED <<startV, captured>>, failures' \in 0 .. MaxFailures,
           TeleTypes', IngestTypes', IssueTypes', WorkerInv(c)',
           \A d \in Workers \ {c} : SameWorker(d)
    PROVE  CloudInv'
<1>1. /\ Types /\ HeldTypes /\ StoreTypes /\ StoreInv /\ StartInv
      /\ c \in Calls /\ Starter \in Calls \ {c} /\ Workers \subseteq Calls
  BY InvParts, WorkersCall
<1>2. UNCHANGED <<startPc, startAnswer, commanded>>
  BY DEF startV
<1>3. Types'
  BY <1>1, <1>2 DEF Types, StartTypes, Own, Moves
<1>4. StoreInv'
  BY <1>1, <1>2, StoreStays
<1>5. StartInv'
  BY <1>1, StartStays DEF Own
<1>6. ASSUME NEW d \in Workers PROVE WorkerInv(d)'
  <2>1. CASE d = c
    BY <2>1
  <2>2. CASE d # c
    <3>1. snap'[d] = snap[d] /\ etag'[d] = etag[d] /\ SameWorker(d) /\ WorkerInv(d)
      BY <1>1, <2>2 DEF Own, CloudInv
    <3>. QED
      BY <1>1, <1>2, <3>1, Bystander
  <2>. QED
    BY <2>1, <2>2
<1>7. TypeOK'
  BY <1>3, TypesAreTypeOK, PTL
<1>. QED
  BY <1>4, <1>5, <1>6, <1>7 DEF CloudInv

\* What a call finds of its handlers.
LEMMA CallFinds ==
    ASSUME CloudInv, NEW c \in Workers
    PROVE  /\ Types /\ HeldTypes /\ StoreTypes /\ StoreInv /\ c \in Calls /\ stamp \in Nat
           /\ StartTypes /\ TeleTypes /\ IngestTypes /\ IssueTypes
           /\ CallInv(c) /\ TeleInv(c) /\ IngestInv(c) /\ IssueInv(c)
           /\ telePc[c] # "idle" => commanded
           /\ telePc[c] # "ingest" => ingestPc[c] = "idle"
           /\ telePc[c] # "issue" => issuePc[c] = "idle"
           /\ failures \in 0 .. MaxFailures /\ captured \in Manifests
           /\ BlankSession \in Session
BY InvParts, WorkersCall, Blank DEF CallInv, Types

\* A step between two handlers leaves the store alone.
LEMMA CallMoves ==
    ASSUME CloudInv, NEW c \in Workers, UNCHANGED storeVars
    PROVE  /\ Moves /\ UNCHANGED <<session, manifest, proofs>>
           /\ UNCHANGED clientVars \/ DropRecord(c) => Own(c)
<1>1. /\ StoreTypes /\ HeldTypes /\ StoreInv /\ c \in Calls /\ stamp \in Nat
      /\ BlankSession \in Session
  BY CallFinds
<1>2. Moves /\ Rests
  BY <1>1, QuietMoves
<1>3. stamp' \in Nat /\ stamp' >= stamp
  BY <1>1, <1>2 DEF Rests
<1>. QED
  BY <1>1, <1>2, <1>3, Owns DEF storeVars

LEMMA StatusSteps ==
    ASSUME UseIotHub, StatusAttempts > 1, CloudInv, NEW c \in Workers, ProcessStatus(c)
    PROVE  CloudInv' /\ Moves
<1>1. CallInv(c) /\ IngestInv(c) /\ IssueInv(c) /\ Types /\ StoreInv /\ IngestTypes
      /\ IssueTypes /\ failures \in 0 .. MaxFailures
  BY CallFinds
<1>2. /\ TeleTypes' /\ TeleOthers(c) /\ Own(c) /\ Moves /\ TeleInv(c)'
      /\ UNCHANGED message /\ failures' \in 0 .. MaxFailures
      /\ telePc[c] \in {"load", "replace"}
      /\ \/ telePc'[c] \in {"load", "replace", "done"}
         \/ /\ telePc'[c] = "ingest" /\ Stage(3)'
            /\ message[c].kind = "manifest" /\ message[c].manifest \in Manifests
  BY <1>1, TeleLoads, TeleReplaces, TeleFails DEF ProcessStatus, Tele!Step, TeleServed
<1>3. /\ UNCHANGED <<startV, captured>> /\ UNCHANGED <<ingestPc, payload, ingestAnswer>>
      /\ UNCHANGED <<result, expired>>
      /\ UNCHANGED <<issuePc, attempt, cand, built, issueAnswer, activeKey>>
  BY DEF ProcessStatus, ingestV, issueV
<1>4. commanded /\ ingestPc[c] = "idle" /\ issuePc[c] = "idle" /\ UNCHANGED commanded
  BY <1>2, <1>3, CallFinds DEF startV
<1>5. IngestInv(c)'
  BY <1>1, <1>2, <1>3, <1>4, IngestStays
<1>6. IssueInv(c)'
  BY <1>1, <1>2, <1>3, <1>4, IssueStays
<1>7. CallInv(c)'
  BY <1>2, <1>3, <1>4 DEF CallInv
<1>8. IngestTypes' /\ IssueTypes'
  BY <1>1, <1>3 DEF IngestTypes, IssueTypes
<1>9. \A d \in Workers \ {c} : SameWorker(d)
  BY <1>2, <1>3 DEF SameWorker, TeleOthers
<1>. QED
  BY <1>2, <1>3, <1>4, <1>5, <1>6, <1>7, <1>8, <1>9, WorkerSteps DEF WorkerInv

LEMMA IngestSteps ==
    ASSUME UseIotHub, CloudInv, NEW c \in Workers, IngestStep(c)
    PROVE  CloudInv' /\ Moves
<1>1. /\ CallInv(c) /\ TeleInv(c) /\ IssueInv(c) /\ Types /\ StoreInv /\ TeleTypes
      /\ IssueTypes
  BY CallFinds
<1>2. IngestServed(c)
  BY IngestServes, IngestFails DEF IngestStep
<1>3. /\ UNCHANGED <<startV, captured>> /\ UNCHANGED <<telePc, message, round, outcome>>
      /\ UNCHANGED <<issuePc, attempt, cand, built, issueAnswer, activeKey>>
  BY DEF IngestStep, teleV, issueV
<1>4. /\ commanded /\ telePc[c] = "ingest" /\ issuePc[c] = "idle" /\ UNCHANGED commanded
      /\ payload[c] = message[c].manifest
  BY <1>1, <1>2, <1>3, CallFinds DEF startV, IngestServed, CallInv
<1>5. TeleInv(c)'
  BY <1>1, <1>2, <1>3, <1>4, TeleStays DEF IngestServed
<1>6. IssueInv(c)'
  BY <1>1, <1>2, <1>3, <1>4, IssueStays DEF IngestServed
<1>7. CallInv(c)'
  <2>1. Stage(3) => Stage(3)'
    BY <1>1, <1>2, StampGrows DEF Moves, Types, IngestServed
  <2>. QED
    BY <1>1, <1>2, <1>3, <1>4, <2>1 DEF CallInv, IngestServed
<1>8. TeleTypes' /\ IssueTypes'
  BY <1>1, <1>3 DEF TeleTypes, IssueTypes
<1>9. \A d \in Workers \ {c} : SameWorker(d)
  BY <1>2, <1>3 DEF SameWorker, IngestServed, IngestOthers
<1>. QED
  BY <1>2, <1>3, <1>4, <1>5, <1>6, <1>7, <1>8, <1>9, WorkerSteps DEF WorkerInv, IngestServed

LEMMA IssueSteps ==
    ASSUME UseIotHub, CloudInv, NEW c \in Workers, IssueStep(c)
    PROVE  CloudInv' /\ Moves
<1>1. /\ CallInv(c) /\ TeleInv(c) /\ IngestInv(c) /\ Types /\ StoreInv /\ TeleTypes
      /\ IngestTypes
  BY CallFinds
<1>2. IssueServed(c)
  BY IssueServes, IssueFails DEF IssueStep
<1>3. /\ UNCHANGED <<startV, captured>> /\ UNCHANGED <<telePc, message, round, outcome>>
      /\ UNCHANGED <<ingestPc, payload, ingestAnswer, result, expired>>
  BY DEF IssueStep, teleV, ingestV
<1>4. /\ commanded /\ telePc[c] = "issue" /\ ingestPc[c] = "idle" /\ UNCHANGED commanded
  BY <1>1, <1>2, <1>3, CallFinds DEF startV, IssueServed, CallInv
<1>5. TeleInv(c)'
  BY <1>1, <1>2, <1>3, <1>4, TeleStays DEF IssueServed
<1>6. IngestInv(c)'
  BY <1>1, <1>2, <1>3, <1>4, IngestStays DEF IssueServed
<1>7. CallInv(c)'
  <2>1. Stage(3) => Stage(3)'
    BY <1>1, <1>2, StampGrows DEF Moves, Types, IssueServed
  <2>2. manifest' = message[c].manifest
    BY <1>1, <1>2, <1>4, StoreConstants DEF CallInv, Moves, IssueServed
  <2>. QED
    BY <1>1, <1>2, <1>3, <1>4, <2>1, <2>2 DEF CallInv, IssueServed
<1>8. TeleTypes' /\ IngestTypes'
  BY <1>1, <1>3 DEF TeleTypes, IngestTypes
<1>9. \A d \in Workers \ {c} : SameWorker(d)
  BY <1>2, <1>3 DEF SameWorker, IssueServed, IssueOthers
<1>. QED
  BY <1>2, <1>3, <1>4, <1>5, <1>6, <1>7, <1>8, <1>9, WorkerSteps DEF WorkerInv, IssueServed

\* The step from a message's own processing into ingest_evidence.
LEMMA CallsIngest ==
    ASSUME UseIotHub, CloudInv, NEW c \in Workers, CallIngest(c)
    PROVE  CloudInv' /\ Moves
<1>1. /\ CallInv(c) /\ TeleInv(c) /\ IssueInv(c) /\ Types /\ StoreInv /\ TeleTypes
      /\ IngestTypes /\ IssueTypes
  BY CallFinds
<1>2. PICK m \in Manifests :
        /\ telePc[c] = "ingest" /\ UNCHANGED <<result, expired, failures>>
        /\ ingestPc' = [ingestPc EXCEPT ![c] = "load"]
        /\ payload' = [payload EXCEPT ![c] = m]
        /\ ingestAnswer' = [ingestAnswer EXCEPT ![c] = "none"]
        /\ payload'[c] = message[c].manifest
  BY DEF CallIngest, Ingest!Receive, Ingest!Goto
<1>3. UNCHANGED storeVars /\ UNCHANGED clientVars
  BY DEF CallIngest, Ingest!Receive, Ingest!storeVars, Ingest!clientVars, storeVars, clientVars
<1>4. Moves /\ UNCHANGED session /\ Own(c)
  BY <1>3, CallMoves
<1>5. /\ UNCHANGED <<startV, captured>> /\ UNCHANGED <<telePc, message, round, outcome>>
      /\ UNCHANGED <<issuePc, attempt, cand, built, issueAnswer, activeKey>>
  BY DEF CallIngest, teleV, issueV
<1>6. commanded /\ issuePc[c] = "idle" /\ UNCHANGED commanded /\ failures' \in 0 .. MaxFailures
  BY <1>2, <1>5, CallFinds DEF startV
<1>7. IngestTypes' /\ ingestPc'[c] = "load"
  BY <1>1, <1>2 DEF IngestTypes, Ingest!Steps, Ingest!Codes
<1>8. CallInv(c)' /\ IngestInv(c)'
  BY <1>1, <1>2, <1>4, <1>5, <1>6, <1>7 DEF CallInv, IngestInv, IngestHolding, Handed, Stage
<1>9. TeleInv(c)'
  BY <1>1, <1>2, <1>4, <1>5, TeleStays
<1>10. IssueInv(c)'
  BY <1>1, <1>4, <1>5, <1>6, IssueStays
<1>11. TeleTypes' /\ IssueTypes'
  BY <1>1, <1>5 DEF TeleTypes, IssueTypes
<1>12. \A d \in Workers \ {c} : SameWorker(d)
  BY <1>1, <1>2, <1>5 DEF SameWorker, IngestTypes
<1>. QED
  BY <1>4, <1>5, <1>6, <1>7, <1>8, <1>9, <1>10, <1>11, <1>12, WorkerSteps DEF WorkerInv

\* ... from there, with the manifest stored, into issue_proof ...
LEMMA EndsIngest ==
    ASSUME UseIotHub, CloudInv, NEW c \in Workers, EndIngest(c)
    PROVE  CloudInv' /\ Moves
<1>1. /\ CallInv(c) /\ TeleInv(c) /\ IngestInv(c) /\ IssueInv(c) /\ Types /\ StoreInv
      /\ TeleTypes /\ IngestTypes /\ IssueTypes /\ failures \in 0 .. MaxFailures
  BY CallFinds
<1>2. /\ telePc[c] = "ingest" /\ ingestPc[c] = "done"
      /\ UNCHANGED <<result, expired, failures>>
      /\ ingestPc' = [ingestPc EXCEPT ![c] = "idle"]
      /\ payload' = [payload EXCEPT ![c] = NoManifest]
      /\ ingestAnswer' = [ingestAnswer EXCEPT ![c] = "none"]
      /\ Tele!IngestReturns(c, ingestAnswer[c] = "200")
      /\ UNCHANGED storeVars
  BY DEF EndIngest
<1>3. /\ UNCHANGED <<startV, captured>>
      /\ UNCHANGED <<issuePc, attempt, cand, built, issueAnswer, activeKey>>
  BY DEF EndIngest, issueV
<1>4. Moves /\ UNCHANGED <<session, manifest, proofs>>
      /\ (UNCHANGED clientVars \/ DropRecord(c) => Own(c))
  BY <1>2, CallMoves
<1>5. commanded /\ issuePc[c] = "idle" /\ UNCHANGED commanded
  BY <1>2, <1>3, CallFinds DEF startV
<1>6. IngestTypes' /\ ingestPc'[c] = "idle"
  BY <1>1, <1>2 DEF IngestTypes, Ingest!Steps, Ingest!Codes
<1>7. IngestInv(c)'
  BY <1>6 DEF IngestInv, IngestHolding, Handed
<1>8. /\ TeleTypes' /\ TeleOthers(c) /\ Own(c) /\ TeleInv(c)' /\ UNCHANGED message
      /\ telePc'[c] = "done" \/ (telePc'[c] = "issue" /\ manifest = message[c].manifest)
  <2>1. CASE /\ ingestAnswer[c] = "200" /\ Tele!Goto(c, "issue")
             /\ UNCHANGED <<Tele!clientVars, message, round, outcome, failures>>
    <3>1. TeleTypes' /\ TeleOthers(c) /\ telePc'[c] = "issue" /\ UNCHANGED message
      BY <1>1, <2>1 DEF Tele!Goto, TeleTypes, TeleOthers, Tele!Steps
    <3>2. UNCHANGED clientVars
      BY <2>1 DEF Tele!clientVars, clientVars
    <3>3. manifest = message[c].manifest
      BY <1>1, <1>2, <2>1 DEF IngestInv, CallInv
    <3>4. TeleInv(c)'
      BY <1>1, <1>2, <2>1, <3>1 DEF TeleInv
    <3>. QED
      BY <1>4, <3>1, <3>2, <3>3, <3>4
  <2>2. CASE Tele!End(c, "ERR_HANDLER")
    <3>1. "ERR_HANDLER" \in Tele!Outcomes
      BY DEF Tele!Outcomes
    <3>2. /\ TeleTypes' /\ TeleOthers(c) /\ DropRecord(c)
          /\ telePc'[c] = "done" /\ outcome'[c] = "ERR_HANDLER" /\ round'[c] = 0
          /\ UNCHANGED message
      BY <1>1, <2>2, <3>1, TeleEnds
    <3>. QED
      BY <1>4, <3>2, ErrorKeepsTele
  <2>. QED
    BY <1>2, <2>1, <2>2 DEF Tele!IngestReturns
<1>9. CallInv(c)'
  BY <1>1, <1>2, <1>3, <1>4, <1>5, <1>6, <1>8 DEF CallInv, Stage
<1>10. IssueInv(c)'
  BY <1>1, <1>3, <1>4, <1>5, IssueStays
<1>11. IssueTypes'
  BY <1>1, <1>3 DEF IssueTypes
<1>12. \A d \in Workers \ {c} : SameWorker(d)
  BY <1>1, <1>2, <1>3, <1>8 DEF SameWorker, IngestTypes, TeleOthers
<1>. QED
  BY <1>1, <1>2, <1>3, <1>4, <1>5, <1>6, <1>7, <1>8, <1>9, <1>10, <1>11, <1>12, WorkerSteps
     DEF WorkerInv

LEMMA CallsIssue ==
    ASSUME UseIotHub, CloudInv, NEW c \in Workers, CallIssue(c)
    PROVE  CloudInv' /\ Moves
<1>1. /\ CallInv(c) /\ TeleInv(c) /\ IngestInv(c) /\ Types /\ StoreInv /\ TeleTypes
      /\ IngestTypes /\ IssueTypes /\ failures \in 0 .. MaxFailures
  BY CallFinds
<1>2. /\ telePc[c] = "issue" /\ UNCHANGED <<attempt, cand, built, activeKey, failures>>
      /\ issuePc' = [issuePc EXCEPT ![c] = "load"]
      /\ issueAnswer' = [issueAnswer EXCEPT ![c] = Issue!NoAnswer]
  BY DEF CallIssue, Issue!Receive, Issue!Goto
<1>3. UNCHANGED storeVars /\ UNCHANGED clientVars
  BY DEF CallIssue, Issue!Receive, Issue!storeVars, Issue!clientVars, storeVars, clientVars
<1>4. Moves /\ UNCHANGED <<session, manifest>> /\ Own(c)
  BY <1>3, CallMoves
<1>5. /\ UNCHANGED <<startV, captured>> /\ UNCHANGED <<telePc, message, round, outcome>>
      /\ UNCHANGED <<ingestPc, payload, ingestAnswer, result, expired>>
  BY DEF CallIssue, teleV, ingestV
<1>6. commanded /\ ingestPc[c] = "idle" /\ UNCHANGED commanded
  BY <1>2, <1>5, CallFinds DEF startV
<1>7. IssueTypes' /\ issuePc'[c] = "load" /\ issueAnswer'[c].proof = NoId
  <2>1. issuePc'[c] = "load" /\ issueAnswer'[c] = Issue!NoAnswer
    BY <1>1, <1>2 DEF IssueTypes
  <2>. QED
    BY <1>1, <1>2, <2>1, IssueConstantsHold DEF IssueTypes, Issue!Steps, Issue!NoAnswer
<1>8. IssueInv(c)'
  BY <1>7 DEF IssueInv, Issue!Building, Issue!Saved, Issue!Holding, Issue!ReplaceSteps
<1>9. CallInv(c)'
  BY <1>1, <1>2, <1>4, <1>5, <1>6, <1>7 DEF CallInv, Stage
<1>10. TeleInv(c)'
  BY <1>1, <1>2, <1>4, <1>5, TeleStays
<1>11. IngestInv(c)'
  BY <1>1, <1>4, <1>5, <1>6, IngestStays
<1>12. TeleTypes' /\ IngestTypes'
  BY <1>1, <1>5 DEF TeleTypes, IngestTypes
<1>13. \A d \in Workers \ {c} : SameWorker(d)
  BY <1>1, <1>2, <1>5 DEF SameWorker, IssueTypes
<1>. QED
  BY <1>1, <1>2, <1>4, <1>5, <1>6, <1>7, <1>8, <1>9, <1>10, <1>11, <1>12, <1>13, WorkerSteps
     DEF WorkerInv

\* ... and out again: a manifest is accepted when it has its Proof.
LEMMA EndsIssue ==
    ASSUME UseIotHub, CloudInv, NEW c \in Workers, EndIssue(c)
    PROVE  CloudInv' /\ Moves
<1>1. /\ CallInv(c) /\ TeleInv(c) /\ IngestInv(c) /\ IssueInv(c) /\ Types /\ StoreInv
      /\ TeleTypes /\ IngestTypes /\ IssueTypes /\ failures \in 0 .. MaxFailures
  BY CallFinds
<1>2. /\ telePc[c] = "issue"
      /\ UNCHANGED <<attempt, cand, built, activeKey, failures>>
      /\ issuePc' = [issuePc EXCEPT ![c] = "idle"]
      /\ issueAnswer' = [issueAnswer EXCEPT ![c] = Issue!NoAnswer]
      /\ Tele!IssueReturns(c, issueAnswer[c].proof # NoId)
      /\ UNCHANGED storeVars
  BY DEF EndIssue
<1>3. /\ UNCHANGED <<startV, captured>>
      /\ UNCHANGED <<ingestPc, payload, ingestAnswer, result, expired>>
  BY DEF EndIssue, ingestV
<1>4. Moves /\ UNCHANGED <<session, manifest, proofs>> /\ (DropRecord(c) => Own(c))
  BY <1>2, CallMoves
<1>5. commanded /\ ingestPc[c] = "idle" /\ UNCHANGED commanded
  BY <1>2, <1>3, CallFinds DEF startV
<1>6. IssueTypes' /\ issuePc'[c] = "idle" /\ issueAnswer'[c].proof = NoId
  <2>1. issuePc'[c] = "idle" /\ issueAnswer'[c] = Issue!NoAnswer
    BY <1>1, <1>2 DEF IssueTypes
  <2>. QED
    BY <1>1, <1>2, <2>1, IssueConstantsHold DEF IssueTypes, Issue!Steps, Issue!NoAnswer
<1>7. IssueInv(c)'
  BY <1>6 DEF IssueInv, Issue!Building, Issue!Saved, Issue!Holding, Issue!ReplaceSteps
<1>8. PICK how \in {"accepted", "ERR_HANDLER"} :
        Tele!End(c, how) /\ (how = "accepted" => issueAnswer[c].proof # NoId)
  BY <1>2 DEF Tele!IssueReturns
<1>9. /\ TeleTypes' /\ TeleOthers(c) /\ Own(c) /\ UNCHANGED message
      /\ telePc'[c] = "done" /\ outcome'[c] = how /\ round'[c] = 0
  <2>1. how \in Tele!Outcomes
    BY DEF Tele!Outcomes
  <2>. QED
    BY <1>1, <1>4, <1>8, <2>1, TeleEnds
<1>10. TeleInv(c)'
  <2>1. CASE how = "ERR_HANDLER"
    BY <1>9, <2>1, ErrorKeepsTele
  <2>2. CASE how = "accepted"
    <3>1. PICK p \in proofs : p.id = issueAnswer[c].proof
      BY <1>1, <1>8, <2>2 DEF IssueInv, Stored
    <3>2. p.manifest = message[c].manifest
      BY <1>1, <1>2 DEF StoreInv, CallInv
    <3>3. \E q \in proofs' : q.manifest = message'[c].manifest
      BY <1>4, <1>9, <3>2
    <3>4. message[c].kind = "manifest" /\ Stage(3)
      BY <1>1, <1>2 DEF CallInv
    <3>5. Stage(Rank[Tele!Target(c)])'
      <4>1. Rank[Tele!Target(c)] = 3
        BY <3>4, TargetIs
      <4>2. Rank' = Rank /\ Tele!Target(c)' = Tele!Target(c)
        BY <1>9 DEF Rank, Statuses, Tele!Target
      <4>. QED
        BY <1>4, <3>4, <4>1, <4>2 DEF Stage
    <3>. QED
      BY <1>9, <2>2, <3>3, <3>5 DEF TeleInv
  <2>. QED
    BY <2>1, <2>2
<1>11. CallInv(c)'
  BY <1>3, <1>5, <1>6, <1>9 DEF CallInv
<1>12. IngestInv(c)'
  BY <1>1, <1>3, <1>4, <1>5, IngestStays
<1>13. IngestTypes'
  BY <1>1, <1>3 DEF IngestTypes
<1>14. \A d \in Workers \ {c} : SameWorker(d)
  BY <1>1, <1>2, <1>3, <1>9 DEF SameWorker, IssueTypes, TeleOthers
<1>. QED
  BY <1>1, <1>2, <1>3, <1>4, <1>5, <1>6, <1>7, <1>9, <1>10, <1>11, <1>12, <1>13, <1>14,
     WorkerSteps DEF WorkerInv

\* The hub hands a worker one of the device's messages.
LEMMA Delivers ==
    ASSUME UseIotHub, CloudInv, NEW c \in Workers, Deliver(c)
    PROVE  CloudInv' /\ Moves
<1>1. /\ CallInv(c) /\ TeleInv(c) /\ IngestInv(c) /\ IssueInv(c) /\ Types /\ StoreInv
      /\ TeleTypes /\ IngestTypes /\ IssueTypes /\ failures \in 0 .. MaxFailures
      /\ captured \in Manifests
  BY CallFinds
<1>2. PICK m \in DeviceMessages : Tele!Receive(c, m)
  BY DEF Deliver
<1>3. /\ telePc[c] \in {"idle", "done"} /\ UNCHANGED <<round, failures>>
      /\ telePc' = [telePc EXCEPT ![c] = "load"]
      /\ message' = [message EXCEPT ![c] = m]
      /\ outcome' = [outcome EXCEPT ![c] = "none"]
  BY <1>2 DEF Tele!Receive, Tele!Goto
<1>4. UNCHANGED storeVars /\ UNCHANGED clientVars
  BY <1>2 DEF Tele!Receive, Tele!storeVars, Tele!clientVars, storeVars, clientVars
<1>5. Moves /\ UNCHANGED <<session, manifest>> /\ Own(c)
  BY <1>4, CallMoves
<1>6. /\ UNCHANGED <<startV, captured>>
      /\ UNCHANGED <<ingestPc, payload, ingestAnswer, result, expired>>
      /\ UNCHANGED <<issuePc, attempt, cand, built, issueAnswer, activeKey>>
  BY DEF Deliver, ingestV, issueV
<1>7. commanded /\ ingestPc[c] = "idle" /\ issuePc[c] = "idle" /\ UNCHANGED commanded
  BY <1>3, <1>6, CallFinds DEF startV, Deliver
<1>8. m \in Tele!Messages
  BY <1>1 DEF DeviceMessages, Tele!Messages, Tele!ManifestMessage
<1>9. TeleTypes' /\ TeleOthers(c) /\ telePc'[c] = "load" /\ outcome'[c] = "none"
  BY <1>1, <1>3, <1>8 DEF TeleTypes, TeleOthers, Tele!Steps, Tele!Outcomes
<1>10. TeleInv(c)'
  BY <1>1, <1>3, <1>9 DEF TeleInv
<1>11. CallInv(c)'
  BY <1>6, <1>7, <1>9 DEF CallInv
<1>12. IngestInv(c)'
  BY <1>1, <1>5, <1>6, <1>7, IngestStays
<1>13. IssueInv(c)'
  BY <1>1, <1>5, <1>6, <1>7, IssueStays
<1>14. IngestTypes' /\ IssueTypes'
  BY <1>1, <1>6 DEF IngestTypes, IssueTypes
<1>15. \A d \in Workers \ {c} : SameWorker(d)
  BY <1>6, <1>9 DEF SameWorker, TeleOthers
<1>. QED
  BY <1>1, <1>3, <1>5, <1>6, <1>7, <1>9, <1>10, <1>11, <1>12, <1>13, <1>14, <1>15,
     WorkerSteps DEF WorkerInv

-----------------------------------------------------------------------------
\* start_session

StartWrite(status) == [snap[Starter] EXCEPT !.status = status]

\* What a step of start_session leaves behind.
StartServed ==
    /\ StartTypes' /\ StartInv' /\ Own(Starter) /\ Moves
    /\ failures' \in 0 .. MaxFailures
    /\ commanded => commanded'
    /\ commanded' => commanded \/ Stage(2)'

\* What it finds.
LEMMA StartFinds ==
    ASSUME CloudInv
    PROVE  /\ HeldTypes /\ StoreTypes /\ StoreInv /\ StartInv /\ StartTypes
           /\ Starter \in Calls /\ stamp \in Nat /\ session.status \in Statuses
           /\ snap[Starter] \in Session /\ snap[Starter].status \in Statuses
           /\ failures \in 0 .. MaxFailures /\ MaxFailures \in Nat /\ BlankSession \in Session
BY InvParts, WorkersCall, Blank, CloudConstants DEF Types, Tele!TelemetryConstants

LEMMA StartOpen == ASSUME startPc' # "done" PROVE StartAnswerStands'
BY DEF StartAnswerStands, Start!StartAnswerStands

LEMMA StartEnds ==
    ASSUME UseIotHub, StartTypes, NEW code \in Start!Codes, Start!End(code),
           commanded' \in BOOLEAN,
           code = "201" => Stage(2)' /\ commanded',
           code = "ERR_DEVICE_COMMAND" => session'.status = "failed",
           session'.status \in {"created", "challenge_issued"} =>
              code \in {"lost", "ERR_STORAGE_UNAVAILABLE", "ERR_STORAGE_CONFLICT"}
    PROVE  StartTypes' /\ StartInv' /\ DropRecord(Starter)
<1>1. startPc' = "done" /\ startAnswer' = code /\ DropRecord(Starter)
  BY StartStore DEF Start!End, Start!c
<1>2. Start!Rank' = Rank' /\ Start!Rank'["waiting_device"] = 2
  BY Ranks DEF Start!Rank, Rank, Start!Statuses, Statuses
<1>3. StartAnswerStands'
  BY <1>1, <1>2 DEF StartAnswerStands, Start!StartAnswerStands, Start!Halfway, Stage
<1>. QED
  BY <1>1, <1>3 DEF StartInv, StartTypes, Start!Steps

\* A step of start_session that stores nothing.
LEMMA StartReads ==
    ASSUME CloudInv, UNCHANGED storeVars
    PROVE  /\ Moves /\ Rests /\ UNCHANGED session
           /\ DropRecord(Starter) => Own(Starter)
           /\ UNCHANGED clientVars =>
                Own(Starter) /\ UNCHANGED <<snap[Starter], etag[Starter]>>
<1>1. /\ HeldTypes /\ StoreTypes /\ StoreInv /\ Starter \in Calls /\ stamp \in Nat
      /\ BlankSession \in Session
  BY StartFinds
<1>2. Moves /\ Rests
  BY <1>1, QuietMoves
<1>3. stamp' \in Nat /\ stamp' >= stamp
  BY <1>1, <1>2 DEF Rests
<1>. QED
  BY <1>1, <1>2, <1>3, Owns DEF storeVars

\* A write of start_session, acknowledged or not.
LEMMA StartWrites ==
    ASSUME UseIotHub, CloudInv, NEW status \in Statuses,
           UNCHANGED <<manifest, proofs, proofIndex, qr>>,
           \/ Start!ReplaceSession(Starter, StartWrite(status))
           \/ Start!ReplaceConflicts(Starter, StartWrite(status))
           \/ Rests,
           \/ status = "failed"
           \/ /\ Current(Starter)
              /\ Rank[snap[Starter].status] <= Rank[status] /\ Rank[snap[Starter].status] < 2
    PROVE  /\ Moves /\ (DropRecord(Starter) => Own(Starter))
           /\ UNCHANGED clientVars =>
                Own(Starter) /\ UNCHANGED <<snap[Starter], etag[Starter]>>
           /\ Start!HoldReplaced(Starter, StartWrite(status)) =>
                Own(Starter) /\ snap'[Starter] = StartWrite(status) /\ etag'[Starter] = stamp'
           /\ Start!ReplaceSession(Starter, StartWrite(status)) =>
                session' = StartWrite(status)
           /\ Start!ReplaceConflicts(Starter, StartWrite(status)) =>
                session' = StartWrite(status) \/ (Rests /\ etag[Starter] # stamp)
           /\ StartWrite(status).status = status
<1>. DEFINE s == StartWrite(status)
<1>1. /\ HeldTypes /\ StoreTypes /\ StoreInv /\ Starter \in Calls /\ stamp \in Nat
      /\ BlankSession \in Session /\ snap[Starter] \in Session
      /\ snap[Starter].status \in Statuses
  BY StartFinds
<1>2. /\ s \in Session /\ s.status = status
      /\ s.proof = snap[Starter].proof /\ s.key = snap[Starter].key
  BY <1>1, Restated DEF StartWrite
<1>. HIDE DEF s
<1>3. Writes(Starter, s) \/ Rests
  BY StartStore DEF s
<1>4. ASSUME Writes(Starter, s)
      PROVE  Grows /\ session' \in Session /\ stamp' \in Nat
  <2>1. CASE status = "failed"
    BY <1>1, <1>2, <1>4, <2>1, FailureGrows
  <2>2. CASE /\ Current(Starter)
             /\ Rank[snap[Starter].status] <= Rank[status] /\ Rank[snap[Starter].status] < 2
    <3>1. Rank[snap[Starter].status] \in 0 .. 9
      BY <1>1, Ranks
    <3>. QED
      BY <1>1, <1>2, <1>4, <2>2, <3>1, WriteGrows
  <2>. QED
    BY <2>1, <2>2
<1>5. Moves
  BY <1>1, <1>3, <1>4, SessionMoves
<1>6. stamp' \in Nat /\ stamp' >= stamp
  BY <1>1, <1>5, StampGrows DEF Moves
<1>7. /\ DropRecord(Starter) => Own(Starter)
      /\ UNCHANGED clientVars => Own(Starter) /\ UNCHANGED <<snap[Starter], etag[Starter]>>
      /\ HoldReplaced(Starter, s) =>
           Own(Starter) /\ snap'[Starter] = s /\ etag'[Starter] = stamp'
  BY <1>1, <1>2, <1>6, Owns
<1>. QED
  BY <1>2, <1>5, <1>7, StartStore DEF s, Writes

LEMMA StartCreates == ASSUME UseIotHub, CloudInv, Start!Create PROVE StartServed
<1>1. /\ HeldTypes /\ StoreTypes /\ StoreInv /\ StartInv /\ StartTypes /\ Starter \in Calls
      /\ stamp \in Nat /\ BlankSession \in Session /\ failures \in 0 .. MaxFailures
  BY StartFinds
<1>2. /\ startPc = "create" /\ startPc' = "targets"
      /\ UNCHANGED <<startAnswer, commanded, failures>>
      /\ UNCHANGED <<manifest, proofs, proofIndex, qr>>
      /\ session' = BlankSession /\ stamp' = stamp + 1
      /\ HoldReplaced(Starter, BlankSession)
  BY StartStore DEF Start!Create, Start!c, Start!NoOtherRecord
<1>3. session = BlankSession /\ ~commanded
  BY <1>1, <1>2 DEF StartInv
<1>4. Own(Starter) /\ snap'[Starter] = BlankSession /\ etag'[Starter] = stamp'
  BY <1>1, <1>2, Owns
<1>5. Moves
  <2>1. Grows /\ session' \in Session /\ stamp' \in Nat
    BY <1>1, <1>2, <1>3, Ranks DEF Grows, BlankSession
  <2>. QED
    BY <1>1, <1>2, <2>1, SessionMoves
<1>6. StartTypes'
  BY <1>1, <1>2 DEF StartTypes, Start!Steps
<1>7. StartInv'
  <2>1. StartAnswerStands'
    BY <1>2, StartOpen
  <2>2. snap'[Starter].status = "created" /\ Current(Starter)'
    BY <1>2, <1>4 DEF BlankSession, Current
  <2>. QED
    BY <1>2, <1>3, <2>1, <2>2 DEF StartInv
<1>. QED
  BY <1>1, <1>2, <1>4, <1>5, <1>6, <1>7 DEF StartServed

\* Steps that end the request or move on without a write.
LEMMA StartFails ==
    ASSUME UseIotHub, CloudInv, Start!CreateFails \/ Start!Fail
    PROVE  StartServed
<1>1. StartTypes /\ failures \in 0 .. MaxFailures /\ MaxFailures \in Nat
  BY StartFinds
<1>2. PICK code \in {"lost", "ERR_STORAGE_UNAVAILABLE"} :
        /\ Start!End(code) /\ Start!Unavailable /\ UNCHANGED storeVars /\ UNCHANGED commanded
  BY DEF Start!CreateFails, Start!Fail, Start!storeVars, storeVars
<1>3. Moves /\ (DropRecord(Starter) => Own(Starter))
  BY <1>2, StartReads
<1>4. StartTypes' /\ StartInv' /\ DropRecord(Starter)
  <2>1. commanded' \in BOOLEAN /\ code \in Start!Codes
    BY <1>1, <1>2 DEF StartTypes, Start!Codes
  <2>. QED
    BY <1>1, <1>2, <2>1, StartEnds
<1>5. failures' \in 0 .. MaxFailures
  BY <1>1, <1>2 DEF Start!Unavailable
<1>. QED
  BY <1>2, <1>3, <1>4, <1>5 DEF StartServed

LEMMA StartGetsTargets == ASSUME UseIotHub, CloudInv, Start!Targets PROVE StartServed
<1>1. /\ StartInv /\ StartTypes /\ failures \in 0 .. MaxFailures /\ MaxFailures \in Nat
  BY StartFinds
<1>2. /\ startPc = "targets" /\ startPc' \in {"challenge", "fail_load"}
      /\ UNCHANGED storeVars /\ UNCHANGED clientVars /\ UNCHANGED <<startAnswer, commanded>>
      /\ failures' \in 0 .. MaxFailures
  BY <1>1 DEF Start!Targets, Start!Unavailable, Start!ToMarkFailed, Start!storeVars,
     Start!clientVars, storeVars, clientVars
<1>3. Moves /\ Rests /\ UNCHANGED session /\ Own(Starter)
      /\ UNCHANGED <<snap[Starter], etag[Starter]>>
  BY <1>2, StartReads
<1>4. snap[Starter].status = "created" /\ ~commanded /\ Current(Starter)
  BY <1>1, <1>2 DEF StartInv
<1>5. StartTypes' /\ StartAnswerStands' /\ Current(Starter)'
  BY <1>1, <1>2, <1>3, <1>4, StartOpen DEF StartTypes, Start!Steps, Current, Rests
<1>6. StartInv'
  BY <1>2, <1>3, <1>4, <1>5 DEF StartInv
<1>. QED
  BY <1>2, <1>3, <1>5, <1>6 DEF StartServed

LEMMA StartChallenges == ASSUME UseIotHub, CloudInv, Start!Challenge PROVE StartServed
<1>. DEFINE s == StartWrite("challenge_issued")
<1>1. StartInv /\ StartTypes /\ failures \in 0 .. MaxFailures
  BY StartFinds
<1>2. /\ startPc = "challenge" /\ UNCHANGED <<manifest, proofs, proofIndex, qr>>
      /\ UNCHANGED commanded /\ UNCHANGED failures
      /\ \/ /\ Start!ReplaceSession(Starter, s) /\ Start!HoldReplaced(Starter, s)
            /\ startPc' = "waiting" /\ UNCHANGED startAnswer
         \/ Start!ReplaceConflicts(Starter, s) /\ Start!End("ERR_STORAGE_CONFLICT")
  BY StartStore DEF Start!Challenge, Start!WithStatus, StartWrite, Start!c,
     Start!NoOtherRecord, Start!Compares
<1>3. snap[Starter].status = "created" /\ ~commanded /\ Current(Starter)
  BY <1>1, <1>2 DEF StartInv
<1>4. /\ Moves /\ (DropRecord(Starter) => Own(Starter))
      /\ Start!HoldReplaced(Starter, s) =>
            Own(Starter) /\ snap'[Starter] = s /\ etag'[Starter] = stamp'
      /\ Start!ReplaceSession(Starter, s) => session' = s
      /\ s.status = "challenge_issued"
  <2>1. "challenge_issued" \in Statuses /\ Rank["created"] = 0 /\ Rank["challenge_issued"] = 1
    BY Ranks DEF Statuses
  <2>2. Rank[snap[Starter].status] <= Rank["challenge_issued"]
        /\ Rank[snap[Starter].status] < 2
    BY <1>3, <2>1
  <2>. QED
    BY <1>2, <1>3, <2>1, <2>2, StartWrites
<1>. HIDE DEF s
<1>5. CASE /\ Start!ReplaceSession(Starter, s) /\ Start!HoldReplaced(Starter, s)
           /\ startPc' = "waiting" /\ UNCHANGED startAnswer
  <2>1. Own(Starter) /\ snap'[Starter] = s /\ session' = s
    BY <1>4, <1>5
  <2>2. StartTypes' /\ StartAnswerStands' /\ Current(Starter)'
    BY <1>1, <1>2, <1>5, <2>1, StartOpen DEF StartTypes, Start!Steps, Current
  <2>3. StartInv'
    BY <1>2, <1>3, <1>4, <1>5, <2>1, <2>2 DEF StartInv
  <2>. QED
    BY <1>1, <1>2, <1>4, <2>1, <2>2, <2>3 DEF StartServed
<1>6. CASE Start!End("ERR_STORAGE_CONFLICT")
  <2>1. commanded' \in BOOLEAN /\ "ERR_STORAGE_CONFLICT" \in Start!Codes
    BY <1>1, <1>2 DEF StartTypes, Start!Codes
  <2>2. StartTypes' /\ StartInv' /\ DropRecord(Starter)
    BY <1>1, <1>6, <2>1, StartEnds
  <2>. QED
    BY <1>1, <1>2, <1>4, <2>2 DEF StartServed
<1>. QED
  BY <1>2, <1>5, <1>6

LEMMA StartWaits == ASSUME UseIotHub, CloudInv, Start!Waiting PROVE StartServed
<1>. DEFINE s == StartWrite("waiting_device")
<1>1. StartInv /\ StartTypes /\ failures \in 0 .. MaxFailures /\ MaxFailures \in Nat
  BY StartFinds
<1>2. /\ startPc = "waiting" /\ UNCHANGED <<manifest, proofs, proofIndex, qr>>
      /\ UNCHANGED <<commanded, startAnswer>> /\ failures' \in 0 .. MaxFailures
      /\ \/ /\ Start!ReplaceSession(Starter, s) /\ Start!HoldReplaced(Starter, s)
            /\ startPc' = "dispatch"
         \/ /\ Start!ReplaceConflicts(Starter, s) \/ Rests
            /\ startPc' = "fail_load" /\ UNCHANGED clientVars
  BY <1>1, StartStore DEF Start!Waiting, Start!WithStatus, StartWrite, Start!c,
     Start!NoOtherRecord, Start!Compares, Start!ToMarkFailed, Start!Unavailable, Rests,
     Start!clientVars, clientVars
<1>3. snap[Starter].status = "challenge_issued" /\ ~commanded /\ Current(Starter)
  BY <1>1, <1>2 DEF StartInv
<1>4. /\ Moves
      /\ UNCHANGED clientVars => Own(Starter) /\ UNCHANGED <<snap[Starter], etag[Starter]>>
      /\ Start!HoldReplaced(Starter, s) =>
            Own(Starter) /\ snap'[Starter] = s /\ etag'[Starter] = stamp'
      /\ Start!ReplaceSession(Starter, s) => session' = s
      /\ s.status = "waiting_device"
  <2>1. /\ "waiting_device" \in Statuses
        /\ Rank["challenge_issued"] = 1 /\ Rank["waiting_device"] = 2
    BY Ranks DEF Statuses
  <2>2. Rank[snap[Starter].status] <= Rank["waiting_device"]
        /\ Rank[snap[Starter].status] < 2
    BY <1>3, <2>1
  <2>. QED
    BY <1>2, <1>3, <2>1, <2>2, StartWrites
<1>. HIDE DEF s
<1>5. CASE /\ Start!ReplaceSession(Starter, s) /\ Start!HoldReplaced(Starter, s)
           /\ startPc' = "dispatch"
  <2>1. Own(Starter) /\ snap'[Starter] = s /\ session' = s
    BY <1>4, <1>5
  <2>2. StartTypes' /\ StartAnswerStands' /\ Stage(2)'
    <3>1. Stage(2)'
      BY <1>4, <2>1, Ranks DEF Stage
    <3>. QED
      BY <1>1, <1>2, <1>5, <3>1, StartOpen DEF StartTypes, Start!Steps
  <2>3. StartInv'
    BY <1>2, <1>3, <1>4, <1>5, <2>1, <2>2 DEF StartInv
  <2>. QED
    BY <1>2, <1>4, <2>1, <2>2, <2>3 DEF StartServed
<1>6. CASE startPc' = "fail_load" /\ UNCHANGED clientVars
  <2>1. Own(Starter) /\ UNCHANGED <<snap[Starter], etag[Starter]>>
    BY <1>4, <1>6
  <2>2. StartTypes' /\ StartAnswerStands'
    BY <1>1, <1>2, <1>6, StartOpen DEF StartTypes, Start!Steps
  <2>3. StartInv'
    BY <1>2, <1>3, <1>6, <2>1, <2>2 DEF StartInv
  <2>. QED
    BY <1>2, <1>4, <2>1, <2>2, <2>3 DEF StartServed
<1>. QED
  BY <1>2, <1>5, <1>6

LEMMA StartDispatches ==
    ASSUME UseIotHub, CloudInv, Start!Dispatch \/ Start!Dispatched
    PROVE  StartServed
<1>1. /\ StartInv /\ StartTypes /\ failures \in 0 .. MaxFailures /\ MaxFailures \in Nat
  BY StartFinds
<1>2. /\ startPc \in {"dispatch", "dispatched"} /\ UNCHANGED storeVars
      /\ commanded' \in BOOLEAN /\ failures' \in 0 .. MaxFailures
      /\ commanded => commanded'
      /\ \/ /\ UNCHANGED clientVars /\ UNCHANGED startAnswer
            /\ (startPc' = "dispatched" /\ commanded') \/ startPc' = "fail_load"
         \/ Start!End("201") /\ commanded'
  <2>1. CASE Start!Dispatch
    <3>1. startPc = "dispatch" /\ UNCHANGED storeVars /\ UNCHANGED clientVars
          /\ UNCHANGED startAnswer
      BY <2>1 DEF Start!Dispatch, Start!storeVars, Start!clientVars, storeVars, clientVars
    <3>2. ~commanded
      BY <1>1, <3>1 DEF StartInv
    <3>3. /\ commanded' \in BOOLEAN
          /\ (startPc' = "dispatched" /\ commanded') \/ startPc' = "fail_load"
      BY <2>1 DEF Start!Dispatch, Start!ToMarkFailed
    <3>4. failures' \in 0 .. MaxFailures
      BY <1>1, <2>1 DEF Start!Dispatch, Start!Unavailable
    <3>. QED
      BY <3>1, <3>2, <3>3, <3>4
  <2>2. CASE Start!Dispatched
    BY <1>1, <2>2 DEF Start!Dispatched, Start!Unavailable, Start!ToMarkFailed,
       Start!storeVars, Start!clientVars, storeVars, clientVars, StartInv, StartTypes
  <2>. QED
    BY <2>1, <2>2
<1>3. /\ Moves /\ UNCHANGED session /\ (DropRecord(Starter) => Own(Starter))
      /\ UNCHANGED clientVars => Own(Starter) /\ UNCHANGED <<snap[Starter], etag[Starter]>>
  BY <1>2, StartReads
<1>4. snap[Starter].status = "waiting_device" /\ Stage(2)
  BY <1>1, <1>2 DEF StartInv
<1>5. Stage(2)'
  BY <1>3, <1>4 DEF Stage, Rank
<1>6. CASE /\ UNCHANGED clientVars /\ UNCHANGED startAnswer
           /\ (startPc' = "dispatched" /\ commanded') \/ startPc' = "fail_load"
  <2>1. StartTypes' /\ StartAnswerStands' /\ Own(Starter) /\ UNCHANGED snap[Starter]
    BY <1>1, <1>2, <1>3, <1>6, StartOpen DEF StartTypes, Start!Steps
  <2>2. StartInv'
    BY <1>4, <1>5, <1>6, <2>1 DEF StartInv
  <2>. QED
    BY <1>2, <1>3, <1>5, <2>1, <2>2 DEF StartServed
<1>7. CASE Start!End("201") /\ commanded'
  <2>1. session'.status \notin {"created", "challenge_issued"}
    BY <1>3, <1>4, Ranks, StartFinds DEF Stage
  <2>2. "201" \in Start!Codes
    BY DEF Start!Codes
  <2>3. StartTypes' /\ StartInv' /\ DropRecord(Starter)
    BY <1>1, <1>2, <1>5, <1>7, <2>1, <2>2, StartEnds
  <2>. QED
    BY <1>2, <1>3, <1>5, <2>3 DEF StartServed
<1>. QED
  BY <1>2, <1>6, <1>7

\* _mark_failed
LEMMA StartFetches == ASSUME UseIotHub, CloudInv, Start!FailLoad PROVE StartServed
<1>1. /\ HeldTypes /\ StoreTypes /\ StoreInv /\ StartInv /\ StartTypes /\ stamp \in Nat
      /\ Starter \in Calls /\ failures \in 0 .. MaxFailures
  BY StartFinds
<1>2. /\ startPc = "fail_load" /\ startPc' = "fail_save" /\ UNCHANGED storeVars
      /\ etag' = [etag EXCEPT ![Starter] = stamp]
      /\ UNCHANGED <<snap, armed, startAnswer, commanded, failures>>
  BY DEF Start!FailLoad, Start!c, Start!storeVars, storeVars
<1>3. Moves /\ Rests /\ UNCHANGED session
  BY <1>2, StartReads
<1>4. Own(Starter) /\ etag'[Starter] = stamp' /\ snap'[Starter] = snap[Starter]
  BY <1>1, <1>2, <1>3 DEF Own, HeldTypes, StoreInv, Rests
<1>5. StartTypes' /\ StartAnswerStands' /\ (Stage(2) => Stage(2)')
  BY <1>1, <1>2, <1>3, StartOpen DEF StartTypes, Start!Steps, Stage, Rank
<1>6. StartInv'
  BY <1>1, <1>2, <1>4, <1>5 DEF StartInv
<1>. QED
  BY <1>1, <1>2, <1>3, <1>4, <1>5, <1>6 DEF StartServed

LEMMA StartGivesUp == ASSUME UseIotHub, CloudInv, Start!FailSave PROVE StartServed
<1>. DEFINE s == StartWrite("failed")
<1>1. /\ StartInv /\ StartTypes /\ failures \in 0 .. MaxFailures
      /\ session.status \in Statuses
  BY StartFinds
<1>2. /\ startPc = "fail_save" /\ UNCHANGED <<manifest, proofs, proofIndex, qr>>
      /\ UNCHANGED <<commanded, failures>>
      /\ \/ Start!ReplaceSession(Starter, s)
         \/ Start!ReplaceConflicts(Starter, s)
  BY DEF Start!FailSave, Start!WithStatus, StartWrite, Start!c, Start!NoOtherRecord
<1>3. PICK code \in {"ERR_STORAGE_UNAVAILABLE", "ERR_DEVICE_COMMAND", "ERR_INTERNAL"} :
        /\ Start!End(code)
        /\ \/ Start!ReplaceSession(Starter, s)
           \/ /\ Start!ReplaceConflicts(Starter, s)
              /\ code = IF snap[Starter].status = "created"
                          THEN "ERR_STORAGE_UNAVAILABLE" ELSE "ERR_INTERNAL"
  BY DEF Start!FailSave, Start!GiveUp, Start!WithStatus, StartWrite, Start!c
<1>4. /\ Moves /\ (DropRecord(Starter) => Own(Starter))
      /\ Start!ReplaceSession(Starter, s) => session' = s
      /\ Start!ReplaceConflicts(Starter, s) =>
            session' = s \/ (Rests /\ etag[Starter] # stamp)
      /\ s.status = "failed"
  <2>1. "failed" \in Statuses
    BY DEF Statuses
  <2>. QED
    BY <1>2, <2>1, StartWrites
<1>. HIDE DEF s
<1>5. session'.status = "failed" \/ (code = "ERR_INTERNAL" /\ Rests /\ Stage(2))
  <2>1. ASSUME Rests, etag[Starter] # stamp, Start!ReplaceConflicts(Starter, s)
        PROVE  snap[Starter].status = "waiting_device" /\ Stage(2)
    BY <1>1, <1>2, <2>1 DEF StartInv
  <2>. QED
    BY <1>3, <1>4, <2>1
<1>6. session'.status \notin {"created", "challenge_issued"}
  BY <1>1, <1>5, Ranks DEF Stage, Rests
<1>7. StartTypes' /\ StartInv' /\ DropRecord(Starter)
  <2>1. commanded' \in BOOLEAN /\ code \in Start!Codes
    BY <1>1, <1>2 DEF StartTypes, Start!Codes
  <2>. QED
    BY <1>1, <1>3, <1>5, <1>6, <2>1, StartEnds
<1>. QED
  BY <1>1, <1>2, <1>4, <1>7 DEF StartServed

LEMMA StartSteps ==
    ASSUME UseIotHub, CloudInv, StartSession
    PROVE  CloudInv' /\ Moves
<1>1. StartServed
  BY StartCreates, StartFails, StartGetsTargets, StartChallenges, StartWaits,
     StartDispatches, StartFetches, StartGivesUp DEF StartSession, Start!Step
<1>2. /\ UNCHANGED <<telePc, message, round, outcome, captured>>
      /\ UNCHANGED <<ingestPc, payload, ingestAnswer, result, expired>>
      /\ UNCHANGED <<issuePc, attempt, cand, built, issueAnswer, activeKey>>
  BY DEF StartSession, teleV, ingestV, issueV
<1>3. Types /\ StoreInv /\ Starter \in Calls /\ Workers \subseteq Calls \ {Starter}
  BY InvParts, WorkersCall
<1>4. Types'
  BY <1>1, <1>2, <1>3 DEF Types, TeleTypes, IngestTypes, IssueTypes, StartServed, Own, Moves
<1>5. StoreInv'
  BY <1>1, <1>3, StoreStays DEF StartServed
<1>6. ASSUME NEW d \in Workers PROVE WorkerInv(d)'
  <2>1. snap'[d] = snap[d] /\ etag'[d] = etag[d] /\ WorkerInv(d)
    BY <1>1, <1>3 DEF StartServed, Own, CloudInv
  <2>2. SameWorker(d)
    BY <1>2 DEF SameWorker
  <2>. QED
    BY <1>1, <1>3, <2>1, <2>2, Bystander DEF StartServed
<1>7. TypeOK'
  BY <1>4, TypesAreTypeOK, PTL
<1>. QED
  BY <1>1, <1>5, <1>6, <1>7 DEF CloudInv, StartServed

\* Time runs out for the session: only ingest_evidence looks.
LEMMA Expires ==
    ASSUME UseIotHub, CloudInv, Expire
    PROVE  CloudInv' /\ Moves
<1>1. Types /\ StoreInv /\ StartInv /\ StoreTypes /\ Workers \subseteq Calls
  BY InvParts, WorkersCall
<1>2. /\ UNCHANGED storeVars /\ UNCHANGED clientVars /\ expired' = TRUE
      /\ UNCHANGED <<startPc, startAnswer, commanded, failures, captured>>
      /\ UNCHANGED <<telePc, message, round, outcome>>
      /\ UNCHANGED <<ingestPc, payload, ingestAnswer, result>>
      /\ UNCHANGED <<issuePc, attempt, cand, built, issueAnswer, activeKey>>
  BY DEF Expire, Ingest!Expire, Ingest!storeVars, Ingest!clientVars, storeVars, clientVars,
     startV, teleV, issueV
<1>3. Moves
  BY <1>1, <1>2, QuietMoves
<1>4. Types'
  BY <1>1, <1>2 DEF Types, StartTypes, TeleTypes, IngestTypes, IssueTypes, HeldTypes,
     StoreTypes, storeVars, clientVars
<1>5. StoreInv' /\ StartInv'
  <2>1. StoreInv'
    BY <1>1, <1>2 DEF StoreInv, Stage, Rank, storeVars, clientVars
  <2>2. Start!Rank' = Start!Rank
    BY DEF Start!Rank, Start!Statuses
  <2>3. StartAnswerStands <=> StartAnswerStands'
    BY <1>2, <2>2 DEF StartAnswerStands, Start!StartAnswerStands, storeVars
  <2>4. StartInv'
    BY <1>1, <1>2, <2>3 DEF StartInv, Stage, Rank, Current, BlankSession, storeVars, clientVars
  <2>. QED
    BY <2>1, <2>4
<1>6. ASSUME NEW d \in Workers PROVE WorkerInv(d)'
  <2>1. WorkerInv(d) /\ SameWorker(d) /\ snap'[d] = snap[d] /\ etag'[d] = etag[d]
    BY <1>2 DEF CloudInv, SameWorker, clientVars
  <2>. QED
    BY <1>1, <1>2, <1>3, <2>1, Bystander
<1>7. TypeOK'
  BY <1>4, TypesAreTypeOK, PTL
<1>. QED
  BY <1>3, <1>5, <1>6, <1>7 DEF CloudInv

-----------------------------------------------------------------------------
\* The invariant, and what follows from it

LEMMA CloudInvInit == ASSUME UseIotHub, Init PROVE CloudInv
<1>1. /\ session = BlankSession /\ stamp = 0 /\ manifest = NoManifest
      /\ proofs = {} /\ proofIndex = {} /\ qr = {}
      /\ snap = [c \in Calls |-> BlankSession] /\ etag = [c \in Calls |-> 0]
      /\ armed = [c \in Calls |-> FALSE]
      /\ startPc = "create" /\ startAnswer = "none" /\ commanded = FALSE /\ failures = 0
  BY StartStore DEF Init, Start!Init, Start!StoreInit
<1>2. HeldTypes /\ StoreTypes
  BY <1>1, Blank DEF HeldTypes, StoreTypes
<1>3. StartTypes /\ failures \in 0 .. MaxFailures
  <2>1. 0 \in 0 .. MaxFailures
    BY CloudConstants DEF Start!StartConstants
  <2>. QED
    BY <1>1, <2>1 DEF StartTypes, Start!Steps, Start!Codes
<1>4. TeleTypes
  <2>1. 0 \in 0 .. StatusAttempts - 1
    BY CloudConstants DEF Tele!TelemetryConstants
  <2>. QED
    BY <2>1 DEF Init, TeleTypes, Tele!Steps, Tele!Outcomes
<1>5. IngestTypes
  BY DEF Init, IngestTypes, Ingest!Steps, Ingest!Codes
<1>6. IssueTypes
  BY IssueConstantsHold DEF Init, IssueTypes, Issue!Steps
<1>7. TypeOK
  BY <1>2, <1>3, <1>4, <1>5, <1>6, TypesAreTypeOK DEF Types, Init
<1>8. StoreInv
  BY <1>1 DEF StoreInv
<1>9. StartInv
  BY <1>1 DEF StartInv, StartAnswerStands, Start!StartAnswerStands
<1>10. ASSUME NEW c \in Workers PROVE WorkerInv(c)
  <2>1. CallInv(c) /\ TeleInv(c) /\ IngestInv(c)
    BY DEF Init, CallInv, TeleInv, IngestInv, IngestHolding, Handed
  <2>2. IssueInv(c)
    BY DEF Init, IssueInv, Issue!Building, Issue!Saved, Issue!Holding, Issue!ReplaceSteps,
       Issue!NoAnswer
  <2>. QED
    BY <2>1, <2>2 DEF WorkerInv
<1>. QED
  BY <1>7, <1>8, <1>9, <1>10 DEF CloudInv

LEMMA CloudInvStep ==
    ASSUME UseIotHub, StatusAttempts > 1, CloudInv, Next
    PROVE  CloudInv' /\ Moves
BY StartSteps, Expires, StatusSteps, CallsIngest, EndsIngest, CallsIssue, EndsIssue,
   IngestSteps, IssueSteps, Delivers DEF Next, Serve

LEMMA CloudInvStutter == ASSUME CloudInv, UNCHANGED vars PROVE CloudInv'
<1>1. /\ UNCHANGED <<session, stamp, manifest, proofs, proofIndex, qr>>
      /\ UNCHANGED <<snap, etag, armed>>
      /\ UNCHANGED <<startPc, startAnswer, commanded, failures, captured>>
      /\ UNCHANGED <<telePc, message, round, outcome>>
      /\ UNCHANGED <<ingestPc, payload, ingestAnswer, result, expired>>
      /\ UNCHANGED <<issuePc, attempt, cand, built, issueAnswer, activeKey>>
  BY DEF vars, storeVars, clientVars, startV, teleV, ingestV, issueV
<1>2. Types /\ StoreInv /\ StartInv
  BY InvParts
<1>3. Types'
  BY <1>1, <1>2 DEF Types, StartTypes, TeleTypes, IngestTypes, IssueTypes, HeldTypes,
     StoreTypes
<1>4. StoreInv'
  BY <1>1, <1>2 DEF StoreInv, Stage, Rank
<1>5. StartInv'
  <2>1. Start!Rank' = Start!Rank
    BY DEF Start!Rank, Start!Statuses
  <2>2. StartAnswerStands <=> StartAnswerStands'
    BY <1>1, <2>1 DEF StartAnswerStands, Start!StartAnswerStands
  <2>. QED
    BY <1>1, <1>2, <2>2 DEF StartInv, Stage, Rank, Current, BlankSession
<1>6. ASSUME NEW d \in Workers PROVE WorkerInv(d)'
  <2>1. Moves
    BY <1>1, InvParts, QuietMoves DEF storeVars
  <2>2. WorkerInv(d) /\ SameWorker(d)
    BY <1>1 DEF CloudInv, SameWorker
  <2>. QED
    BY <1>1, <1>2, <2>1, <2>2, Bystander
<1>7. TypeOK'
  BY <1>3, TypesAreTypeOK, PTL
<1>. QED
  BY <1>4, <1>5, <1>6, <1>7 DEF CloudInv

\* All handlers together keep CloudInv: one handler at a time works for each
\* message, a record whose etag is current is the stored session, and what a
\* handler is about to write is further on than what it holds.
THEOREM CloudInvHolds ==
    ASSUME UseIotHub, StatusAttempts > 1
    PROVE  Spec => []CloudInv
<1>1. Init => CloudInv
  BY CloudInvInit
<1>2. CloudInv /\ [Next]_vars => CloudInv'
  BY CloudInvStep, CloudInvStutter
<1>. QED
  BY <1>1, <1>2, PTL DEF Spec

\* The variables of all four handlers keep their types.
THEOREM TypeCorrect ==
    ASSUME UseIotHub, StatusAttempts > 1
    PROVE  Spec => []TypeOK
<1>1. CloudInv => TypeOK
  BY DEF CloudInv
<1>. QED
  BY <1>1, CloudInvHolds, PTL

\* What start_session answered stays true of the session: after its 201 the
\* device has its command and the session is waiting or further on, and a
\* device that could not be commanded leaves a failed session for good.
THEOREM StartAnswerStandsHolds ==
    ASSUME UseIotHub, StatusAttempts > 1
    PROVE  Spec => []StartAnswerStands
<1>1. CloudInv => StartAnswerStands
  BY DEF CloudInv, StartInv
<1>. QED
  BY <1>1, CloudInvHolds, PTL

\* _set_session_status never finds a report too early, and with two rounds or
\* more drops none but a failure for want of rounds.
THEOREM ReportsConvergeHolds ==
    ASSUME UseIotHub, StatusAttempts > 1
    PROVE  Spec => []ReportsConverge
<1>1. CloudInv => ReportsConverge
  BY DEF CloudInv, WorkerInv, TeleInv, ReportsConverge, Tele!ReportsConverge
<1>. QED
  BY <1>1, CloudInvHolds, PTL

\* A message that was accepted shows in the session for good, and an accepted
\* manifest has a stored Proof, which covers it.
THEOREM AcceptedIsDoneHolds ==
    ASSUME UseIotHub, StatusAttempts > 1
    PROVE  Spec => []AcceptedIsDone
<1>1. CloudInv => AcceptedIsDone
  BY DEF CloudInv, WorkerInv, TeleInv, AcceptedIsDone, Stage
<1>. QED
  BY <1>1, CloudInvHolds, PTL

\* No interleaving of the handlers takes the status of a session back, and
\* only a failure costs it the reservation of its Proof.
THEOREM SessionMovesForwardHolds ==
    ASSUME UseIotHub, StatusAttempts > 1
    PROVE  Spec => SessionMovesForward
<1>. DEFINE Forward ==
       /\ Rank[session.status] <= Rank[session'.status]
       /\ session.proof # NoId /\ session'.status # "failed" =>
            session'.proof = session.proof /\ session'.key = session.key
<1>1. CloudInv /\ [Next]_vars => [Forward]_vars
  <2>. SUFFICES ASSUME CloudInv, Next PROVE Forward
    OBVIOUS
  <2>1. Moves /\ session.status \in Statuses
    BY CloudInvStep, InvParts
  <2>2. Rank[session.status] \in 0 .. 9
    BY <2>1, Ranks
  <2>. QED
    BY <2>1, <2>2 DEF Moves, Rests, Grows
<1>. QED
  BY <1>1, CloudInvHolds, PTL DEF Spec, SessionMovesForward

-----------------------------------------------------------------------------
\* The device at the other end: System runs the same agent, see EdgeProofs

Device == INSTANCE EdgeProofs WITH pc <- agentPc

\* What ties the two sides together: nothing is sent before the command, a
\* message that is worked on was sent, a complaint names no capture, and a
\* manifest that is stored was handed in first.
LinkInv ==
    /\ sent # {} \/ agentPc \notin {"receive", "down"} => commanded
    /\ \A c \in Workers :
         /\ message[c].kind = "manifest" => Agent!HandedIn # {}
         /\ message[c].kind = "failed" => Agent!StatusMessage("failed") \in sent
    /\ \A m \in sent : m.kind = "failed" => m = Agent!StatusMessage("failed")
    /\ manifest # NoManifest => Agent!HandedIn # {}

SystemInv == CloudInv /\ Device!AgentInv /\ LinkInv

LEMMA SystemParameters ==
    /\ UseIotHub
    /\ MaxSends \in Nat \ {0} /\ MaxFaults \in Nat /\ MaxCommands \in Nat \ {0}
BY SystemConstants

LEMMA SystemInvInit == SystemInit => SystemInv
<1>. SUFFICES ASSUME SystemInit PROVE SystemInv
  OBVIOUS
<1>1. CloudInv
  BY CloudInvInit, SystemParameters DEF SystemInit
<1>2. Device!AgentInv
  <2>1. Device!Init
    BY DEF SystemInit, Agent!Init, Device!Init
  <2>. QED
    BY <2>1, SystemParameters, Device!AgentInvInit
<1>3. LinkInv
  <2>1. manifest = NoManifest
    BY DEF SystemInit, Init, Start!Init
  <2>2. sent = {} /\ agentPc = "receive"
    BY DEF SystemInit, Agent!Init
  <2>3. \A c \in Workers : message[c].kind = "none"
    BY DEF SystemInit, Init, Tele!NoMessage, Tele!StatusMessage
  <2>. QED
    BY <2>1, <2>2, <2>3 DEF LinkInv
<1>. QED
  BY <1>1, <1>2, <1>3 DEF SystemInv

\* The cloud never touches the device, nor the device the cloud.
LEMMA CloudSide ==
    ASSUME CloudInv, StartSession \/ Expire \/ \E c \in Workers : Serve(c)
    PROVE  /\ UNCHANGED message
           /\ commanded => commanded'
           /\ UNCHANGED expired \/ (~expired /\ expired' = TRUE)
           /\ UNCHANGED manifest \/ \E c \in Workers : ingestPc[c] = "save"
<1>1. CASE StartSession
  <2>1. UNCHANGED <<message, expired>>
    BY <1>1 DEF StartSession, teleV, ingestV
  <2>2. UNCHANGED manifest
    BY <1>1 DEF StartSession, Start!Step, Start!CreateFails, Start!Fail, Start!Create,
       Start!Targets, Start!Challenge, Start!Waiting, Start!Dispatch, Start!Dispatched,
       Start!FailLoad, Start!FailSave, Start!NoOtherRecord, Start!storeVars
  <2>3. CASE Start!Dispatch
    <3>1. ~commanded
      BY <2>3, InvParts DEF Start!Dispatch, StartInv
    <3>. QED
      BY <2>1, <2>2, <3>1
  <2>4. CASE ~Start!Dispatch
    <3>1. UNCHANGED commanded
      BY <1>1, <2>4 DEF StartSession, Start!Step, Start!CreateFails, Start!Fail,
         Start!Create, Start!Targets, Start!Challenge, Start!Waiting, Start!Dispatched,
         Start!FailLoad, Start!FailSave
    <3>. QED
      BY <2>1, <2>2, <3>1
  <2>. QED
    BY <2>3, <2>4
<1>2. CASE Expire
  BY <1>2 DEF Expire, Ingest!Expire, Ingest!storeVars, startV, teleV
<1>3. ASSUME NEW c \in Workers, ProcessStatus(c)
      PROVE  UNCHANGED <<message, commanded, expired, manifest>>
  <2>1. UNCHANGED <<commanded, expired>>
    BY <1>3 DEF ProcessStatus, startV, ingestV
  <2>2. UNCHANGED <<message, manifest>>
    BY <1>3 DEF ProcessStatus, Tele!Step, Tele!Load, Tele!Replace, Tele!Fail, Tele!Settled,
       Tele!NextRound, Tele!End, Tele!storeVars
  <2>. QED
    BY <2>1, <2>2
<1>4. ASSUME NEW c \in Workers, CallIngest(c) \/ CallIssue(c)
      PROVE  UNCHANGED <<message, commanded, expired, manifest>>
  BY <1>4 DEF CallIngest, CallIssue, Ingest!Receive, Issue!Receive, Ingest!storeVars,
     Issue!storeVars, startV, teleV, ingestV
<1>5. ASSUME NEW c \in Workers, EndIngest(c) \/ EndIssue(c)
      PROVE  UNCHANGED <<message, commanded, expired, manifest>>
  BY <1>5 DEF EndIngest, EndIssue, Tele!IngestReturns, Tele!IssueReturns, Tele!End,
     storeVars, startV, ingestV
<1>6. ASSUME NEW c \in Workers, IngestStep(c)
      PROVE  /\ UNCHANGED <<message, commanded, expired>>
             /\ UNCHANGED manifest \/ ingestPc[c] = "save"
  <2>1. UNCHANGED <<message, commanded>>
    BY <1>6 DEF IngestStep, startV, teleV
  <2>2. UNCHANGED expired
    BY <1>6 DEF IngestStep, Ingest!Step, Ingest!Fail, Ingest!Load, Ingest!Existing,
       Ingest!Check, Ingest!FailLoad, Ingest!FailSave, Ingest!FailResult,
       Ingest!SaveManifest, Ingest!ToWaiting, Ingest!ToCapturing, Ingest!ToUploaded,
       Ingest!SaveResult, Ingest!Recheck, Ingest!Advance, Ingest!Compares, Ingest!End,
       Ingest!KeepLocals
  <2>3. UNCHANGED manifest \/ ingestPc[c] = "save"
    BY <1>6 DEF IngestStep, Ingest!Step, Ingest!Fail, Ingest!Load, Ingest!Existing,
       Ingest!Check, Ingest!FailLoad, Ingest!FailSave, Ingest!FailResult,
       Ingest!SaveManifest, Ingest!ToWaiting, Ingest!ToCapturing, Ingest!ToUploaded,
       Ingest!SaveResult, Ingest!Recheck, Ingest!storeVars
  <2>. QED
    BY <2>1, <2>2, <2>3
<1>7. ASSUME NEW c \in Workers, IssueStep(c)
      PROVE  UNCHANGED <<message, commanded, expired, manifest>>
  <2>1. UNCHANGED <<message, commanded, expired>>
    BY <1>7 DEF IssueStep, startV, teleV, ingestV
  <2>2. UNCHANGED manifest
    BY <1>7 DEF IssueStep, Issue!Step, Issue!Fail, Issue!Load, Issue!Find, Issue!Adopt,
       Issue!MarkValidating, Issue!MarkVerified, Issue!Resolve, Issue!Reserve, Issue!Build,
       Issue!Save, Issue!SaveIndex, Issue!Finish, Issue!Recheck, Issue!SaveQr,
       Issue!Compare, Issue!storeVars
  <2>. QED
    BY <2>1, <2>2
<1>. QED
  BY <1>1, <1>2, <1>3, <1>4, <1>5, <1>6, <1>7 DEF Serve

\* A step of the device changes what System shares with EdgeAgent only: it
\* sends when it has a command to work on, and a complaint has one form.
LEMMA AgentSide ==
    ASSUME Agent!Step \/ Agent!Crash \/ Agent!Restart \/ Agent!Receive
    PROVE  /\ Device!Next
           /\ sent \subseteq sent'
           /\ sent' # sent => agentPc \notin {"receive", "down"}
           /\ agentPc' \in {"receive", "down"} \/ agentPc \notin {"receive", "down"}
              \/ Agent!Receive
           /\ \A m \in sent' : m \in sent \/ m.kind # "failed"
                               \/ m = Agent!StatusMessage("failed")
<1>1. Device!Next
  BY DEF Device!Next, Device!Step, Device!Crash, Device!Restart, Device!Receive,
     Device!SendDuplicate, Device!Announce, Device!SendCapturing, Device!Look, Device!Shoot,
     Device!Sense, Device!Note, Device!Finish, Device!UploadImage, Device!UploadAudio,
     Device!Upload, Device!SendManifest, Device!Remember, Device!SendFailed, Device!Send,
     Device!StatusMessage, Device!HandIn, Device!Fault, Device!Complain,
     Agent!Step, Agent!Crash, Agent!Restart, Agent!Receive,
     Agent!SendDuplicate, Agent!Announce, Agent!SendCapturing, Agent!Look, Agent!Shoot,
     Agent!Sense, Agent!Note, Agent!Finish, Agent!UploadImage, Agent!UploadAudio,
     Agent!Upload, Agent!SendManifest, Agent!Remember, Agent!SendFailed, Agent!Send,
     Agent!StatusMessage, Agent!HandIn, Agent!Fault, Agent!Complain
<1>2. CASE Agent!Crash \/ Agent!Restart \/ Agent!Receive
  BY <1>1, <1>2 DEF Agent!Crash, Agent!Restart, Agent!Receive
<1>3. CASE Agent!Step
  <2>1. ASSUME NEW step, NEW m, NEW next, NEW failed, Agent!Send(step, m, next, failed)
        PROVE  agentPc = step /\ sent' \in {sent, sent \cup {m}}
    BY <2>1 DEF Agent!Send
  <2>2. CASE Agent!SendDuplicate \/ Agent!Announce \/ Agent!SendCapturing
             \/ Agent!SendManifest \/ Agent!SendFailed
    <3>1. PICK m : /\ agentPc \notin {"receive", "down"} /\ sent' \in {sent, sent \cup {m}}
                   /\ m.kind # "failed" \/ m = Agent!StatusMessage("failed")
      <4>1. Agent!HandIn.kind = "manifest"
            /\ \A kind : Agent!StatusMessage(kind).kind = kind
        BY DEF Agent!HandIn, Agent!StatusMessage
      <4>. QED
        BY <2>1, <2>2, <4>1 DEF Agent!SendDuplicate, Agent!Announce, Agent!SendCapturing,
           Agent!SendManifest, Agent!SendFailed
    <3>. QED
      BY <1>1, <3>1
  <2>3. CASE ~(Agent!SendDuplicate \/ Agent!Announce \/ Agent!SendCapturing
               \/ Agent!SendManifest \/ Agent!SendFailed)
    <3>1. UNCHANGED sent /\ agentPc \notin {"receive", "down"}
      BY <1>3, <2>3 DEF Agent!Step, Agent!Look, Agent!Shoot, Agent!Sense, Agent!Note,
         Agent!Finish, Agent!UploadImage, Agent!UploadAudio, Agent!Upload, Agent!Remember
    <3>. QED
      BY <1>1, <3>1
  <2>. QED
    BY <2>2, <2>3
<1>. QED
  BY <1>2, <1>3

\* What the trigger processes the device may have sent: one message.
LEMMA TriggerDelivers ==
    ASSUME LinkInv, NEW kind \in Kinds, Trigger(kind)
    PROVE  /\ \E c \in Workers : Deliver(c)
           /\ LinkInv'
           /\ UNCHANGED <<agentV, expired>>
<1>1. PICK m \in sent, c \in Workers : m.kind = kind /\ Tele!Receive(c, TriggerMessage(m))
  BY DEF Trigger
<1>. DEFINE n == TriggerMessage(m)
<1>2. /\ n \in DeviceMessages
      /\ n.kind = "manifest" => m.kind = "manifest"
      /\ n.kind = "failed" => m.kind = "failed"
  BY <1>1 DEF TriggerMessage, DeviceMessages, Kinds, Tele!StatusMessage,
     Tele!ManifestMessage
<1>. HIDE DEF n
<1>3. commanded
  BY <1>1 DEF LinkInv
<1>4. UNCHANGED <<startV, ingestV, issueV, captured>> /\ UNCHANGED <<agentV, expired>>
      /\ UNCHANGED commanded
  BY DEF Trigger, ingestV, startV
<1>5. Tele!Receive(c, n)
  BY <1>1 DEF n
<1>6. Deliver(c)
  BY <1>2, <1>3, <1>4, <1>5 DEF Deliver
<1>7. LinkInv'
  <2>1. UNCHANGED <<manifest, sent, agentPc, commanded>> /\ Agent!HandedIn' = Agent!HandedIn
    BY <1>4, <1>5 DEF Tele!Receive, Tele!storeVars, agentV, Agent!HandedIn
  <2>2. \A d \in Workers : message'[d] = message[d] \/ message'[d] = n
    BY <1>5 DEF Tele!Receive
  <2>3. n.kind = "manifest" => Agent!HandedIn # {}
    BY <1>1, <1>2 DEF Agent!HandedIn
  <2>4. n.kind = "failed" => Agent!StatusMessage("failed") \in sent
    BY <1>1, <1>2 DEF LinkInv
  <2>5. Agent!StatusMessage("failed")' = Agent!StatusMessage("failed")
    BY DEF Agent!StatusMessage
  <2>. QED
    BY <2>1, <2>2, <2>3, <2>4, <2>5 DEF LinkInv
<1>. QED
  BY <1>4, <1>6, <1>7

\* A step of the cloud keeps the link: the manifest it stores is one that a
\* message carried.
LEMMA CloudKeepsLink ==
    ASSUME CloudInv, LinkInv, CloudStep
    PROVE  LinkInv'
<1>1. /\ UNCHANGED <<message, sent, agentPc>>
      /\ commanded => commanded'
      /\ UNCHANGED manifest \/ \E c \in Workers : ingestPc[c] = "save"
  BY CloudSide DEF CloudStep, agentV
<1>2. Agent!HandedIn' = Agent!HandedIn
      /\ Agent!StatusMessage("failed")' = Agent!StatusMessage("failed")
  BY <1>1 DEF Agent!HandedIn, Agent!StatusMessage
<1>3. ASSUME NEW c \in Workers, ingestPc[c] = "save" PROVE Agent!HandedIn # {}
  BY <1>3, CallFinds DEF CallInv, LinkInv
<1>. QED
  BY <1>1, <1>2, <1>3 DEF LinkInv

\* A step of the device keeps it: nothing that was sent is taken back.
LEMMA DeviceKeepsLink ==
    ASSUME LinkInv, AgentStep \/ Command
    PROVE  LinkInv'
<1>1. /\ UNCHANGED <<message, commanded, manifest>>
      /\ Agent!Receive => commanded
      /\ Agent!Step \/ Agent!Crash \/ Agent!Restart \/ Agent!Receive
  BY DEF AgentStep, Command, Agent!Receive, Agent!Step, Agent!Crash, Agent!Restart, vars,
     storeVars, startV, teleV,
     Agent!SendDuplicate, Agent!Announce, Agent!SendCapturing, Agent!Look, Agent!Shoot,
     Agent!Sense, Agent!Note, Agent!Finish, Agent!UploadImage, Agent!UploadAudio,
     Agent!Upload, Agent!SendManifest, Agent!Remember, Agent!SendFailed, Agent!Send
<1>2. Agent!HandedIn \subseteq Agent!HandedIn'
      /\ Agent!StatusMessage("failed")' = Agent!StatusMessage("failed")
  BY <1>1, AgentSide DEF Agent!HandedIn, Agent!StatusMessage
<1>3. sent' # {} \/ agentPc' \notin {"receive", "down"} => commanded
  BY <1>1, AgentSide DEF LinkInv
<1>. QED
  BY <1>1, <1>2, <1>3, AgentSide DEF LinkInv

-----------------------------------------------------------------------------
\* Every step is one of the cloud's and one of the device's

LEMMA DeviceSteps ==
    ASSUME SystemInv, [SystemNext]_systemVars
    PROVE  /\ [Device!Next]_(Device!vars)
           /\ [Agent!Next]_(Agent!vars)
<1>1. CASE CloudStep
  <2>1. UNCHANGED agentV
    BY <1>1 DEF CloudStep
  <2>2. UNCHANGED expired \/ (~expired /\ expired' = TRUE)
    BY <1>1, CloudSide DEF CloudStep, SystemInv
  <2>. QED
    BY <2>1, <2>2 DEF agentV, Device!vars, Device!Next, Device!Expire,
       Agent!vars, Agent!Next, Agent!Expire
<1>2. CASE AgentStep \/ Command
  BY <1>2, AgentSide DEF AgentStep, Command, Agent!Next
<1>3. ASSUME NEW kind \in Kinds, Trigger(kind)
      PROVE  UNCHANGED Device!vars /\ UNCHANGED Agent!vars
  BY <1>3 DEF Trigger, agentV, ingestV, Device!vars, Agent!vars
<1>4. CASE UNCHANGED systemVars
  BY <1>4 DEF systemVars, vars, ingestV, agentV, Device!vars, Agent!vars
<1>. QED
  BY <1>1, <1>2, <1>3, <1>4 DEF SystemNext

LEMMA CloudSteps ==
    ASSUME SystemInv, [SystemNext]_systemVars
    PROVE  [Next]_vars
<1>1. CASE CloudStep
  BY <1>1 DEF CloudStep, Next
<1>2. CASE AgentStep \/ Command
  BY <1>2 DEF AgentStep, Command
<1>3. ASSUME NEW kind \in Kinds, Trigger(kind) PROVE Next
  BY <1>3, TriggerDelivers DEF SystemInv, Next
<1>4. CASE UNCHANGED systemVars
  BY <1>4 DEF systemVars
<1>. QED
  BY <1>1, <1>2, <1>3, <1>4 DEF SystemNext

LEMMA SystemInvStep ==
    ASSUME StatusAttempts > 1, SystemInv, [SystemNext]_systemVars
    PROVE  SystemInv'
<1>1. CloudInv'
  BY CloudSteps, CloudInvStep, CloudInvStutter, SystemParameters DEF SystemInv
<1>2. Device!AgentInv'
  BY DeviceSteps, Device!AgentInvStep, SystemParameters DEF SystemInv
<1>3. LinkInv'
  <2>1. CASE UNCHANGED systemVars
    BY <2>1 DEF systemVars, vars, storeVars, startV, teleV, agentV, SystemInv, LinkInv,
       Agent!HandedIn, Agent!StatusMessage
  <2>2. CASE SystemNext
    BY <2>2, CloudKeepsLink, DeviceKeepsLink, TriggerDelivers DEF SystemNext, SystemInv
  <2>. QED
    BY <2>1, <2>2
<1>. QED
  BY <1>1, <1>2, <1>3 DEF SystemInv

-----------------------------------------------------------------------------
\* Theorems of the whole system

\* The cloud's invariant, the device's and the link between them hold together:
\* no message is worked on that was not sent, and no manifest is stored that
\* the device did not hand in.
THEOREM SystemInvHolds ==
    ASSUME StatusAttempts > 1
    PROVE  SystemSpec => []SystemInv
<1>1. SystemInit => SystemInv
  BY SystemInvInit
<1>2. SystemInv /\ [SystemNext]_systemVars => SystemInv'
  BY SystemInvStep
<1>. QED
  BY <1>1, <1>2, PTL DEF SystemSpec

\* The cloud joined to its device does what Cloud allows it: what the event
\* trigger makes of a sent message is a delivery Cloud expects, and none comes
\* before the command.  Every theorem about Spec is thus one about SystemSpec.
THEOREM SystemKeepsCloud ==
    ASSUME StatusAttempts > 1
    PROVE  SystemSpec => Spec
<1>1. SystemInit => Init
  BY DEF SystemInit
<1>2. SystemInv /\ [SystemNext]_systemVars => [Next]_vars
  BY CloudSteps
<1>. QED
  BY <1>1, <1>2, SystemInvHolds, PTL DEF SystemSpec, Spec

\* The device joined to its cloud does what EdgeAgent allows it: it is commanded
\* and its session expires, and the cloud meddles with nothing else of it.
THEOREM SystemKeepsAgent ==
    ASSUME StatusAttempts > 1
    PROVE  SystemSpec => Agent!Spec
<1>1. SystemInit => Agent!Init
  BY DEF SystemInit
<1>2. SystemInv /\ [SystemNext]_systemVars => [Agent!Next]_(Agent!vars)
  BY DeviceSteps
<1>. QED
  BY <1>1, <1>2, SystemInvHolds, PTL DEF SystemSpec, Agent!Spec

\* Cloud and device keep their types.
THEOREM SystemTypeCorrect ==
    ASSUME StatusAttempts > 1
    PROVE  SystemSpec => []SystemTypeOK
<1>1. SystemInv => SystemTypeOK
  <2>1. Device!AgentInv => Agent!TypeOK
    BY DEF Device!AgentInv, Device!TypeOK, Device!Steps, Device!Captures, Device!Message,
       Agent!TypeOK, Agent!Steps, Agent!Captures, Agent!Message
  <2>. QED
    BY <2>1 DEF SystemInv, CloudInv, SystemTypeOK
<1>. QED
  BY <1>1, SystemInvHolds, PTL

\* A stored Proof covers a manifest that was handed in, and from the hand-in on
\* the blobs hold the bytes of the device's one capture.
LEMMA HandInIsBehind ==
    ASSUME SystemInv, proofs # {}
    PROVE  manifest # NoManifest /\ Agent!HandedIn # {}
<1>1. PICK p : p \in proofs
  OBVIOUS
<1>2. p.manifest \in Manifests /\ p.manifest = manifest
  BY <1>1, InvParts DEF SystemInv, StoreTypes, StoreInv, Proof
<1>. QED
  BY <1>2, StoreConstants DEF SystemInv, LinkInv

LEMMA SameHandIn == Device!HandedIn = Agent!HandedIn
BY DEF Device!HandedIn, Agent!HandedIn

\* The evidence behind a Proof stays where it is, byte for byte, whatever the
\* device does after it handed in its manifest: crashes, redelivered commands
\* and failed sends included.
THEOREM ProvenIsUploadedHolds ==
    ASSUME StatusAttempts > 1
    PROVE  SystemSpec => []ProvenIsUploaded
<1>1. SystemInv => ProvenIsUploaded
  <2>. SUFFICES ASSUME SystemInv, proofs # {}
                PROVE  noted # 0 /\ blobs = [name \in {"image", "audio"} |-> noted]
    BY DEF ProvenIsUploaded
  <2>1. Device!HandedIn # {}
    BY HandInIsBehind, SameHandIn
  <2>2. folder = "whole" /\ blobs = Device!Both
    BY <2>1 DEF SystemInv, Device!AgentInv, Device!UploadsTheCapture
  <2>3. media # 0 /\ noted = media
    BY <2>2 DEF SystemInv, Device!AgentInv, Device!CapturesOnce
  <2>. QED
    BY <2>2, <2>3 DEF Device!Both
<1>. QED
  BY <1>1, SystemInvHolds, PTL

-----------------------------------------------------------------------------
\* An issued session stays issued

\* What a step may make of the session.
Wrote ==
    \/ Rests
    \/ session'.status \notin {"failed", "proof_issued"}
    \/ session'.status = "proof_issued" /\ proofs # {}
    \/ /\ session'.status = "failed"
       /\ \/ startPc = "fail_save"
          \/ \E c \in Workers : telePc[c] = "replace" /\ message[c].kind = "failed"
          \/ \E c \in Workers : ingestPc[c] = "fail_save"

LEMMA StartWrote == ASSUME CloudInv, StartSession PROVE Wrote
<1>1. UseIotHub /\ snap[Starter] \in Session
  BY SystemParameters, StartFinds
<1>2. CASE \/ Start!CreateFails \/ Start!Fail \/ Start!Targets \/ Start!Dispatch
           \/ Start!Dispatched \/ Start!FailLoad
  BY <1>2 DEF Start!CreateFails, Start!Fail, Start!Targets, Start!Dispatch,
     Start!Dispatched, Start!FailLoad, Start!storeVars, Wrote, Rests
<1>3. CASE Start!Create
  BY <1>1, <1>3, StartStore DEF Start!Create, BlankSession, Wrote
<1>4. CASE Start!Challenge \/ Start!Waiting \/ Start!FailSave
  <2>1. ASSUME NEW status \in {"challenge_issued", "waiting_device", "failed"},
               status = "failed" => startPc = "fail_save",
               \/ Start!ReplaceSession(Starter, Start!WithStatus(status))
               \/ Start!ReplaceConflicts(Starter, Start!WithStatus(status))
        PROVE  Wrote
    <3>1. Start!WithStatus(status).status = status
      BY <1>1 DEF Start!WithStatus, Start!c, Session
    <3>. QED
      BY <1>1, <2>1, <3>1, StartStore DEF Wrote, Writes
  <2>2. CASE UNCHANGED <<session, stamp>>
    BY <2>2 DEF Wrote, Rests
  <2>3. ~Start!Compares
    BY <1>1, StartStore DEF Start!Compares
  <2>4. \/ UNCHANGED <<session, stamp>>
        \/ \E status \in {"challenge_issued", "waiting_device", "failed"} :
             /\ status = "failed" => startPc = "fail_save"
             /\ \/ Start!ReplaceSession(Starter, Start!WithStatus(status))
                \/ Start!ReplaceConflicts(Starter, Start!WithStatus(status))
    BY <1>4, <2>3 DEF Start!Challenge, Start!Waiting, Start!FailSave, Start!c
  <2>. QED
    BY <2>1, <2>2, <2>4
<1>. QED
  BY <1>2, <1>3, <1>4 DEF StartSession, Start!Step

LEMMA StatusWrote == ASSUME CloudInv, NEW c \in Workers, ProcessStatus(c) PROVE Wrote
<1>1. UseIotHub /\ snap[c] \in Session
  BY SystemParameters, InvParts, WorkersCall
<1>2. CASE Tele!Replace(c)
  <2>. DEFINE s == [snap[c] EXCEPT !.status = Tele!Target(c)]
  <2>1. s.status = Tele!Target(c)
    BY <1>1 DEF Session
  <2>2. Tele!ReplaceSession(c, s) \/ Tele!ReplaceConflicts(c, s)
    BY <1>2 DEF Tele!Replace
  <2>. HIDE DEF s
  <2>3. Rests \/ session'.status = Tele!Target(c)
    BY <1>1, <2>1, <2>2, TeleStore DEF Writes
  <2>. QED
    BY <1>2, <2>3, TargetIs DEF Tele!Replace, Wrote
<1>3. CASE ~Tele!Replace(c)
  BY <1>3 DEF ProcessStatus, Tele!Step, Tele!Load, Tele!Fail, Tele!storeVars, Wrote, Rests
<1>. QED
  BY <1>2, <1>3

LEMMA IngestWrote == ASSUME CloudInv, NEW c \in Workers, IngestStep(c) PROVE Wrote
<1>1. UseIotHub /\ snap[c] \in Session
  BY SystemParameters, InvParts, WorkersCall
<1>2. CASE Ingest!FailSave(c) \/ Ingest!ToWaiting(c) \/ Ingest!ToCapturing(c)
           \/ Ingest!ToUploaded(c)
  <2>1. PICK status \in {"failed", "waiting_device", "capturing", "evidence_uploaded"} :
           /\ status = "failed" => ingestPc[c] = "fail_save"
           /\ \/ Ingest!ReplaceSession(c, Ingest!WithStatus(c, status))
              \/ Ingest!ReplaceConflicts(c, Ingest!WithStatus(c, status))
              \/ Ingest!EtagCurrent(c) /\ Ingest!Put(Ingest!WithStatus(c, status))
    <3>1. ~Ingest!Compares(c)
      BY <1>1, IngestStore DEF Ingest!Compares
    <3>. QED
      BY <1>1, <1>2, <3>1, OnAzure DEF Ingest!FailSave, Ingest!ToWaiting,
         Ingest!ToCapturing, Ingest!ToUploaded, Ingest!Advance
  <2>2. Ingest!WithStatus(c, status).status = status
    BY <1>1 DEF Ingest!WithStatus, Session
  <2>. QED
    BY <1>1, <2>1, <2>2, IngestStore DEF Writes, Wrote
<1>3. CASE ~(Ingest!FailSave(c) \/ Ingest!ToWaiting(c) \/ Ingest!ToCapturing(c)
             \/ Ingest!ToUploaded(c))
  BY <1>3 DEF IngestStep, Ingest!Step, Ingest!Fail, Ingest!Load, Ingest!Existing,
     Ingest!Check, Ingest!FailLoad, Ingest!FailResult, Ingest!SaveManifest,
     Ingest!SaveResult, Ingest!Recheck, Ingest!storeVars, Wrote, Rests
<1>. QED
  BY <1>2, <1>3

LEMMA IssueWrote == ASSUME CloudInv, NEW c \in Workers, IssueStep(c) PROVE Wrote
<1>1. UseIotHub /\ snap[c] \in Session /\ IssueInv(c)
  BY SystemParameters, InvParts, WorkersCall
<1>2. CASE Issue!Adopt(c) \/ Issue!MarkValidating(c) \/ Issue!MarkVerified(c)
           \/ Issue!Reserve(c) \/ Issue!Finish(c)
  <2>1. PICK s : /\ \/ s.status \in {"validating", "verified"}
                    \/ s.status = "proof_issued" /\ issuePc[c] \in {"adopt", "finish"}
                 /\ Issue!ReplaceSession(c, s) \/ Issue!ReplaceConflicts(c, s)
    <3>1. /\ Issue!ValidatingOf(c).status = "validating"
          /\ Issue!VerifiedOf(c).status = "verified"
          /\ Issue!IssuedOf(c).status = "proof_issued"
          /\ issuePc[c] = "reserve" => Issue!ReservedOf(c).status = "verified"
      BY <1>1 DEF Issue!ValidatingOf, Issue!VerifiedOf, Issue!IssuedOf, Issue!ReservedOf,
         Session, IssueInv
    <3>. QED
      BY <1>2, <3>1 DEF Issue!Adopt, Issue!MarkValidating, Issue!MarkVerified,
         Issue!Reserve, Issue!Finish
  <2>2. issuePc[c] \in {"adopt", "finish"} => proofs # {}
    BY <1>1 DEF IssueInv, Issue!Building, Issue!Saved, Stored
  <2>. QED
    BY <1>1, <2>1, <2>2, IssueStore DEF Writes, Wrote
<1>3. CASE ~(Issue!Adopt(c) \/ Issue!MarkValidating(c) \/ Issue!MarkVerified(c)
             \/ Issue!Reserve(c) \/ Issue!Finish(c))
  <2>1. ~Issue!Compare(c)
    BY <1>1, IssueStore DEF Issue!Compare
  <2>. QED
    BY <1>3, <2>1 DEF IssueStep, Issue!Step, Issue!Fail, Issue!Load, Issue!Find,
       Issue!Resolve, Issue!Build, Issue!Save, Issue!SaveIndex, Issue!Recheck,
       Issue!SaveQr, Issue!storeVars, Wrote, Rests
<1>. QED
  BY <1>2, <1>3

LEMMA NextWrote == ASSUME CloudInv, [Next]_vars PROVE Wrote
<1>1. CASE Expire
  BY <1>1 DEF Expire, Ingest!Expire, Ingest!storeVars, Wrote, Rests
<1>2. ASSUME NEW c \in Workers,
             \/ Deliver(c) \/ CallIngest(c) \/ EndIngest(c) \/ CallIssue(c) \/ EndIssue(c)
      PROVE  Wrote
  BY <1>2 DEF Deliver, CallIngest, EndIngest, CallIssue, EndIssue, Tele!Receive,
     Ingest!Receive, Issue!Receive, storeVars, Tele!storeVars, Ingest!storeVars,
     Issue!storeVars, Wrote, Rests
<1>3. CASE UNCHANGED vars
  BY <1>3 DEF vars, storeVars, Wrote, Rests
<1>. QED
  BY <1>1, <1>2, <1>3, StartWrote, StatusWrote, IngestWrote, IssueWrote DEF Next, Serve

\* Failures are counted, and never forgotten.
LEMMA FailuresGrow ==
    ASSUME CloudInv, [Next]_vars, failures' = 0
    PROVE  failures = 0
<1>1. failures \in Nat
  BY InvParts DEF Types
<1>2. CASE StartSession
  BY <1>1, <1>2 DEF StartSession, Start!Step, Start!CreateFails, Start!Fail, Start!Create,
     Start!Targets, Start!Challenge, Start!Waiting, Start!Dispatch, Start!Dispatched,
     Start!FailLoad, Start!FailSave, Start!Unavailable, Start!Compares
<1>3. ASSUME NEW c \in Workers, ProcessStatus(c)
      PROVE  UNCHANGED failures \/ failures' = failures + 1
  BY <1>3 DEF ProcessStatus, Tele!Step, Tele!Load, Tele!Replace, Tele!Fail, Tele!Settled,
     Tele!NextRound, Tele!End
<1>4. ASSUME NEW c \in Workers, IngestStep(c)
      PROVE  UNCHANGED failures \/ failures' = failures + 1
  BY <1>4 DEF IngestStep, Ingest!Step, Ingest!Fail, Ingest!Load, Ingest!Existing,
     Ingest!Check, Ingest!FailLoad, Ingest!FailSave, Ingest!FailResult,
     Ingest!SaveManifest, Ingest!ToWaiting, Ingest!ToCapturing, Ingest!ToUploaded,
     Ingest!SaveResult, Ingest!Recheck, Ingest!Advance, Ingest!Compares, Ingest!End,
     Ingest!KeepLocals
<1>5. ASSUME NEW c \in Workers, IssueStep(c)
      PROVE  UNCHANGED failures \/ failures' = failures + 1
  BY <1>5 DEF IssueStep, Issue!Step, Issue!Fail, Issue!Load, Issue!Find, Issue!Adopt,
     Issue!MarkValidating, Issue!MarkVerified, Issue!Resolve, Issue!Reserve, Issue!Build,
     Issue!Save, Issue!SaveIndex, Issue!Finish, Issue!Recheck, Issue!SaveQr,
     Issue!Compare, Issue!issueVars, Issue!KeepLocals, Issue!Continue, Issue!NextAttempt,
     Issue!DidNotConverge, Issue!End
<1>6. ASSUME NEW c \in Workers,
             \/ Deliver(c) \/ CallIngest(c) \/ EndIngest(c) \/ CallIssue(c) \/ EndIssue(c)
      PROVE  UNCHANGED failures
  BY <1>6 DEF Deliver, CallIngest, EndIngest, CallIssue, EndIssue, Tele!Receive,
     Ingest!Receive, Issue!Receive
<1>7. CASE Expire \/ UNCHANGED vars
  BY <1>7 DEF Expire, Ingest!Expire, vars
<1>. QED
  BY <1>1, <1>2, <1>3, <1>4, <1>5, <1>6, <1>7 DEF Next, Serve

\* An issued session has its Proof; a request that failed without a fault gave
\* up before its command was out; and with one worker nothing is rejected once
\* a manifest is stored.
Rejecting == {"check", "fail_load", "fail_save"}
GivingUp == {"fail_load", "fail_save"}
IssuedInv ==
    /\ session.status = "proof_issued" => proofs # {}
    /\ failures = 0 /\ startPc \in GivingUp => ~commanded
    /\ \A c \in Workers : ingestPc[c] \in Rejecting => manifest = NoManifest

\* start_session gives up an unfailed request before the command is sent.
LEMMA GivesUpEarly ==
    ASSUME CloudInv, [Next]_vars, failures = 0 /\ startPc \in GivingUp => ~commanded
    PROVE  (failures = 0 /\ startPc \in GivingUp => ~commanded)'
<1>. SUFFICES ASSUME failures' = 0, startPc' \in GivingUp
              PROVE  ~commanded'
  OBVIOUS
<1>1. failures = 0
  BY FailuresGrow
<1>2. StartInv
  BY InvParts
<1>3. CASE StartSession
  <2>1. ASSUME Start!Unavailable PROVE FALSE
    BY <1>1, <2>1 DEF Start!Unavailable
  <2>2. CASE startPc \in GivingUp
    <3>1. UNCHANGED commanded
      BY <1>3, <2>1, <2>2 DEF StartSession, Start!Step, Start!CreateFails, Start!Fail,
         Start!Create, Start!Targets, Start!Challenge, Start!Waiting, Start!Dispatch,
         Start!Dispatched, Start!FailLoad, Start!FailSave, GivingUp
    <3>. QED
      BY <1>1, <2>2, <3>1
  <2>3. CASE startPc \notin GivingUp
    <3>1. startPc = "waiting" /\ UNCHANGED commanded
      BY <1>3, <2>1, <2>3 DEF StartSession, Start!Step, Start!CreateFails, Start!Fail,
         Start!Create, Start!Targets, Start!Challenge, Start!Waiting, Start!Dispatch,
         Start!Dispatched, Start!FailLoad, Start!FailSave, Start!End, Start!Compares,
         GivingUp
    <3>. QED
      BY <1>2, <3>1 DEF StartInv
  <2>. QED
    BY <2>2, <2>3
<1>4. CASE ~StartSession
  <2>1. UNCHANGED <<startPc, commanded>>
    BY <1>4 DEF Next, Serve, Expire, ProcessStatus, IngestStep, IssueStep, Deliver,
       CallIngest, EndIngest, CallIssue, EndIssue, startV, vars
  <2>. QED
    BY <1>1, <2>1
<1>. QED
  BY <1>3, <1>4

\* One worker alone decides what becomes of a manifest.
LEMMA RejectsAlone ==
    ASSUME CloudInv, [Next]_vars, \A c, d \in Workers : c = d,
           \A c \in Workers : ingestPc[c] \in Rejecting => manifest = NoManifest
    PROVE  \A c \in Workers : ingestPc'[c] \in Rejecting => manifest' = NoManifest
<1>. SUFFICES ASSUME NEW c \in Workers, ingestPc'[c] \in Rejecting
              PROVE  manifest' = NoManifest
  OBVIOUS
<1>1. ingestPc \in [Workers -> Ingest!Steps]
  BY CallFinds DEF IngestTypes
<1>2. CASE IngestStep(c)
  <2>1. CASE Ingest!Existing(c)
    BY <1>1, <2>1 DEF Ingest!Existing, Ingest!End, Ingest!Answer, Ingest!Goto,
       Ingest!storeVars, Rejecting
  <2>2. CASE Ingest!Check(c) \/ Ingest!FailLoad(c) \/ Ingest!FailSave(c)
    BY <1>1, <2>2 DEF Ingest!Check, Ingest!FailLoad, Ingest!FailSave, Ingest!storeVars,
       Rejecting
  <2>3. CASE ~(Ingest!Existing(c) \/ Ingest!Check(c) \/ Ingest!FailLoad(c)
               \/ Ingest!FailSave(c))
    <3>1. ~Ingest!Compares(c)
      BY SystemParameters, IngestStore DEF Ingest!Compares
    <3>2. ~Ingest!SaveManifest(c)
      <4>1. ingestPc[c] = "save" =>
              Ingest!AfterManifest(snap[c].status) \in {"waiting", "capturing", "uploaded"}
        BY CallFinds DEF IngestInv, Ingest!Accepting, Ingest!AfterManifest
      <4>. QED
        BY <1>1, <4>1 DEF Ingest!SaveManifest, Ingest!End, Ingest!Answer, Ingest!Goto,
           Rejecting
    <3>. QED
      BY <1>1, <1>2, <2>3, <3>1, <3>2 DEF IngestStep, Ingest!Step, Ingest!Fail, Ingest!Load,
         Ingest!FailResult, Ingest!ToWaiting, Ingest!ToCapturing, Ingest!ToUploaded,
         Ingest!SaveResult, Ingest!Recheck, Ingest!Advance, Ingest!End, Ingest!Answer,
         Ingest!Goto, Rejecting
  <2>. QED
    BY <2>1, <2>2, <2>3
<1>3. CASE CallIngest(c) \/ EndIngest(c)
  BY <1>1, <1>3 DEF CallIngest, EndIngest, Ingest!Receive, Ingest!Goto, Rejecting
<1>4. CASE ~(IngestStep(c) \/ CallIngest(c) \/ EndIngest(c))
  <2>1. UNCHANGED ingestPc
    BY <1>4 DEF Next, Serve, StartSession, Expire, Ingest!Expire, ProcessStatus, IssueStep,
       Deliver, CallIssue, EndIssue, ingestV, vars
  <2>2. UNCHANGED manifest
    <3>1. CASE StartSession \/ Expire \/ \E d \in Workers : Serve(d)
      BY <1>4, <2>1, <3>1, CloudSide DEF Rejecting
    <3>2. CASE (\E d \in Workers : Deliver(d)) \/ UNCHANGED vars
      BY <3>2 DEF Deliver, Tele!Receive, Tele!storeVars, vars, storeVars
    <3>. QED
      BY <3>1, <3>2 DEF Next
  <2>. QED
    BY <2>1, <2>2
<1>. QED
  BY <1>2, <1>3, <1>4

LEMMA IssuedInvStep ==
    ASSUME StatusAttempts > 1, \A c, d \in Workers : c = d, CloudInv, IssuedInv, [Next]_vars
    PROVE  IssuedInv'
<1>1. session'.status = "proof_issued" => proofs' # {}
  <2>1. proofs \subseteq proofs'
    BY SystemParameters, CloudInvStep DEF Moves, vars, storeVars
  <2>2. session' = session \/ session'.status # "proof_issued" \/ proofs # {}
    BY NextWrote DEF Wrote, Rests
  <2>. QED
    BY <2>1, <2>2 DEF IssuedInv
<1>2. (failures = 0 /\ startPc \in GivingUp => ~commanded)'
  BY GivesUpEarly DEF IssuedInv
<1>3. \A c \in Workers : ingestPc'[c] \in Rejecting => manifest' = NoManifest
  BY RejectsAlone DEF IssuedInv
<1>. QED
  BY <1>1, <1>2, <1>3 DEF IssuedInv

\* What would fail an issued session does not happen: its command is out, its
\* manifest is stored, and a device that nothing but crashes befell has not
\* reported a failure, for it has handed in.
LEMMA IssuedIsKept ==
    ASSUME StatusAttempts > 1, SystemInv, IssuedInv, [Next]_vars,
           session.status = "proof_issued", OnlyCrashes
    PROVE  session'.status = "proof_issued"
<1>1. CloudInv /\ proofs # {}
  BY DEF SystemInv, IssuedInv
<1>2. manifest # NoManifest /\ Agent!HandedIn # {}
  BY <1>1, HandInIsBehind
<1>3. ~(startPc = "fail_save")
  <2>1. commanded
    BY <1>2 DEF SystemInv, LinkInv, Agent!HandedIn
  <2>. QED
    BY <2>1 DEF IssuedInv, OnlyCrashes, GivingUp
<1>4. ASSUME NEW c \in Workers PROVE message[c].kind # "failed"
  <2>1. folder = "whole"
    BY <1>2, SameHandIn DEF SystemInv, Device!AgentInv, Device!UploadsTheCapture
  <2>2. Agent!StatusMessage("failed") \notin sent
    BY <2>1 DEF SystemInv, Device!AgentInv, Device!ComplainsOfNoManifest, OnlyCrashes,
       Device!StatusMessage, Agent!StatusMessage
  <2>. QED
    BY <2>2 DEF SystemInv, LinkInv
<1>5. ASSUME NEW c \in Workers PROVE ingestPc[c] # "fail_save"
  BY <1>2 DEF IssuedInv, Rejecting
<1>6. session'.status \in {"proof_issued", "failed"}
  <2>1. Moves \/ UNCHANGED session
    BY <1>1, SystemParameters, CloudInvStep DEF vars, storeVars
  <2>2. CASE Moves
    <3>1. session'.status \in Statuses /\ Rank[session'.status] \in 0 .. 9
      BY <2>2, Ranks DEF Moves, StoreTypes, Session
    <3>2. UNCHANGED session \/ Rank[session'.status] >= 8
      BY <2>2, Ranks DEF Moves, Rests, Grows
    <3>3. \A s \in Statuses : Rank[s] >= 8 => s \in {"proof_issued", "failed"}
      BY DEF Rank, Statuses
    <3>. QED
      BY <3>1, <3>2, <3>3
  <2>. QED
    BY <2>1, <2>2
<1>. QED
  BY <1>1, <1>3, <1>4, <1>5, <1>6, NextWrote DEF Wrote, Rests

\* Whose Proof is issued stays issued although its command and its messages
\* come again, in any order: as long as nothing fails but the device as a whole,
\* and the trigger has one worker.
THEOREM IssuedStaysHolds ==
    ASSUME StatusAttempts > 1, \A c, d \in Workers : c = d
    PROVE  SystemSpec => IssuedStays
<1>1. SystemInit => IssuedInv
  BY DEF SystemInit, Init, Start!Init, Start!BlankSession, IssuedInv, GivingUp, Rejecting
<1>2. SystemInv /\ IssuedInv /\ [SystemNext]_systemVars => IssuedInv'
  BY CloudSteps, IssuedInvStep DEF SystemInv
<1>3. SystemInv /\ IssuedInv /\ [SystemNext]_systemVars =>
        [session.status = "proof_issued" /\ OnlyCrashes =>
           session'.status = "proof_issued"]_systemVars
  BY CloudSteps, IssuedIsKept
<1>. QED
  BY <1>1, <1>2, <1>3, SystemInvHolds, PTL DEF SystemSpec, IssuedStays

-----------------------------------------------------------------------------
\* One Proof, whichever handlers interleave

\* Every reservation there is, stored, held, worked under or published, is id.
Bound(id) ==
    /\ session.proof \in {NoId, id}
    /\ \A d \in Calls : snap[d].proof \in {NoId, id}
    /\ \A d \in Workers :
         /\ issuePc[d] = "build" => cand[d].id \in {NoId, id}
         /\ issuePc[d] \in Issue!Building => built[d].id \in {NoId, id}
    /\ \A p \in proofs : p.id = id

\* A session that was reserved reads so, or has failed.
Unclaimed == session.proof = NoId /\ session.status # "failed"

BoundInv ==
    /\ \E id \in ProofIds \cup {NoId} : Bound(id)
    /\ Unclaimed => Bound(NoId)
    /\ OneProof

\* A step passes on the reservations it finds ...
SnapFlow ==
    \A d \in Calls :
        snap'[d].proof \in {NoId, snap[d].proof, session.proof, session'.proof}

SessionFlow ==
    \/ session'.proof \in {NoId, session.proof}
    \/ \E d \in Calls : session'.proof = snap[d].proof

IssueFlow ==
    /\ \A d \in Workers :
         /\ issuePc'[d] = "build" =>
              \/ cand'[d].id \in {session'.proof, snap[d].proof}
              \/ issuePc[d] = "build" /\ cand'[d].id = cand[d].id
         /\ issuePc'[d] \in Issue!Building =>
              \/ issuePc[d] \in Issue!Building /\ built'[d].id = built[d].id
              \/ issuePc[d] = "build" /\ built'[d].id = cand[d].id
    /\ \/ UNCHANGED proofs
       \/ \E d \in Workers :
            /\ issuePc[d] = "save" /\ ~Stored(built[d].id)
            /\ proofs' = proofs \cup {built[d]}

\* ... or makes the session's first.
Claims == Unclaimed /\ session'.proof # NoId /\ UNCHANGED proofs

LEMMA SnapFlows ==
    ASSUME HeldTypes, NEW c \in Calls, NEW s,
           \/ UNCHANGED snap \/ DropRecord(c) \/ LoadSession(c)
           \/ HoldReplaced(c, s) /\ session' = s
    PROVE  SnapFlow
BY DEF HeldTypes, DropRecord, LoadSession, HoldReplaced, BlankSession, SnapFlow

LEMMA IssueRests == ASSUME UNCHANGED <<issueV, proofs>> PROVE IssueFlow
BY DEF issueV, IssueFlow

LEMMA StartFlows ==
    ASSUME CloudInv, StartSession
    PROVE  SnapFlow /\ SessionFlow /\ IssueFlow
<1>1. /\ UseIotHub /\ HeldTypes /\ Starter \in Calls /\ snap[Starter] \in Session
      /\ Start!c = Starter
  BY SystemParameters, StartFinds, InvParts, WorkersCall DEF Start!c
<1>2. IssueFlow
  BY IssueRests DEF StartSession, Start!Step, Start!CreateFails, Start!Fail, Start!Targets,
     Start!Dispatch, Start!Dispatched, Start!FailLoad, Start!Create, Start!Challenge,
     Start!Waiting, Start!FailSave, Start!storeVars, Start!NoOtherRecord
<1>3. CASE \/ Start!CreateFails \/ Start!Fail \/ Start!Targets \/ Start!Dispatch
           \/ Start!Dispatched \/ Start!FailLoad
  <2>1. UNCHANGED session /\ (UNCHANGED snap \/ DropRecord(Starter))
    BY <1>1, <1>3, StartStore DEF Start!CreateFails, Start!Fail, Start!Targets,
       Start!Dispatch, Start!Dispatched, Start!FailLoad, Start!End, Start!storeVars,
       Start!clientVars
  <2>. QED
    BY <1>1, <1>2, <2>1, SnapFlows DEF SessionFlow
<1>4. CASE Start!Create
  <2>1. session' = BlankSession /\ HoldReplaced(Starter, BlankSession)
    BY <1>1, <1>4, StartStore DEF Start!Create
  <2>. QED
    BY <1>1, <1>2, <2>1, SnapFlows DEF SessionFlow, BlankSession
<1>5. CASE Start!Challenge \/ Start!Waiting \/ Start!FailSave
  <2>1. ASSUME NEW status,
               \/ Start!ReplaceSession(Starter, Start!WithStatus(status))
               \/ Start!ReplaceConflicts(Starter, Start!WithStatus(status))
        PROVE  SessionFlow /\ (Rests \/ session' = Start!WithStatus(status))
    <3>1. Start!WithStatus(status).proof = snap[Starter].proof
      BY <1>1 DEF Start!WithStatus, Session
    <3>2. Rests \/ session' = Start!WithStatus(status)
      BY <1>1, <2>1, StartStore DEF Writes
    <3>. QED
      BY <1>1, <3>1, <3>2 DEF SessionFlow, Rests
  <2>2. ~Start!Compares
    BY <1>1, StartStore DEF Start!Compares
  <2>3. \/ UNCHANGED <<session, clientVars>>
        \/ \E status \in {"challenge_issued", "waiting_device", "failed"} :
             \/ /\ Start!ReplaceSession(Starter, Start!WithStatus(status))
                /\ HoldReplaced(Starter, Start!WithStatus(status)) \/ DropRecord(Starter)
             \/ /\ Start!ReplaceConflicts(Starter, Start!WithStatus(status))
                /\ DropRecord(Starter) \/ UNCHANGED clientVars
    BY <1>1, <1>5, <2>2, StartStore DEF Start!Challenge, Start!Waiting, Start!FailSave,
       Start!End, Start!clientVars, clientVars
  <2>4. CASE UNCHANGED <<session, clientVars>>
    BY <1>1, <1>2, <2>4, SnapFlows DEF SessionFlow, clientVars
  <2>5. ASSUME NEW status,
               Start!ReplaceSession(Starter, Start!WithStatus(status)),
               HoldReplaced(Starter, Start!WithStatus(status))
        PROVE  SnapFlow
    <3>1. session' = Start!WithStatus(status)
      BY <1>1, <2>5, StartStore DEF Writes
    <3>. QED
      BY <1>1, <2>5, <3>1, SnapFlows
  <2>. QED
    BY <1>1, <1>2, <2>1, <2>3, <2>4, <2>5, SnapFlows DEF clientVars
<1>. QED
  BY <1>3, <1>4, <1>5 DEF StartSession, Start!Step

LEMMA StatusFlows ==
    ASSUME CloudInv, NEW c \in Workers, ProcessStatus(c)
    PROVE  SnapFlow /\ SessionFlow /\ IssueFlow
<1>1. UseIotHub /\ HeldTypes /\ c \in Calls /\ snap[c] \in Session
  BY SystemParameters, InvParts, WorkersCall
<1>2. IssueFlow
  BY IssueRests DEF ProcessStatus, Tele!Step, Tele!Load, Tele!Replace, Tele!Fail, Tele!storeVars
<1>3. UNCHANGED snap \/ DropRecord(c) \/ LoadSession(c)
  BY <1>1, TeleStore DEF ProcessStatus, Tele!Step, Tele!Load, Tele!Replace, Tele!Fail,
     Tele!Settled, Tele!End, Tele!NextRound
<1>4. SnapFlow
  BY <1>1, <1>3, SnapFlows
<1>5. SessionFlow
  <2>1. CASE Tele!Replace(c)
    <3>. DEFINE s == [snap[c] EXCEPT !.status = Tele!Target(c)]
    <3>1. s.proof = snap[c].proof
      BY <1>1 DEF Session
    <3>2. Tele!ReplaceSession(c, s) \/ Tele!ReplaceConflicts(c, s)
      BY <2>1 DEF Tele!Replace
    <3>. HIDE DEF s
    <3>. QED
      BY <1>1, <3>1, <3>2, TeleStore DEF Writes, Rests, SessionFlow
  <2>2. CASE ~Tele!Replace(c)
    BY <2>2 DEF ProcessStatus, Tele!Step, Tele!Load, Tele!Fail, Tele!storeVars, SessionFlow
  <2>. QED
    BY <2>1, <2>2
<1>. QED
  BY <1>2, <1>4, <1>5

LEMMA IngestFlows ==
    ASSUME CloudInv, NEW c \in Workers, IngestStep(c)
    PROVE  SnapFlow /\ SessionFlow /\ IssueFlow
<1>1. UseIotHub /\ HeldTypes /\ c \in Calls /\ snap[c] \in Session
  BY SystemParameters, InvParts, WorkersCall
<1>2. IssueFlow
  BY IssueRests DEF IngestStep, Ingest!Step, Ingest!Fail, Ingest!Load, Ingest!Existing,
     Ingest!Check, Ingest!FailLoad, Ingest!FailSave, Ingest!FailResult, Ingest!SaveManifest,
     Ingest!ToWaiting, Ingest!ToCapturing, Ingest!ToUploaded, Ingest!SaveResult,
     Ingest!Recheck, Ingest!storeVars
<1>3. CASE Ingest!FailSave(c) \/ Ingest!ToWaiting(c) \/ Ingest!ToCapturing(c)
           \/ Ingest!ToUploaded(c)
  <2>0. ~Ingest!Compares(c)
    BY <1>1, IngestStore DEF Ingest!Compares
  <2>1. PICK status \in {"failed", "waiting_device", "capturing", "evidence_uploaded"} :
           \/ /\ Ingest!ReplaceSession(c, Ingest!WithStatus(c, status))
              /\ HoldReplaced(c, Ingest!WithStatus(c, status)) \/ DropRecord(c)
           \/ /\ Ingest!ReplaceConflicts(c, Ingest!WithStatus(c, status))
              /\ DropRecord(c)
           \/ /\ Ingest!EtagCurrent(c) /\ Ingest!Put(Ingest!WithStatus(c, status))
              /\ UNCHANGED snap
    BY <1>1, <1>3, <2>0, OnAzure, IngestStore DEF Ingest!FailSave, Ingest!ToWaiting,
       Ingest!ToCapturing, Ingest!ToUploaded, Ingest!Advance, Ingest!End, Ingest!clientVars
  <2>. DEFINE s == Ingest!WithStatus(c, status)
  <2>2. s.proof = snap[c].proof
    BY <1>1 DEF Ingest!WithStatus, Session
  <2>. HIDE DEF s
  <2>3. Rests \/ session' = s
    BY <1>1, <2>1, IngestStore DEF Writes, s
  <2>4. Ingest!ReplaceSession(c, s) => session' = s
    BY <1>1, IngestStore DEF Writes
  <2>5. SessionFlow
    BY <1>1, <2>2, <2>3 DEF Rests, SessionFlow
  <2>6. SnapFlow
    BY <1>1, <2>1, <2>4, SnapFlows DEF s
  <2>. QED
    BY <1>2, <2>5, <2>6
<1>4. CASE ~(Ingest!FailSave(c) \/ Ingest!ToWaiting(c) \/ Ingest!ToCapturing(c)
             \/ Ingest!ToUploaded(c))
  <2>1. UNCHANGED session /\ (UNCHANGED snap \/ DropRecord(c) \/ LoadSession(c))
    BY <1>1, <1>4, IngestStore DEF IngestStep, Ingest!Step, Ingest!Fail, Ingest!Load,
       Ingest!Existing, Ingest!Check, Ingest!FailLoad, Ingest!FailResult,
       Ingest!SaveManifest, Ingest!SaveResult, Ingest!Recheck, Ingest!End,
       Ingest!storeVars, Ingest!clientVars
  <2>. QED
    BY <1>1, <1>2, <2>1, SnapFlows DEF SessionFlow
<1>. QED
  BY <1>3, <1>4

\* What a request of issue_proof passes on itself.
LEMMA OwnFlow ==
    ASSUME NEW c \in Workers, IssueOthers(c), UNCHANGED proofs,
           issuePc'[c] = "build" => cand'[c].id \in {session'.proof, snap[c].proof},
           issuePc'[c] \in Issue!Building =>
             \/ issuePc[c] \in Issue!Building /\ built'[c].id = built[c].id
             \/ issuePc[c] = "build" /\ built'[c].id = cand[c].id
    PROVE  IssueFlow
BY DEF IssueOthers, IssueFlow

\* A write that keeps the reservation the request holds.
LEMMA IssueMarksFlow ==
    ASSUME CloudInv, NEW c \in Workers,
           \/ Issue!Adopt(c) \/ Issue!MarkValidating(c) \/ Issue!MarkVerified(c)
           \/ Issue!Finish(c)
    PROVE  SnapFlow /\ SessionFlow /\ IssueFlow
<1>1. /\ UseIotHub /\ HeldTypes /\ c \in Calls /\ snap[c] \in Session /\ IssueTypes
      /\ IssueServed(c)
  BY SystemParameters, InvParts, WorkersCall, IssueServes DEF Issue!Step, Types
<1>2. PICK status \in {"validating", "verified", "proof_issued"} :
        LET s == [snap[c] EXCEPT !.status = status] IN
        /\ Issue!ReplaceSession(c, s) \/ Issue!ReplaceConflicts(c, s)
        /\ \/ Issue!ReplaceSession(c, s) /\ HoldReplaced(c, s)
           \/ DropRecord(c)
  BY <1>1, IssueStore DEF Issue!Adopt, Issue!MarkValidating, Issue!MarkVerified,
     Issue!Finish, Issue!ValidatingOf, Issue!VerifiedOf, Issue!IssuedOf, Issue!End,
     Issue!Continue, Issue!NextAttempt, Issue!DidNotConverge
<1>. DEFINE s == [snap[c] EXCEPT !.status = status]
<1>3. s.proof = snap[c].proof
  BY <1>1 DEF Session
<1>4. /\ Issue!ReplaceSession(c, s) \/ Issue!ReplaceConflicts(c, s)
      /\ (Issue!ReplaceSession(c, s) /\ HoldReplaced(c, s)) \/ DropRecord(c)
  BY <1>2
<1>. HIDE DEF s
<1>5. SessionFlow
  BY <1>1, <1>3, <1>4, IssueStore DEF Writes, Rests, SessionFlow
<1>6. SnapFlow
  BY <1>1, <1>4, IssueStore, SnapFlows DEF Writes
<1>7. UNCHANGED proofs
  BY DEF Issue!Adopt, Issue!MarkValidating, Issue!MarkVerified, Issue!Finish
<1>8. /\ issuePc'[c] # "build"
      /\ issuePc'[c] \in Issue!Building => issuePc[c] = "finish" /\ UNCHANGED built
  BY <1>1 DEF IssueTypes, Issue!Adopt, Issue!MarkValidating, Issue!MarkVerified,
     Issue!Finish, Issue!Goto, Issue!KeepLocals, Issue!End, Issue!Continue,
     Issue!NextAttempt, Issue!DidNotConverge, Issue!Building
<1>9. IssueFlow
  BY <1>1, <1>7, <1>8, OwnFlow DEF IssueServed, Issue!Building
<1>. QED
  BY <1>5, <1>6, <1>9

\* The reservation is written over a session that holds none, or not at all.
LEMMA IssueReservesFlow ==
    ASSUME CloudInv, NEW c \in Workers, Issue!Reserve(c)
    PROVE  SnapFlow /\ IssueFlow /\ (SessionFlow \/ Claims)
<1>. DEFINE s == Issue!ReservedOf(c)
<1>1. /\ UseIotHub /\ HeldTypes /\ c \in Calls /\ snap[c] \in Session /\ IssueTypes
      /\ IssueServed(c) /\ IssueInv(c)
  BY SystemParameters, InvParts, WorkersCall, IssueServes DEF Issue!Step, Types
<1>2. issuePc[c] = "reserve" /\ UNCHANGED proofs
  BY DEF Issue!Reserve
<1>3. /\ Current(c) /\ snap[c].proof = NoId /\ snap[c].status = "verified"
      /\ cand[c].id # NoId
  BY <1>1, <1>2 DEF IssueInv, Issue!Holding, Issue!ReplaceSteps
<1>4. s.proof = cand[c].id
  BY <1>1 DEF Issue!ReservedOf, Session
<1>5. /\ Issue!ReplaceSession(c, s) \/ Issue!ReplaceConflicts(c, s)
      /\ \/ /\ Issue!ReplaceSession(c, s) /\ HoldReplaced(c, s)
            /\ Issue!Goto(c, "build") /\ Issue!KeepLocals
         \/ DropRecord(c) /\ Issue!Continue(c)
  BY <1>1, IssueStore DEF Issue!Reserve, Issue!End, Issue!Continue, Issue!NextAttempt,
     Issue!DidNotConverge
<1>. HIDE DEF s
<1>6. Writes(c, s) \/ Rests
  BY <1>1, <1>5, IssueStore
<1>7. Writes(c, s) => Claims
  BY <1>2, <1>3, <1>4 DEF Writes, Current, Claims, Unclaimed
<1>8. SessionFlow \/ Claims
  BY <1>6, <1>7 DEF Rests, SessionFlow
<1>9. Issue!ReplaceSession(c, s) => session' = s
  BY <1>1, IssueStore DEF Writes
<1>10. SnapFlow
  BY <1>1, <1>5, <1>9, SnapFlows
<1>11. IssueFlow
  <2>1. CASE Issue!Continue(c)
    <3>1. issuePc'[c] \in {"load", "done"}
      BY <1>1, <2>1 DEF IssueTypes, Issue!Continue, Issue!NextAttempt,
         Issue!DidNotConverge, Issue!End, Issue!Goto
    <3>. QED
      BY <1>1, <1>2, <3>1, OwnFlow DEF IssueServed, Issue!Building
  <2>2. CASE Issue!ReplaceSession(c, s) /\ Issue!Goto(c, "build") /\ Issue!KeepLocals
    <3>1. issuePc'[c] = "build" /\ cand'[c] = cand[c]
      BY <1>1, <2>2 DEF IssueTypes, Issue!Goto, Issue!KeepLocals
    <3>. QED
      BY <1>1, <1>2, <1>4, <1>9, <2>2, <3>1, OwnFlow DEF IssueServed, Issue!Building
  <2>. QED
    BY <1>5, <2>1, <2>2
<1>. QED
  BY <1>8, <1>10, <1>11

\* The other steps of a request leave the session alone.
LEMMA IssueReadsFlow ==
    ASSUME CloudInv, NEW c \in Workers,
           \/ Issue!Load(c) \/ Issue!Find(c) \/ Issue!Resolve(c) \/ Issue!Build(c)
           \/ Issue!SaveIndex(c) \/ Issue!Recheck(c) \/ Issue!SaveQr(c) \/ Issue!Fail(c)
    PROVE  SnapFlow /\ SessionFlow /\ IssueFlow
<1>1. /\ UseIotHub /\ HeldTypes /\ c \in Calls /\ IssueTypes /\ IssueServed(c)
  BY SystemParameters, InvParts, WorkersCall, IssueServes, IssueFails DEF Issue!Step, Types
<1>2. UNCHANGED <<session, proofs>>
  BY DEF Issue!Load, Issue!Find, Issue!Resolve, Issue!Build, Issue!SaveIndex,
     Issue!Recheck, Issue!SaveQr, Issue!Fail, Issue!storeVars
<1>3. UNCHANGED snap \/ DropRecord(c) \/ LoadSession(c)
  BY <1>1, IssueStore DEF Issue!Load, Issue!Find, Issue!Resolve, Issue!Build,
     Issue!SaveIndex, Issue!Recheck, Issue!SaveQr, Issue!Fail, Issue!End, Issue!Continue,
     Issue!NextAttempt, Issue!DidNotConverge, Issue!clientVars
<1>4. issuePc'[c] = "build" => cand'[c].id \in {session'.proof, snap[c].proof}
  BY <1>1 DEF IssueTypes, Issue!Load, Issue!AfterLoad, Issue!Find, Issue!Resolve,
     Issue!Build, Issue!SaveIndex, Issue!Recheck, Issue!SaveQr, Issue!Fail, Issue!End,
     Issue!Continue, Issue!NextAttempt, Issue!DidNotConverge, Issue!Goto, Issue!TakenOver
<1>5. CASE Issue!Build(c)
  <2>1. \/ issuePc'[c] = "done"
        \/ issuePc[c] = "build" /\ issuePc'[c] = "save" /\ built'[c].id = cand[c].id
    BY <1>1, <1>5 DEF Issue!Build, Issue!End, Issue!Goto, IssueTypes
  <2>2. IssueFlow
    BY <1>1, <1>2, <2>1, OwnFlow DEF IssueServed, Issue!Building
  <2>. QED
    BY <1>1, <1>2, <1>3, <2>2, SnapFlows DEF SessionFlow
<1>6. CASE ~Issue!Build(c)
  <2>1. issuePc'[c] \in Issue!Building =>
          issuePc[c] \in Issue!Building /\ built'[c] = built[c]
    BY <1>1, <1>6 DEF IssueTypes, Issue!Load, Issue!AfterLoad, Issue!Find, Issue!Resolve,
       Issue!SaveIndex, Issue!Recheck, Issue!SaveQr, Issue!Fail, Issue!End,
       Issue!Continue, Issue!NextAttempt, Issue!DidNotConverge, Issue!Goto,
       Issue!KeepLocals, Issue!Building
  <2>. QED
    BY <1>1, <1>2, <1>3, <1>4, <2>1, OwnFlow, SnapFlows DEF SessionFlow, IssueServed
<1>. QED
  BY <1>5, <1>6

\* save_proof's blob is created only where there is none.
LEMMA IssueSavesFlow ==
    ASSUME CloudInv, NEW c \in Workers, Issue!Save(c)
    PROVE  SnapFlow /\ SessionFlow /\ IssueFlow
<1>1. /\ UseIotHub /\ HeldTypes /\ c \in Calls /\ IssueTypes /\ IssueServed(c)
      /\ IssueInv(c) /\ Backend = "azure"
  BY SystemParameters, InvParts, WorkersCall, IssueServes, OnAzure DEF Issue!Step, Types
<1>2. issuePc[c] = "save" /\ UNCHANGED session
  BY DEF Issue!Save
<1>3. UNCHANGED snap \/ DropRecord(c)
  BY <1>1, IssueStore DEF Issue!Save, Issue!End, Issue!clientVars
<1>4. SnapFlow /\ SessionFlow
  BY <1>1, <1>2, <1>3, SnapFlows DEF SessionFlow
<1>5. issuePc'[c] # "build"
  BY <1>1 DEF Issue!Save, Issue!End, Issue!Goto, IssueTypes
<1>6. issuePc'[c] \in Issue!Building => built'[c].id = built[c].id
  <2>1. ASSUME Issue!ProofConflicts(built[c])
        PROVE  Issue!StoredProof(built[c].id).id = built[c].id
    BY <2>1 DEF Issue!ProofConflicts, Issue!Stored, Issue!StoredProof
  <2>2. \/ UNCHANGED built
        \/ /\ Issue!ProofConflicts(built[c])
           /\ built' = [built EXCEPT ![c] = Issue!StoredProof(built[c].id)]
        \/ issuePc'[c] = "done"
    BY <1>1 DEF Issue!Save, Issue!End, Issue!Goto, Issue!KeepLocals, IssueTypes
  <2>. QED
    BY <1>1, <2>1, <2>2 DEF IssueTypes, Issue!Building
<1>7. UNCHANGED proofs \/ (~Stored(built[c].id) /\ proofs' = proofs \cup {built[c]})
  <2>1. CASE ~Issue!ProofConflicts(built[c]) /\ Issue!WriteProof(built[c])
    <3>1. proofs' = proofs \cup {built[c]}
      BY <1>1, <2>1 DEF Issue!WriteProof
    <3>2. Stored(built[c].id) => built[c] \in proofs
      BY <1>1, <2>1, SameStored DEF Issue!ProofConflicts
    <3>. QED
      BY <3>1, <3>2
  <2>. QED
    BY <2>1 DEF Issue!Save
<1>8. IssueFlow
  BY <1>1, <1>2, <1>5, <1>6, <1>7 DEF IssueServed, IssueOthers, IssueFlow, Issue!Building
<1>. QED
  BY <1>4, <1>8

LEMMA IssueFlows ==
    ASSUME CloudInv, NEW c \in Workers, IssueStep(c)
    PROVE  SnapFlow /\ IssueFlow /\ (SessionFlow \/ Claims)
<1>1. ~Issue!Compare(c)
  BY SystemParameters, IssueStore DEF Issue!Compare
<1>. QED
  BY <1>1, IssueMarksFlow, IssueReservesFlow, IssueReadsFlow, IssueSavesFlow
     DEF IssueStep, Issue!Step

\* Calling, returning, delivering and expiring touch no reservation.
LEMMA CallFlows ==
    ASSUME CloudInv, NEW c \in Workers,
           Deliver(c) \/ CallIngest(c) \/ EndIngest(c) \/ CallIssue(c) \/ EndIssue(c)
    PROVE  SnapFlow /\ SessionFlow /\ IssueFlow
<1>1. UseIotHub /\ HeldTypes /\ c \in Calls /\ IssueTypes
  BY SystemParameters, InvParts, WorkersCall DEF Types
<1>2. UNCHANGED <<session, proofs>>
  BY DEF Deliver, CallIngest, EndIngest, CallIssue, EndIssue, Tele!Receive,
     Ingest!Receive, Issue!Receive, storeVars, Tele!storeVars, Ingest!storeVars,
     Issue!storeVars
<1>3. UNCHANGED snap \/ DropRecord(c)
  BY <1>1, TeleStore DEF Deliver, CallIngest, EndIngest, CallIssue, EndIssue,
     Tele!Receive, Ingest!Receive, Issue!Receive, Tele!clientVars, Ingest!clientVars,
     Issue!clientVars, Tele!IngestReturns, Tele!IssueReturns, Tele!End, Tele!Goto
<1>4. \/ UNCHANGED <<issuePc, cand, built>>
      \/ \E next \in {"load", "idle"} :
           issuePc' = [issuePc EXCEPT ![c] = next] /\ UNCHANGED <<cand, built>>
  BY DEF Deliver, CallIngest, EndIngest, CallIssue, EndIssue, Issue!Receive, Issue!Goto, issueV
<1>5. IssueFlow
  BY <1>1, <1>2, <1>4 DEF IssueFlow, IssueTypes, Issue!Building
<1>. QED
  BY <1>1, <1>2, <1>3, <1>5, SnapFlows DEF SessionFlow

LEMMA NextFlows ==
    ASSUME CloudInv, Next
    PROVE  SnapFlow /\ IssueFlow /\ (SessionFlow \/ Claims)
<1>1. CASE Expire
  BY <1>1, InvParts, WorkersCall, SnapFlows, IssueRests
     DEF Expire, Ingest!Expire, Ingest!storeVars, Ingest!clientVars, SessionFlow
<1>. QED
  BY <1>1, StartFlows, StatusFlows, IngestFlows, IssueFlows, CallFlows DEF Next, Serve

\* Under one reservation a step finds no other.
LEMMA BoundStays ==
    ASSUME CloudInv, Moves, NEW old, NEW id, Bound(old), SnapFlow, IssueFlow,
           old \in {NoId, id}, session'.proof \in {NoId, id}
    PROVE  Bound(id)' /\ (UNCHANGED proofs \/ \E p : proofs = {} /\ proofs' = {p})
<1>1. IssueTypes /\ \A d \in Workers : IssueInv(d) /\ d \in Calls
  BY InvParts, WorkersCall DEF Types
<1>2. proofs \subseteq Proof /\ proofs' \subseteq Proof
  BY InvParts DEF StoreTypes, Moves
<1>3. \A p \in Proof : p.id # NoId
  BY StoreConstants DEF Proof
<1>4. \A d \in Calls : snap'[d].proof \in {NoId, id}
  BY DEF Bound, SnapFlow
<1>5. ASSUME NEW d \in Workers
      PROVE  /\ issuePc'[d] = "build" => cand'[d].id \in {NoId, id}
             /\ issuePc'[d] \in Issue!Building => built'[d].id \in {NoId, id}
  BY <1>1 DEF Bound, IssueFlow
<1>6. CASE UNCHANGED proofs
  BY <1>2, <1>3, <1>4, <1>5, <1>6 DEF Bound
<1>7. CASE ~UNCHANGED proofs
  <2>1. PICK d \in Workers : /\ issuePc[d] = "save" /\ ~Stored(built[d].id)
                             /\ proofs' = proofs \cup {built[d]}
    BY <1>7 DEF IssueFlow
  <2>2. built[d] \in Proof
    BY <1>1, <2>1 DEF IssueInv, IssueTypes, Issue!Building
  <2>3. built[d].id = old /\ old = id
    BY <1>3, <2>1, <2>2 DEF Bound, Issue!Building
  <2>4. proofs = {}
    BY <2>1, <2>3 DEF Bound, Stored
  <2>. QED
    BY <1>4, <1>5, <2>1, <2>3, <2>4 DEF Bound
<1>. QED
  BY <1>6, <1>7

\* A session that reads as never reserved was never reserved.
LEMMA UnclaimedBefore == ASSUME CloudInv, Moves, Unclaimed' PROVE Unclaimed
<1>1. session.status \in Statuses /\ (session'.status \in Statuses)
  BY InvParts DEF Moves, StoreTypes, Session
<1>2. session.status = "failed" => session'.status = "failed"
  BY <1>1, Ranks DEF Moves, Rests, Grows
<1>. QED
  BY <1>2 DEF Moves, Rests, Grows, Unclaimed

LEMMA BoundInvStep ==
    ASSUME CloudInv, BoundInv, Moves, SnapFlow, IssueFlow, SessionFlow \/ Claims
    PROVE  BoundInv'
<1>1. session.proof \in ProofIds \cup {NoId} /\ session'.proof \in ProofIds \cup {NoId}
  BY InvParts DEF Moves, StoreTypes, Session
<1>2. OneProof' <=> \A p, q \in proofs' : p = q
  BY DEF OneProof, Issue!OneProof
<1>3. ASSUME UNCHANGED proofs \/ \E p : proofs = {} /\ proofs' = {p} PROVE OneProof'
  BY <1>2, <1>3 DEF BoundInv, OneProof, Issue!OneProof
<1>4. CASE SessionFlow
  <2>1. ASSUME NEW id, Bound(id)
        PROVE  Bound(id)' /\ (UNCHANGED proofs \/ \E p : proofs = {} /\ proofs' = {p})
    <3>1. session'.proof \in {NoId, id}
      BY <1>4, <2>1 DEF SessionFlow, Bound
    <3>. QED
      BY <2>1, <3>1, BoundStays
  <2>2. PICK id \in ProofIds \cup {NoId} : Bound(id)
    BY DEF BoundInv
  <2>3. Bound(id)' /\ OneProof'
    BY <1>3, <2>1, <2>2
  <2>4. Unclaimed' => Bound(NoId)'
    BY <2>1, UnclaimedBefore DEF BoundInv
  <2>. QED
    BY <2>2, <2>3, <2>4 DEF BoundInv
<1>5. CASE Claims
  <2>1. PICK id \in ProofIds \cup {NoId} : id = session'.proof
    BY <1>1
  <2>2. Bound(NoId) /\ id # NoId
    BY <1>5, <2>1 DEF Claims, BoundInv
  <2>3. Bound(id)' /\ OneProof'
    BY <1>3, <1>5, <2>1, <2>2, BoundStays DEF Claims
  <2>4. ~Unclaimed'
    BY <2>1, <2>2 DEF Unclaimed
  <2>. QED
    BY <2>3, <2>4 DEF BoundInv
<1>. QED
  BY <1>4, <1>5

\* No reservation yet, anywhere.
LEMMA BoundInvInit == ASSUME UseIotHub, Init PROVE BoundInv
<1>1. session = BlankSession /\ proofs = {} /\ snap = [c \in Calls |-> BlankSession]
  BY StartStore DEF Init, Start!Init, Start!StoreInit
<1>2. Bound(NoId)
  BY <1>1 DEF Init, Bound, BlankSession, Issue!Building
<1>. QED
  BY <1>1, <1>2 DEF BoundInv, OneProof, Issue!OneProof

LEMMA BoundInvStutter == ASSUME BoundInv, UNCHANGED vars PROVE BoundInv'
<1>1. UNCHANGED <<session, proofs, snap, issuePc, cand, built>>
  BY DEF vars, storeVars, clientVars, issueV
<1>2. \A id : Bound(id) => Bound(id)'
  BY <1>1 DEF Bound, Issue!Building
<1>. QED
  BY <1>1, <1>2 DEF BoundInv, Unclaimed, OneProof, Issue!OneProof

\* issue_proof never stores a second Proof of a session, although a failure
\* written over the record may cost the session the reservation while requests
\* still sign and save under it: no other reservation is ever made.
THEOREM OneProofHolds ==
    ASSUME UseIotHub, StatusAttempts > 1
    PROVE  Spec => []OneProof
<1>1. Init => BoundInv
  BY BoundInvInit
<1>2. CloudInv /\ BoundInv /\ [Next]_vars => BoundInv'
  BY CloudInvStep, NextFlows, BoundInvStep, BoundInvStutter
<1>3. BoundInv => OneProof
  BY DEF BoundInv
<1>. QED
  BY <1>1, <1>2, <1>3, CloudInvHolds, PTL DEF Spec

\* A session that was not failed names the Proof there is: whoever reads
\* proof_issued finds the Proof under the session's proof_id, whichever handler
\* wrote the record and whatever copy of it the handler held.
THEOREM IssuedIsStoredHolds ==
    ASSUME UseIotHub, StatusAttempts > 1
    PROVE  Spec => []IssuedIsStored
<1>. DEFINE Backed == session.status = "proof_issued" => proofs # {}
<1>1. Init => Backed /\ BoundInv
  <2>1. Init => session = BlankSession
    BY StartStore DEF Init, Start!Init
  <2>. QED
    BY <2>1, BoundInvInit DEF BlankSession
<1>2. CloudInv /\ BoundInv /\ Backed /\ [Next]_vars => Backed' /\ BoundInv'
  <2>. SUFFICES ASSUME CloudInv, BoundInv, Backed, [Next]_vars PROVE Backed' /\ BoundInv'
    OBVIOUS
  <2>1. BoundInv'
    BY CloudInvStep, NextFlows, BoundInvStep, BoundInvStutter
  <2>2. Wrote /\ proofs \subseteq proofs'
    BY NextWrote, CloudInvStep DEF Moves, vars, storeVars
  <2>. QED
    BY <2>1, <2>2 DEF Wrote, Rests
<1>3. CloudInv /\ BoundInv /\ Backed => IssuedIsStored
  <2>. SUFFICES ASSUME CloudInv, BoundInv, session.status = "proof_issued", proofs # {}
                PROVE  Stored(session.proof)
    BY SameStored DEF IssuedIsStored, Issue!IssuedIsStored
  <2>1. PICK p \in proofs : TRUE
    OBVIOUS
  <2>2. p.id # NoId
    BY <2>1, InvParts, StoreConstants DEF StoreTypes, Proof
  <2>3. session.proof # NoId
    BY <2>1, <2>2 DEF BoundInv, Bound, Unclaimed
  <2>. QED
    BY <2>1, <2>3 DEF BoundInv, Bound, Stored
<1>. QED
  BY <1>1, <1>2, <1>3, CloudInvHolds, PTL DEF Spec
=============================================================================
