---------------------------- MODULE SessionStore ----------------------------
(***************************************************************************)
(* The stored records of ONE capture session and the repository calls the  *)
(* cloud handlers make on them.  Sessions are keyed by session_id and no   *)
(* handler relates two of them, so one session is enough.                  *)
(*                                                                         *)
(* Every repository call of the code is one atomic step of a handler, with *)
(* one exception: replace_session of LocalJsonRepository is a load, a      *)
(* comparison and a write under a lock that belongs to the repository      *)
(* OBJECT.  function_app builds one object per request, so the lock        *)
(* excludes nobody and the write may come after other writes.              *)
(*                                                                         *)
(* A handler holds one StoredRecord, the value and the etag of its last    *)
(* load or replace: snap[c] and etag[c] here.                              *)
(***************************************************************************)
EXTENDS Naturals, FiniteSets

CONSTANTS
    Calls,             \* handler invocations that touch the session
    ProofIds,          \* the "RP-<uuid>" names uuid4 may give
    Keys,              \* signing profiles: algorithm, key id, public key
    Salts,             \* what makes two PS256 signatures of one hash differ
    Manifests,         \* evidence manifests, told apart by their bytes
    NoId, NoKey, NoManifest, NoProof,
    Backend,           \* "azure" or "local": which repository is configured
    SharedRepository,  \* local only: do all requests share one repository?
    LostReplies        \* azure only: may the reply to an applied update be lost?

ASSUME StoreConstants ==
    /\ Backend \in {"azure", "local"}
    /\ SharedRepository \in BOOLEAN
    /\ LostReplies \in BOOLEAN
    /\ NoId \notin ProofIds
    /\ NoKey \notin Keys
    /\ NoManifest \notin Manifests

VARIABLES
    session,     \* the stored Session
    stamp,       \* the version the table service gives each write (azure)
    manifest,    \* the stored manifest.json, or NoManifest
    proofs,      \* the Proof records stored, at most one per proof_id
    proofIndex,  \* proof_ids with a row in the proofs table (azure)
    qr,          \* proof_ids with a stored QR image
    snap,        \* per call: value of the StoredRecord it holds
    etag,        \* per call: version of the StoredRecord it holds
    armed        \* per call: replace_session compared, has not yet written

storeVars == <<session, stamp, manifest, proofs, proofIndex, qr>>
clientVars == <<snap, etag, armed>>

Statuses == {"created", "challenge_issued", "waiting_device", "capturing",
             "evidence_uploaded", "validating", "verified", "proof_issuing",
             "proof_issued", "failed"}

\* Rank of a status on the way to the Proof; failed is the end of the road.
Rank == [s \in Statuses |->
    CASE s = "created" -> 0            [] s = "challenge_issued" -> 1
      [] s = "waiting_device" -> 2     [] s = "capturing" -> 3
      [] s = "evidence_uploaded" -> 4  [] s = "validating" -> 5
      [] s = "verified" -> 6           [] s = "proof_issuing" -> 7
      [] s = "proof_issued" -> 8       [] s = "failed" -> 9]

\* A Session with the fields the properties tell apart.  key stands for all
\* that a reservation pins: proof_created_at, proof_signed_at, the signature
\* algorithm, the key id and the public key are written together with it.
Session == [status : Statuses,
            proof  : ProofIds \cup {NoId},
            key    : Keys \cup {NoKey}]

BlankSession == [status |-> "created", proof |-> NoId, key |-> NoKey]

\* A Proof record.  record_hash covers every field but the signature.
Proof == [id : ProofIds, key : Keys \cup {NoKey}, manifest : Manifests,
          salt : Salts]

ASSUME NoProofIsNoRecord == NoProof \notin Proof

RecordHash(p) == <<p.id, p.key, p.manifest>>

Stored(id) == \E p \in proofs : p.id = id
StoredProof(id) == CHOOSE p \in proofs : p.id = id

StoreTypeOK ==
    /\ session \in Session
    /\ stamp \in Nat
    /\ manifest \in Manifests \cup {NoManifest}
    /\ proofs \subseteq Proof
    /\ proofIndex \subseteq ProofIds
    /\ qr \subseteq ProofIds
    /\ snap \in [Calls -> Session]
    /\ etag \in [Calls -> Nat]
    /\ armed \in [Calls -> BOOLEAN]

StoreInit ==
    /\ stamp = 0
    /\ proofs = {}
    /\ proofIndex = {}
    /\ qr = {}
    /\ snap = [c \in Calls |-> BlankSession]
    /\ etag = [c \in Calls |-> 0]
    /\ armed = [c \in Calls |-> FALSE]

-----------------------------------------------------------------------------
\* Session records

\* Comparing and writing are one step: the table service does both, and so
\* does the local repository when every request goes through one lock.
AtomicReplace == Backend = "azure" \/ SharedRepository

\* Mutant: the etag condition is left out of the request.
EtagIgnored(c) == TRUE

\* The azure etag names a write; the local one is a hash of the content.
EtagCurrent(c) == IF Backend = "azure" THEN etag[c] = stamp
                                       ELSE snap[c] = session

\* Every write stores the record whole and, on azure, gives it a new etag.
Put(s) ==
    /\ session' = s
    /\ stamp' = IF Backend = "azure" THEN stamp + 1 ELSE stamp

LoadSession(c) ==
    /\ snap' = [snap EXCEPT ![c] = session]
    /\ etag' = [etag EXCEPT ![c] = stamp]
    /\ UNCHANGED armed

\* The comparison of a replace whose lock excludes nobody.
CompareEtag(c) ==
    /\ ~AtomicReplace
    /\ ~armed[c]
    /\ EtagCurrent(c)
    /\ armed' = [armed EXCEPT ![c] = TRUE]
    /\ UNCHANGED <<snap, etag>>

\* replace_session(s, etag[c]) succeeds ...
ReplaceSession(c, s) ==
    /\ IF AtomicReplace THEN EtagCurrent(c) ELSE armed[c]
    /\ Put(s)

\* ... and the caller goes on with the StoredRecord it returns.
HoldReplaced(c, s) ==
    /\ snap' = [snap EXCEPT ![c] = s]
    /\ etag' = [etag EXCEPT ![c] = stamp']
    /\ armed' = [armed EXCEPT ![c] = FALSE]

\* The table service applies the update and its reply is lost: the client
\* library sends the update again and is told that the etag is stale.
Unacknowledged(c) == LostReplies /\ Backend = "azure" /\ EtagCurrent(c)

\* replace_session raises StorageConflict: it wrote nothing, or it wrote s.
ReplaceConflicts(c, s) ==
    \/ ~EtagCurrent(c) /\ ~armed[c] /\ UNCHANGED <<session, stamp>>
    \/ Unacknowledged(c) /\ Put(s)

\* The call no longer uses the record it holds.
DropRecord(c) ==
    /\ snap' = [snap EXCEPT ![c] = BlankSession]
    /\ etag' = [etag EXCEPT ![c] = 0]
    /\ armed' = [armed EXCEPT ![c] = FALSE]

-----------------------------------------------------------------------------
\* Proof records

\* save_proof's blob: azure creates it only where none is, the local file is
\* replaced whatever it held.
WriteProof(p) ==
    proofs' = (IF Backend = "azure" THEN proofs
               ELSE {q \in proofs : q.id # p.id}) \cup {p}

\* An azure upload meets a blob with other bytes.
ProofConflicts(p) ==
    /\ Backend = "azure"
    /\ Stored(p.id)
    /\ p \notin proofs
=============================================================================
