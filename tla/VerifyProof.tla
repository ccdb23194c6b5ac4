----------------------------- MODULE VerifyProof -----------------------------
(***************************************************************************)
(* The public readers of a Proof, at work while it is being issued:        *)
(* handlers.verify_proof and the page that shows its result, and           *)
(* get_proof_qr, which stores a QR image that is missing.                  *)
(*                                                                         *)
(* A verification reads the Proof, the session, the manifest, the device   *)
(* and the evidence bytes one after another, and judges what it has read:  *)
(* a check is passed, failed or could not be made.  Nothing keeps the      *)
(* records from changing between two of its reads.                         *)
(***************************************************************************)
EXTENDS IssueProof

CONSTANT Readers   \* concurrent verifications; each may be asked for again

VARIABLES
    rpc,      \* the repository call a reader makes next
    asked,    \* the proof_id it was asked about
    told,     \* was that Proof announced before it was asked about?
    seen,     \* what it has read so far
    verdict,  \* its answer
    device,   \* status of the Proof's device: an operator may disable it
    media     \* are image and audio what the manifest's hashes say?

readerVars == <<rpc, asked, told, seen, verdict>>
worldVars == <<device, media>>
allVars == <<vars, readerVars, worldVars>>

ReaderSteps == {"idle", "page", "proof", "session", "manifest", "device",
                "media", "judge", "done"}

\* Python's True, False and None.
Checks == {"passed", "failed", "unknown"}

Verdicts == {"none", "VALID", "WARNING", "INVALID", "not_found"}

NothingSeen == [proof |-> NoProof, session |-> BlankSession,
                manifest |-> NoManifest, device |-> "unknown", media |-> "unknown"]

Reading == [proof : Proof \cup {NoProof}, session : Session,
            manifest : Manifests \cup {NoManifest}, device : Checks, media : Checks]

ReaderTypeOK ==
    /\ rpc \in [Readers -> ReaderSteps]
    /\ asked \in [Readers -> ProofIds \cup {NoId}]
    /\ told \in [Readers -> BOOLEAN]
    /\ seen \in [Readers -> Reading]
    /\ verdict \in [Readers -> Verdicts]
    /\ device \in {"active", "disabled"}
    /\ media \in {"intact", "altered"}

VerifyInit ==
    /\ Init
    /\ rpc = [r \in Readers |-> "idle"]
    /\ asked = [r \in Readers |-> NoId]
    /\ told = [r \in Readers |-> FALSE]
    /\ seen = [r \in Readers |-> NothingSeen]
    /\ verdict = [r \in Readers |-> "none"]
    /\ device = "active"
    /\ media = "intact"

-----------------------------------------------------------------------------
\* Reading

ReaderGoto(r, step) == rpc' = [rpc EXCEPT ![r] = step]

ReaderEnds(r, answered) ==
    /\ ReaderGoto(r, "done")
    /\ verdict' = [verdict EXCEPT ![r] = answered]

\* A proof_id is announced by an answer of issue_proof, or by the session
\* that get_session shows.
Announced(id) ==
    \/ \E c \in IssueCalls : answer[c].proof = id
    \/ session.proof = id /\ session.status = "proof_issued"

\* Somebody opens the page or asks for the verification of a proof_id the
\* session holds, announced or not, or of a Proof it no longer names.
Known(id) == Stored(id) \/ (id # NoId /\ id = session.proof)
Ask(r) ==
    /\ rpc[r] \in {"idle", "done"}
    /\ ReaderGoto(r, "page") \/ ReaderGoto(r, "proof")
    /\ \E id \in ProofIds :
         /\ Known(id)
         /\ asked' = [asked EXCEPT ![r] = id]
         /\ told' = [told EXCEPT ![r] = Announced(id)]
    /\ seen' = [seen EXCEPT ![r] = NothingSeen]
    /\ verdict' = [verdict EXCEPT ![r] = "none"]
    /\ UNCHANGED <<vars, worldVars>>

\* The page loads the Proof to show it, before it has it verified.
ReadPage(r) ==
    /\ rpc[r] = "page"
    /\ \/ Stored(asked[r]) /\ ReaderGoto(r, "proof") /\ UNCHANGED verdict
       \/ ~Stored(asked[r]) /\ ReaderEnds(r, "not_found")
    /\ UNCHANGED <<vars, asked, told, seen, worldVars>>

ReadProof(r) ==
    /\ rpc[r] = "proof"
    /\ \/ /\ Stored(asked[r])
          /\ seen' = [seen EXCEPT ![r].proof = StoredProof(asked[r])]
          /\ ReaderGoto(r, "session")
          /\ UNCHANGED verdict
       \/ /\ ~Stored(asked[r])
          /\ ReaderEnds(r, "not_found")
          /\ UNCHANGED seen
    /\ UNCHANGED <<vars, asked, told, worldVars>>

\* One more record read, then the next.
Sees(r, step, next) ==
    /\ rpc[r] = step
    /\ ReaderGoto(r, next)
    /\ UNCHANGED <<vars, asked, told, verdict, worldVars>>

ReadSession(r) ==
    /\ Sees(r, "session", "manifest")
    /\ seen' = [seen EXCEPT ![r].session = session]

ReadManifest(r) ==
    /\ Sees(r, "manifest", "device")
    /\ seen' = [seen EXCEPT ![r].manifest = manifest]

ReadDevice(r) ==
    /\ Sees(r, "device", "media")
    /\ seen' = [seen EXCEPT ![r].device =
                  IF device = "active" THEN "passed" ELSE "failed"]

\* Local files are never looked into, and blobs may be out of reach.
ReadMedia(r) ==
    /\ Sees(r, "media", "judge")
    /\ \E found \in {"passed", "failed", "unknown"} :
         /\ found = "passed" => Backend = "azure" /\ media = "intact"
         /\ found = "failed" => Backend = "azure" /\ media = "altered"
         /\ seen' = [seen EXCEPT ![r].media = found]

-----------------------------------------------------------------------------
\* Judging: verify_proof_record

Passed(condition) == IF condition THEN "passed" ELSE "failed"

\* Mutant: the status of the session is not looked at.
ProofIdentityAnyStatus(r) ==
    Passed(/\ seen[r].session.proof = asked[r]
           /\ seen[r].manifest = seen[r].proof.manifest)

\* The session has issued this very Proof, about this very manifest.
ProofIdentity(r) ==
    Passed(/\ seen[r].session.proof = asked[r]
           /\ seen[r].session.status = "proof_issued"
           /\ seen[r].manifest = seen[r].proof.manifest)

ManifestHash(r) == Passed(seen[r].manifest = seen[r].proof.manifest)

\* Mutant: a signature is verified under the key configured now.
SignatureOfActiveKey(r) == {Passed(seen[r].proof.key = activeKey)}

\* Key Vault verifies under the key version the Proof names, when it can be
\* reached; the stub knows its own key only.
Signature(r) ==
    IF Signer = "stub" THEN {Passed(seen[r].proof.key = activeKey)}
    ELSE {"passed", "unknown"}

\* One failed check condemns; one that could not be made, or the stub, warns.
StatusOf(checks) ==
    IF "failed" \in checks THEN "INVALID"
    ELSE IF "unknown" \in checks \/ Signer = "stub" THEN "WARNING"
    ELSE "VALID"

\* record_hash passes: what is stored is what some request wrote.
Judge(r) ==
    /\ rpc[r] = "judge"
    /\ \E signature \in Signature(r) :
         ReaderEnds(r, StatusOf({ProofIdentity(r), ManifestHash(r), signature,
                                 seen[r].device, seen[r].media}))
    /\ seen' = [seen EXCEPT ![r] = NothingSeen]
    /\ UNCHANGED <<vars, asked, told, worldVars>>

-----------------------------------------------------------------------------
\* The QR image on demand, and the world around the readers

\* Mutant: the Proof is not looked for first.
ShowQrOfAny ==
    /\ session.proof # NoId
    /\ qr' = qr \cup {session.proof}
    /\ UNCHANGED <<session, stamp, manifest, proofs, proofIndex>>
    /\ UNCHANGED <<clientVars, issueVars, readerVars, worldVars>>

\* get_proof_qr: the same bytes for the same proof_id, whoever writes them.
ShowQr ==
    /\ \E p \in proofs : qr' = qr \cup {p.id}
    /\ UNCHANGED <<session, stamp, manifest, proofs, proofIndex>>
    /\ UNCHANGED <<clientVars, issueVars, readerVars, worldVars>>

DisableDevice ==
    /\ device = "active"
    /\ device' = "disabled"
    /\ UNCHANGED <<vars, readerVars, media>>

AlterMedia ==
    /\ media = "intact"
    /\ media' = "altered"
    /\ UNCHANGED <<vars, readerVars, device>>

Read(r) ==
    \/ ReadPage(r) \/ ReadProof(r) \/ ReadSession(r) \/ ReadManifest(r)
    \/ ReadDevice(r) \/ ReadMedia(r) \/ Judge(r)

VerifyNext ==
    \/ Next /\ UNCHANGED <<readerVars, worldVars>>
    \/ \E r \in Readers : Ask(r) \/ Read(r)
    \/ ShowQr \/ DisableDevice \/ AlterMedia

VerifySpec == VerifyInit /\ [][VerifyNext]_allVars

-----------------------------------------------------------------------------
\* Properties

\* Whoever was told of the Proof before asking finds it, and is not told that
\* it is invalid unless the session failed, the device was disabled, the
\* media were altered or the stub was given another key: a verification that
\* overlaps an issuing, an adoption or a takeover raises no false alarm.
NoFalseAlarm ==
    \A r \in Readers :
        told[r] =>
            /\ verdict[r] # "not_found"
            /\ verdict[r] = "INVALID" =>
                 \/ session.status = "failed"
                 \/ device = "disabled" \/ media = "altered"
                 \/ Signer = "stub" /\ \E j, k \in Keys : j # k

\* VALID is said of nothing but the session's issued Proof: it is stored, of
\* the accepted manifest, under the reserved key, and the session is
\* proof_issued still, or has failed since and names no other Proof.
ValidIsIssued ==
    \A r \in Readers :
        verdict[r] = "VALID" =>
            /\ Signer = "key_vault" /\ Backend = "azure"
            /\ session.status \in {"proof_issued", "failed"}
            /\ \E p \in proofs :
                 /\ p.id = asked[r] /\ p.manifest = manifest
                 /\ Reserves(p.id, p.key) \/ Dropped

\* A QR image leads to a page that finds its Proof.
QrHasProof == \A id \in qr : Stored(id)
=============================================================================
