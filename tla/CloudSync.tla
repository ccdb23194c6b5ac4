------------------------------ MODULE CloudSync ------------------------------
(***************************************************************************)
(* One run of the edge program with --cloud-sync: cloud_sync.run_cloud_sync*)
(* over CloudClient against the handlers of Cloud, without an IoT Hub and  *)
(* with local files: an answer of start_session names no upload targets,   *)
(* so the client's upload of image and audio is never made.                *)
(*                                                                         *)
(* The client sends start_session, captures, hands in the manifest, asks   *)
(* for the Proof and has it verified, each once and in this order.  It     *)
(* waits five seconds for each answer: a call it has given up goes on in   *)
(* the cloud, with a repository of its own as every request has.           *)
(***************************************************************************)
EXTENDS Cloud

ASSUME CloudSyncConstants == ~UseIotHub /\ Backend = "local"

VARIABLES
    clientPc,   \* what the client does next
    ours,       \* the call the client waits for
    reported,   \* the proof_id of the issue answer
    exit        \* how the run ended

clientRunV == <<clientPc, ours, reported, exit>>
syncVars == <<vars, clientRunV>>

ClientSteps == {"start", "capture", "ingest", "ingested",
                "issue", "issued", "verify", "done"}

NoCall == Starter

SyncTypeOK ==
    /\ TypeOK
    /\ clientPc \in ClientSteps
    /\ ours \in Workers \cup {NoCall}
    /\ reported \in ProofIds \cup {NoId}
    /\ exit \in {"running", "warning", "invalid", "error"}
    /\ clientPc \in {"ingested", "issued"} => ours \in Workers
    /\ clientPc = "verify" => reported # NoId
    /\ exit # "running" <=> clientPc = "done"

SyncInit ==
    /\ Init
    /\ clientPc = "start"
    /\ ours = NoCall
    /\ reported = NoId
    /\ exit = "running"

-----------------------------------------------------------------------------
Continue(step) == clientPc' = step /\ UNCHANGED exit

\* An error is logged and ends the run, whatever the cloud makes of it.
Error == clientPc' = "done" /\ exit' = "error"

\* No answer in time, or one that says nothing.
TimeOut ==
    /\ clientPc \in {"start", "ingested", "issued", "verify"}
    /\ Error
    /\ UNCHANGED <<vars, ours, reported>>

Started ==
    /\ clientPc = "start" /\ startPc = "done"
    /\ IF startAnswer = "201" THEN Continue("capture") ELSE Error
    /\ UNCHANGED <<vars, ours, reported>>

\* A dry run, or RealCapture; both may raise.
Capture ==
    /\ clientPc = "capture"
    /\ Continue("ingest") \/ Error
    /\ UNCHANGED <<vars, ours, reported>>

Idle(c) == ingestPc[c] \in {"idle", "done"} /\ issuePc[c] \in {"idle", "done"}

HandIn ==
    /\ clientPc = "ingest"
    /\ \E c \in Workers :
         /\ Idle(c) /\ Ingest!Receive(c)
         /\ payload'[c] = captured
         /\ ours' = c
    /\ UNCHANGED <<startV, teleV, issueV, captured>>
    /\ Continue("ingested")
    /\ UNCHANGED reported

Ingested ==
    /\ clientPc = "ingested" /\ ingestPc[ours] = "done"
    /\ IF ingestAnswer[ours] = "200" THEN Continue("issue") ELSE Error
    /\ ours' = NoCall
    /\ UNCHANGED <<vars, reported>>

AskForProof ==
    /\ clientPc = "issue"
    /\ \E c \in Workers : Idle(c) /\ Issue!Receive(c) /\ ours' = c
    /\ UNCHANGED <<startV, teleV, ingestV, captured>>
    /\ Continue("issued")
    /\ UNCHANGED reported

\* The verification URL must belong to the proof_id and to VERIFY_BASE_URL.
Issued ==
    /\ clientPc = "issued" /\ issuePc[ours] = "done"
    /\ reported' = issueAnswer[ours].proof
    /\ (reported' # NoId /\ Continue("verify")) \/ Error
    /\ ours' = NoCall
    /\ UNCHANGED vars

\* With local files and the stub no Proof is VALID; see VerifyProof.
Verify ==
    /\ clientPc = "verify"
    /\ clientPc' = "done"
    /\ exit' \in {"warning", "invalid"}
    /\ UNCHANGED <<vars, ours, reported>>

Client ==
    \/ Started \/ Capture \/ HandIn \/ Ingested \/ AskForProof \/ Issued
    \/ Verify \/ TimeOut

CloudSteps ==
    /\ StartSession \/ Expire \/ \E c \in Workers : IngestStep(c) \/ IssueStep(c)
    /\ UNCHANGED clientRunV

SyncNext == Client \/ CloudSteps

SyncSpec == SyncInit /\ [][SyncNext]_syncVars

-----------------------------------------------------------------------------
\* Properties

\* The proof_id the program prints is that of the session's one Proof, made
\* over the manifest it captured, and the session says so: at the time of the
\* answer and ever after.
ReportedIsIssued ==
    reported # NoId =>
        /\ session.status = "proof_issued" /\ session.proof = reported
        /\ \E p \in proofs : p.id = reported /\ p.manifest = captured
=============================================================================
