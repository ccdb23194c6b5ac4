-------------------------------- MODULE Cloud --------------------------------
(***************************************************************************)
(* The cloud handlers at work on one session: start_session, the           *)
(* processing of the device's messages, ingest_evidence and issue_proof,   *)
(* each as its own module has it, over the same stored records.            *)
(*                                                                         *)
(* With an IoT Hub the device hears of the session by a command, and its   *)
(* messages are delivered in any order, several at a time, and as often as *)
(* the trigger likes; a manifest message runs ingest_evidence and          *)
(* issue_proof in its own call.  CloudSync has the way without an IoT Hub. *)
(***************************************************************************)
EXTENDS SessionStore

CONSTANTS
    Starter,         \* the call of start_session
    Workers,         \* calls that process messages and requests
    UseIotHub, Valid, NoResult, StatusAttempts, MaxAttempts, Signer,
    MaxFailures      \* model bound: calls that fail, over all handlers

VARIABLES
    failures,
    startPc, startAnswer, commanded,
    telePc, message, round, outcome,
    ingestPc, payload, ingestAnswer, result, expired,
    issuePc, attempt, cand, built, issueAnswer, activeKey,
    captured     \* the manifest of the device's one capture

startV == <<startPc, startAnswer, commanded>>
teleV == <<telePc, message, round, outcome>>
ingestV == <<ingestPc, payload, ingestAnswer, result, expired>>
issueV == <<issuePc, attempt, cand, built, issueAnswer, activeKey>>
vars == <<storeVars, clientVars, failures, startV, teleV, ingestV, issueV, captured>>

Start == INSTANCE StartSession WITH pc <- startPc, answer <- startAnswer
Tele == INSTANCE Telemetry WITH TeleCalls <- Workers, pc <- telePc, attempt <- round
Ingest == INSTANCE IngestEvidence WITH
    IngestCalls <- Workers, pc <- ingestPc, answer <- ingestAnswer
Issue == INSTANCE IssueProof WITH
    IssueCalls <- Workers, pc <- issuePc, answer <- issueAnswer

ASSUME CloudConstants ==
    /\ Start!StartConstants /\ Tele!TelemetryConstants
    /\ Starter \notin Workers
    /\ MaxAttempts \in Nat \ {0}
    /\ Keys # {} /\ Salts # {}

TypeOK ==
    /\ Start!TypeOK /\ Tele!TypeOK /\ Ingest!TypeOK /\ Issue!TypeOK
    /\ captured \in Manifests

Init ==
    /\ Start!Init
    /\ telePc = [c \in Workers |-> "idle"]
    /\ message = [c \in Workers |-> Tele!NoMessage]
    /\ round = [c \in Workers |-> 0]
    /\ outcome = [c \in Workers |-> "none"]
    /\ ingestPc = [c \in Workers |-> "idle"]
    /\ payload = [c \in Workers |-> NoManifest]
    /\ ingestAnswer = [c \in Workers |-> "none"]
    /\ result = NoResult
    /\ expired = FALSE
    /\ issuePc = [c \in Workers |-> "idle"]
    /\ attempt = [c \in Workers |-> 0]
    /\ cand = [c \in Workers |-> Issue!NoReservation]
    /\ built = [c \in Workers |-> NoProof]
    /\ issueAnswer = [c \in Workers |-> Issue!NoAnswer]
    /\ activeKey \in Keys
    /\ captured \in Manifests

-----------------------------------------------------------------------------
\* One step of one handler

StartSession ==
    /\ Start!Step \/ Start!CreateFails \/ Start!Fail
    /\ UNCHANGED <<teleV, ingestV, issueV, captured>>

Expire ==
    /\ Ingest!Expire
    /\ UNCHANGED <<startV, teleV, issueV, captured>>

IngestStep(c) ==
    /\ Ingest!Step(c) \/ Ingest!Fail(c)
    /\ UNCHANGED <<startV, teleV, issueV, captured>>

IssueStep(c) ==
    /\ Issue!Step(c) \/ Issue!Fail(c)
    /\ UNCHANGED <<startV, teleV, ingestV, captured>>

\* What the device may have sent: it reports, and hands in its one capture.
DeviceMessages ==
    {Tele!StatusMessage("capturing"), Tele!StatusMessage("failed"),
     Tele!ManifestMessage(captured)}

Deliver(c) ==
    /\ commanded
    /\ \E m \in DeviceMessages : Tele!Receive(c, m)
    /\ UNCHANGED <<startV, ingestV, issueV, captured>>

ProcessStatus(c) ==
    /\ Tele!Step(c) \/ (telePc[c] \in {"load", "replace"} /\ Tele!Fail(c))
    /\ UNCHANGED <<startV, ingestV, issueV, captured>>

-----------------------------------------------------------------------------
\* A manifest message runs both handlers in its own call

CallIngest(c) ==
    /\ telePc[c] = "ingest" /\ ingestPc[c] = "idle"
    /\ Ingest!Receive(c)
    /\ payload'[c] = message[c].manifest
    /\ UNCHANGED <<startV, teleV, issueV, captured>>

EndIngest(c) ==
    /\ telePc[c] = "ingest" /\ ingestPc[c] = "done"
    /\ Tele!IngestReturns(c, ingestAnswer[c] = "200")
    /\ ingestPc' = [ingestPc EXCEPT ![c] = "idle"]
    /\ ingestAnswer' = [ingestAnswer EXCEPT ![c] = "none"]
    /\ payload' = [payload EXCEPT ![c] = NoManifest]
    /\ UNCHANGED <<storeVars, startV, result, expired, issueV, captured>>
    /\ UNCHANGED failures

CallIssue(c) ==
    /\ telePc[c] = "issue" /\ issuePc[c] = "idle"
    /\ Issue!Receive(c)
    /\ UNCHANGED <<startV, teleV, ingestV, captured>>

EndIssue(c) ==
    /\ telePc[c] = "issue" /\ issuePc[c] = "done"
    /\ Tele!IssueReturns(c, issueAnswer[c].proof # NoId)
    /\ issuePc' = [issuePc EXCEPT ![c] = "idle"]
    /\ issueAnswer' = [issueAnswer EXCEPT ![c] = Issue!NoAnswer]
    /\ UNCHANGED <<storeVars, startV, ingestV, attempt, cand, built, activeKey>>
    /\ UNCHANGED <<failures, captured>>

-----------------------------------------------------------------------------
Serve(c) ==
    \/ ProcessStatus(c) \/ CallIngest(c) \/ EndIngest(c) \/ CallIssue(c)
    \/ EndIssue(c) \/ IngestStep(c) \/ IssueStep(c)

Next ==
    \/ StartSession
    \/ Expire
    \/ \E c \in Workers : Serve(c) \/ Deliver(c)

Spec == Init /\ [][Next]_vars

-----------------------------------------------------------------------------
\* Properties of all handlers together

\* What start_session answered stays true of the session, whatever the
\* device's messages and the other handlers make of it.
StartAnswerStands == Start!StartAnswerStands

\* No report of the device comes too early for the session, and none but a
\* failure is dropped because the loop ran out of rounds.
ReportsConverge == Tele!ReportsConverge

\* A message that was accepted shows in the session for good, however many
\* older ones are processed after it, and an accepted manifest has its Proof.
AcceptedIsDone ==
    \A c \in Workers :
        outcome[c] = "accepted" =>
            /\ Rank[session.status] >= Rank[Tele!Target(c)]
            /\ message[c].kind = "manifest" =>
                 \E p \in proofs : p.manifest = message[c].manifest

\* At most one Proof is ever stored of the session, although a failure may cost
\* it the reservation while requests still work under it.
OneProof == Issue!OneProof

\* A session that says proof_issued has its Proof in the store, for whoever
\* reads it next, whichever handler wrote the status.
IssuedIsStored == Issue!IssuedIsStored

\* Whichever handlers interleave, the status moves forward only, and nothing but
\* a failure costs the session the reservation of its Proof.
SessionMovesForward ==
    [][/\ Rank[session.status] <= Rank[session'.status]
       /\ session.proof # NoId /\ session'.status # "failed" =>
            session'.proof = session.proof /\ session'.key = session.key]_vars
=============================================================================
