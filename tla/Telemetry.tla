------------------------------ MODULE Telemetry ------------------------------
(***************************************************************************)
(* telemetry.process_telemetry: what a message of the device does to its   *)
(* session.  The event trigger delivers every message at least once, in    *)
(* any order, several at a time, and does not retry one that raises.       *)
(*                                                                         *)
(* A status report moves the session by a loop of at most StatusAttempts   *)
(* load-and-replace rounds (_set_session_status).  A manifest message      *)
(* moves it to capturing by the same loop and then runs ingest_evidence    *)
(* and issue_proof in the same call; the calls start in Ingest and Issue   *)
(* and come back to IngestReturns and IssueReturns.                        *)
(***************************************************************************)
EXTENDS SessionStore

CONSTANTS
    TeleCalls,       \* messages being processed at the same time
    StatusAttempts,  \* rounds of the loop, 3 in the code
    MaxFailures      \* model bound: calls that end by a failure

\* Assumed by Cloud, which runs the calls among the other handlers.
TelemetryConstants ==
    /\ TeleCalls \subseteq Calls
    /\ StatusAttempts \in Nat \ {0}
    /\ MaxFailures \in Nat

VARIABLES
    pc,        \* the repository or handler call a message's processing makes next
    message,   \* the message each call processes
    attempt,   \* round of the loop
    outcome,   \* "accepted", or the error the trigger raises
    failures   \* calls ended by a failure so far

teleVars == <<pc, message, attempt, outcome, failures>>
vars == <<storeVars, clientVars, teleVars>>

Steps == {"idle", "load", "replace", "ingest", "issue", "done"}

\* challenge_received and capturing are handled alike; a manifest message
\* carries its manifest; the others change no session.
StatusMessage(kind) == [kind |-> kind, manifest |-> NoManifest]
ManifestMessage(m) == [kind |-> "manifest", manifest |-> m]
NoMessage == StatusMessage("none")

Messages ==
    {StatusMessage("capturing"), StatusMessage("failed")}
        \cup {ManifestMessage(m) : m \in Manifests}

Outcomes == {"none", "accepted", "ERR_CONFLICT", "ERR_STATUS_INVALID",
             "ERR_TRANSITION_INVALID", "ERR_HANDLER", "lost"}

TypeOK ==
    /\ StoreTypeOK
    /\ pc \in [TeleCalls -> Steps]
    /\ message \in [TeleCalls -> Messages \cup {NoMessage}]
    /\ attempt \in [TeleCalls -> 0 .. StatusAttempts - 1]
    /\ outcome \in [TeleCalls -> Outcomes]
    /\ failures \in 0 .. MaxFailures

-----------------------------------------------------------------------------
\* Control of one call

Goto(c, step) == pc' = [pc EXCEPT ![c] = step]

\* The message and what became of it stay on record until the next delivery.
End(c, result) ==
    /\ Goto(c, "done")
    /\ outcome' = [outcome EXCEPT ![c] = result]
    /\ attempt' = [attempt EXCEPT ![c] = 0]
    /\ DropRecord(c)
    /\ UNCHANGED <<message, failures>>

\* The trigger hands a message to a worker, for the first time or again.
Receive(c, m) ==
    /\ pc[c] \in {"idle", "done"}
    /\ Goto(c, "load")
    /\ message' = [message EXCEPT ![c] = m]
    /\ outcome' = [outcome EXCEPT ![c] = "none"]
    /\ UNCHANGED <<storeVars, clientVars, attempt, failures>>

\* Crash, StorageUnavailable, a device that is no longer active, or an audit
\* record that could not be written.
Fail(c) ==
    /\ pc[c] \in {"load", "replace", "ingest", "issue"}
    /\ failures < MaxFailures
    /\ failures' = failures + 1
    /\ Goto(c, "done")
    /\ outcome' = [outcome EXCEPT ![c] = "lost"]
    /\ attempt' = [attempt EXCEPT ![c] = 0]
    /\ DropRecord(c)
    /\ UNCHANGED <<storeVars, message>>

-----------------------------------------------------------------------------
\* _set_session_status

\* A manifest message reports capturing too.
Target(c) == IF message[c].kind = "failed" THEN "failed" ELSE "capturing"

\* _STATUS_ORDER knows neither proof_issuing nor failed.
Ordered == Statuses \ {"proof_issuing", "failed"}

\* Mutant: a late report is written although the session is further on.
BehindAnything(current, target) == current # target

\* The target is the next status, or it is a failure.
Behind(current, target) ==
    \/ target = "failed" /\ current # "failed"
    \/ current \in Ordered /\ Rank[current] + 1 = Rank[target]

\* The session is there already or further on.
Reached(current, target) ==
    \/ current = target
    \/ target # "failed" /\ current \in Ordered /\ Rank[current] > Rank[target]

\* The status is settled: a report is done, a manifest goes on.
Settled(c) ==
    \/ /\ message[c].kind = "manifest"
       /\ Goto(c, "ingest")
       /\ attempt' = [attempt EXCEPT ![c] = 0]
       /\ DropRecord(c)
       /\ UNCHANGED <<message, outcome, failures>>
    \/ /\ message[c].kind # "manifest"
       /\ End(c, "accepted")

Load(c) ==
    /\ pc[c] = "load"
    /\ UNCHANGED storeVars
    /\ \/ /\ Behind(session.status, Target(c))
          /\ LoadSession(c)
          /\ Goto(c, "replace")
          /\ UNCHANGED <<message, attempt, outcome, failures>>
       \/ /\ Reached(session.status, Target(c))
          /\ Settled(c)
       \/ /\ ~Behind(session.status, Target(c))
          /\ ~Reached(session.status, Target(c))
          /\ End(c, IF session.status \in Ordered THEN "ERR_TRANSITION_INVALID"
                                                  ELSE "ERR_STATUS_INVALID")

NextRound(c) ==
    \/ /\ attempt[c] + 1 < StatusAttempts
       /\ Goto(c, "load")
       /\ attempt' = [attempt EXCEPT ![c] = @ + 1]
       /\ DropRecord(c)
       /\ UNCHANGED <<message, outcome, failures>>
    \/ /\ attempt[c] + 1 = StatusAttempts
       /\ End(c, "ERR_CONFLICT")

Replace(c) ==
    LET updated == [snap[c] EXCEPT !.status = Target(c)] IN
    /\ pc[c] = "replace"
    /\ UNCHANGED <<manifest, proofs, proofIndex, qr>>
    /\ \/ ReplaceSession(c, updated) /\ Settled(c)
       \/ ReplaceConflicts(c, updated) /\ NextRound(c)

-----------------------------------------------------------------------------
\* ingest_evidence and issue_proof in the same call

IngestReturns(c, ok) ==
    /\ pc[c] = "ingest"
    /\ \/ /\ ok
          /\ Goto(c, "issue")
          /\ UNCHANGED <<clientVars, message, attempt, outcome, failures>>
       \/ ~ok /\ End(c, "ERR_HANDLER")

\* Mutant: an error of issue_proof is swallowed.
IssueReturnsAnyway(c, ok) ==
    /\ pc[c] = "issue"
    /\ End(c, "accepted")

IssueReturns(c, ok) ==
    /\ pc[c] = "issue"
    /\ End(c, IF ok THEN "accepted" ELSE "ERR_HANDLER")

Step(c) == Load(c) \/ Replace(c)

-----------------------------------------------------------------------------
\* Properties, of the calls among the other handlers: see Cloud

\* A capturing report, or a manifest, never finds the session too early for
\* it, and is never dropped because the loop ran out of rounds.
ReportsConverge ==
    \A c \in TeleCalls :
        /\ outcome[c] # "ERR_TRANSITION_INVALID"
        /\ outcome[c] = "ERR_CONFLICT" => message[c].kind = "failed"
=============================================================================
