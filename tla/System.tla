-------------------------------- MODULE System --------------------------------
(***************************************************************************)
(* The whole way of one session with an IoT Hub: the cloud handlers of     *)
(* Cloud and the device of EdgeAgent, joined by two channels.              *)
(*                                                                         *)
(* The command travels from start_session to the device, which may get it  *)
(* several times.  What the device sends is processed in any order, some   *)
(* of it at the same time, and as often as the event trigger likes.  The   *)
(* device and the cloud share the evidence blobs and the session's expiry. *)
(***************************************************************************)
EXTENDS Cloud

CONSTANTS MaxSends, MaxFaults, MaxCommands   \* see EdgeAgent

VARIABLES agentPc, sends, known, processed, folder, media, noted, blobs, sent,
          commands, faults

agentV == <<agentPc, sends, known, processed, folder, media, noted, blobs, sent,
            commands, faults>>
systemVars == <<vars, agentV>>

Agent == INSTANCE EdgeAgent WITH pc <- agentPc

ASSUME SystemConstants ==
    /\ UseIotHub
    /\ MaxSends \in Nat \ {0} /\ MaxFaults \in Nat /\ MaxCommands \in Nat \ {0}

SystemTypeOK == TypeOK /\ Agent!TypeOK

SystemInit == Init /\ Agent!Init

-----------------------------------------------------------------------------
\* The channels

\* The hub hands the command to the device.
Command ==
    /\ commanded
    /\ Agent!Receive
    /\ UNCHANGED vars

\* What the event trigger makes of a device message: duplicate_ignored changes
\* no session.  There is one capture, and captured is its manifest.
TriggerMessage(m) ==
    CASE m.kind \in {"challenge_received", "capturing"} -> Tele!StatusMessage("capturing")
      [] m.kind = "failed" -> Tele!StatusMessage("failed")
      [] m.kind = "manifest" -> Tele!ManifestMessage(captured)

Trigger(kind) ==
    /\ \E m \in sent, c \in Workers :
         m.kind = kind /\ Tele!Receive(c, TriggerMessage(m))
    /\ UNCHANGED <<startV, ingestV, issueV, captured, agentV>>

Kinds == {"challenge_received", "capturing", "failed", "manifest"}

-----------------------------------------------------------------------------
CloudStep ==
    /\ StartSession \/ Expire \/ \E c \in Workers : Serve(c)
    /\ UNCHANGED agentV

AgentStep == (Agent!Step \/ Agent!Crash \/ Agent!Restart) /\ UNCHANGED vars

SystemNext ==
    \/ CloudStep \/ AgentStep \/ Command
    \/ \E kind \in Kinds : Trigger(kind)

SystemSpec == SystemInit /\ [][SystemNext]_systemVars

\* The hub delivers the command at least once, and every message that reaches
\* it; both sides finish what they have begun, but for a capture that does not
\* come back.
SystemFairSpec ==
    /\ SystemSpec
    /\ WF_systemVars(StartSession /\ UNCHANGED agentV)
    /\ \A c \in Workers : WF_systemVars(Serve(c) /\ UNCHANGED agentV)
    /\ WF_systemVars(commands = 0 /\ Command)
    /\ WF_systemVars(Agent!Step /\ agentPc # "sense" /\ UNCHANGED vars)
    /\ \A kind \in Kinds : SF_systemVars(Trigger(kind))

-----------------------------------------------------------------------------
\* Properties

\* The evidence behind a Proof stays: the blobs hold the bytes that its
\* manifest names, whatever the device does after handing it in.
ProvenIsUploaded ==
    proofs # {} =>
        /\ noted # 0
        /\ blobs = [name \in {"image", "audio"} |-> noted]

\* An issued session stays issued, although its command and its messages come
\* again: as long as nothing fails but the device's process as a whole, and its
\* messages are processed one at a time.
OnlyCrashes == failures = 0 /\ faults["error"] = 0
IssuedStays ==
    [][session.status = "proof_issued" /\ OnlyCrashes =>
        session'.status = "proof_issued"]_systemVars

\* A session whose command was sent is issued or failed in the end, unless it
\* expired before the device had answered at all, the device went down, could
\* not send or its capture did not come back, or a cloud call died.
Answered == \E m \in sent : m.kind \in {"manifest", "failed"}
Forsaken ==
    \/ expired /\ ~Answered
    \/ faults["crash"] > 0 \/ faults["error"] >= MaxSends
    \/ failures > 0
CommandedIsDecided ==
    Agent!CaptureReturns =>
        (commanded ~> session.status \in {"proof_issued", "failed"} \/ Forsaken)
=============================================================================
