------------------------------ MODULE EdgeAgent ------------------------------
(***************************************************************************)
(* iot_agent.IotEdgeAgent on the device: what it does with the command of  *)
(* ONE session, which the hub may deliver several times.  Commands are     *)
(* processed one after another and command_id is the session_id, so other  *)
(* commands do not meddle with this one.                                   *)
(*                                                                         *)
(* The agent announces itself, captures evidence into a directory of the   *)
(* session's name or finds the manifest of an earlier attempt there,       *)
(* uploads image and audio to their blobs, hands the manifest in and only  *)
(* then remembers the command.  Whatever goes wrong after the announcement *)
(* ends in a "failed" report.  The process may die at every step; what is  *)
(* on the disk and in the cloud survives it.                               *)
(***************************************************************************)
EXTENDS Naturals, FiniteSets

CONSTANTS
    MaxSends,     \* attempts of _send, 3 in the code
    MaxFaults,    \* model bound: crashes and errors together
    MaxCommands   \* model bound: deliveries of the command

ASSUME AgentConstants ==
    /\ MaxSends \in Nat \ {0}
    /\ MaxFaults \in Nat
    /\ MaxCommands \in Nat \ {0}

VARIABLES
    pc,         \* what process_command does next
    sends,      \* attempts of the current _send that have failed
    known,      \* the command is in _values of the ProcessedCommandStore
    processed,  \* ... and in its file
    folder,     \* the session directory, see EvidenceFolder
    media,      \* the capture whose image.jpg and audio.wav are on the disk
    noted,      \* the capture whose hashes manifest.json names
    blobs,      \* the capture whose bytes each blob holds
    sent,       \* messages that have reached the hub
    expired,    \* now > expires_at
    commands,   \* deliveries so far
    faults      \* how often the process died, and something else failed

vars == <<pc, sends, known, processed, folder, media, noted, blobs, sent,
          expired, commands, faults>>

Steps == {"down", "receive", "duplicate", "announce", "capturing", "look",
          "shoot", "sense", "note", "finish", "image", "audio", "hand_in",
          "remember", "complain"}

\* 0 stands for no capture.
Captures == 0 .. MaxCommands

StatusMessage(kind) == [kind |-> kind, capture |-> 0]
HandIn == [kind |-> "manifest", capture |-> noted]

Message == [kind : {"challenge_received", "capturing", "failed",
                    "duplicate_ignored", "manifest"},
            capture : Captures]

TypeOK ==
    /\ pc \in Steps
    /\ sends \in 0 .. MaxSends - 1
    /\ known \in BOOLEAN /\ processed \in BOOLEAN
    /\ folder \in {"none", "made", "torn", "whole"}
    /\ media \in Captures /\ noted \in Captures
    /\ blobs \in [{"image", "audio"} -> Captures]
    /\ sent \subseteq Message
    /\ expired \in BOOLEAN
    /\ commands \in 0 .. MaxCommands
    /\ faults \in [{"crash", "error"} -> 0 .. MaxFaults]

Init ==
    /\ pc = "receive"
    /\ sends = 0
    /\ known = FALSE /\ processed = FALSE
    /\ folder = "none"
    /\ media = 0 /\ noted = 0
    /\ blobs = [name \in {"image", "audio"} |-> 0]
    /\ sent = {}
    /\ expired = FALSE
    /\ commands = 0
    /\ faults = [kind \in {"crash", "error"} |-> 0]

-----------------------------------------------------------------------------
\* Faults

Fault(kind) ==
    /\ faults["crash"] + faults["error"] < MaxFaults
    /\ faults' = [faults EXCEPT ![kind] = @ + 1]

\* HardwareError, BlobUploadError, IotAgentError, OSError, ValueError.
Complain == pc' = "complain"

\* The process dies.  A manifest that was being written is torn; the store's
\* file is not, it is replaced whole.  What the system has not yet flushed is
\* not lost: nothing is synced, so a loss of power is not covered.
Crash ==
    /\ pc # "down"
    /\ Fault("crash")
    /\ pc' = "down"
    /\ sends' = 0
    /\ folder' \in IF pc = "note" THEN {folder, "torn"} ELSE {folder}
    /\ UNCHANGED <<known, processed, media, noted, blobs, sent, expired, commands>>

\* ProcessedCommandStore loads its file.
Restart ==
    /\ pc = "down"
    /\ pc' = "receive"
    /\ known' = processed
    /\ UNCHANGED <<sends, processed, folder, media, noted, blobs, sent,
                   expired, commands, faults>>

-----------------------------------------------------------------------------
\* Receiving and sending

\* An expired command is refused without a word, a known one with a report.
Receive ==
    /\ pc = "receive"
    /\ commands < MaxCommands
    /\ commands' = commands + 1
    /\ pc' = IF expired THEN "receive" ELSE IF known THEN "duplicate" ELSE "announce"
    /\ UNCHANGED <<sends, known, processed, folder, media, noted, blobs, sent,
                   expired, faults>>

\* Mutant: an attempt that fails is the last.
SendOnce(step, message, next, failed) ==
    /\ pc = step
    /\ \/ /\ sent' = sent \cup {message}
          /\ pc' = next
          /\ UNCHANGED faults
       \/ /\ Fault("error")
          /\ sent' \in {sent, sent \cup {message}}
          /\ pc' = failed
    /\ sends' = 0
    /\ UNCHANGED <<known, processed, folder, media, noted, blobs, expired, commands>>

\* One attempt of _send.  One that raises may have reached the hub; the third
\* is the last.
Send(step, message, next, failed) ==
    /\ pc = step
    /\ \/ /\ sent' = sent \cup {message}
          /\ pc' = next
          /\ sends' = 0
          /\ UNCHANGED faults
       \/ /\ Fault("error")
          /\ sent' \in {sent, sent \cup {message}}
          /\ \/ sends + 1 < MaxSends /\ sends' = sends + 1 /\ UNCHANGED pc
             \/ sends + 1 = MaxSends /\ sends' = 0 /\ pc' = failed
    /\ UNCHANGED <<known, processed, folder, media, noted, blobs, expired, commands>>

SendDuplicate ==
    Send("duplicate", StatusMessage("duplicate_ignored"), "receive", "receive")

\* Outside the try block: nobody is told when this one fails.
Announce ==
    Send("announce", StatusMessage("challenge_received"), "capturing", "receive")

SendCapturing == Send("capturing", StatusMessage("capturing"), "look", "complain")

SendManifest == Send("hand_in", HandIn, "remember", "complain")

SendFailed == Send("complain", StatusMessage("failed"), "receive", "receive")

-----------------------------------------------------------------------------
\* The evidence

\* Mutants: an earlier attempt is not looked for; what it captured is taken
\* for uploaded; its manifest is written anew.
LookForNothing ==
    /\ pc = "look"
    /\ pc' = "shoot"
    /\ UNCHANGED <<sends, known, processed, folder, media, noted, blobs, sent,
                   expired, commands, faults>>

LookUploaded ==
    /\ pc = "look"
    /\ pc' = CASE folder \in {"none", "made"} -> "shoot"
               [] folder = "torn" -> "complain"
               [] folder = "whole" -> "hand_in"
    /\ UNCHANGED <<sends, known, processed, folder, media, noted, blobs, sent,
                   expired, commands, faults>>

LookAndNote ==
    /\ pc = "look"
    /\ pc' = CASE folder \in {"none", "made"} -> "shoot"
               [] folder = "torn" -> "complain"
               [] folder = "whole" -> "note"
    /\ UNCHANGED <<sends, known, processed, folder, media, noted, blobs, sent,
                   expired, commands, faults>>

\* _load_existing_manifest.  Its challenge is the command's: both deliveries
\* carry the same command.
Look ==
    /\ pc = "look"
    /\ pc' = CASE folder \in {"none", "made"} -> "shoot"
               [] folder = "torn" -> "complain"
               [] folder = "whole" -> "image"
    /\ UNCHANGED <<sends, known, processed, folder, media, noted, blobs, sent,
                   expired, commands, faults>>

\* capture makes the directory, which must not be there yet; or it cannot.
Shoot ==
    /\ pc = "shoot"
    /\ \/ folder = "none" /\ folder' = "made" /\ pc' = "sense" /\ UNCHANGED faults
       \/ folder # "none" /\ Complain /\ UNCHANGED <<folder, faults>>
       \/ Fault("error") /\ Complain /\ UNCHANGED folder
    /\ UNCHANGED <<sends, known, processed, media, noted, blobs, sent,
                   expired, commands>>

\* Button, sensors, camera and microphone; see RealCapture.
Sense ==
    /\ pc = "sense"
    /\ \/ /\ media' = commands
          /\ \/ ~expired /\ pc' = "note" /\ UNCHANGED faults
             \/ expired /\ Complain /\ UNCHANGED faults
             \/ Fault("error") /\ Complain
       \/ expired /\ Complain /\ UNCHANGED <<media, faults>>
       \/ Fault("error") /\ Complain /\ UNCHANGED media
    /\ UNCHANGED <<sends, known, processed, folder, noted, blobs, sent,
                   expired, commands>>

\* manifest.json, over whatever is there.
Note ==
    /\ pc = "note"
    /\ \/ /\ folder' = "whole"
          /\ noted' = media
          /\ pc' = "finish"
          /\ UNCHANGED faults
       \/ /\ Fault("error") /\ Complain
          /\ folder' \in {folder, "torn"}
          /\ UNCHANGED noted
    /\ UNCHANGED <<sends, known, processed, media, blobs, sent, expired, commands>>

\* manifest.sha256, edge.log and the LED: an error here fails a capture whose
\* manifest stays.
Finish ==
    /\ pc = "finish"
    /\ \/ pc' = "image" /\ UNCHANGED faults
       \/ Fault("error") /\ Complain
    /\ UNCHANGED <<sends, known, processed, folder, media, noted, blobs, sent,
                   expired, commands>>

\* A PUT replaces the blob; one that raises may have done so.
Upload(name, next) ==
    /\ pc = name
    /\ \/ /\ blobs' = [blobs EXCEPT ![name] = media]
          /\ pc' = next
          /\ UNCHANGED faults
       \/ /\ Fault("error") /\ Complain
          /\ blobs' \in {blobs, [blobs EXCEPT ![name] = media]}
    /\ UNCHANGED <<sends, known, processed, folder, media, noted, sent,
                   expired, commands>>

UploadImage == Upload("image", "audio")

\* Mutant: the command is remembered before its manifest is handed in.
UploadAudioAndRemember == Upload("audio", "remember")

UploadAudio == Upload("audio", "hand_in")

\* add: the set in memory first, then the file, which may fail after the
\* manifest has been handed in.
Remember ==
    /\ pc = "remember"
    /\ known' = TRUE
    /\ \/ processed' = TRUE /\ pc' = "receive" /\ UNCHANGED faults
       \/ Fault("error") /\ Complain /\ UNCHANGED processed
    /\ UNCHANGED <<sends, folder, media, noted, blobs, sent, expired, commands>>

-----------------------------------------------------------------------------
Expire ==
    /\ ~expired
    /\ expired' = TRUE
    /\ UNCHANGED <<pc, sends, known, processed, folder, media, noted, blobs,
                   sent, commands, faults>>

Step ==
    \/ SendDuplicate \/ Announce \/ SendCapturing \/ Look \/ Shoot \/ Sense
    \/ Note \/ Finish \/ UploadImage \/ UploadAudio \/ SendManifest \/ Remember
    \/ SendFailed

Next == Receive \/ Step \/ Crash \/ Restart \/ Expire

Spec == Init /\ [][Next]_vars

\* asyncio runs what it has begun; nobody need send a command or restart, and a
\* capture need not come back, see CallEnds in RealCapture.
FairSpec == Spec /\ WF_vars(Step /\ pc # "sense")

-----------------------------------------------------------------------------
\* Properties

HandedIn == {m \in sent : m.kind = "manifest"}

\* Whatever manifest has been handed in, then and for good the blobs hold the
\* very bytes it was made of: no later attempt captures again, or uploads
\* anything else.
HandedInIsUploaded ==
    \A m \in HandedIn :
        m.capture # 0 /\ blobs = [name \in {"image", "audio"} |-> m.capture]

\* A command that is remembered on the disk has been handed in, so that a
\* redelivery may be ignored; and it is: it is never worked on again, after a
\* restart either.
ProcessedIsSettled ==
    processed =>
        /\ HandedIn # {}
        /\ pc \in {"down", "receive", "duplicate"}

\* As long as nothing fails but the process as a whole, a session is either handed in
\* or reported failed, never both, however often its command comes.
HandInIsFinal ==
    faults["error"] = 0 /\ HandedIn # {} => StatusMessage("failed") \notin sent

\* No capture waits for ever.
CaptureReturns == []<>(pc # "sense")

\* A command that was announced is handed in or reported failed, unless its
\* capture does not come back, the device went down or as many things failed as
\* _send makes attempts.
AnnouncedIsAnswered ==
    CaptureReturns =>
        (pc = "capturing" ~>
            \/ pc = "down" \/ faults["error"] >= MaxSends
            \/ \E m \in sent : m.kind \in {"manifest", "failed"})

Folder == INSTANCE EvidenceFolder

\* Redeliveries and crashes keep the promise of the evidence directory.
KeepsFolder == Folder!Spec
=============================================================================
