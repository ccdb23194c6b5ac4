----------------------------- MODULE RealCapture -----------------------------
(***************************************************************************)
(* real_capture.RealDeviceCapture.capture: button, sensors, camera and     *)
(* microphone at work in four threads, and what becomes of the session     *)
(* directory, the manifest, edge.log and the LED.                          *)
(*                                                                         *)
(* The calling thread leaves the executor's block only when all four tasks *)
(* have ended, whatever it read from the first of them.  The button task   *)
(* watches the deadline itself and the two recording commands are run with *)
(* a timeout; the sensor task has none over all.  The process may die at   *)
(* every step, and the same session may be captured again.                 *)
(*                                                                         *)
(* Time is counted in half milliseconds: the manifest's timestamps are cut *)
(* to milliseconds, the comparisons on the device are not.                 *)
(***************************************************************************)
EXTENDS ManifestCheck

CONSTANTS
    Presses,      \* button_count of the challenge
    Deadline,     \* expires_at, a whole millisecond
    MaxCalls      \* model bound: captures of the same session

ASSUME CaptureConstants ==
    /\ Presses \in Buttons \ {0}          \* randbelow(3) + 1
    /\ 1 .. Presses \subseteq Buttons
    /\ Deadline \in Times /\ Deadline % 2 = 0
    /\ 0 \in Times
    /\ MaxCalls \in Nat

Tasks == {"button", "sensors", "camera", "microphone"}

VARIABLES
    pc,        \* what the calling thread does next
    task,      \* how each task stands
    button,    \* where the button task stands
    pressed,   \* timestamps of the presses so far
    started, finished,
    clock,     \* the device's clock; the cloud's shows the same
    folder,    \* the session directory, see EvidenceFolder
    media,     \* how far image.jpg and audio.wav have been written
    manifest,  \* the contents of manifest.json, once it is whole
    log,       \* the last status line of edge.log
    led,       \* what the LED shows; "closed" when its pin is given back
    result,    \* what the call returned or raised
    calls      \* captures begun

vars == <<pc, task, button, pressed, started, finished, clock, folder, media,
          manifest, log, led, result, calls>>

taskVars == <<task, button, pressed, media>>
times == <<started, finished, clock>>

Steps == {"idle", "make", "begin", "led", "submit", "collect", "end", "write",
          "success", "failure", "close"}

Progress == {"none", "partial", "complete"}

TypeOK ==
    /\ pc \in Steps
    /\ task \in [Tasks -> {"off", "running", "ok", "failed"}]
    /\ button \in {"loop", "wait", "held"}
    /\ pressed \in Seq(Times) /\ Len(pressed) <= Presses
    /\ started \in Times /\ finished \in Times /\ clock \in Times
    /\ folder \in {"none", "made", "torn", "whole"}
    /\ media \in [{"camera", "microphone"} -> Progress]
    /\ manifest = <<>> \/ manifest \in Manifest
    /\ log \in {"none", "completed", "failed"}
    /\ led \in {"closed", "on", "off"}
    /\ result \in {"none", "manifest", "error", "no_led"}
    /\ calls \in 0 .. MaxCalls

\* The session was created at 0.
Init ==
    /\ pc = "idle"
    /\ task = [t \in Tasks |-> "off"]
    /\ button = "loop"
    /\ pressed = <<>>
    /\ started = 0 /\ finished = 0 /\ clock = 0
    /\ folder = "none"
    /\ media = [t \in {"camera", "microphone"} |-> "none"]
    /\ manifest = <<>>
    /\ log = "none"
    /\ led = "closed"
    /\ result = "none"
    /\ calls = 0

-----------------------------------------------------------------------------
Tick ==
    /\ clock + 1 \in Times
    /\ clock' = clock + 1
    /\ UNCHANGED <<pc, taskVars, started, finished, folder, manifest, log, led,
                   result, calls>>

\* The process dies, in the middle of a write perhaps.
Crash ==
    /\ pc # "idle"
    /\ pc' = "idle"
    /\ task' = [t \in Tasks |-> "off"]
    /\ folder' \in IF pc = "write" THEN {folder, "torn"} ELSE {folder}
    /\ led' = "closed"
    /\ UNCHANGED <<button, pressed, media, times, manifest, log, result, calls>>

-----------------------------------------------------------------------------
\* The calling thread

Goto(step) == pc' = step

\* A call begins, the first one or that of a command delivered again.
Call ==
    /\ pc = "idle"
    /\ calls < MaxCalls
    /\ calls' = calls + 1
    /\ result' = "none"
    /\ Goto("make")
    /\ UNCHANGED <<taskVars, times, folder, manifest, log, led>>

\* Mutant: mkdir(exist_ok=True).
MakeAgain ==
    /\ pc = "make"
    /\ folder' = "made"
    /\ Goto("begin")
    /\ UNCHANGED <<taskVars, times, manifest, log, led, result, calls>>

\* mkdir(exist_ok=False), outside the try block: no directory is found and one
\* is made, or an error is raised, that of the file system on a first call too.
Make ==
    /\ pc = "make"
    /\ \/ folder = "none" /\ folder' = "made" /\ Goto("begin") /\ UNCHANGED result
       \/ result' = "error" /\ Goto("idle") /\ UNCHANGED folder
    /\ UNCHANGED <<taskVars, times, manifest, log, led, calls>>

\* _write_failure: opening edge.log or appending to it may fail itself.
WriteFailure == log' \in {log, "failed"}

\* Still outside the try block.  An expires_at that cannot be parsed is not
\* logged, one that has passed is.
Begin ==
    /\ pc = "begin"
    /\ started' = clock
    /\ \/ clock < Deadline /\ Goto("led") /\ UNCHANGED <<log, result>>
       \/ UNCHANGED log /\ result' = "error" /\ Goto("idle")
       \/ clock >= Deadline /\ WriteFailure /\ result' = "error" /\ Goto("idle")
    /\ UNCHANGED <<taskVars, finished, clock, folder, manifest, led, calls>>

\* status.capturing(), outside the try block too: an LED that cannot be opened
\* ends the call at once.
Led ==
    /\ pc = "led"
    /\ \/ led' = "on" /\ Goto("submit") /\ UNCHANGED result
       \/ result' = "no_led" /\ Goto("idle") /\ UNCHANGED led
    /\ UNCHANGED <<taskVars, times, folder, manifest, log, calls>>

Submit ==
    /\ pc = "submit"
    /\ task' = [t \in Tasks |-> "running"]
    /\ button' = "loop"
    /\ pressed' = <<>>
    /\ Goto("collect")
    /\ UNCHANGED <<media, times, folder, manifest, log, led, result, calls>>

\* Mutant: the first task that has failed ends the capture.
CollectFirst ==
    /\ pc = "collect"
    /\ \/ (\A t \in Tasks : task[t] = "ok") /\ Goto("end")
       \/ (\E t \in Tasks : task[t] = "failed") /\ Goto("failure")
    /\ UNCHANGED <<taskVars, times, folder, manifest, log, led, result, calls>>

\* The results are read one after another; the block is left when no task
\* runs any more.
Collect ==
    /\ pc = "collect"
    /\ \A t \in Tasks : task[t] \in {"ok", "failed"}
    /\ Goto(IF \A t \in Tasks : task[t] = "ok" THEN "end" ELSE "failure")
    /\ UNCHANGED <<taskVars, times, folder, manifest, log, led, result, calls>>

\* Mutant: the time the capture took is not looked at.
EndAnytime ==
    /\ pc = "end"
    /\ finished' = clock
    /\ Goto("write")
    /\ UNCHANGED <<taskVars, started, clock, folder, manifest, log, led, result, calls>>

End ==
    /\ pc = "end"
    /\ finished' = clock
    /\ Goto(IF clock > Deadline THEN "failure" ELSE "write")
    /\ UNCHANGED <<taskVars, started, clock, folder, manifest, log, led, result, calls>>

\* isoformat(timespec="milliseconds")
Milliseconds(at) == at - (at % 2)

\* build_evidence_manifest.
Built ==
    [head |-> "fine", tail |-> "fine",
     started |-> Milliseconds(started), finished |-> Milliseconds(finished),
     events |-> [i \in 1 .. Len(pressed) |->
                   [index |-> i, at |-> Milliseconds(pressed[i])]]]

\* Mutant: edge.log is written before the manifest.
WriteLogFirst ==
    /\ pc = "write"
    /\ \/ folder' = "whole" /\ manifest' = Built /\ log' = "completed" /\ Goto("success")
       \/ /\ folder' \in {folder, "torn"} /\ log' \in {log, "completed"}
          /\ UNCHANGED manifest /\ Goto("failure")
    /\ UNCHANGED <<taskVars, times, led, result, calls>>

\* write_manifest_artifacts: manifest.json, its hash and a new edge.log, each of
\* which may fail; or the manifest cannot be built.
Write ==
    /\ pc = "write"
    /\ \/ /\ folder' = "whole" /\ manifest' = Built
          /\ \/ log' = "completed" /\ Goto("success")
             \/ Goto("failure") /\ UNCHANGED log
       \/ /\ folder' \in {folder, "torn"} /\ UNCHANGED <<manifest, log>>
          /\ Goto("failure")
    /\ UNCHANGED <<taskVars, times, led, result, calls>>

\* The LED blinks, which takes a while and may fail: the manifest stays.
Success ==
    /\ pc = "success"
    /\ \/ result' = "manifest" /\ led' = "off" /\ Goto("close")
       \/ led' \in {"on", "off"} /\ Goto("failure") /\ UNCHANGED result
    /\ UNCHANGED <<taskVars, times, folder, manifest, log, calls>>

\* edge.log, then the LED: a log that cannot be written keeps the LED as it is,
\* an LED that fails here changes the error only.
Failure ==
    /\ pc = "failure"
    /\ WriteFailure
    /\ led' \in IF log' = "failed" THEN {"on", "off"} ELSE {led}
    /\ result' = "error"
    /\ Goto("close")
    /\ UNCHANGED <<taskVars, times, folder, manifest, calls>>

\* The LED is switched off and its pin given back; that this may fail as well is
\* left out.
Close ==
    /\ pc = "close"
    /\ led' = "closed"
    /\ Goto("idle")
    /\ UNCHANGED <<taskVars, times, folder, manifest, log, result, calls>>

Caller ==
    \/ Make \/ Begin \/ Led \/ Submit \/ Collect \/ End \/ Write \/ Success
    \/ Failure \/ Close

-----------------------------------------------------------------------------
\* The tasks

Ends(t, how) == task' = [task EXCEPT ![t] = how]

OnlyTasks ==
    UNCHANGED <<pc, times, folder, manifest, log, led, result, calls>>

\* How long there is left to wait for a press.
AwaitPress ==
    /\ task["button"] = "running" /\ button = "loop"
    /\ \/ clock < Deadline /\ button' = "wait" /\ UNCHANGED task
       \/ clock >= Deadline /\ Ends("button", "failed") /\ UNCHANGED button
    /\ UNCHANGED <<pressed, media>> /\ OnlyTasks

\* Mutant: wait_for_press without a timeout.
PressOrWait ==
    /\ task["button"] = "running" /\ button = "wait"
    /\ clock <= Deadline
    /\ pressed' = Append(pressed, clock) /\ button' = "held"
    /\ UNCHANGED <<task, media>> /\ OnlyTasks

\* wait_for_press gives way to a press, or to the deadline.
Press ==
    /\ task["button"] = "running" /\ button = "wait"
    /\ \/ /\ clock <= Deadline
          /\ pressed' = Append(pressed, clock) /\ button' = "held"
          /\ UNCHANGED task
       \/ /\ clock >= Deadline
          /\ Ends("button", "failed")
          /\ UNCHANGED <<pressed, button>>
    /\ UNCHANGED media /\ OnlyTasks

\* Let go within a second, or not.
Release ==
    /\ task["button"] = "running" /\ button = "held"
    /\ \/ Len(pressed) < Presses /\ button' = "loop" /\ UNCHANGED task
       \/ Len(pressed) = Presses /\ Ends("button", "ok") /\ UNCHANGED button
       \/ Ends("button", "failed") /\ UNCHANGED button
    /\ UNCHANGED <<pressed, media>> /\ OnlyTasks

\* The pin cannot be opened.
NoButton ==
    /\ task["button"] = "running" /\ button = "loop" /\ pressed = <<>>
    /\ Ends("button", "failed")
    /\ UNCHANGED <<button, pressed, media>> /\ OnlyTasks

\* Only the read has a timeout, for one byte: a write the bridge does not take,
\* or a line it does not end, keeps the task waiting.
ReadSensors ==
    /\ task["sensors"] = "running"
    /\ Ends("sensors", "ok") \/ Ends("sensors", "failed")
    /\ UNCHANGED <<button, pressed, media>> /\ OnlyTasks

\* rpicam-still and arecord write their file and may be cut off; only a file
\* that is complete passes the validation.
Record(t) ==
    /\ task[t] = "running"
    /\ \/ media' = [media EXCEPT ![t] = "partial"] /\ UNCHANGED task
       \/ media' = [media EXCEPT ![t] = "complete"] /\ Ends(t, "ok")
       \/ UNCHANGED media /\ Ends(t, "failed")
    /\ UNCHANGED <<button, pressed>> /\ OnlyTasks

ButtonTask == AwaitPress \/ Press \/ Release \/ NoButton

-----------------------------------------------------------------------------
Next ==
    \/ Tick \/ Crash \/ Call \/ Caller
    \/ ButtonTask \/ ReadSensors \/ Record("camera") \/ Record("microphone")

Spec == Init /\ [][Next]_vars

\* Threads run; time passes; wait_for_press, rpicam-still and arecord are given
\* a timeout.  The sensor read need not come back.
FairSpec ==
    /\ Spec
    /\ WF_vars(Tick)
    /\ WF_vars(Caller)
    /\ WF_vars(ButtonTask)
    /\ \A t \in {"camera", "microphone"} :
         WF_vars(Record(t) /\ task'[t] # "running")

-----------------------------------------------------------------------------
\* Properties

TheSession == [created |-> 0, expires |-> Deadline, buttons |-> Presses]

\* A manifest the device has written is one the cloud refuses for nothing but
\* being late, and it names files that are complete.
WrittenIsAcceptable ==
    folder = "whole" =>
        /\ media = [t \in {"camera", "microphone"} |-> "complete"]
        /\ Verdict(manifest, TheSession, clock) \in {"accepted", "ERR_SESSION_EXPIRED"}
        /\ Verdict(manifest, TheSession, 0) = "accepted"

\* When the call is over no task runs on and the LED's pin is given back:
\* nothing writes into the directory or holds a pin behind the back of the next
\* call.  That switching off and closing the LED do not raise is assumed.
NothingLeftBehind ==
    pc = "idle" => led = "closed" /\ \A t \in Tasks : task[t] # "running"

\* edge.log tells the truth of a success: a call that returned a manifest left
\* "completed" there, whatever calls came before, and "completed" never stands in
\* a directory whose manifest is not whole, whichever write fails, LED breaks or
\* process dies in between.  Of a failure it may say nothing: an error before the
\* try block is not logged, and the log may be what cannot be written.
CompletedIsWhole ==
    /\ result = "manifest" => log = "completed"
    /\ log = "completed" => folder = "whole"

Folder == INSTANCE EvidenceFolder WITH media <- media

\* Four threads and repeated calls keep the promise of the evidence directory.
KeepsFolder == Folder!Spec

\* A call ends, or waits for ever for the sensor read and nothing else: no press
\* that never comes, no recording command that hangs and no failure of another
\* task keeps the agent from its next command.
CallEnds ==
    pc = "make" ~>
        \/ pc = "idle"
        \/ [](/\ pc = "collect" /\ task["sensors"] = "running"
              /\ \A t \in Tasks \ {"sensors"} : task[t] \in {"ok", "failed"})
=============================================================================
