-------------------------- MODULE RealCaptureProofs --------------------------
(***************************************************************************)
(* Theorems about RealCapture, for any times, deadline, number of presses  *)
(* and of calls.                                                           *)
(*                                                                         *)
(* The directory is what keeps the calls apart: only the call that made it *)
(* starts the tasks, and the tasks run in no other step than the one that  *)
(* waits for them.  So the presses and files a manifest is built from are  *)
(* of the call that writes it, and a later call touches nothing.           *)
(***************************************************************************)
EXTENDS RealCapture, TLAPS

Making == {"begin", "led", "submit", "collect", "end", "write"}
Capturing == {"collect", "end", "write"}
Media == {"camera", "microphone"}

\* Only the call that made the directory gets past that, and tasks run only
\* while it waits for them.
OwnsFolder ==
    /\ pc \in Making => folder = "made"
    /\ \A t \in Tasks : task[t] = "running" => pc = "collect"
    /\ pc \in {"end", "write"} => \A t \in Tasks : task[t] = "ok"

\* The LED shows nothing before it is opened or after it is closed.
LedFollows == pc \in {"idle", "make", "begin", "led"} => led = "closed"

\* A call has no result before its last step, and edge.log was completed, after
\* the manifest, by the call that returned one.
LogInv ==
    /\ pc \notin {"idle", "close"} => result = "none"
    /\ log = "completed" => folder = "whole"
    /\ pc = "success" \/ result = "manifest" => log = "completed"

\* The clock has shown every instant since the session was created.
ClockInv ==
    /\ clock \in Nat
    /\ 0 .. clock \subseteq Times
    /\ pc \in Making \ {"begin"} =>
         started \in 0 .. clock /\ started < Deadline
    /\ pc = "write" => finished \in started .. clock /\ finished <= Deadline

\* What the button task has recorded lies between the start and now.
PressInv ==
    /\ pressed \in Seq(Nat \cap Times)
    /\ Len(pressed) <= Presses
    /\ pc \in Capturing =>
         /\ \A i \in 1 .. Len(pressed) : pressed[i] \in started .. clock
         /\ task["button"] = "running" /\ button # "held" => Len(pressed) < Presses
         /\ task["button"] = "ok" => Len(pressed) = Presses
    /\ pc = "write" => \A i \in 1 .. Len(pressed) : pressed[i] <= finished

\* A task that has ended well left a complete file.
MediaInv == pc \in Capturing => \A t \in Media : task[t] = "ok" => media[t] = "complete"

\* Every check passes, but for the expiry.
Timely(m) ==
    /\ HeadCheck(m) = "fine" /\ RangeCheck(m, TheSession) = "fine"
    /\ EventCheck(m, TheSession) = "fine" /\ TailCheck(m) = "fine"

WrittenInv ==
    folder = "whole" =>
        /\ 0 <= Deadline
        /\ media = [t \in Media |-> "complete"]
        /\ Timely(manifest)

CaptureInv ==
    /\ TypeOK
    /\ OwnsFolder
    /\ LedFollows
    /\ LogInv
    /\ ClockInv
    /\ PressInv
    /\ MediaInv
    /\ WrittenInv

-----------------------------------------------------------------------------
\* What is built from the presses and the times

LEMMA CutToMilliseconds ==
    ASSUME NEW a \in Nat, NEW b \in Nat, a <= b
    PROVE  /\ Milliseconds(a) \in 0 .. a
           /\ Milliseconds(a) <= Milliseconds(b)
BY DEF Milliseconds

\* At the time of the write the presses lie in the capture and that lies in the
\* session, cut to milliseconds as well.
LEMMA BuiltIsTimely ==
    ASSUME CaptureInv, pc = "write"
    PROVE  Built \in Manifest /\ Timely(Built)
<1>1. /\ started \in Nat /\ finished \in Nat /\ clock \in Nat
      /\ started <= finished /\ finished <= clock /\ finished <= Deadline
      /\ 0 .. clock \subseteq Times
  BY DEF CaptureInv, ClockInv, Making
<1>2. /\ pressed \in Seq(Nat) /\ Len(pressed) = Presses
      /\ \A i \in 1 .. Len(pressed) :
            pressed[i] \in Nat /\ started <= pressed[i] /\ pressed[i] <= finished
  BY <1>1 DEF CaptureInv, PressInv, OwnsFolder, Tasks, Capturing
<1>3. Presses \in Nat /\ 1 .. Presses \subseteq Buttons /\ Presses \in Buttons
      /\ Deadline \in Int
  BY CaptureConstants, ManifestConstants
<1>. DEFINE b == Built
<1>4. /\ b.head = "fine" /\ b.tail = "fine"
      /\ b.started = Milliseconds(started) /\ b.finished = Milliseconds(finished)
      /\ b.events = [i \in 1 .. Presses |-> [index |-> i, at |-> Milliseconds(pressed[i])]]
  BY <1>2 DEF Built
<1>5. /\ Milliseconds(started) \in Times /\ Milliseconds(finished) \in Times
      /\ 0 <= Milliseconds(started) /\ Milliseconds(started) <= Milliseconds(finished)
      /\ Milliseconds(finished) <= Deadline
      /\ Milliseconds(started) \in Int /\ Milliseconds(finished) \in Int
  BY <1>1, <1>3, CutToMilliseconds
<1>6. ASSUME NEW i \in 1 .. Presses
      PROVE  /\ Milliseconds(pressed[i]) \in Times /\ Milliseconds(pressed[i]) \in Int
             /\ Milliseconds(started) <= Milliseconds(pressed[i])
             /\ Milliseconds(pressed[i]) <= Milliseconds(finished)
  <2>1. /\ pressed[i] \in Nat /\ started <= pressed[i] /\ pressed[i] <= finished
    BY <1>2
  <2>. QED
    BY <1>1, <2>1, CutToMilliseconds
<1>7. b.events \in [1 .. Presses -> Events]
  BY <1>3, <1>4, <1>6 DEF Events
<1>8. b \in Manifest
  <2>1. b.events \in UNION {[1 .. n -> Events] : n \in Buttons}
    BY <1>3, <1>7
  <2>2. b = [head |-> b.head, tail |-> b.tail, started |-> b.started,
             finished |-> b.finished, events |-> b.events]
    BY DEF Built
  <2>. HIDE DEF b
  <2>. QED
    BY <1>4, <1>5, <2>1, <2>2 DEF Manifest, Heads, Tails
<1>9. Len(b.events) = Presses
  BY <1>3, <1>4
<1>. HIDE DEF b
<1>10. RangeCheck(b, TheSession) = "fine"
  BY <1>3, <1>4, <1>5 DEF RangeCheck, TheSession
<1>11. EventCheck(b, TheSession) = "fine"
  <2>1. ASSUME NEW i \in 1 .. Len(b.events)
        PROVE  /\ b.events[i].index = i
               /\ Within(b.events[i].at, b.started, b.finished)
               /\ Within(b.events[i].at, TheSession.created, TheSession.expires)
    <3>0. i \in 1 .. Presses
      BY <1>9
    <3>1. b.events[i].index = i /\ b.events[i].at = Milliseconds(pressed[i])
      BY <1>4, <3>0
    <3>2. /\ Milliseconds(pressed[i]) \in Int
          /\ Milliseconds(started) <= Milliseconds(pressed[i])
          /\ Milliseconds(pressed[i]) <= Milliseconds(finished)
      BY <1>6, <3>0
    <3>3. Within(b.events[i].at, b.started, b.finished)
      BY <1>4, <3>1, <3>2 DEF Within
    <3>4. 0 <= Milliseconds(pressed[i]) /\ Milliseconds(pressed[i]) <= Deadline
      BY <1>3, <1>5, <3>2
    <3>. QED
      BY <3>1, <3>3, <3>4 DEF Within, TheSession
  <2>. QED
    BY <1>9, <2>1 DEF EventCheck, TheSession
<1>. QED
  BY <1>4, <1>8, <1>10, <1>11 DEF Timely, HeadCheck, TailCheck, b

\* A manifest that only the expiry can fail is accepted until the deadline.
LEMMA TimelyVerdict ==
    ASSUME NEW m, Timely(m), NEW at
    PROVE  Verdict(m, TheSession, at) =
             IF at > Deadline THEN "ERR_SESSION_EXPIRED" ELSE "accepted"
<1>. DEFINE checks == <<HeadCheck(m), ExpiryCheck(TheSession, at), RangeCheck(m, TheSession),
                        EventCheck(m, TheSession), TailCheck(m)>>
            failing == {i \in 1 .. Len(checks) : checks[i] # "fine"}
            first == CHOOSE i \in failing : \A j \in failing : i <= j
<1>1. Verdict(m, TheSession, at) = IF failing = {} THEN "accepted" ELSE checks[first]
  BY DEF Verdict
<1>2. /\ Len(checks) = 5 /\ checks[1] = "fine" /\ checks[3] = "fine"
      /\ checks[4] = "fine" /\ checks[5] = "fine"
      /\ checks[2] = IF at > Deadline THEN "ERR_SESSION_EXPIRED" ELSE "fine"
  BY DEF Timely, ExpiryCheck, TheSession
<1>3. CASE at > Deadline
  <2>1. failing = {2}
    <3>. HIDE DEF checks
    <3>. QED
      BY <1>2, <1>3
  <2>. HIDE DEF failing
  <2>2. first = 2
    BY <2>1
  <2>. QED
    BY <1>1, <1>2, <1>3, <2>1, <2>2
<1>4. CASE ~(at > Deadline)
  <2>1. failing = {}
    <3>. HIDE DEF checks
    <3>. QED
      BY <1>2, <1>4
  <2>. QED
    BY <1>1, <1>4, <2>1
<1>. QED
  BY <1>3, <1>4

-----------------------------------------------------------------------------
\* The calling thread

LEMMA CallerStep == ASSUME CaptureInv, Caller PROVE CaptureInv'
<1>. USE CaptureConstants, ManifestConstants
     DEF CaptureInv, TypeOK, OwnsFolder, LedFollows, LogInv, ClockInv, PressInv,
         MediaInv, WrittenInv, Making, Capturing, Tasks, Media, Steps, taskVars, times, Goto,
         WriteFailure
<1>1. CASE Make BY <1>1 DEF Make
<1>2. CASE Begin BY <1>2 DEF Begin
<1>3. CASE Led BY <1>3 DEF Led
<1>4. CASE Submit BY <1>4 DEF Submit
<1>5. CASE Collect BY <1>5 DEF Collect
<1>6. CASE End BY <1>6 DEF End
<1>7. CASE Write
  <2>1. /\ pc = "write" /\ folder = "made"
        /\ UNCHANGED <<task, button, pressed, media, started, finished, clock, led, result, calls>>
        /\ \/ pc' = "success" /\ log' = "completed" /\ folder' = "whole"
           \/ pc' = "failure" /\ log' = log
        /\ \/ folder' = "whole" /\ manifest' = Built
           \/ folder' \in {"made", "torn"} /\ manifest' = manifest
    BY <1>7 DEF Write
  <2>2. Built \in Manifest /\ Timely(Built)
    BY <2>1, BuiltIsTimely
  <2>3. media = [t \in Media |-> "complete"]
    BY <2>1
  <2>4. 0 <= Deadline
    BY <2>1
  <2>5. WrittenInv'
    BY <2>1, <2>2, <2>3, <2>4 DEF Timely, TheSession
  <2>. HIDE DEF WrittenInv
  <2>. QED
    BY <2>1, <2>2, <2>5
<1>8. CASE Success BY <1>8 DEF Success
<1>9. CASE Failure BY <1>9 DEF Failure
<1>10. CASE Close BY <1>10 DEF Close
<1>. QED
  BY <1>1, <1>2, <1>3, <1>4, <1>5, <1>6, <1>7, <1>8, <1>9, <1>10 DEF Caller

-----------------------------------------------------------------------------
\* The tasks

LEMMA ButtonStep == ASSUME CaptureInv, ButtonTask PROVE CaptureInv'
<1>. USE CaptureConstants, ManifestConstants
     DEF CaptureInv, TypeOK, OwnsFolder, LedFollows, LogInv, ClockInv, PressInv,
         MediaInv, WrittenInv, Making, Capturing, Tasks, Media, Steps, times, Ends, OnlyTasks
<1>1. CASE AwaitPress BY <1>1 DEF AwaitPress
<1>2. CASE Press
  <2>1. CASE task' = [task EXCEPT !["button"] = "failed"] /\ UNCHANGED <<pressed, button>>
    BY <1>2, <2>1 DEF Press
  <2>2. CASE pressed' = Append(pressed, clock) /\ button' = "held" /\ UNCHANGED task
    <3>1. /\ pc = "collect" /\ clock \in Nat \cap Times /\ started \in 0 .. clock
          /\ pressed \in Seq(Nat \cap Times) /\ Len(pressed) < Presses
          /\ UNCHANGED <<pc, media, started, finished, clock, folder, manifest, log, led, result, calls>>
      BY <1>2, <2>2 DEF Press
    <3>2. /\ pressed' \in Seq(Nat \cap Times) /\ Len(pressed') = Len(pressed) + 1
          /\ Len(pressed') <= Presses
          /\ \A i \in 1 .. Len(pressed') :
                pressed'[i] = IF i = Len(pressed') THEN clock ELSE pressed[i]
      BY <2>2, <3>1
    <3>3. pressed' \in Seq(Times)
      BY <3>2
    <3>4. TypeOK' /\ OwnsFolder' /\ LedFollows' /\ LogInv' /\ ClockInv' /\ MediaInv' /\ WrittenInv'
      BY <2>2, <3>1, <3>2, <3>3
    <3>5. PressInv'
      BY <1>2, <2>2, <3>1, <3>2 DEF Press
    <3>. QED
      BY <3>4, <3>5
  <2>. QED
    BY <1>2, <2>1, <2>2 DEF Press
<1>3. CASE Release BY <1>3 DEF Release
<1>4. CASE NoButton BY <1>4 DEF NoButton
<1>. QED
  BY <1>1, <1>2, <1>3, <1>4 DEF ButtonTask

LEMMA OtherTaskStep ==
    ASSUME CaptureInv, ReadSensors \/ Record("camera") \/ Record("microphone")
    PROVE  CaptureInv'
<1>. USE CaptureConstants, ManifestConstants
     DEF CaptureInv, TypeOK, OwnsFolder, LedFollows, LogInv, ClockInv, PressInv,
         MediaInv, WrittenInv, Making, Capturing, Tasks, Media, Steps, Progress, times, Ends,
         OnlyTasks
<1>1. CASE ReadSensors BY <1>1 DEF ReadSensors
<1>2. ASSUME NEW t \in Media, Record(t) PROVE CaptureInv'
  BY <1>2 DEF Record
<1>. QED
  BY <1>1, <1>2

-----------------------------------------------------------------------------
\* The invariant holds

LEMMA CaptureInvInit == Init => CaptureInv
BY CaptureConstants, ManifestConstants
   DEF Init, CaptureInv, TypeOK, OwnsFolder, LedFollows, LogInv, ClockInv, PressInv,
       MediaInv, WrittenInv, Making, Capturing, Tasks, Media, Steps, Progress

LEMMA CaptureInvStep == CaptureInv /\ [Next]_vars => CaptureInv'
<1>. SUFFICES ASSUME CaptureInv, [Next]_vars PROVE CaptureInv'
  OBVIOUS
<1>. USE CaptureConstants, ManifestConstants
     DEF CaptureInv, TypeOK, OwnsFolder, LedFollows, LogInv, ClockInv, PressInv,
         MediaInv, WrittenInv, Making, Capturing, Tasks, Media, Steps, taskVars, times, Goto
<1>1. CASE Tick BY <1>1 DEF Tick
<1>2. CASE Crash BY <1>2 DEF Crash
<1>3. CASE Call BY <1>3 DEF Call
<1>4. CASE UNCHANGED vars BY <1>4 DEF vars
<1>. HIDE DEF CaptureInv
<1>. QED
  BY <1>1, <1>2, <1>3, <1>4, CallerStep, ButtonStep, OtherTaskStep DEF Next

\* The invariant the other theorems follow from.
THEOREM CaptureInvHolds == Spec => []CaptureInv
<1>. QED
  BY CaptureInvInit, CaptureInvStep, PTL DEF Spec

-----------------------------------------------------------------------------
\* The theorems

\* Every variable has its type; what is written is one of the manifests the
\* cloud's validation is about.
THEOREM TypeCorrect == Spec => []TypeOK
<1>1. CaptureInv => TypeOK
  BY DEF CaptureInv
<1>. QED
  BY <1>1, CaptureInvHolds, PTL

\* A manifest capture() has written passes validate_manifest until the deadline,
\* and fails for being late only, although its timestamps are cut to milliseconds
\* after they were compared; its files are complete.
THEOREM WrittenIsAcceptableHolds == Spec => []WrittenIsAcceptable
<1>1. CaptureInv => WrittenIsAcceptable
  <2>. SUFFICES ASSUME CaptureInv, folder = "whole"
                PROVE  /\ media = [t \in Media |-> "complete"]
                       /\ Verdict(manifest, TheSession, clock) \in {"accepted", "ERR_SESSION_EXPIRED"}
                       /\ Verdict(manifest, TheSession, 0) = "accepted"
    BY DEF WrittenIsAcceptable, Media
  <2>1. /\ 0 <= Deadline /\ media = [t \in Media |-> "complete"] /\ Timely(manifest)
    BY DEF CaptureInv, WrittenInv
  <2>2. Deadline \in Int
    BY CaptureConstants, ManifestConstants
  <2>3. ~(0 > Deadline)
    BY <2>1, <2>2
  <2>. QED
    BY <2>1, <2>3, TimelyVerdict
<1>. QED
  BY <1>1, CaptureInvHolds, PTL

\* However a call ends, a crash included, no task of it runs on and the LED is
\* closed.
THEOREM NothingLeftBehindHolds == Spec => []NothingLeftBehind
<1>1. CaptureInv => NothingLeftBehind
  BY DEF CaptureInv, OwnsFolder, LedFollows, NothingLeftBehind
<1>. QED
  BY <1>1, CaptureInvHolds, PTL

\* A call that returned a manifest left "completed" in edge.log, and that is
\* never said of a directory without a whole manifest, whatever failed, died or
\* was called again in between.
THEOREM CompletedIsWholeHolds == Spec => []CompletedIsWhole
<1>1. CaptureInv => CompletedIsWhole
  BY DEF CaptureInv, LogInv, CompletedIsWhole
<1>. QED
  BY <1>1, CaptureInvHolds, PTL

\* The four tasks, the calling thread, crashes and later calls keep the promise of
\* the evidence directory.
THEOREM KeepsFolderHolds == Spec => KeepsFolder
<1>1. Init => Folder!Init
  BY DEF Init, Folder!Init
<1>2. CaptureInv /\ [Next]_vars => [Folder!Next]_<<folder, media>>
  <2>. SUFFICES ASSUME CaptureInv, [Next]_vars PROVE [Folder!Next]_<<folder, media>>
    OBVIOUS
  <2>. USE DEF Folder!Next, Folder!Make, Folder!Record, Folder!Write
  <2>1. pc \in Making => folder = "made"
    BY DEF CaptureInv, OwnsFolder
  <2>2. \A t \in Tasks : task[t] = "running" => folder = "made"
    BY <2>1 DEF CaptureInv, OwnsFolder, Making
  <2>3. CASE Tick \/ Crash \/ Call \/ UNCHANGED vars
    BY <2>1, <2>3 DEF Tick, Crash, Call, vars, taskVars, Making
  <2>4. CASE Caller
    BY <2>1, <2>4 DEF Caller, Make, Begin, Led, Submit, Collect, End, Write, Success,
                      Failure, Close, taskVars, Making
  <2>5. CASE ButtonTask
    BY <2>5 DEF ButtonTask, AwaitPress, Press, Release, NoButton, OnlyTasks
  <2>6. CASE ReadSensors \/ Record("camera") \/ Record("microphone")
    BY <2>2, <2>6 DEF ReadSensors, Record, OnlyTasks, Tasks
  <2>. QED
    BY <2>3, <2>4, <2>5, <2>6 DEF Next
<1>. QED
  BY <1>1, <1>2, CaptureInvHolds, PTL DEF Spec, KeepsFolder, Folder!Spec
=============================================================================
