---------------------------- MODULE ManifestProofs ----------------------------
(***************************************************************************)
(* Theorems about ManifestAnswers, for all times, button counts, manifests *)
(* and sessions.                                                           *)
(***************************************************************************)
EXTENDS ManifestAnswers, TLAPS

\* What is handed in, and for what.
Given == m \in Manifest /\ s \in Window /\ now \in Times

LEMMA GivenHolds == Spec => []Given
<1>1. Init => Given
  BY DEF Init, Given, Window
<1>2. Given /\ [Next]_vars => Given'
  BY DEF Given, Next, HandIn, Tick, vars
<1>. QED
  BY <1>1, <1>2, PTL DEF Spec

-----------------------------------------------------------------------------
\* The verdict without the order of the checks

\* Every check passes.
Passes(mm, ss, at) ==
    /\ HeadCheck(mm) = "fine"
    /\ ExpiryCheck(ss, at) = "fine"
    /\ RangeCheck(mm, ss) = "fine"
    /\ EventCheck(mm, ss) = "fine"
    /\ TailCheck(mm) = "fine"

\* No check fails with the word that stands for success.
LEMMA CodesAreErrors ==
    ASSUME NEW mm \in Manifest, NEW ss, NEW at
    PROVE  /\ HeadCheck(mm) # "accepted" /\ ExpiryCheck(ss, at) # "accepted"
           /\ RangeCheck(mm, ss) # "accepted" /\ EventCheck(mm, ss) # "accepted"
           /\ TailCheck(mm) # "accepted"
BY DEF Manifest, Heads, Tails, HeadCheck, ExpiryCheck, RangeCheck, EventCheck, TailCheck

\* A set of some of the five checks that is not empty has a first one.
LEMMA FirstOfFive ==
    ASSUME NEW F \in SUBSET (1 .. 5), F # {}
    PROVE  (CHOOSE i \in F : \A j \in F : i <= j) \in F
<1>1. \E i \in F : \A j \in F : i <= j
  <2>1. CASE 1 \in F BY <2>1
  <2>2. CASE 1 \notin F /\ 2 \in F BY <2>2
  <2>3. CASE 1 \notin F /\ 2 \notin F /\ 3 \in F BY <2>3
  <2>4. CASE 1 \notin F /\ 2 \notin F /\ 3 \notin F /\ 4 \in F BY <2>4
  <2>5. CASE 1 \notin F /\ 2 \notin F /\ 3 \notin F /\ 4 \notin F
    <3>1. 5 \in F
      <4>1. PICK i \in F : TRUE
        OBVIOUS
      <4>. QED
        BY <4>1, <2>5
    <3>. QED
      BY <2>5, <3>1
  <2>. QED
    BY <2>1, <2>2, <2>3, <2>4, <2>5
<1>. QED
  BY <1>1

\* The first check that fails decides, so passing all is what accepts.
LEMMA VerdictIsAll ==
    ASSUME NEW mm \in Manifest, NEW ss, NEW at
    PROVE  Verdict(mm, ss, at) = "accepted" <=> Passes(mm, ss, at)
<1>. DEFINE checks == <<HeadCheck(mm), ExpiryCheck(ss, at), RangeCheck(mm, ss),
                        EventCheck(mm, ss), TailCheck(mm)>>
            failing == {i \in 1 .. Len(checks) : checks[i] # "fine"}
            first == CHOOSE i \in failing : \A j \in failing : i <= j
<1>1. Verdict(mm, ss, at) = IF failing = {} THEN "accepted" ELSE checks[first]
  BY DEF Verdict
<1>2. /\ Len(checks) = 5
      /\ checks[1] = HeadCheck(mm) /\ checks[2] = ExpiryCheck(ss, at)
      /\ checks[3] = RangeCheck(mm, ss) /\ checks[4] = EventCheck(mm, ss)
      /\ checks[5] = TailCheck(mm)
  OBVIOUS
<1>3. failing = {} <=> Passes(mm, ss, at)
  <2>. HIDE DEF checks
  <2>. QED
    BY <1>2 DEF Passes
<1>4. failing # {} => first \in 1 .. 5
  <2>. HIDE DEF checks
  <2>1. failing \in SUBSET (1 .. 5)
    BY <1>2
  <2>. HIDE DEF failing
  <2>2. failing # {} => first \in failing
    BY <2>1, FirstOfFive
  <2>. QED
    BY <2>1, <2>2
<1>5. \A i \in 1 .. 5 : checks[i] # "accepted"
  <2>. HIDE DEF checks
  <2>. QED
    BY <1>2, CodesAreErrors
<1>. HIDE DEF checks, failing, first
<1>. QED
  BY <1>1, <1>3, <1>4, <1>5

\* Inside the capture is inside the session: the second comparison of the
\* events follows from the range check and the first.
LEMMA PassesIsAcceptable ==
    ASSUME NEW mm \in Manifest, NEW ss \in Window, NEW at \in Times
    PROVE  Passes(mm, ss, at) <=> Acceptable(mm, ss, at)
<1>1. /\ mm.started \in Int /\ mm.finished \in Int /\ at \in Int
      /\ ss.created \in Int /\ ss.expires \in Int /\ ss.buttons \in Nat
  BY ManifestConstants DEF Manifest, Window
<1>2. \A i \in 1 .. Len(mm.events) : mm.events[i].at \in Int
  <2>1. PICK n \in Buttons : mm.events \in [1 .. n -> Events]
    BY DEF Manifest
  <2>2. Len(mm.events) = n
    BY <2>1, ManifestConstants
  <2>. QED
    BY <2>1, <2>2, ManifestConstants DEF Events
<1>3. ExpiryCheck(ss, at) = "fine" <=> at <= ss.expires
  BY <1>1 DEF ExpiryCheck
<1>4. RangeCheck(mm, ss) = "fine" <=>
        ss.created <= mm.started /\ mm.started <= mm.finished /\ mm.finished <= ss.expires
  BY <1>1 DEF RangeCheck
<1>5. EventCheck(mm, ss) = "fine" <=>
        /\ Len(mm.events) = ss.buttons
        /\ \A i \in 1 .. Len(mm.events) :
             /\ mm.events[i].index = i
             /\ Within(mm.events[i].at, mm.started, mm.finished)
             /\ Within(mm.events[i].at, ss.created, ss.expires)
  BY DEF EventCheck
<1>6. ASSUME ss.created <= mm.started, mm.finished <= ss.expires,
             NEW i \in 1 .. Len(mm.events),
             Within(mm.events[i].at, mm.started, mm.finished)
      PROVE  Within(mm.events[i].at, ss.created, ss.expires)
  BY <1>1, <1>2, <1>6 DEF Within
<1>. QED
  BY <1>3, <1>4, <1>5, <1>6 DEF Passes, Acceptable, HeadCheck, TailCheck

-----------------------------------------------------------------------------
\* The theorems

\* validate_manifest accepts what lies in the session's window, and nothing
\* else, whatever the order of its checks.
THEOREM AcceptsTheWindowHolds == Spec => []AcceptsTheWindow
<1>1. Given => AcceptsTheWindow
  BY VerdictIsAll, PassesIsAcceptable DEF Given, AcceptsTheWindow
<1>. QED
  BY <1>1, GivenHolds, PTL

\* What was refused is not acceptable any more.
Refused == answer \notin {"none", "accepted"} => ~Acceptable(m, s, now)

LEMMA RefusedStep ==
    ASSUME Given, Given', AcceptsTheWindow, Refused, [Next]_vars
    PROVE  Refused' /\ (answer \notin {"none", "accepted"} => answer' # "accepted")
<1>1. CASE HandIn
  BY <1>1 DEF HandIn, Refused, AcceptsTheWindow
<1>2. CASE Tick
  <2>1. m' = m /\ s' = s /\ answer' = answer /\ now' = now + 1
    BY <1>2 DEF Tick
  <2>2. now \in Int /\ s.expires \in Int
    BY ManifestConstants DEF Given, Window
  <2>3. Acceptable(m, s, now') => Acceptable(m, s, now)
    BY <2>1, <2>2 DEF Acceptable
  <2>. QED
    BY <2>1, <2>3 DEF Refused
<1>3. CASE UNCHANGED vars
  BY <1>3 DEF vars, Refused
<1>. QED
  BY <1>1, <1>2, <1>3 DEF Next

\* A manifest that was refused once is never accepted: the clock only turns
\* acceptance into refusal.
THEOREM RefusalIsFinalHolds == Spec => RefusalIsFinal
<1>1. Init => Refused
  BY DEF Init, Refused
<1>2. /\ Given /\ Given' /\ AcceptsTheWindow /\ Refused /\ [Next]_vars
      => Refused' /\ (answer \notin {"none", "accepted"} => answer' # "accepted")
  BY RefusedStep
<1>. QED
  BY <1>1, <1>2, GivenHolds, AcceptsTheWindowHolds, PTL DEF Spec, RefusalIsFinal
=============================================================================
