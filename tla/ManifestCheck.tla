---------------------------- MODULE ManifestCheck ----------------------------
(***************************************************************************)
(* manifest.validate_manifest: which Evidence Manifests the cloud accepts  *)
(* for a session, and with which error it refuses the others.  The checks  *)
(* are made one after another and the first that fails decides.            *)
(*                                                                         *)
(* Checks that compare one field with a constant or with the session are   *)
(* told apart by their error code only: head and tail say which of those   *)
(* before and after the time checks would fail.                            *)
(***************************************************************************)
EXTENDS Integers, Sequences, FiniteSets

CONSTANTS
    Times,    \* instants
    Buttons   \* button counts a challenge may ask for

ASSUME ManifestConstants == Times \subseteq Int /\ Buttons \subseteq Nat

Heads == {"fine", "ERR_SCHEMA_VERSION", "ERR_DEVICE_MISMATCH", "ERR_INVALID_MANIFEST"}
Tails == {"fine", "ERR_INVALID_MANIFEST", "ERR_FILE_MISSING"}

Events == [index : Buttons, at : Times]

Manifest == [head : Heads, tail : Tails, started : Times, finished : Times,
             events : UNION {[1 .. n -> Events] : n \in Buttons}]

\* The fields of a session that the time checks use.
Window == {s \in [created : Times, expires : Times, buttons : Buttons] :
             s.created < s.expires}

-----------------------------------------------------------------------------
\* A check that fails gives its error code

Within(at, first, last) == first <= at /\ at <= last

HeadCheck(m) == m.head

\* Mutant: the comparison is turned round.
NotExpiredCheck(s, now) == IF now < s.expires THEN "ERR_SESSION_EXPIRED" ELSE "fine"

ExpiryCheck(s, now) == IF now > s.expires THEN "ERR_SESSION_EXPIRED" ELSE "fine"

RangeCheck(m, s) ==
    IF m.started < s.created \/ m.finished < m.started THEN "ERR_INVALID_MANIFEST"
    ELSE IF m.finished > s.expires THEN "ERR_SESSION_EXPIRED"
    ELSE "fine"

\* Mutant: the events are compared with the session only.
EventInSessionCheck(m, s) ==
    IF \A i \in 1 .. Len(m.events) :
         /\ m.events[i].index = i
         /\ Within(m.events[i].at, s.created, s.expires)
    THEN "fine" ELSE "ERR_BUTTON_COUNT"

EventCheck(m, s) ==
    IF /\ Len(m.events) = s.buttons
       /\ \A i \in 1 .. Len(m.events) :
            /\ m.events[i].index = i
            /\ Within(m.events[i].at, m.started, m.finished)
            /\ Within(m.events[i].at, s.created, s.expires)
    THEN "fine" ELSE "ERR_BUTTON_COUNT"

TailCheck(m) == m.tail

\* "accepted", or the code of the first check that fails.
Verdict(m, s, now) ==
    LET checks == <<HeadCheck(m), ExpiryCheck(s, now), RangeCheck(m, s),
                    EventCheck(m, s), TailCheck(m)>>
        failing == {i \in 1 .. Len(checks) : checks[i] # "fine"}
    IN IF failing = {} THEN "accepted"
       ELSE checks[CHOOSE i \in failing : \A j \in failing : i <= j]

-----------------------------------------------------------------------------
\* What the checks are for, said without their order: the capture lies in the
\* session, its presses in the capture, and all of it is handed in in time.
Acceptable(m, s, now) ==
    /\ m.head = "fine" /\ m.tail = "fine"
    /\ s.created <= m.started
    /\ m.started <= m.finished
    /\ m.finished <= s.expires
    /\ now <= s.expires
    /\ Len(m.events) = s.buttons
    /\ \A i \in 1 .. s.buttons :
         /\ m.events[i].index = i
         /\ Within(m.events[i].at, m.started, m.finished)
=============================================================================
