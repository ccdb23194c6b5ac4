--------------------------- MODULE ManifestAnswers ---------------------------
(***************************************************************************)
(* One manifest, handed in again and again while the time passes.          *)
(***************************************************************************)
EXTENDS ManifestCheck

VARIABLES
    m,      \* the manifest
    s,      \* its session
    now,    \* the cloud's clock
    answer  \* what the last validate_manifest said

vars == <<m, s, now, answer>>

Init ==
    /\ m \in Manifest
    /\ s \in Window
    /\ now = s.created
    /\ answer = "none"

HandIn ==
    /\ answer' = Verdict(m, s, now)
    /\ UNCHANGED <<m, s, now>>

Tick ==
    /\ now + 1 \in Times
    /\ now' = now + 1
    /\ UNCHANGED <<m, s, answer>>

Next == HandIn \/ Tick

Spec == Init /\ [][Next]_vars

\* The checks, in the order the code makes them, accept exactly what lies in
\* the session's window: no press or capture time slips between two checks,
\* and nothing that lies in the window is refused.
AcceptsTheWindow == Verdict(m, s, now) = "accepted" <=> Acceptable(m, s, now)

\* What was refused once stays refused: marking the session failed at once
\* loses no evidence that a later attempt could have saved.
RefusalIsFinal ==
    [][answer \notin {"none", "accepted"} => answer' # "accepted"]_vars
=============================================================================
