---------------------------- MODULE MCRealCapture ----------------------------
(***************************************************************************)
(* RealCapture on small instances: two milliseconds to press twice.        *)
(***************************************************************************)
EXTENDS RealCapture

SomeTimes == 0 .. 6
SomeButtons == {1, 2}
=============================================================================
