------------------------------ MODULE MCDevices ------------------------------
(***************************************************************************)
(* Devices on small instances: one device of the allow list, one that is   *)
(* not on it.                                                              *)
(***************************************************************************)
EXTENDS Devices, TLC

CONSTANTS anchor, other, call1, call2

TwoDevices == {anchor, other}
OneAllowed == {anchor}
TwoCalls == {call1, call2}
CallSymmetry == Permutations(TwoCalls)
=============================================================================
