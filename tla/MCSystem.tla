------------------------------- MODULE MCSystem -------------------------------
(***************************************************************************)
(* System on small instances.                                              *)
(***************************************************************************)
EXTENDS System, TLC

CONSTANTS s0, c1, c2, r1, r2, k1, s1, m1, bad

OneWorker == {c1}
TwoWorkers == {c1, c2}
OneAndStarter == {s0, c1}
AllCalls == {s0, c1, c2}
TwoIds == {r1, r2}
OneKey == {k1}
OneSalt == {s1}
TwoManifests == {m1, bad}
GoodManifest == {m1}

Symmetry == Permutations(TwoWorkers) \cup Permutations(TwoIds)
=============================================================================
