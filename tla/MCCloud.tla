------------------------------- MODULE MCCloud -------------------------------
(***************************************************************************)
(* Cloud on small instances: a manifest that would pass and one that would *)
(* not, of which the device captures one.                                  *)
(***************************************************************************)
EXTENDS Cloud, TLC

CONSTANTS s0, c1, c2, r1, r2, r3, k1, s1, m1, bad

TwoWorkers == {c1, c2}
AllCalls == {s0, c1, c2}
ThreeIds == {r1, r2, r3}
OneKey == {k1}
OneSalt == {s1}
TwoManifests == {m1, bad}
GoodManifest == {m1}

Symmetry == Permutations(TwoWorkers) \cup Permutations(ThreeIds)
=============================================================================
