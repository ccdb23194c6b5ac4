----------------------------- MODULE MCCloudSync -----------------------------
(***************************************************************************)
(* CloudSync on small instances: one client, so at most two of its calls   *)
(* are under way, the one it waits for and the one it has given up.        *)
(***************************************************************************)
EXTENDS CloudSync, TLC

CONSTANTS s0, c1, c2, r1, r2, r3, k1, s1, m1, bad

TwoWorkers == {c1, c2}
AllCalls == {s0, c1, c2}
ThreeIds == {r1, r2, r3}
OneSalt == {s1}
OneKey == {k1}
TwoManifests == {m1, bad}
GoodManifest == {m1}

Symmetry == Permutations(TwoWorkers) \cup Permutations(ThreeIds)
=============================================================================
