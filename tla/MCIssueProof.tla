---------------------------- MODULE MCIssueProof ----------------------------
(***************************************************************************)
(* IssueProof on small instances: sets of model values and their symmetry. *)
(***************************************************************************)
EXTENDS IssueProof, TLC

CONSTANTS c1, c2, r1, r2, r3, k1, k2, s1, s2, m1

TwoCalls == {c1, c2}
TwoIds == {r1, r2}
ThreeIds == {r1, r2, r3}
TwoKeys == {k1, k2}
TwoSalts == {s1, s2}
OneSalt == {s1}
OneManifest == {m1}

\* uuids are drawn and requests are alike: their names do not matter.  Keys
\* stay told apart, one of them is active.
Symmetry == Permutations(TwoCalls) \cup Permutations(ThreeIds)
=============================================================================
