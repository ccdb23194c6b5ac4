---------------------------- MODULE MCVerifyProof ----------------------------
(***************************************************************************)
(* VerifyProof on small instances: readers of what two requests issue.     *)
(***************************************************************************)
EXTENDS VerifyProof, TLC

CONSTANTS c1, c2, v1, r1, r2, k1, k2, s1, m1

TwoCalls == {c1, c2}
OneReader == {v1}
TwoIds == {r1, r2}
TwoKeys == {k1, k2}
OneSalt == {s1}
OneManifest == {m1}

Symmetry == Permutations(TwoCalls) \cup Permutations(TwoIds)
              \cup Permutations(TwoKeys)
=============================================================================
