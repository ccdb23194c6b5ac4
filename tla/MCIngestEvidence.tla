-------------------------- MODULE MCIngestEvidence --------------------------
(***************************************************************************)
(* IngestEvidence on small instances: two manifests that would pass and    *)
(* one that would not.                                                     *)
(***************************************************************************)
EXTENDS IngestEvidence, TLC

CONSTANTS c1, c2, r1, k1, s1, m1, m2, bad

TwoCalls == {c1, c2}
OneId == {r1}
OneKey == {k1}
OneSalt == {s1}
GoodManifests == {m1, m2}
AllManifests == {m1, m2, bad}

\* Requests are alike and so are the two good manifests.
Symmetry == Permutations(TwoCalls) \cup Permutations(GoodManifests)
=============================================================================
