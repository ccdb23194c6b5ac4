-------------------------- MODULE MCManifestAnswers --------------------------
(***************************************************************************)
(* ManifestAnswers over all manifests with small times and counts.         *)
(***************************************************************************)
EXTENDS ManifestAnswers

SomeTimes == 0 .. 3
SomeButtons == {1, 2}
=============================================================================
