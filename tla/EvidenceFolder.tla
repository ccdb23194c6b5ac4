--------------------------- MODULE EvidenceFolder ---------------------------
(***************************************************************************)
(* What the edge promises about the directory of a session's evidence,     *)
(* whatever crashes, is repeated or runs in parallel: it is made once, its *)
(* media change only until a manifest is there, and a manifest that is     *)
(* whole is never touched again.  The manifest names hashes of the media,  *)
(* and a redelivered command uploads them again.                           *)
(***************************************************************************)

VARIABLES
    folder,   \* what the directory holds of manifest.json
    media     \* the bytes of image.jpg and audio.wav

Init == folder = "none"

Make == folder = "none" /\ folder' = "made" /\ UNCHANGED media

Record == folder = "made" /\ UNCHANGED folder

\* A write of the manifest ends, or is cut off in the middle.
Write == folder = "made" /\ folder' \in {"torn", "whole"} /\ UNCHANGED media

Next == Make \/ Record \/ Write

Spec == Init /\ [][Next]_<<folder, media>>
=============================================================================
