----------------------------- MODULE MCCapture ------------------------------
(* Small instances of Capture for TLC. *)
EXTENDS Capture

CONSTANTS s1, s2

TwoSources == {s1, s2}
=============================================================================
