----------------------------- MODULE MCStorage ------------------------------
(* Small instances of Storage for TLC. *)
EXTENDS Storage

CONSTANTS m1, m2, m3

ThreeMessages == {m1, m2, m3}
=============================================================================
