------------------------------ MODULE MCLogger ------------------------------
(* Small instances of Logger for TLC. *)
EXTENDS Logger, TLC

CONSTANTS m1, m2, m3, w1, w2

ThreeMessages == {m1, m2, m3}
OneWriter     == {w1}
TwoWriters    == {w1, w2}

\* Messages are never compared with one another.
MessageSymmetry == Permutations(ThreeMessages)
=============================================================================
