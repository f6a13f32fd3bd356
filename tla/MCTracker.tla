----------------------------- MODULE MCTracker ------------------------------
(* Small instances of Tracker for TLC. *)
EXTENDS Tracker

CONSTANT h1

OneAircraft == {h1}
=============================================================================
