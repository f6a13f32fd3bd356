---------------------------- MODULE MCMigrations ----------------------------
(* Small instances of Migrations for TLC. *)
EXTENDS Migrations

CONSTANTS t1, t2, o1, o2, nobody

TwoTrackers  == {t1, t2}
TwoOperators == {o1, o2}
=============================================================================
