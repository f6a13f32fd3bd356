----------------------------- MODULE MCPipeline -----------------------------
(* Small instances of Pipeline for TLC. *)
EXTENDS Pipeline

CONSTANTS s1, tracker

OneSource == {s1}
OneConsumer == {tracker}
=============================================================================
