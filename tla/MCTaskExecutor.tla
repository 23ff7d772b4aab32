--------------------------- MODULE MCTaskExecutor ---------------------------
(* TaskExecutor on small instances: one key, a table of few records. *)
EXTENDS TaskExecutor, TLC
MCKeys == {"a"}
=============================================================================
