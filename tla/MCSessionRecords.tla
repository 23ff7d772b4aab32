-------------------------- MODULE MCSessionRecords --------------------------
(***************************************************************************)
(* SessionRecords for TLC: numbers have the texts that TLC gives them.     *)
(***************************************************************************)
EXTENDS SessionRecords, TLC
=============================================================================
