------------------------------- MODULE StepLog -------------------------------
(***************************************************************************)
(* What the executor promises the author of a program, however often the   *)
(* process dies: the steps of the program are logged in program order, one *)
(* by one, and none of them twice.                                         *)
(***************************************************************************)
EXTENDS Naturals, Sequences

CONSTANT Steps     \* the steps of the program, in the order it runs them
VARIABLE log       \* the steps that are done for good

Init == log = <<>>

Finish ==
  /\ Len(log) < Len(Steps)
  /\ log' = Append(log, Steps[Len(log) + 1])

Spec == Init /\ [][Finish]_log

=============================================================================
