--------------------------- MODULE CompositeCallbacks ---------------------------
(***************************************************************************)
(* CompositeCallback(StepExecutorCallback) (thinking_programming/callbacks *)
(* .py): one call of the composite is one of each delegate, in order, or   *)
(* backwards for the after_ callbacks; the first delegate that raises is   *)
(* the last one that is told.                                              *)
(***************************************************************************)
EXTENDS Naturals, Sequences

CONSTANT Delegates  \* number of delegates, in the order in which they were added

ASSUME CompositeCallbacksAssumption == Delegates \in Nat \ {0}

\* What is kept of what a delegate was told of one task, or of one session.
Event == {"before_session", "invoked", "result", "failure", "after_session"}

\* conventional_callback: the callbacks whose order is reversed.
Reversed == {"after_session"}

NothingHeard == [d \in 1..Delegates |-> <<>>]

\* Mutant of ToldFirst: the order is never reversed.
ToldForwards(event, n) == 1..n

\* The delegates that are told if the n-th call raises, or the last one is the n-th.
ToldFirst(event, n) == IF event \in Reversed THEN (Delegates + 1 - n)..Delegates ELSE 1..n

Heard(heard, event, n) ==
  [d \in 1..Delegates |->
     IF d \in ToldFirst(event, n) THEN Append(heard[d], event) ELSE heard[d]]

\* outcome_of: Result, or Failure, ToBeContinued and Interrupted.
EndOf(exc) == IF exc = "none" THEN "result" ELSE "failure"

HasHeard(heard, d, event) == \E i \in DOMAIN heard[d] : heard[d][i] = event

=============================================================================
