-------------------------- MODULE DependencyOrder --------------------------
(***************************************************************************)
(* What the lifecycle of a context promises to its components: each is up  *)
(* only while all that it requires is up, and once the first one has to go *)
(* down, nothing goes up any more.                                         *)
(***************************************************************************)
CONSTANT Component

VARIABLES
  requires,  \* component |-> the components it is injected with
  up,        \* the components that are initialized
  closing    \* whether the context is on its way down

Init ==
  /\ requires \in [Component -> SUBSET Component]
  /\ up = {}
  /\ closing = FALSE

Enter(c) ==
  /\ ~closing
  /\ c \notin up
  /\ requires[c] \subseteq up
  /\ up' = up \union {c}
  /\ UNCHANGED <<requires, closing>>

Close ==
  /\ closing' = TRUE
  /\ UNCHANGED <<requires, up>>

Leave(c) ==
  /\ closing
  /\ c \in up
  /\ \A d \in up : c \notin requires[d]
  /\ up' = up \ {c}
  /\ UNCHANGED <<requires, closing>>

Next == Close \/ \E c \in Component : Enter(c) \/ Leave(c)

Spec == Init /\ [][Next]_<<requires, up, closing>>

=============================================================================
