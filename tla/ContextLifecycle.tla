-------------------------- MODULE ContextLifecycle --------------------------
(***************************************************************************)
(* One lifecycle of a SimpleInstanceIndex (context/simple.py): the types   *)
(* of the index are ordered, instances made of them, their lifecycles      *)
(* entered one after another on an ExitStack (composite_lifecycle), and    *)
(* left in the opposite order, whatever any of them raises.                *)
(***************************************************************************)
EXTENDS Naturals, Sequences, FiniteSets

CONSTANTS
  Component,   \* the concrete types of the index, and their only instances
  Injectable,  \* those that are Injectable
  Resettable,  \* those of them that are Resettable, too
  Initializable,  \* those that only have a lifecycle
  Missing      \* a dependency that no component implements

ASSUME KindsAssumption ==
  /\ Injectable \subseteq Component /\ Initializable \subseteq Component
  /\ Resettable \subseteq Injectable
  /\ Injectable \intersect Initializable = {}
  /\ Missing \notin Component
  /\ IsFiniteSet(Component)

\* "error" is an Exception, "base" any other BaseException: KeyboardInterrupt, SystemExit.
Raised == {"error", "base"}

VARIABLES
  prerequisites,  \* of each component, by the TypeIndex; only Injectables have some
  pc,        \* how far _lifecyle_context_manager has got, see Stage
  order,     \* the order of the TypeIndex
  at,        \* how many of them are made; later, how many are on the ExitStack
  indexed,   \* the keys of _lifecycles
  exc,       \* the exception on its way up, or "none"
  \* History:
  injected,     \* the components whose injector was called
  initialized,  \* the components whose initialize() returned
  deinits,      \* component |-> calls of its deinitialize()
  given,        \* component |-> what deinitialize() was given
  resets        \* component |-> calls of its reset()

vars == <<prerequisites, pc, order, at, indexed, exc, injected, initialized, deinits, given,
          resets>>

history == <<injected, initialized, deinits, given, resets>>

(***************************************************************************)
(* "new"           the index has been constructed                          *)
(* "making"        instances are made                                      *)
(* "entering"      the next lifecycle is entered; injection comes first    *)
(* "initializing"  initialize() of an injected component is due            *)
(* "running"       the body of the with statement runs                     *)
(* "leaving"       the ExitStack is unwound                                *)
(* "resetting"     reset() of the component that has just been left is due *)
(* "over"                                                                  *)
(***************************************************************************)
Stage == {"new", "making", "entering", "initializing", "running", "leaving", "resetting", "over"}

N == Cardinality(Component)

\* s orders all the components, each after its prerequisites
IsTopological(s) ==
  /\ \A c \in Component : \E i \in 1..N : s[i] = c
  /\ \A i, j \in 1..N : s[i] = s[j] => i = j
  /\ \A j \in 1..N : \A c \in prerequisites[s[j]] : \E i \in 1..(j - 1) : s[i] = c

\* Mutant of Orders: the edges of the graph are the other way round.
OrdersReversed ==
  {s \in [1..N -> Component] :
     /\ \A c \in Component : \E i \in 1..N : s[i] = c
     /\ \A j \in 1..N : \A c \in prerequisites[s[j]] : \E i \in (j + 1)..N : s[i] = c}

\* SimpleTypeIndex.order(); it breaks ties by names, which are not modelled.
Orders == {s \in [1..N -> Component] : IsTopological(s)}

\* the lifecycles on the ExitStack
Entered == {order[i] : i \in 1..(IF pc \in {"new", "making"} THEN 0 ELSE at)}

-----------------------------------------------------------------------------
Init ==
  /\ prerequisites \in [Component -> SUBSET (Component \union {Missing})]
  /\ \A c \in Component \ Injectable : prerequisites[c] = {}
  /\ pc = "new"
  /\ order = <<>> /\ at = 0
  /\ indexed = {}
  /\ exc = "none"
  /\ injected = {} /\ initialized = {}
  /\ deinits = [c \in Component |-> 0]
  /\ given = [c \in Component |-> "none"]
  /\ resets = [c \in Component |-> 0]

\* list(self.index.order())
Order ==
  /\ pc = "new"
  /\ \A c \in Component : Missing \notin prerequisites[c]
  /\ order' \in Orders
  /\ pc' = "making"
  /\ UNCHANGED <<prerequisites, at, indexed, exc, history>>

\* A dependency cannot be resolved, or the dependencies are cyclic.
OrderRaises ==
  /\ pc = "new"
  /\ Orders = {} \/ \E c \in Component : Missing \in prerequisites[c]
  /\ exc' = "error"
  /\ pc' = "over"
  /\ UNCHANGED <<prerequisites, order, at, indexed, history>>

\* _make_lifecycle
Make ==
  /\ pc = "making" /\ at < N
  /\ indexed' = indexed \union {order[at + 1]}
  /\ at' = at + 1
  /\ UNCHANGED <<prerequisites, pc, order, exc, history>>

\* A constructor raises: there is nothing yet to be left, and _lifecycles is cleared.
MakeRaises ==
  /\ pc = "making" /\ at < N
  /\ exc' \in Raised
  /\ indexed' = {}
  /\ at' = 0
  /\ pc' = "over"
  /\ UNCHANGED <<prerequisites, order, history>>

\* composite_lifecycle is entered.
AllMade ==
  /\ pc = "making" /\ at = N
  /\ at' = 0
  /\ pc' = "entering"
  /\ UNCHANGED <<prerequisites, order, indexed, exc, history>>

\* _inject_instance returns
Inject ==
  /\ pc = "entering" /\ at < N
  /\ order[at + 1] \in Injectable
  /\ injected' = injected \union {order[at + 1]}
  /\ pc' = "initializing"
  /\ UNCHANGED <<prerequisites, order, at, indexed, exc, initialized, deinits, given, resets>>

\* InitializableLifecycle.lifecycle(), once it is left: reset() is next, if there is one.
Reset(c) == IF c \in Resettable THEN "resetting" ELSE "leaving"

\* Mutant of InjectRaises: the injector is called before the try.
InjectRaisesUnguarded ==
  /\ pc = "entering" /\ at < N
  /\ order[at + 1] \in Injectable
  /\ injected' = injected \union {order[at + 1]}
  /\ exc' \in Raised
  /\ pc' = "leaving"
  /\ UNCHANGED <<prerequisites, order, at, indexed, initialized, deinits, given, resets>>

\* Mutant of InjectRaises: a failed injection is tried again.
InjectRetries ==
  /\ pc = "entering" /\ at < N
  /\ order[at + 1] \in Injectable
  /\ injected' = injected \union {order[at + 1]}
  /\ exc' \in Raised
  /\ UNCHANGED <<prerequisites, pc, order, at, indexed, initialized, deinits, given, resets>>

\* inject_requirements raises.
InjectRaises ==
  /\ pc = "entering" /\ at < N
  /\ order[at + 1] \in Injectable
  /\ injected' = injected \union {order[at + 1]}
  /\ exc' \in Raised
  /\ pc' = Reset(order[at + 1])
  /\ UNCHANGED <<prerequisites, order, at, indexed, initialized, deinits, given, resets>>

\* initialize() returns, of an Injectable that has been injected, or of a component
\* without dependencies.
Initialize ==
  /\ \/ pc = "initializing"
     \/ pc = "entering" /\ at < N /\ order[at + 1] \in Initializable
  /\ initialized' = initialized \union {order[at + 1]}
  /\ at' = at + 1
  /\ pc' = "entering"
  /\ UNCHANGED <<prerequisites, order, indexed, exc, injected, deinits, given, resets>>

\* initialize() raises: deinitialize() of this component is not called.
InitializeRaises ==
  /\ \/ pc = "initializing"
     \/ pc = "entering" /\ at < N /\ order[at + 1] \in Initializable
  /\ exc' \in Raised
  /\ pc' = Reset(order[at + 1])
  /\ UNCHANGED <<prerequisites, order, at, indexed, history>>

\* A value has a lifecycle where nothing happens.
EnterValue ==
  /\ pc = "entering" /\ at < N
  /\ order[at + 1] \notin Injectable \union Initializable
  /\ at' = at + 1
  /\ UNCHANGED <<prerequisites, pc, order, indexed, exc, history>>

AllEntered ==
  /\ pc = "entering" /\ at = N
  /\ pc' = "running"
  /\ UNCHANGED <<prerequisites, order, at, indexed, exc, history>>

\* The body ends, or raises.
BodyEnds ==
  /\ pc = "running"
  /\ exc' \in {"none"} \union Raised
  /\ pc' = "leaving"
  /\ UNCHANGED <<prerequisites, order, at, indexed, history>>

\* Only an Exception is caught, and passed on.
Given == IF exc = "error" THEN "error" ELSE "none"

\* Mutant of Deinitialize: what it raises ends the unwinding.
DeinitializeAborts ==
  /\ pc = "leaving" /\ at > 0
  /\ order[at] \in Injectable \union Initializable
  /\ deinits' = [deinits EXCEPT ![order[at]] = @ + 1]
  /\ given' = [given EXCEPT ![order[at]] = Given]
  /\ \/ exc' = exc /\ at' = at - 1 /\ pc' = Reset(order[at])
     \/ exc' \in Raised /\ at' = 0 /\ pc' = "over"
  /\ UNCHANGED <<prerequisites, order, indexed, injected, initialized, resets>>

\* Mutant of Deinitialize: the exception is not raised again.
DeinitializeSwallows ==
  /\ pc = "leaving" /\ at > 0
  /\ order[at] \in Injectable \union Initializable
  /\ deinits' = [deinits EXCEPT ![order[at]] = @ + 1]
  /\ given' = [given EXCEPT ![order[at]] = Given]
  /\ exc' \in {"none"} \union Raised
  /\ at' = at - 1
  /\ pc' = Reset(order[at])
  /\ UNCHANGED <<prerequisites, order, indexed, injected, initialized, resets>>

\* Initializable.lifecycle() is left: what deinitialize() raises replaces the exception.
Deinitialize ==
  /\ pc = "leaving" /\ at > 0
  /\ order[at] \in Injectable \union Initializable
  /\ deinits' = [deinits EXCEPT ![order[at]] = @ + 1]
  /\ given' = [given EXCEPT ![order[at]] = Given]
  /\ exc' \in {exc} \union Raised
  /\ at' = at - 1
  /\ pc' = Reset(order[at])
  /\ UNCHANGED <<prerequisites, order, indexed, injected, initialized, resets>>

LeaveValue ==
  /\ pc = "leaving" /\ at > 0
  /\ order[at] \notin Injectable \union Initializable
  /\ at' = at - 1
  /\ UNCHANGED <<prerequisites, pc, order, indexed, exc, history>>

\* reset() of the component that was the last to be left, or that was not entered.
ResetInstance ==
  /\ pc = "resetting"
  /\ resets' = [resets EXCEPT ![order[at + 1]] = @ + 1]
  /\ exc' \in {exc} \union Raised
  /\ pc' = "leaving"
  /\ UNCHANGED <<prerequisites, order, at, indexed, injected, initialized, deinits, given>>

\* The ExitStack is empty, and _lifecycles is cleared.
AllLeft ==
  /\ pc = "leaving" /\ at = 0
  /\ indexed' = {}
  /\ pc' = "over"
  /\ UNCHANGED <<prerequisites, order, at, exc, history>>

Next ==
  \/ Order \/ OrderRaises
  \/ Make \/ MakeRaises \/ AllMade
  \/ Inject \/ InjectRaises \/ Initialize \/ InitializeRaises \/ EnterValue \/ AllEntered
  \/ BodyEnds
  \/ Deinitialize \/ LeaveValue \/ ResetInstance \/ AllLeft

Spec == Init /\ [][Next]_vars

\* The code is synchronous: whatever it calls returns or raises.
FairSpec == Spec /\ WF_vars(Next)

-----------------------------------------------------------------------------
(***************************************************************************)
(* Properties                                                              *)
(***************************************************************************)
TypeOK ==
  /\ prerequisites \in [Component -> SUBSET (Component \union {Missing})]
  /\ pc \in Stage
  /\ pc \notin {"new", "over"} => order \in Orders
  /\ at \in 0..N
  /\ pc \in {"initializing", "resetting"} => at < N
  /\ indexed \subseteq Component
  /\ exc \in {"none"} \union Raised
  /\ injected \subseteq Injectable
  /\ initialized \subseteq Injectable \union Initializable
  /\ deinits \in [Component -> Nat]
  /\ given \in [Component -> {"none", "error"}]
  /\ resets \in [Component -> Nat]

\* Whatever a component is injected with (simple.py:189) has an instance, and is
\* initialized and stays so as long as the component may use it: from its own injection
\* up to the end of its deinitialize().
PrerequisitesUp ==
  /\ \A c \in Entered : prerequisites[c] \subseteq Entered \intersect indexed
  /\ pc = "initializing" => prerequisites[order[at + 1]] \subseteq Entered \intersect indexed

Paired(c) ==
  /\ deinits[c] = IF c \in initialized THEN 1 ELSE 0
  /\ resets[c] = IF c \in injected \intersect Resettable THEN 1 ELSE 0

\* However the lifecycle goes, and whichever of the calls raise: in the end exactly those
\* components whose initialize() returned have been deinitialized (lifecycle.py:42), and
\* exactly those Resettables reset whose injector was called (simple.py:58), once each.
EveryCallPaired == pc = "over" => \A c \in Component : Paired(c)

\* Once a component has been told of an exception, the lifecycle raises one in the end,
\* whatever the components below it do (lifecycle.py:46): none of them hides it.
NothingSwallowed == (\E c \in Component : given[c] = "error") => exc # "none"

Requires == [c \in Component |-> prerequisites[c] \ {Missing}]

Closing == pc \in {"leaving", "resetting", "over"}

Dependencies == INSTANCE DependencyOrder
  WITH requires <- Requires, up <- Entered, closing <- Closing

\* The order in which the components go up and down respects their dependencies.
ImplementsDependencyOrder == Dependencies!Spec

\* A lifecycle that is being entered gets to run its body or is over, and one that is
\* being left is over in the end: no exception keeps it from that.
Ends ==
  /\ (pc \in {"new", "making", "entering", "initializing"}) ~> (pc \in {"running", "over"})
  /\ (pc \in {"leaving", "resetting"}) ~> (pc = "over")

=============================================================================
