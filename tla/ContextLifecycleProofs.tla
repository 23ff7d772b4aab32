----------------------- MODULE ContextLifecycleProofs -----------------------
(***************************************************************************)
(* Proofs about ContextLifecycle, for every finite set of components and   *)
(* all their dependencies.                                                 *)
(***************************************************************************)
EXTENDS ContextLifecycle, FiniteSetTheorems, TLAPS

-----------------------------------------------------------------------------
(***************************************************************************)
(* The inductive invariant                                                 *)
(***************************************************************************)
\* Nothing of the component has been called.
Untouched(c) ==
  /\ c \notin injected /\ c \notin initialized
  /\ deinits[c] = 0 /\ resets[c] = 0

\* The component is up: what it has got to have called has been called, and no more.
InUse(c) ==
  /\ c \in injected <=> c \in Injectable
  /\ c \in initialized <=> c \in Injectable \union Initializable
  /\ deinits[c] = 0 /\ resets[c] = 0

Up == {"entering", "initializing", "running"}
Down == {"leaving", "resetting"}

\* The instances there are.
Instances ==
  /\ pc = "making" => indexed = {order[i] : i \in 1..at}
  /\ pc \in Up \union Down => indexed = Component
  /\ pc \in {"new", "over"} => at = 0
  /\ pc = "new" => indexed = {}

\* What has been called of a component follows from its place in the order: whether it is
\* on the stack, has never been, is the one at hand, or has been left.
Calls ==
  /\ pc \in {"new", "making"} => \A c \in Component : Untouched(c)
  /\ pc \in Up \union Down => \A i \in 1..at : InUse(order[i])
  /\ pc \in Up =>
       \A i \in (at + 1)..N : (pc = "initializing" /\ i = at + 1) \/ Untouched(order[i])
  /\ pc = "initializing" =>
       /\ order[at + 1] \in injected /\ order[at + 1] \notin initialized
       /\ deinits[order[at + 1]] = 0 /\ resets[order[at + 1]] = 0
  /\ pc \in Down =>
       \A i \in (at + 1)..N : (pc = "resetting" /\ i = at + 1) \/ Paired(order[i])
  /\ pc = "resetting" =>
       /\ order[at + 1] \in injected \intersect Resettable
       /\ deinits[order[at + 1]] = IF order[at + 1] \in initialized THEN 1 ELSE 0
       /\ resets[order[at + 1]] = 0
  /\ pc = "over" => \A c \in Component : Paired(c)

IInv == TypeOK /\ Instances /\ Calls

-----------------------------------------------------------------------------
(***************************************************************************)
(* Lemmas                                                                  *)
(***************************************************************************)
\* There are finitely many components.
LEMMA NType == N \in Nat
  BY KindsAssumption, FS_CardinalityType DEF N

\* What an order is.
LEMMA OrderFacts ==
  ASSUME order \in Orders
  PROVE  /\ order \in [1..N -> Component]
         /\ \A c \in Component : \E i \in 1..N : order[i] = c
         /\ \A i, j \in 1..N : order[i] = order[j] => i = j
         /\ \A j \in 1..N : \A c \in prerequisites[order[j]] : \E i \in 1..(j - 1) : order[i] = c
  BY DEF Orders, IsTopological

\* The orders there are depend on nothing but the prerequisites.
LEMMA OrdersStay ==
  ASSUME prerequisites' = prerequisites
  PROVE  Orders' = Orders
  BY DEF Orders, IsTopological, N

-----------------------------------------------------------------------------
(***************************************************************************)
(* The invariant is inductive                                              *)
(***************************************************************************)
LEMMA InitIInv == Init => IInv
  <1> SUFFICES ASSUME Init PROVE IInv
    OBVIOUS
  <1> USE NType
  <1>1. TypeOK
    BY KindsAssumption DEF Init, TypeOK, Stage, Raised
  <1>2. Instances
    BY DEF Init, Instances, Up, Down
  <1>3. Calls
    BY DEF Init, Calls, Up, Down, Untouched
  <1> QED
    BY <1>1, <1>2, <1>3 DEF IInv

\* Every step keeps the types,
LEMMA NextTypeOK == IInv /\ [Next]_vars => TypeOK'
  <1> SUFFICES ASSUME TypeOK, Calls, [Next]_vars PROVE TypeOK'
    BY DEF IInv
  <1> USE NType, KindsAssumption DEF TypeOK, Stage, Raised, history
  <1>o. prerequisites' = prerequisites => Orders' = Orders
    BY OrdersStay
  <1>n. N' = N
    BY DEF N
  <1>c. ASSUME pc \notin {"new", "over"}, NEW i \in 1..N
        PROVE  order[i] \in Component
    BY <1>c, OrderFacts
  <1>d. pc = "initializing" => order[at + 1] \in Injectable
    BY DEF Calls
  <1>1. CASE Order
    BY <1>1, <1>o, <1>n DEF Order
  <1>2. CASE OrderRaises
    BY <1>2, <1>o, <1>n DEF OrderRaises
  <1>3. CASE Make
    BY <1>3, <1>o, <1>n, <1>c DEF Make
  <1>4. CASE MakeRaises
    BY <1>4, <1>o, <1>n DEF MakeRaises
  <1>5. CASE AllMade
    BY <1>5, <1>o, <1>n DEF AllMade
  <1>6. CASE Inject
    BY <1>6, <1>o, <1>n DEF Inject
  <1>7. CASE InjectRaises
    BY <1>7, <1>o, <1>n DEF InjectRaises, Reset
  <1>8. CASE Initialize
    BY <1>8, <1>o, <1>n, <1>d DEF Initialize
  <1>9. CASE InitializeRaises
    BY <1>9, <1>o, <1>n DEF InitializeRaises, Reset
  <1>10. CASE EnterValue
    BY <1>10, <1>o, <1>n DEF EnterValue
  <1>11. CASE AllEntered
    BY <1>11, <1>o, <1>n DEF AllEntered
  <1>12. CASE BodyEnds
    BY <1>12, <1>o, <1>n DEF BodyEnds
  <1>13. CASE Deinitialize
    BY <1>13, <1>o, <1>n, <1>c DEF Deinitialize, Reset, Given
  <1>14. CASE LeaveValue
    BY <1>14, <1>o, <1>n DEF LeaveValue
  <1>15. CASE ResetInstance
    BY <1>15, <1>o, <1>n, <1>c DEF ResetInstance
  <1>16. CASE AllLeft
    BY <1>16, <1>o, <1>n DEF AllLeft
  <1>17. CASE UNCHANGED vars
    BY <1>17, <1>o, <1>n DEF vars
  <1> QED
    BY <1>1, <1>2, <1>3, <1>4, <1>5, <1>6, <1>7, <1>8, <1>9, <1>10, <1>11, <1>12, <1>13,
       <1>14, <1>15, <1>16, <1>17 DEF Next

\* the instances that are made so far,
LEMMA NextInstances == IInv /\ [Next]_vars => Instances'
  <1> SUFFICES ASSUME TypeOK, Instances, [Next]_vars PROVE Instances'
    BY DEF IInv
  <1> USE NType DEF Instances, TypeOK, Stage, Up, Down, history
  <1>f. pc \notin {"new", "over"} => /\ order \in [1..N -> Component]
                                    /\ \A c \in Component : \E i \in 1..N : order[i] = c
    BY OrderFacts
  <1>1. CASE Order
    BY <1>1 DEF Order
  <1>2. CASE OrderRaises
    BY <1>2 DEF OrderRaises
  <1>3. CASE Make
    BY <1>3 DEF Make
  <1>4. CASE MakeRaises
    BY <1>4 DEF MakeRaises
  <1>5. CASE AllMade
    <2>1. indexed = {order[i] : i \in 1..N}
      BY <1>5 DEF AllMade
    <2>2. indexed = Component
      BY <2>1, <1>5, <1>f DEF AllMade
    <2> QED
      BY <2>2, <1>5 DEF AllMade
  <1>6. CASE Inject
    BY <1>6 DEF Inject
  <1>7. CASE InjectRaises
    BY <1>7 DEF InjectRaises, Reset
  <1>8. CASE Initialize
    BY <1>8 DEF Initialize
  <1>9. CASE InitializeRaises
    BY <1>9 DEF InitializeRaises, Reset
  <1>10. CASE EnterValue
    BY <1>10 DEF EnterValue
  <1>11. CASE AllEntered
    BY <1>11 DEF AllEntered
  <1>12. CASE BodyEnds
    BY <1>12 DEF BodyEnds
  <1>13. CASE Deinitialize
    BY <1>13 DEF Deinitialize, Reset
  <1>14. CASE LeaveValue
    BY <1>14 DEF LeaveValue
  <1>15. CASE ResetInstance
    BY <1>15 DEF ResetInstance
  <1>16. CASE AllLeft
    BY <1>16 DEF AllLeft
  <1>17. CASE UNCHANGED vars
    BY <1>17 DEF vars
  <1> QED
    BY <1>1, <1>2, <1>3, <1>4, <1>5, <1>6, <1>7, <1>8, <1>9, <1>10, <1>11, <1>12, <1>13,
       <1>14, <1>15, <1>16, <1>17 DEF Next

\* what has been called of each component,
LEMMA NextCalls == IInv /\ [Next]_vars => Calls'
  <1> SUFFICES ASSUME TypeOK, Instances, Calls, [Next]_vars PROVE Calls'
    BY DEF IInv
  <1> USE NType DEF Calls, TypeOK, Stage, Up, Down, history, Untouched, InUse, Paired
  <1>n. N' = N
    BY DEF N
  <1>f. pc \notin {"new", "over"} =>
          /\ order \in [1..N -> Component]
          /\ \A c \in Component : \E i \in 1..N : order[i] = c
          /\ \A i, j \in 1..N : order[i] = order[j] => i = j
    BY OrderFacts
  <1>1. CASE Order
    BY <1>1, <1>n, <1>f, KindsAssumption DEF Order
  <1>2. CASE OrderRaises
    BY <1>2, <1>n, <1>f, KindsAssumption DEF OrderRaises
  <1>3. CASE Make
    BY <1>3, <1>n, <1>f, KindsAssumption DEF Make
  <1>4. CASE MakeRaises
    BY <1>4, <1>n, <1>f, KindsAssumption DEF MakeRaises
  <1>5. CASE AllMade
    BY <1>5, <1>n, <1>f, KindsAssumption DEF AllMade
  <1>6. CASE Inject
    BY <1>6, <1>n, <1>f, KindsAssumption DEF Inject
  <1>7. CASE InjectRaises
    BY <1>7, <1>n, <1>f, KindsAssumption DEF InjectRaises, Reset
  <1>8. CASE Initialize
    <2> DEFINE c == order[at + 1]
    <2>1. at < N /\ c \in Component /\ pc \notin {"new", "over"}
      BY <1>8, <1>f DEF Initialize
    <2>2. \A i \in 1..N : i # at + 1 => order[i] # c
      BY <2>1, <1>f
    <2>3. c \in Injectable \union Initializable /\ (c \in injected <=> c \in Injectable)
      <3>1. CASE pc = "initializing"
        BY <3>1, <2>1
      <3>2. CASE pc = "entering" /\ c \in Initializable
        BY <3>2, <2>1, KindsAssumption
      <3> QED
        BY <1>8, <3>1, <3>2 DEF Initialize
    <2>4. deinits[c] = 0 /\ resets[c] = 0
      BY <1>8, <2>1 DEF Initialize
    <2>5. pc' = "entering" /\ at' = at + 1 /\ UNCHANGED <<order, injected, deinits, resets>>
          /\ initialized' = initialized \union {c}
      BY <1>8 DEF Initialize
    <2>6. InUse(order[at])'
      BY <2>1, <2>3, <2>4, <2>5
    <2>7. \A i \in 1..at : InUse(order[i])'
      BY <1>8, <2>1, <2>2, <2>5 DEF Initialize
    <2>8. \A i \in (at + 2)..N : Untouched(order[i])'
      BY <1>8, <2>1, <2>2, <2>5 DEF Initialize
    <2>9. (\A i \in 1..at : InUse(order[i]))'
      BY <2>1, <2>5, <2>6, <2>7
    <2> QED
      BY <2>5, <2>8, <2>9, <1>n
  <1>9. CASE InitializeRaises
    BY <1>9, <1>n, <1>f, KindsAssumption DEF InitializeRaises, Reset
  <1>10. CASE EnterValue
    BY <1>10, <1>n, <1>f, KindsAssumption DEF EnterValue
  <1>11. CASE AllEntered
    BY <1>11, <1>n, <1>f, KindsAssumption DEF AllEntered
  <1>12. CASE BodyEnds
    BY <1>12, <1>n, <1>f, KindsAssumption DEF BodyEnds
  <1>13. CASE Deinitialize
    BY <1>13, <1>n, <1>f, KindsAssumption DEF Deinitialize, Reset
  <1>14. CASE LeaveValue
    BY <1>14, <1>n, <1>f, KindsAssumption DEF LeaveValue
  <1>15. CASE ResetInstance
    BY <1>15, <1>n, <1>f, KindsAssumption DEF ResetInstance
  <1>16. CASE AllLeft
    BY <1>16, <1>n, <1>f, KindsAssumption DEF AllLeft
  <1>17. CASE UNCHANGED vars
    BY <1>17 DEF vars
  <1> QED
    BY <1>1, <1>2, <1>3, <1>4, <1>5, <1>6, <1>7, <1>8, <1>9, <1>10, <1>11, <1>12, <1>13,
       <1>14, <1>15, <1>16, <1>17 DEF Next

\* and so the inductive invariant.
LEMMA NextIInv == IInv /\ [Next]_vars => IInv'
  BY NextTypeOK, NextInstances, NextCalls DEF IInv

-----------------------------------------------------------------------------
(***************************************************************************)
(* Theorems                                                                *)
(***************************************************************************)
\* Every reachable state satisfies the inductive invariant.
THEOREM Invariant == Spec => []IInv
  BY InitIInv, NextIInv, PTL DEF Spec

\* The variables stay in their types.
THEOREM TypeCorrect == Spec => []TypeOK
  <1>1. IInv => TypeOK
    BY DEF IInv
  <1> QED
    BY Invariant, <1>1, PTL

\* As long as nobody has been left, nobody has been told of anything.
UntoldYet == pc \notin Down \union {"over"} => \A c \in Component : given[c] = "none"

\* Once a component was told of an exception, an exception is on its way: leaving keeps it
\* or puts another one in its place, and the body, which may end well, comes before.
LEMMA NextSwallows ==
  ASSUME TypeOK, UntoldYet, NothingSwallowed, [Next]_vars
  PROVE  UntoldYet' /\ NothingSwallowed'
  <1> USE DEF UntoldYet, NothingSwallowed, Down, Raised, history
  <1>1. ASSUME given' = given, exc' = exc \/ exc' # "none", pc \in Down \union {"over"} <=> pc' \in Down \union {"over"}
        PROVE  UntoldYet' /\ NothingSwallowed'
    BY <1>1
  <1>2. ASSUME given' = given, pc \notin Down \union {"over"}
        PROVE  UntoldYet' /\ NothingSwallowed'
    BY <1>2
  <1>3. CASE Order \/ OrderRaises
    BY <1>3, <1>2 DEF Order, OrderRaises
  <1>4. CASE Make \/ MakeRaises \/ AllMade
    BY <1>4, <1>2 DEF Make, MakeRaises, AllMade
  <1>5. CASE Inject \/ InjectRaises
    BY <1>5, <1>2 DEF Inject, InjectRaises
  <1>6. CASE Initialize \/ InitializeRaises
    BY <1>6, <1>2 DEF Initialize, InitializeRaises
  <1>7. CASE EnterValue \/ AllEntered \/ BodyEnds
    BY <1>7, <1>2 DEF EnterValue, AllEntered, BodyEnds
  <1>8. CASE Deinitialize
    <2>1. pc = "leaving" /\ pc' \in Down /\ exc' \in {exc} \union Raised
      BY <1>8 DEF Deinitialize, Reset
    <2>2. \A c \in Component : given'[c] = given[c] \/ given'[c] = Given
      BY <1>8 DEF Deinitialize, TypeOK
    <2> QED
      BY <2>1, <2>2 DEF Given
  <1>9. CASE LeaveValue \/ ResetInstance \/ AllLeft
    BY <1>9, <1>1 DEF LeaveValue, ResetInstance, AllLeft
  <1>10. CASE UNCHANGED vars
    BY <1>10, <1>1 DEF vars
  <1> QED
    BY <1>3, <1>4, <1>5, <1>6, <1>7, <1>8, <1>9, <1>10 DEF Next

\* No component hides an exception from those below it, or from the program
\* (lifecycle.py:46).
THEOREM NothingSwallowedHolds == Spec => []NothingSwallowed
  <1>1. Init => UntoldYet /\ NothingSwallowed
    BY DEF Init, UntoldYet, NothingSwallowed
  <1>2. TypeOK /\ UntoldYet /\ NothingSwallowed /\ [Next]_vars => UntoldYet' /\ NothingSwallowed'
    BY NextSwallows
  <1> QED
    BY <1>1, <1>2, TypeCorrect, PTL DEF Spec

\* initialize() and deinitialize(), and injection and reset(), are paired once the lifecycle
\* is over (simple.py:58, lifecycle.py:42), whichever calls raised.
THEOREM EveryCallPairedHolds == Spec => []EveryCallPaired
  <1>1. IInv => EveryCallPaired
    BY DEF IInv, Calls, EveryCallPaired
  <1> QED
    BY Invariant, <1>1, PTL

\* The components on the stack are a prefix of the order, hence closed under prerequisites.
LEMMA PrefixClosed ==
  ASSUME IInv, pc \in Up \union Down
  PROVE  /\ Entered = {order[i] : i \in 1..at}
         /\ \A i \in 1..N : i <= at + 1 => prerequisites[order[i]] \subseteq Entered
         /\ \A j \in 1..N : order[j] \in Entered => j <= at
  <1> USE NType DEF IInv, TypeOK, Up, Down
  <1>1. Entered = {order[i] : i \in 1..at}
    BY DEF Entered
  <1>2. /\ order \in [1..N -> Component]
        /\ \A i, j \in 1..N : order[i] = order[j] => i = j
        /\ \A j \in 1..N : \A c \in prerequisites[order[j]] : \E i \in 1..(j - 1) : order[i] = c
    BY OrderFacts
  <1>3. ASSUME NEW j \in 1..N, j <= at + 1, NEW c \in prerequisites[order[j]]
        PROVE  c \in Entered
    <2>1. PICK i \in 1..(j - 1) : order[i] = c
      BY <1>2
    <2>2. i \in 1..at
      BY <1>3
    <2> QED
      BY <2>1, <2>2, <1>1
  <1>4. ASSUME NEW j \in 1..N, order[j] \in Entered
        PROVE  j <= at
    <2>1. PICK i \in 1..at : order[i] = order[j]
      BY <1>1, <1>4
    <2> QED
      BY <2>1, <1>2
  <1> QED
    BY <1>1, <1>3, <1>4

\* What a component is injected with is initialized and in the index from its injection up
\* to the end of its deinitialize() (simple.py:189).
THEOREM PrerequisitesUpHolds == Spec => []PrerequisitesUp
  <1>1. ASSUME IInv PROVE PrerequisitesUp
    <2> USE NType DEF PrerequisitesUp, IInv, TypeOK, Stage, Up, Down
    <2>1. CASE pc \in Up \union Down
      <3>1. indexed = Component
        BY <1>1, <2>1 DEF Instances
      <3>2. \A i \in 1..N : prerequisites[order[i]] \subseteq Component
        <4>1. order \in Orders
          BY <1>1, <2>1
        <4> QED
          BY <4>1, OrderFacts
      <3>3. ASSUME NEW c \in Entered
            PROVE  prerequisites[c] \subseteq Entered \intersect indexed
        <4>1. PICK i \in 1..at : order[i] = c
          BY <1>1, <2>1, PrefixClosed
        <4> QED
          BY <4>1, <1>1, <2>1, <3>1, <3>2, PrefixClosed
      <3>4. ASSUME pc = "initializing"
            PROVE  prerequisites[order[at + 1]] \subseteq Entered \intersect indexed
        BY <3>4, <1>1, <2>1, <3>1, <3>2, PrefixClosed
      <3> QED
        BY <3>3, <3>4
    <2>2. CASE pc \notin Up \union Down
      BY <1>1, <2>2 DEF Entered, Instances
    <2> QED
      BY <2>1, <2>2
  <1> QED
    BY Invariant, <1>1, PTL

-----------------------------------------------------------------------------
(***************************************************************************)
(* The lifecycle implements DependencyOrder                                *)
(***************************************************************************)
AbstractVars == <<Requires, Entered, Closing>>

\* The refinement: the initial states are initial states,
LEMMA InitImplements == Init => Dependencies!Init
  BY DEF Init, Dependencies!Init, Requires, Entered, Closing

\* The next lifecycle on the stack is one whose prerequisites are all there.
LEMMA EnterImplements ==
  ASSUME IInv, pc \in {"initializing", "entering"}, at < N,
         at' = at + 1, pc' = "entering", UNCHANGED <<prerequisites, order>>
  PROVE  Dependencies!Enter(order[at + 1])
  <1> USE NType DEF Up, Down
  <1> DEFINE c == order[at + 1]
  <1>1. at \in 0..N /\ order \in Orders /\ pc \in Up \union Down
    BY DEF IInv, TypeOK
  <1>2. Entered = {order[i] : i \in 1..at} /\ Entered' = {order[i] : i \in 1..(at + 1)}
    BY DEF Entered
  <1>3. Entered' = Entered \union {c}
    BY <1>1, <1>2
  <1>4. c \notin Entered /\ prerequisites[c] \subseteq Entered
    BY <1>1, PrefixClosed
  <1>5. c \in Component
    BY <1>1, OrderFacts
  <1>6. Closing = FALSE /\ Closing' = FALSE /\ Requires' = Requires
    BY DEF Closing, Requires
  <1>7. Requires[c] \subseteq Entered
    BY <1>4, <1>5 DEF Requires
  <1> QED
    BY <1>3, <1>4, <1>6, <1>7 DEF Dependencies!Enter

\* The last lifecycle on the stack is one that none of the others requires.
LEMMA LeaveImplements ==
  ASSUME IInv, pc = "leaving", at > 0,
         at' = at - 1, pc' \in Down, UNCHANGED <<prerequisites, order>>
  PROVE  Dependencies!Leave(order[at])
  <1> USE NType DEF Up, Down
  <1> DEFINE c == order[at]
  <1>1. at \in 1..N /\ order \in Orders /\ pc \in Up \union Down
    BY DEF IInv, TypeOK
  <1>2. Entered = {order[i] : i \in 1..at} /\ Entered' = {order[i] : i \in 1..(at - 1)}
    BY <1>1 DEF Entered
  <1>f. /\ order \in [1..N -> Component]
        /\ \A i, j \in 1..N : order[i] = order[j] => i = j
        /\ \A j \in 1..N : \A p \in prerequisites[order[j]] : \E i \in 1..(j - 1) : order[i] = p
    BY <1>1, OrderFacts
  <1>3. Entered' = Entered \ {c}
    BY <1>1, <1>2, <1>f
  <1>4. c \in Entered
    BY <1>1, <1>2
  <1>5. ASSUME NEW d \in Entered, c \in Requires[d]
        PROVE  FALSE
    <2>1. PICK j \in 1..at : order[j] = d
      BY <1>2
    <2>2. j \in 1..N /\ d \in Component
      BY <2>1, <1>1, <1>f
    <2>3. c \in prerequisites[d]
      BY <1>5, <2>2 DEF Requires
    <2>4. PICK i \in 1..(j - 1) : order[i] = c
      BY <2>1, <2>2, <2>3, <1>f
    <2>5. i \in 1..N /\ i # at
      BY <2>1, <2>4, <1>1
    <2> QED
      BY <2>4, <2>5, <1>1, <1>f
  <1>6. Closing = TRUE /\ Closing' = TRUE /\ Requires' = Requires
    BY DEF Closing, Requires
  <1> QED
    BY <1>3, <1>4, <1>5, <1>6 DEF Dependencies!Leave

\* and every step is a step of DependencyOrder or none.
LEMMA StepImplements == IInv /\ [Next]_vars => [Dependencies!Next]_AbstractVars
  <1> SUFFICES ASSUME IInv, [Next]_vars PROVE [Dependencies!Next]_AbstractVars
    OBVIOUS
  <1> USE NType DEF Up, Down
  <1>t. TypeOK
    BY DEF IInv
  <1>i. Instances /\ Calls
    BY DEF IInv
  <1>c. ASSUME NEW c \in Component, Dependencies!Enter(c) \/ Dependencies!Leave(c)
        PROVE  Dependencies!Next
    BY <1>c DEF Dependencies!Next
  <1>p. pc \notin {"new", "over"} /\ at \in 0..N =>
          /\ at < N => order[at + 1] \in Component
          /\ at > 0 => order[at] \in Component
    BY <1>t, OrderFacts DEF TypeOK
  <1>1. CASE Order
    BY <1>1, <1>t, <1>i DEF Order, AbstractVars, TypeOK, Instances,
           Entered, Closing, Requires
  <1>2. CASE OrderRaises
    BY <1>2, <1>t, <1>i DEF OrderRaises, Dependencies!Next, Dependencies!Close, TypeOK, Instances,
           Entered, Closing, Requires
  <1>3. CASE Make
    BY <1>3, <1>t, <1>i DEF Make, AbstractVars, TypeOK, Instances,
           Entered, Closing, Requires
  <1>4. CASE MakeRaises
    BY <1>4, <1>t, <1>i DEF MakeRaises, Dependencies!Next, Dependencies!Close, TypeOK, Instances,
           Entered, Closing, Requires
  <1>5. CASE AllMade
    BY <1>5, <1>t, <1>i DEF AllMade, AbstractVars, TypeOK, Instances,
           Entered, Closing, Requires
  <1>6. CASE Inject
    BY <1>6, <1>t, <1>i DEF Inject, AbstractVars, TypeOK, Instances,
           Entered, Closing, Requires
  <1>7. CASE InjectRaises
    BY <1>7, <1>t, <1>i DEF InjectRaises, Reset, Dependencies!Next, Dependencies!Close, TypeOK,
           Instances,
           Entered, Closing, Requires
  <1>8. CASE Initialize
    <2>1. /\ pc \in {"initializing", "entering"} /\ at < N
          /\ at' = at + 1 /\ pc' = "entering" /\ UNCHANGED <<prerequisites, order>>
      BY <1>8, <1>t DEF Initialize, TypeOK
    <2>2. Dependencies!Enter(order[at + 1])
      BY <2>1, EnterImplements
    <2>3. order[at + 1] \in Component
      BY <2>1, <1>t, <1>p DEF TypeOK
    <2> QED
      BY <2>2, <2>3, <1>c
  <1>9. CASE InitializeRaises
    BY <1>9, <1>t, <1>i DEF InitializeRaises, Reset, Dependencies!Next, Dependencies!Close, TypeOK,
           Instances,
           Entered, Closing, Requires
  <1>10. CASE EnterValue
    <2>1. /\ pc \in {"initializing", "entering"} /\ at < N
          /\ at' = at + 1 /\ pc' = "entering" /\ UNCHANGED <<prerequisites, order>>
      BY <1>10, <1>t DEF EnterValue, TypeOK
    <2>2. Dependencies!Enter(order[at + 1])
      BY <2>1, EnterImplements
    <2>3. order[at + 1] \in Component
      BY <2>1, <1>t, <1>p DEF TypeOK
    <2> QED
      BY <2>2, <2>3, <1>c
  <1>11. CASE AllEntered
    BY <1>11, <1>t, <1>i DEF AllEntered, AbstractVars, TypeOK, Instances,
           Entered, Closing, Requires
  <1>12. CASE BodyEnds
    BY <1>12, <1>t, <1>i DEF BodyEnds, Dependencies!Next, Dependencies!Close, TypeOK, Instances,
           Entered, Closing, Requires
  <1>13. CASE Deinitialize
    <2>1. /\ pc = "leaving" /\ at > 0
          /\ at' = at - 1 /\ pc' \in Down /\ UNCHANGED <<prerequisites, order>>
      BY <1>13 DEF Deinitialize, Reset
    <2>2. Dependencies!Leave(order[at])
      BY <2>1, LeaveImplements
    <2>3. order[at] \in Component
      BY <2>1, <1>t, <1>p DEF TypeOK
    <2> QED
      BY <2>2, <2>3, <1>c
  <1>14. CASE LeaveValue
    <2>1. /\ pc = "leaving" /\ at > 0
          /\ at' = at - 1 /\ pc' \in Down /\ UNCHANGED <<prerequisites, order>>
      BY <1>14 DEF LeaveValue
    <2>2. Dependencies!Leave(order[at])
      BY <2>1, LeaveImplements
    <2>3. order[at] \in Component
      BY <2>1, <1>t, <1>p DEF TypeOK
    <2> QED
      BY <2>2, <2>3, <1>c
  <1>15. CASE ResetInstance
    BY <1>15, <1>t, <1>i DEF ResetInstance, AbstractVars, TypeOK, Instances,
           Entered, Closing, Requires
  <1>16. CASE AllLeft
    BY <1>16, <1>t, <1>i DEF AllLeft, AbstractVars, TypeOK, Instances,
           Entered, Closing, Requires
  <1>17. CASE UNCHANGED vars
    BY <1>17 DEF vars, AbstractVars, Entered, Closing, Requires
  <1> QED
    BY <1>1, <1>2, <1>3, <1>4, <1>5, <1>6, <1>7, <1>8, <1>9, <1>10, <1>11, <1>12, <1>13,
       <1>14, <1>15, <1>16, <1>17 DEF Next

\* Whatever is raised where: a component goes up after everything that it requires and goes
\* down before it, and once one is going down none goes up (simple.py:134, lifecycle.py:65).
THEOREM DependencyOrderImplemented == Spec => ImplementsDependencyOrder
  BY Invariant, InitImplements, StepImplements, PTL
    DEF Spec, ImplementsDependencyOrder, Dependencies!Spec, AbstractVars

=============================================================================
