------------------------ MODULE TaskExecutorProofs ------------------------
(***************************************************************************)
(* Proofs about TaskExecutor, for every set of keys, every bound, every    *)
(* user program and every failure.                                         *)
(***************************************************************************)
EXTENDS TaskExecutor, SequenceTheorems, WellFoundedInduction, TLAPS

\* A non-empty set of numbers has a least member.
LEMMA Least ==
  ASSUME NEW T, T \subseteq Nat, T # {}
  PROVE  \E x \in T : \A y \in T : ~(y < x)
<1>1. PICK x \in T : \A y \in T : <<y, x>> \notin OpToRel(<, Nat)
  BY NatLessThanWellFounded, WFMin, Zenon
<1> QED
  BY <1>1 DEF OpToRel

(***************************************************************************)
(* The order on positions.                                                 *)
(***************************************************************************)

\* What precedes a position precedes what is submitted from inside of it.
LEMMA PrecedesInside ==
  ASSUME NEW a \in Seq(Nat), NEW b \in Seq(Nat), NEW n \in Nat, Precedes(a, b)
  PROVE  Precedes(a, Append(b, n))
<1>1. PICK i \in 1..Len(b) :
        /\ Len(a) >= i - 1
        /\ \A j \in 1..(i - 1) : a[j] = b[j]
        /\ Len(a) >= i => a[i] < b[i]
  BY DEF Precedes
<1>2. i \in 1..Len(Append(b, n)) /\ \A j \in 1..i : Append(b, n)[j] = b[j]
  OBVIOUS
<1> QED
  BY <1>1, <1>2 DEF Precedes

\* What precedes a position precedes the next position of the same frame.
LEMMA PrecedesNext ==
  ASSUME NEW a \in Seq(Nat), NEW o \in Seq(Nat), NEW n \in Nat,
         Precedes(a, Append(o, n))
  PROVE  Precedes(a, Append(o, n + 1))
BY DEF Precedes

\* A position precedes the next one.
LEMMA NextFollows ==
  ASSUME NEW o \in Seq(Nat), NEW n \in Nat
  PROVE  Precedes(Append(o, n), Append(o, n + 1))
<1>1. Len(Append(o, n + 1)) = Len(o) + 1 /\ Len(Append(o, n)) = Len(o) + 1
  OBVIOUS
<1>2. \A j \in 1..Len(o) : Append(o, n)[j] = Append(o, n + 1)[j]
  OBVIOUS
<1>3. Append(o, n)[Len(o) + 1] < Append(o, n + 1)[Len(o) + 1]
  OBVIOUS
<1> QED
  BY <1>1, <1>2, <1>3 DEF Precedes

\* What precedes a position inside of a task precedes the end of that task.
LEMMA PrecedesEnd ==
  ASSUME NEW a \in Seq(Nat), NEW o \in Seq(Nat), NEW n \in Nat, NEW m \in Nat,
         Precedes(a, Append(Append(o, n), m))
  PROVE  Precedes(a, Append(o, n + 1))
<1> DEFINE inner == Append(Append(o, n), m)
           end   == Append(o, n + 1)
<1>1. PICK i \in 1..Len(inner) :
        /\ Len(a) >= i - 1
        /\ \A j \in 1..(i - 1) : a[j] = inner[j]
        /\ Len(a) >= i => a[i] < inner[i]
  BY DEF Precedes
<1>2. Len(inner) = Len(o) + 2 /\ Len(end) = Len(o) + 1
  OBVIOUS
<1>3. \A j \in 1..Len(o) : inner[j] = o[j] /\ end[j] = o[j]
  OBVIOUS
<1>4. inner[Len(o) + 1] = n /\ end[Len(o) + 1] = n + 1
  OBVIOUS
<1>5. CASE i <= Len(o) + 1
  <2>1. Len(a) >= i => a[i] < end[i]
    BY <1>1, <1>2, <1>3, <1>4, <1>5
  <2> QED
    BY <1>1, <1>2, <1>3, <1>5, <2>1 DEF Precedes
<1>6. CASE i = Len(o) + 2
  <2>1. a[Len(o) + 1] = n
    BY <1>1, <1>2, <1>4, <1>6
  <2>2. \A j \in 1..Len(o) : a[j] = end[j]
    BY <1>1, <1>2, <1>3, <1>6
  <2>3. Len(o) + 1 \in 1..Len(end) /\ Len(a) >= Len(o) + 1
    BY <1>1, <1>2, <1>6
  <2>4. a[Len(o) + 1] < end[Len(o) + 1]
    BY <1>4, <2>1
  <2>5. \A j \in 1..((Len(o) + 1) - 1) : a[j] = end[j]
    BY <2>2
  <2> SUFFICES \E k \in 1..Len(end) :
        /\ Len(a) >= k - 1
        /\ \A j \in 1..(k - 1) : a[j] = end[j]
        /\ Len(a) >= k => a[k] < end[k]
    BY DEF Precedes
  <2> WITNESS Len(o) + 1 \in 1..Len(end)
  <2> QED
    BY <2>3, <2>4, <2>5
<1> QED
  BY <1>1, <1>2, <1>5, <1>6

\* A position precedes the positions inside of it, and these precede its end.
LEMMA PrecedesItsInside ==
  ASSUME NEW o \in Seq(Nat), NEW n \in Nat, NEW m \in Nat
  PROVE  /\ Precedes(o, Append(o, n))
         /\ Precedes(Append(Append(o, n), m), Append(o, n + 1))
<1>1. Precedes(o, Append(o, n))
  <2>1. Len(Append(o, n)) = Len(o) + 1 /\ \A j \in 1..Len(o) : o[j] = Append(o, n)[j]
    OBVIOUS
  <2> QED
    BY <2>1 DEF Precedes
<1>2. Precedes(Append(Append(o, n), m), Append(o, n + 1))
  <2> DEFINE inner == Append(Append(o, n), m)
             end   == Append(o, n + 1)
  <2>1. Len(inner) = Len(o) + 2 /\ Len(end) = Len(o) + 1
    OBVIOUS
  <2>2. \A j \in 1..Len(o) : inner[j] = end[j]
    OBVIOUS
  <2>3. inner[Len(o) + 1] < end[Len(o) + 1]
    OBVIOUS
  <2> QED
    BY <2>1, <2>2, <2>3 DEF Precedes
<1> QED
  BY <1>1, <1>2

\* The end of a task submitted from a frame is the next position of that frame.
LEMMA SuccessorOfPosition ==
  ASSUME NEW o \in Seq(Nat), NEW n \in Nat
  PROVE  Successor(Append(o, n)) = Append(o, n + 1)
<1> DEFINE s == Append(o, n)
           e == Append(o, n + 1)
<1>1. /\ s \in Seq(Nat) /\ Len(s) = Len(o) + 1 /\ s[Len(s)] = n
      /\ e \in Seq(Nat) /\ Len(e) = Len(o) + 1
      /\ \A i \in 1..Len(o) : s[i] = o[i] /\ e[i] = o[i]
      /\ e[Len(o) + 1] = n + 1
  OBVIOUS
<1> HIDE DEF s, e
<1>2. Len(s) \in 1..Len(s) /\ Len(o) \in Nat
  BY <1>1
<1> DEFINE succ == [s EXCEPT ![Len(s)] = n + 1]
<1>3. /\ succ \in Seq(Nat)
      /\ Len(succ) = Len(s)
      /\ \A j \in 1..Len(s) : succ[j] = IF j = Len(s) THEN n + 1 ELSE s[j]
  BY <1>1, <1>2, ExceptSeq
<1>4. Successor(s) = succ
  BY <1>1 DEF Successor
<1> HIDE DEF succ
<1>5. Len(succ) = Len(e) /\ \A i \in 1..Len(succ) : succ[i] = e[i]
  <2>1. s[Len(s)] = n /\ \A i \in 1..Len(o) : s[i] = e[i]
    BY <1>1
  <2>2. \A i \in 1..Len(s) : i = Len(s) \/ i \in 1..Len(o)
    BY <1>1, <1>2
  <2>3. ASSUME NEW i \in 1..Len(s) PROVE succ[i] = e[i]
    BY <1>1, <1>2, <1>3, <2>1, <2>2
  <2> QED
    BY <1>1, <1>3, <2>3
<1>6. succ = e
  BY <1>1, <1>3, <1>5, SeqEqual
<1> QED
  BY <1>4, <1>6 DEF s, e

(***************************************************************************)
(* The invariant.  LatestInPast and OneRecordPerStep are what matters; the *)
(* rest is what makes them inductive:                                      *)
(*   - a frame lies at the position its parent's counter shows, so the end *)
(*     of a task is where its parent goes on;                              *)
(*   - a STEP is only ever the top frame, so nothing but its own record is *)
(*     inserted while it runs;                                             *)
(*   - until then it has no record, because it would have been skipped;    *)
(*   - a new executor has no latest step.                                  *)
(***************************************************************************)
StepIsLeaf == \A i \in 1..(Len(stack) - 1) : stack[i].type # "STEP"

StepNotYetRecorded ==
  phase \in {"invoking", "body", "raising", "returned"} /\ Top.type = "STEP"
    => ~IsRecorded(TaskOf(Top))

OffForgets == phase = "off" => latest = NoStep

IInv ==
  /\ TypeOK
  /\ OffForgets
  /\ CoordinatesAgree
  /\ StepIsLeaf
  /\ StepNotYetRecorded
  /\ OneRecordPerStep
  /\ LatestInPast

\* The initial state satisfies the invariant.
LEMMA InitInv == Init => IInv
<1> SUFFICES ASSUME Init PROVE IInv
  OBVIOUS
<1> USE DEF Init
<1>1. stack \in Seq(Frame) /\ records \in Seq(Record) /\ Len(stack) = 0
  BY EmptySeq
<1>2. TypeOK
  <2>1. \A i \in 2..Len(stack) : stack[i].type \in TaskType
    BY <1>1
  <2>2. phase \in Phase /\ session \in Nat
    BY DEF Phase
  <2> QED
    BY <1>1, <2>1, <2>2 DEF TypeOK
<1>3. CoordinatesAgree /\ StepIsLeaf
  BY <1>1 DEF CoordinatesAgree, StepIsLeaf
<1>4. StepNotYetRecorded /\ OffForgets
  BY DEF StepNotYetRecorded, OffForgets
<1>5. DOMAIN records = {}
  OBVIOUS
<1>6. OneRecordPerStep /\ LatestInPast
  BY <1>5 DEF OneRecordPerStep, LatestInPast, LatestBeforePosition, RecordsInPast
<1> QED
  BY <1>2, <1>3, <1>4, <1>6 DEF IInv

(***************************************************************************)
(* What the steps do to the stack.                                         *)
(***************************************************************************)

\* Coordinates of a subtask are well formed.
LEMMA SubtaskType ==
  ASSUME TypeOK, stack # <<>>, NEW k \in Keys, NEW t \in TaskType
  PROVE  /\ Top \in Frame /\ Len(stack) \in Nat \ {0}
         /\ Position(Top) \in Seq(Nat)
         /\ Subtask(Top, k, t) \in Task
<1>1. stack \in Seq(Frame)
  BY DEF TypeOK
<1>2. Len(stack) \in Nat \ {0}
  BY <1>1, EmptySeq
<1>3. Top \in Frame
  BY <1>1, <1>2, ElementOfSeq DEF Top
<1>4. Top.path \in Seq(Keys) /\ Top.order \in Seq(Nat) /\ Top.next \in Nat
  BY <1>3 DEF Frame
<1>5. Append(Top.path, k) \in Seq(Keys) /\ Position(Top) \in Seq(Nat)
  BY <1>4 DEF Position
<1> QED
  BY <1>2, <1>3, <1>5 DEF Subtask, Task

\* The top frame of a running task is a task's frame.
LEMMA TopIsTask ==
  ASSUME TypeOK, CoordinatesAgree, Len(stack) > 1
  PROVE  /\ Top \in Frame /\ Parent \in Frame /\ TaskOf(Top) \in Task
         /\ Top.order = Position(Parent)
         /\ Len(stack) \in Nat
<1>1. stack \in Seq(Frame) /\ Len(stack) \in Nat
  BY DEF TypeOK
<1>2. Len(stack) \in 2..Len(stack) /\ Len(stack) - 1 \in 1..Len(stack)
  BY <1>1
<1>3. Top \in Frame /\ Parent \in Frame
  BY <1>1, <1>2, ElementOfSeq DEF Top, Parent
<1>4. Top.type \in TaskType
  BY <1>2 DEF TypeOK, Top
<1>5. TaskOf(Top) \in Task
  BY <1>3, <1>4 DEF TaskOf, Task, Frame
<1>6. Top.order = Position(Parent)
  BY <1>2 DEF CoordinatesAgree, Top, Parent
<1> QED
  BY <1>1, <1>3, <1>5, <1>6

\* A frame whose counter went up is a frame, with the same coordinates.
LEMMA NextFrame ==
  ASSUME NEW f \in Frame
  PROVE  LET g == [f EXCEPT !.next = f.next + 1] IN
         /\ g \in Frame
         /\ g.type = f.type /\ g.scopes = f.scopes
         /\ TaskOf(g) = TaskOf(f)
         /\ g.order = f.order /\ g.next = f.next + 1
         /\ Position(g) = Append(f.order, f.next + 1)
<1>1. f.next + 1 \in Nat
  BY DEF Frame
<1>2. [f EXCEPT !.next = f.next + 1] \in Frame
  BY <1>1 DEF Frame
<1> QED
  BY <1>1, <1>2 DEF Frame, TaskOf, Position

\* Leave: the frames below the parent stay, the parent's counter advances.
LEMMA LeaveStack ==
  ASSUME TypeOK, CoordinatesAgree, Len(stack) > 1, Leave
  PROVE  /\ stack' \in Seq(Frame)
         /\ Len(stack') = Len(stack) - 1
         /\ \A i \in 1..(Len(stack) - 2) : stack'[i] = stack[i]
         /\ Top' = [Parent EXCEPT !.next = Parent.next + 1]
         /\ \A i \in 2..Len(stack') : stack'[i].type \in TaskType
         /\ CoordinatesAgree'
         /\ StepIsLeaf => StepIsLeaf' /\ Top'.type # "STEP"
<1> DEFINE below == SubSeq(stack, 1, Len(stack) - 1)
<1>1. stack \in Seq(Frame) /\ Len(stack) \in Nat
  BY DEF TypeOK
<1>2. /\ below \in Seq(Frame)
      /\ Len(below) = Len(stack) - 1
      /\ \A i \in 1..(Len(stack) - 1) : below[i] = stack[i]
  BY <1>1
<1>3. [Parent EXCEPT !.next = Parent.next + 1] \in Frame
  BY TopIsTask, NextFrame
<1>4. stack' = [below EXCEPT ![Len(stack) - 1] = [Parent EXCEPT !.next = Parent.next + 1]]
  <2>1. below[Len(stack) - 1] = Parent
    BY <1>1, <1>2 DEF Parent
  <2>2. stack' = [below EXCEPT ![Len(stack) - 1] = [below[Len(stack) - 1] EXCEPT !.next = below[Len(stack) - 1].next + 1]]
    BY DEF Leave, Advance
  <2> QED
    BY <2>1, <2>2
<1> HIDE DEF below
<1>5. /\ stack' \in Seq(Frame)
      /\ Len(stack') = Len(stack) - 1
      /\ \A i \in 1..(Len(stack) - 2) : stack'[i] = stack[i]
      /\ stack'[Len(stack) - 1] = [Parent EXCEPT !.next = Parent.next + 1]
  BY <1>1, <1>2, <1>3, <1>4, ExceptSeq
<1>6. \A i \in 2..Len(stack') : stack'[i].type \in TaskType
  <2>1. \A i \in 2..(Len(stack) - 1) : stack[i].type \in TaskType
    BY <1>1 DEF TypeOK
  <2>2. Len(stack) - 1 >= 2 => Parent.type \in TaskType
    BY <1>1, <2>1 DEF Parent
  <2>3. Parent \in Frame
    BY TopIsTask
  <2>4. ASSUME NEW i \in 2..Len(stack') PROVE stack'[i].type \in TaskType
    <3>1. CASE i = Len(stack) - 1
      <4>1. [Parent EXCEPT !.next = Parent.next + 1].type = Parent.type
        BY <2>3, NextFrame
      <4>2. Len(stack) - 1 >= 2
        BY <1>1, <1>5, <3>1
      <4>3. stack'[i] = [Parent EXCEPT !.next = Parent.next + 1]
        BY <1>5, <3>1
      <4> QED
        BY <2>2, <4>1, <4>2, <4>3
    <3>2. CASE i # Len(stack) - 1
      <4>1. stack'[i] = stack[i]
        BY <1>1, <1>5, <3>2
      <4> QED
        BY <1>1, <1>5, <2>1, <4>1
    <3> QED
      BY <3>1, <3>2
  <2> QED
    BY <2>4
<1>7. Top' = [Parent EXCEPT !.next = Parent.next + 1]
  BY <1>5 DEF Top
<1>8. Parent \in Frame /\ Top'.order = Parent.order /\ Top'.type = Parent.type
  BY <1>7, TopIsTask, NextFrame
<1>9. \A i \in 1..(Len(stack) - 1) :
        stack'[i].order = stack[i].order /\ stack'[i].type = stack[i].type
  <2>1. stack'[Len(stack) - 1] = Top' /\ stack[Len(stack) - 1] = Parent
    BY <1>5, <1>7 DEF Parent
  <2> QED
    BY <1>1, <1>5, <1>8, <2>1
<1>10. CoordinatesAgree'
  <2>1. ASSUME NEW i \in 2..(Len(stack) - 1)
        PROVE  stack'[i].order = Position(stack'[i - 1])
    <3>1. stack'[i].order = stack[i].order
      BY <1>1, <1>9
    <3>2. stack'[i - 1] = stack[i - 1]
      BY <1>1, <1>5
    <3>3. stack[i].order = Position(stack[i - 1])
      BY <1>1 DEF CoordinatesAgree
    <3> QED
      BY <3>1, <3>2, <3>3
  <2> QED
    BY <1>5, <2>1 DEF CoordinatesAgree, Position
<1>11. ASSUME StepIsLeaf PROVE StepIsLeaf' /\ Top'.type # "STEP"
  BY <1>1, <1>5, <1>8, <1>9, <1>11 DEF StepIsLeaf, Parent
<1> QED
  BY <1>5, <1>6, <1>7, <1>10, <1>11

\* What an assignment to the top frame does to the stack.
LEMMA ExceptTop ==
  ASSUME TypeOK, stack # <<>>, NEW f \in Frame,
         stack' = [stack EXCEPT ![Len(stack)] = f]
  PROVE  /\ stack' \in Seq(Frame)
         /\ Len(stack') = Len(stack)
         /\ \A i \in 1..Len(stack) : stack'[i] = IF i = Len(stack) THEN f ELSE stack[i]
<1>1. stack \in Seq(Frame) /\ Len(stack) \in Nat \ {0}
  BY EmptySeq DEF TypeOK
<1> QED
  BY <1>1, ExceptSeq

\* A step that only changes the top frame, and neither its task nor its coordinates.
LEMMA TopStack ==
  ASSUME TypeOK, CoordinatesAgree, StepIsLeaf, stack # <<>>,
         NEW f \in Frame, f.type = Top.type, f.order = Top.order,
         stack' \in Seq(Frame),
         Len(stack') = Len(stack),
         \A i \in 1..Len(stack) : stack'[i] = IF i = Len(stack) THEN f ELSE stack[i]
  PROVE  /\ Top' = f
         /\ \A i \in 2..Len(stack') : stack'[i].type \in TaskType
         /\ CoordinatesAgree'
         /\ StepIsLeaf'
<1>1. stack \in Seq(Frame) /\ Len(stack) \in Nat \ {0}
  BY EmptySeq DEF TypeOK
<1>2. /\ stack' \in Seq(Frame)
      /\ Len(stack') = Len(stack)
      /\ \A i \in 1..Len(stack) : stack'[i] = IF i = Len(stack) THEN f ELSE stack[i]
  OBVIOUS
<1>3. Top' = f
  BY <1>1, <1>2 DEF Top
<1>4. \A i \in 1..Len(stack) :
        stack'[i].order = stack[i].order /\ stack'[i].type = stack[i].type
  BY <1>1, <1>2 DEF Top
<1>5. \A i \in 2..Len(stack') : stack'[i].type \in TaskType
  BY <1>1, <1>2, <1>4 DEF TypeOK
<1>6. ASSUME NEW i \in 2..Len(stack')
      PROVE  stack'[i].order = Position(stack'[i - 1])
  <2>1. stack'[i].order = stack[i].order /\ stack'[i - 1] = stack[i - 1]
    BY <1>1, <1>2, <1>4
  <2> QED
    BY <1>2, <2>1 DEF CoordinatesAgree
<1>7. CoordinatesAgree'
  BY <1>6 DEF CoordinatesAgree, Position
<1>8. StepIsLeaf'
  BY <1>1, <1>2, <1>4 DEF StepIsLeaf
<1> QED
  BY <1>2, <1>3, <1>5, <1>7, <1>8

(***************************************************************************)
(* The invariant is preserved, one lemma per way in which a step changes   *)
(* the state.                                                              *)
(***************************************************************************)

\* The steps that only move the phase and the exception in flight.
LEMMA PhaseStep ==
  ASSUME IInv, UNCHANGED <<stack, latest, skipStages, records, session>>,
         phase # "off", phase' \in Phase \ {"off"}, exc' \in ExcKind \union {"none"},
         phase' \in {"invoking", "returned", "recorded", "failing"} => Len(stack) > 1,
         phase' \in {"invoking", "body", "raising", "returned"}
           => phase \in {"invoking", "body", "raising", "returned"}
  PROVE  IInv'
<1>1. TypeOK'
  BY DEF IInv, TypeOK
<1>2. CoordinatesAgree' /\ StepIsLeaf' /\ OneRecordPerStep' /\ OffForgets'
  BY DEF IInv, CoordinatesAgree, StepIsLeaf, OneRecordPerStep, OffForgets
<1>3. StepNotYetRecorded'
  BY DEF IInv, StepNotYetRecorded, Top, IsRecorded
<1>4. LatestInPast'
  BY DEF IInv, LatestInPast, LatestBeforePosition, RecordsInPast, Top
<1> QED
  BY <1>1, <1>2, <1>3, <1>4 DEF IInv

\* The steps that leave nothing of the executor.
LEMMA ForgetStep ==
  ASSUME IInv, Forget
  PROVE  IInv'
<1> USE DEF Forget
<1>1. stack' \in Seq(Frame) /\ Len(stack') = 0
  BY EmptySeq
<1>2. TypeOK'
  <2>1. \A i \in 2..Len(stack') : stack'[i].type \in TaskType
    BY <1>1
  <2>2. phase' \in Phase
    BY DEF Phase
  <2> QED
    BY <1>1, <2>1, <2>2 DEF IInv, TypeOK
<1>3. CoordinatesAgree' /\ StepIsLeaf'
  BY <1>1 DEF CoordinatesAgree, StepIsLeaf
<1>4. StepNotYetRecorded' /\ OffForgets'
  BY DEF StepNotYetRecorded, OffForgets
<1>5. OneRecordPerStep'
  BY DEF IInv, OneRecordPerStep
<1>6. LatestInPast'
  BY DEF IInv, LatestInPast, LatestBeforePosition, RecordsInPast
<1> QED
  BY <1>2, <1>3, <1>4, <1>5, <1>6 DEF IInv

\* A new executor has only its root frame, and no latest step.
LEMMA OpenStep ==
  ASSUME IInv, Open
  PROVE  IInv'
<1> USE DEF Open
<1>1. RootFrame \in Frame
  BY EmptySeq DEF RootFrame, Frame
<1>2. stack' \in Seq(Frame) /\ Len(stack') = 1 /\ stack' # <<>>
  BY <1>1
<1>3. TypeOK'
  <2>1. \A i \in 2..Len(stack') : stack'[i].type \in TaskType
    BY <1>2
  <2>2. phase' \in Phase
    BY DEF Phase
  <2> QED
    BY <1>2, <2>1, <2>2 DEF IInv, TypeOK
<1>4. CoordinatesAgree' /\ StepIsLeaf'
  BY <1>2 DEF CoordinatesAgree, StepIsLeaf
<1>5. StepNotYetRecorded' /\ OffForgets'
  BY <1>2 DEF StepNotYetRecorded, OffForgets, Top, RootFrame
<1>6. OneRecordPerStep'
  BY DEF IInv, OneRecordPerStep
<1>7. LatestInPast'
  <2>1. latest' = NoStep
    BY DEF IInv, OffForgets
  <2>2. LatestBeforePosition'
    BY <2>1 DEF LatestBeforePosition, IsBefore
  <2>3. RecordsInPast'
    BY DEF IInv, LatestInPast, RecordsInPast
  <2> QED
    BY <2>2, <2>3 DEF LatestInPast
<1> QED
  BY <1>3, <1>4, <1>5, <1>6, <1>7 DEF IInv

\* The steps that only change the top frame's counter or scopes.
LEMMA TopStep ==
  ASSUME IInv, phase \in {"body", "raising"}, phase' \in {"body", "raising"},
         exc' \in ExcKind \union {"none"}, UNCHANGED <<records, session>>,
         NEW f \in Frame, TaskOf(f) = TaskOf(Top),
         stack' = [stack EXCEPT ![Len(stack)] = f],
         latest' \in Task \union {NoStep}, skipStages' \in BOOLEAN,
         IsBefore(latest', Position(f))
  PROVE  IInv'
<1>1. stack # <<>>
  BY DEF IInv, TypeOK
<1>2. f.type = Top.type /\ f.order = Top.order
  BY DEF TaskOf
<1>3. /\ stack' \in Seq(Frame)
      /\ Len(stack') = Len(stack)
      /\ \A i \in 1..Len(stack) : stack'[i] = IF i = Len(stack) THEN f ELSE stack[i]
  BY <1>1, ExceptTop DEF IInv
<1>4. /\ Top' = f
      /\ \A i \in 2..Len(stack') : stack'[i].type \in TaskType
      /\ CoordinatesAgree'
      /\ StepIsLeaf'
  BY <1>1, <1>2, <1>3, TopStack DEF IInv
<1>5. TypeOK'
  <2>1. stack' # <<>>
    BY <1>1, <1>3, EmptySeq DEF IInv, TypeOK
  <2>2. phase' \in Phase
    BY DEF Phase
  <2> QED
    BY <1>3, <1>4, <2>1, <2>2 DEF IInv, TypeOK
<1>6. StepNotYetRecorded'
  BY <1>2, <1>4 DEF IInv, StepNotYetRecorded, TaskOf, IsRecorded
<1>7. OneRecordPerStep' /\ OffForgets'
  BY DEF IInv, OneRecordPerStep, OffForgets
<1>8. LatestInPast'
  <2>1. LatestBeforePosition'
    BY <1>4 DEF LatestBeforePosition, Position
  <2>2. RecordsInPast'
    BY DEF IInv, LatestInPast, RecordsInPast
  <2> QED
    BY <2>1, <2>2 DEF LatestInPast
<1> QED
  BY <1>4, <1>5, <1>6, <1>7, <1>8 DEF IInv

\* The steps in which execute() of the top task comes to an end.
LEMMA LeaveStep ==
  ASSUME IInv, Len(stack) > 1, Leave, phase' \in {"body", "raising"},
         exc' \in ExcKind \union {"none"}, UNCHANGED <<skipStages, records, session>>,
         latest' = latest \/ latest' = TaskOf(Top)
  PROVE  IInv'
<1>0. TypeOK /\ CoordinatesAgree /\ StepIsLeaf
  BY DEF IInv
<1>1. /\ stack' \in Seq(Frame)
      /\ Len(stack') = Len(stack) - 1
      /\ Top' = [Parent EXCEPT !.next = Parent.next + 1]
      /\ \A i \in 2..Len(stack') : stack'[i].type \in TaskType
      /\ CoordinatesAgree' /\ StepIsLeaf' /\ Top'.type # "STEP"
  BY <1>0, LeaveStack
<1>2. /\ Top \in Frame /\ Parent \in Frame /\ TaskOf(Top) \in Task
      /\ Top.order = Position(Parent) /\ Len(stack) \in Nat
  BY <1>0, TopIsTask
<1>3. TypeOK'
  <2>1. stack' # <<>>
    BY <1>1, <1>2, EmptySeq
  <2>2. phase' \in Phase
    BY DEF Phase
  <2>3. latest' \in Task \union {NoStep}
    BY <1>0, <1>2 DEF TypeOK
  <2> QED
    BY <1>0, <1>1, <2>1, <2>2, <2>3 DEF TypeOK
<1>4. StepNotYetRecorded' /\ OffForgets'
  BY <1>1 DEF StepNotYetRecorded, OffForgets
<1>5. OneRecordPerStep'
  BY DEF IInv, OneRecordPerStep
<1>6. Parent.order \in Seq(Nat) /\ Parent.next \in Nat /\ Top.next \in Nat
  BY <1>2 DEF Frame
<1>7. Position(Top)' = Append(Parent.order, Parent.next + 1)
  BY <1>1, <1>2, NextFrame DEF Position
<1>8. IsBefore(latest', Position(Top)')
  <2>1. CASE latest' = TaskOf(Top)
    <3>1. latest'.order = Append(Parent.order, Parent.next)
      BY <1>2, <2>1 DEF TaskOf, Position
    <3> QED
      BY <1>6, <1>7, <3>1, NextFollows DEF IsBefore
  <2>2. CASE latest' = latest /\ latest # NoStep
    <3>1. phase # "off"
      BY <1>0, <1>2, EmptySeq DEF TypeOK
    <3>2. Precedes(latest.order, Append(Append(Parent.order, Parent.next), Top.next))
      BY <1>2, <2>2, <3>1
         DEF IInv, LatestInPast, LatestBeforePosition, IsBefore, Position
    <3>3. latest.order \in Seq(Nat)
      BY <1>0, <2>2 DEF TypeOK, Task
    <3>4. Precedes(latest.order, Append(Parent.order, Parent.next + 1))
      BY <1>6, <3>2, <3>3, PrecedesEnd
    <3> QED
      BY <1>7, <2>2, <3>4 DEF IsBefore
  <2>3. CASE latest' = NoStep
    BY <2>3 DEF IsBefore
  <2> QED
    BY <2>1, <2>2, <2>3
<1>9. LatestInPast'
  <2>1. LatestBeforePosition'
    BY <1>8 DEF LatestBeforePosition
  <2>2. RecordsInPast'
    BY DEF IInv, LatestInPast, RecordsInPast
  <2> QED
    BY <2>1, <2>2 DEF LatestInPast
<1> QED
  BY <1>1, <1>3, <1>4, <1>5, <1>9 DEF IInv

\* A non-empty set of positions in a sequence has a greatest member.
LEMMA LastPosition ==
  ASSUME NEW n \in Nat, NEW P, P \subseteq 1..n, P # {}
  PROVE  \E i \in P : \A j \in P : j <= i
<1> DEFINE T == {n - i : i \in P}
<1>1. T \subseteq Nat /\ T # {}
  <2>1. \A i \in P : n - i \in Nat
    OBVIOUS
  <2>2. PICK i \in P : TRUE
    OBVIOUS
  <2>3. n - i \in T
    OBVIOUS
  <2> QED
    BY <2>1, <2>3
<1>2. PICK x \in T : \A y \in T : <<y, x>> \notin OpToRel(<, Nat)
  BY <1>1, NatLessThanWellFounded, WFMin, Zenon
<1>3. \A y \in T : ~(y < x)
  BY <1>1, <1>2 DEF OpToRel
<1>4. PICK i \in P : x = n - i
  OBVIOUS
<1>5. ASSUME NEW j \in P PROVE j <= i
  <2>1. n - j \in T
    OBVIOUS
  <2>2. ~(n - j < n - i)
    BY <1>3, <1>4, <2>1
  <2> QED
    BY <2>2
<1> QED
  BY <1>5

\* What _find_execution_log finds for a task that has a record is a record of it.
LEMMA ExecutionLogFound ==
  ASSUME TypeOK, NEW task, IsRecorded(task)
  PROVE  \E i \in DOMAIN records :
           records[i].task = task /\ ExecutionLog(task) = records[i]
<1> DEFINE P == {i \in DOMAIN records : records[i].task = task}
           Newest(i) == /\ records[i].task = task
                        /\ \A j \in DOMAIN records : j > i => records[j].task # task
<1>1. DOMAIN records = 1..Len(records) /\ Len(records) \in Nat
  BY DEF TypeOK
<1>2. P \subseteq 1..Len(records) /\ P # {}
  BY <1>1 DEF IsRecorded
<1>3. PICK i \in P : \A j \in P : j <= i
  BY <1>1, <1>2, LastPosition
<1>4. i \in DOMAIN records /\ Newest(i)
  <2>1. i \in DOMAIN records /\ records[i].task = task
    BY <1>3
  <2>2. ASSUME NEW j \in DOMAIN records, j > i PROVE records[j].task # task
    <3>1. SUFFICES ASSUME j \in P PROVE FALSE
      OBVIOUS
    <3>2. j <= i /\ i \in 1..Len(records) /\ j \in 1..Len(records)
      BY <1>1, <1>3, <2>1, <3>1
    <3> QED
      BY <1>1, <2>2, <3>2
  <2> QED
    BY <2>1, <2>2
<1> DEFINE c == CHOOSE k \in DOMAIN records : Newest(k)
<1>5. c \in DOMAIN records /\ Newest(c)
  BY <1>4, Zenon
<1>6. ExecutionLog(task) = records[c]
  BY Zenon DEF ExecutionLog
<1> QED
  BY <1>5, <1>6

\* A new record is of a task that has none if it is a STEP, and its latest step is
\* in the task's past.
LEMMA MarkStep ==
  ASSUME IInv, MarkFinished
  PROVE  IInv'
<1> USE DEF MarkFinished
<1> DEFINE r == [task |-> TaskOf(Top), latest |-> latest]
<1>0. TypeOK /\ CoordinatesAgree /\ Len(stack) > 1
  BY DEF IInv, TypeOK
<1>1. /\ Top \in Frame /\ Parent \in Frame /\ TaskOf(Top) \in Task
      /\ Top.order = Position(Parent) /\ Len(stack) \in Nat
  BY <1>0, TopIsTask
<1>2. r \in Record
  BY <1>0, <1>1 DEF TypeOK, Record
<1>3. records \in Seq(Record) /\ Len(records) \in Nat
  BY <1>0 DEF TypeOK
<1>4. /\ records' \in Seq(Record)
      /\ DOMAIN records' = 1..(Len(records) + 1)
      /\ \A i \in 1..Len(records) : records'[i] = records[i]
      /\ records'[Len(records) + 1] = r
  <2>1. records' = Append(records, r)
    OBVIOUS
  <2> HIDE DEF r
  <2> QED
    BY <1>2, <1>3, <2>1
<1>5. TypeOK'
  <2>1. phase' \in Phase
    BY DEF Phase
  <2> QED
    BY <1>0, <1>4, <2>1 DEF TypeOK
<1>6. CoordinatesAgree' /\ StepIsLeaf' /\ StepNotYetRecorded' /\ OffForgets'
  BY DEF IInv, CoordinatesAgree, StepIsLeaf, StepNotYetRecorded, OffForgets
<1>7. OneRecordPerStep'
  <2>1. \A i \in 1..Len(records) : TaskOf(Top).type = "STEP" => records[i].task # TaskOf(Top)
    BY <1>3 DEF IInv, StepNotYetRecorded, IsRecorded, TaskOf
  <2>2. \A i, j \in 1..Len(records) :
          records[i].task = records[j].task /\ records[i].task.type = "STEP" => i = j
    BY <1>3 DEF IInv, OneRecordPerStep
  <2>3. \A i \in 1..(Len(records) + 1) : i \in 1..Len(records) \/ i = Len(records) + 1
    BY <1>3
  <2>4. r.task = TaskOf(Top)
    OBVIOUS
  <2>5. SUFFICES ASSUME NEW i \in 1..(Len(records) + 1), NEW j \in 1..(Len(records) + 1),
                        records'[i].task = records'[j].task, records'[i].task.type = "STEP"
                 PROVE  i = j
    BY <1>4 DEF OneRecordPerStep
  <2> HIDE DEF r
  <2>6. CASE i \in 1..Len(records) /\ j \in 1..Len(records)
    BY <1>4, <2>2, <2>5, <2>6
  <2>7. CASE i \in 1..Len(records) /\ j = Len(records) + 1
    BY <1>4, <2>1, <2>4, <2>5, <2>7
  <2>8. CASE i = Len(records) + 1 /\ j \in 1..Len(records)
    BY <1>4, <2>1, <2>4, <2>5, <2>8
  <2> QED
    BY <2>3, <2>6, <2>7, <2>8
<1>8. LatestInPast'
  <2>1. LatestBeforePosition'
    BY <1>0 DEF IInv, TypeOK, LatestInPast, LatestBeforePosition, Top, Position
  <2>2. IsBefore(r.latest, Successor(r.task.order))
    <3>1. Parent.order \in Seq(Nat) /\ Parent.next \in Nat /\ Top.next \in Nat
      BY <1>1 DEF Frame
    <3>2. r.task.order = Append(Parent.order, Parent.next)
      BY <1>1 DEF TaskOf, Position
    <3>3. CASE latest # NoStep
      <4>1. Precedes(latest.order, Append(Append(Parent.order, Parent.next), Top.next))
        BY <1>1, <3>3 DEF IInv, LatestInPast, LatestBeforePosition, IsBefore, Position
      <4>2. latest.order \in Seq(Nat)
        BY <1>0, <3>3 DEF TypeOK, Task
      <4>3. Precedes(latest.order, Successor(r.task.order))
        BY <3>1, <3>2, <4>1, <4>2, PrecedesEnd, SuccessorOfPosition
      <4> QED
        BY <4>3 DEF IsBefore
    <3> QED
      BY <3>3 DEF IsBefore
  <2>3. \A i \in 1..Len(records) :
          IsBefore(records[i].latest, Successor(records[i].task.order))
    BY <1>3 DEF IInv, LatestInPast, RecordsInPast
  <2> HIDE DEF r
  <2>4. ASSUME NEW i \in 1..(Len(records) + 1)
        PROVE  IsBefore(records'[i].latest, Successor(records'[i].task.order))
    <3>1. i \in 1..Len(records) \/ i = Len(records) + 1
      BY <1>3
    <3> QED
      BY <1>4, <2>2, <2>3, <3>1
  <2>5. RecordsInPast'
    BY <1>4, <2>4 DEF RecordsInPast, IsBefore, Precedes, Successor
  <2> QED
    BY <2>1, <2>5 DEF LatestInPast
<1> QED
  BY <1>5, <1>6, <1>7, <1>8 DEF IInv

\* A new frame starts after the latest step, with a STEP only if it has no record.
LEMMA RunStep ==
  ASSUME IInv, NEW k \in Keys, NEW t \in TaskType, Run(k, t)
  PROVE  IInv'
<1> DEFINE task == Subtask(Top, k, t)
           f == FrameOf(task)
<1>0. TypeOK /\ CoordinatesAgree /\ StepIsLeaf /\ stack # <<>> /\ phase = "body"
  BY DEF IInv, TypeOK, Run, CanSubmit
<1>1. /\ Top \in Frame /\ Len(stack) \in Nat \ {0}
      /\ Position(Top) \in Seq(Nat) /\ task \in Task
  BY <1>0, SubtaskType
<1>2. f \in Frame /\ TaskOf(f) = task /\ f.type = t
  <2>1. /\ task.path \in Seq(Keys) /\ task.order \in Seq(Nat) /\ task.type = t
        /\ task = [path |-> task.path, order |-> task.order, type |-> task.type]
    BY <1>1 DEF Task, Subtask
  <2> HIDE DEF task
  <2>2. <<>> \in Seq(BOOLEAN)
    BY EmptySeq
  <2> QED
    BY <2>1, <2>2 DEF FrameOf, Frame, TaskOf
<1>3. f.order = Position(Top) /\ f.next = 0
  BY DEF FrameOf, Subtask
<1>4. stack' = Append(stack, f) /\ Top.type # "STEP" /\ ~Skips(task) /\ phase' = "invoking"
  BY DEF Run, CanSubmit
<1>5. UNCHANGED <<exc, latest, skipStages, records, session>>
  BY DEF Run
<1>6. stack \in Seq(Frame)
  BY <1>0 DEF TypeOK
<1> HIDE DEF f, task
<1>7. /\ stack' \in Seq(Frame)
      /\ Len(stack') = Len(stack) + 1
      /\ \A i \in 1..Len(stack) : stack'[i] = stack[i]
      /\ stack'[Len(stack) + 1] = f
  BY <1>1, <1>2, <1>4, <1>6
<1>8. Top' = f
  BY <1>7 DEF Top
<1>9. stack[Len(stack)] = Top
  BY DEF Top
<1>10. TypeOK'
  <2>1. \A i \in 2..Len(stack') : i \in 2..Len(stack) \/ i = Len(stack) + 1
    BY <1>1, <1>7
  <2>2. ASSUME NEW i \in 2..Len(stack') PROVE stack'[i].type \in TaskType
    <3>1. CASE i = Len(stack) + 1
      BY <1>2, <1>7, <3>1
    <3>2. CASE i \in 2..Len(stack)
      <4>1. stack'[i] = stack[i]
        BY <1>1, <1>7, <3>2
      <4> QED
        BY <1>0, <3>2, <4>1 DEF TypeOK
    <3> QED
      BY <2>1, <3>1, <3>2
  <2>3. phase' \in Phase /\ stack' # <<>> /\ Len(stack') > 1
    BY <1>1, <1>4, <1>7, EmptySeq DEF Phase
  <2> QED
    BY <1>0, <1>4, <1>5, <1>7, <2>2, <2>3 DEF TypeOK
<1>11. CoordinatesAgree'
  <2>1. ASSUME NEW i \in 2..Len(stack') PROVE stack'[i].order = Position(stack'[i - 1])
    <3>1. CASE i = Len(stack) + 1
      <4>1. stack'[i] = f /\ stack'[i - 1] = Top
        BY <1>1, <1>7, <1>9, <3>1
      <4> QED
        BY <1>3, <4>1
    <3>2. CASE i \in 2..Len(stack)
      <4>1. stack'[i] = stack[i] /\ stack'[i - 1] = stack[i - 1]
        BY <1>1, <1>7, <3>2
      <4> QED
        BY <1>0, <3>2, <4>1 DEF CoordinatesAgree
    <3> QED
      BY <1>1, <1>7, <3>1, <3>2
  <2> QED
    BY <2>1 DEF CoordinatesAgree, Position
<1>12. StepIsLeaf'
  BY <1>0, <1>1, <1>4, <1>7, <1>9 DEF StepIsLeaf
<1>13. StepNotYetRecorded'
  <2>1. t = "STEP" => ~IsRecorded(task)
    BY <1>4 DEF Skips, Subtask, task
  <2> QED
    BY <1>2, <1>5, <1>8, <2>1 DEF StepNotYetRecorded, IsRecorded, TaskOf
<1>14. OneRecordPerStep' /\ OffForgets'
  BY <1>4, <1>5 DEF IInv, OneRecordPerStep, OffForgets
<1>15. LatestInPast'
  <2>1. Position(Top)' = Append(Position(Top), 0)
    BY <1>3, <1>8 DEF Position
  <2>2. ASSUME latest # NoStep PROVE IsBefore(latest', Position(Top)')
    <3>1. Precedes(latest.order, Position(Top))
      BY <1>0, <2>2 DEF IInv, LatestInPast, LatestBeforePosition, IsBefore
    <3>2. latest.order \in Seq(Nat)
      BY <1>0, <2>2 DEF TypeOK, Task
    <3>3. Precedes(latest.order, Append(Position(Top), 0))
      BY <1>1, <3>1, <3>2, PrecedesInside
    <3> QED
      BY <1>5, <2>1, <3>3 DEF IsBefore
  <2>3. IsBefore(latest', Position(Top)')
    BY <1>5, <2>2 DEF IsBefore
  <2>4. RecordsInPast'
    BY <1>5 DEF IInv, LatestInPast, RecordsInPast
  <2> QED
    BY <2>3, <2>4 DEF LatestInPast, LatestBeforePosition
<1> QED
  BY <1>10, <1>11, <1>12, <1>13, <1>14, <1>15 DEF IInv

\* Of the top frame, Advance moves the counter only.
LEMMA AdvanceTop ==
  ASSUME TypeOK, stack # <<>>
  PROVE  LET f == [Top EXCEPT !.next = Top.next + 1] IN
         /\ Advance(stack, Len(stack)) = [stack EXCEPT ![Len(stack)] = f]
         /\ f \in Frame /\ TaskOf(f) = TaskOf(Top)
         /\ Position(f) = Append(Top.order, Top.next + 1)
         /\ Top.order \in Seq(Nat) /\ Top.next \in Nat
<1>1. stack \in Seq(Frame) /\ Len(stack) \in 1..Len(stack)
  BY EmptySeq DEF TypeOK
<1>2. Top \in Frame
  BY <1>1, ElementOfSeq DEF Top
<1>3. Advance(stack, Len(stack))
        = [stack EXCEPT ![Len(stack)] = [Top EXCEPT !.next = Top.next + 1]]
  BY DEF Advance, Top
<1>4. Top.order \in Seq(Nat) /\ Top.next \in Nat
  BY <1>2 DEF Frame
<1> QED
  BY <1>2, <1>3, <1>4, NextFrame

\* After a skip the position is past the skipped task, and so past the latest step of it.
LEMMA SkipStep ==
  ASSUME IInv, NEW k \in Keys, NEW t \in TaskType, Skip(k, t) \/ SkipFails(k, t)
  PROVE  IInv'
<1> DEFINE task == Subtask(Top, k, t)
           f == [Top EXCEPT !.next = Top.next + 1]
<1>0. TypeOK /\ stack # <<>> /\ phase = "body"
  BY DEF IInv, TypeOK, Skip, SkipFails, CanSubmit
<1>1. /\ Advance(stack, Len(stack)) = [stack EXCEPT ![Len(stack)] = f]
      /\ f \in Frame /\ TaskOf(f) = TaskOf(Top)
      /\ Position(f) = Append(Top.order, Top.next + 1)
      /\ Top.order \in Seq(Nat) /\ Top.next \in Nat
  BY <1>0, AdvanceTop
<1>2. task \in Task /\ task.order = Append(Top.order, Top.next)
  <2>1. task \in Task
    BY <1>0, SubtaskType
  <2> QED
    BY <2>1 DEF Subtask, Position
<1>3. /\ stack' = Advance(stack, Len(stack))
      /\ phase' \in {"body", "raising"} /\ exc' \in ExcKind \union {"none"}
      /\ UNCHANGED <<skipStages, records, session>>
      /\ Skips(task)
  BY <1>0 DEF Skip, SkipFails, TypeOK, ExcKind
<1>4. latest' = latest \/ latest' = LatestAfterSkip(task)
  BY DEF Skip, SkipFails
<1> HIDE DEF task
<1>5. CASE latest' = latest
  <2>1. ASSUME latest # NoStep PROVE IsBefore(latest', Position(f))
    <3>1. Precedes(latest.order, Append(Top.order, Top.next))
      BY <1>0, <2>1 DEF IInv, LatestInPast, LatestBeforePosition, IsBefore, Position
    <3>2. latest.order \in Seq(Nat)
      BY <1>0, <2>1 DEF TypeOK, Task
    <3>3. Precedes(latest.order, Append(Top.order, Top.next + 1))
      BY <1>1, <3>1, <3>2, PrecedesNext
    <3> QED
      BY <1>1, <1>5, <3>3 DEF IsBefore
  <2>2. IsBefore(latest', Position(f))
    BY <1>5, <2>1 DEF IsBefore
  <2>3. latest' \in Task \union {NoStep} /\ skipStages' \in BOOLEAN
    BY <1>0, <1>3, <1>5 DEF TypeOK
  <2> QED
    BY <1>0, <1>1, <1>3, <2>2, <2>3, TopStep
<1>6. CASE latest' = LatestAfterSkip(task)
  <2>1. latest' \in Task \union {NoStep} /\ IsBefore(latest', Append(Top.order, Top.next + 1))
    <3>1. CASE task.type = "STEP"
      <4>1. latest' = task
        BY <1>6, <3>1 DEF LatestAfterSkip
      <4> QED
        BY <1>1, <1>2, <4>1, NextFollows DEF IsBefore
    <3>2. CASE task.type # "STEP"
      <4>1. latest' = ExecutionLog(task).latest
        BY <1>6, <3>2 DEF LatestAfterSkip
      <4>2. PICK i \in DOMAIN records :
              records[i].task = task /\ ExecutionLog(task) = records[i]
        BY <1>0, <1>3, ExecutionLogFound DEF Skips
      <4>3. IsBefore(records[i].latest, Successor(task.order))
        BY <4>2 DEF IInv, LatestInPast, RecordsInPast
      <4>4. records[i].latest \in Task \union {NoStep}
        <5>1. records[i] \in Record
          BY <1>0, <4>2, ElementOfSeq, LenProperties DEF TypeOK
        <5> QED
          BY <5>1 DEF Record
      <4> QED
        BY <1>1, <1>2, <4>1, <4>2, <4>3, <4>4, SuccessorOfPosition
    <3> QED
      BY <3>1, <3>2
  <2>2. skipStages' \in BOOLEAN
    BY <1>0, <1>3 DEF TypeOK
  <2> QED
    BY <1>0, <1>1, <1>3, <2>1, <2>2, TopStep
<1> QED
  BY <1>4, <1>5, <1>6

\* A scope is entered or left: the top frame's scopes change.
LEMMA ScopeStep ==
  ASSUME IInv, phase \in {"body", "raising"}, skipStages' \in BOOLEAN,
         UNCHANGED <<phase, exc, latest, records, session>>,
         NEW scopes \in Seq(BOOLEAN),
         stack' = [stack EXCEPT ![Len(stack)] = [Top EXCEPT !.scopes = scopes]]
  PROVE  IInv'
<1> DEFINE f == [Top EXCEPT !.scopes = scopes]
<1>0. TypeOK /\ stack # <<>>
  BY DEF IInv, TypeOK
<1>1. Top \in Frame
  <2>1. stack \in Seq(Frame) /\ Len(stack) \in 1..Len(stack)
    BY <1>0, EmptySeq DEF TypeOK
  <2> QED
    BY <2>1, ElementOfSeq DEF Top
<1>2. f \in Frame
  BY <1>1 DEF Frame
<1>3. f.path = Top.path /\ f.order = Top.order /\ f.next = Top.next /\ f.type = Top.type
  BY <1>1 DEF Frame
<1>4. TaskOf(f) = TaskOf(Top) /\ Position(f) = Position(Top)
  BY <1>3, Zenon DEF TaskOf, Position
<1>5. latest' \in Task \union {NoStep} /\ exc' \in ExcKind \union {"none"}
  BY <1>0 DEF TypeOK
<1>6. IsBefore(latest', Position(f))
  BY <1>0, <1>4 DEF IInv, LatestInPast, LatestBeforePosition, TypeOK
<1>7. stack' = [stack EXCEPT ![Len(stack)] = f]
  OBVIOUS
<1> HIDE DEF f
<1> QED
  BY <1>2, <1>4, <1>5, <1>6, <1>7, TopStep

\* Every step of the executor, of the program and of the process preserves the invariant.
LEMMA NextInv == IInv /\ [Next]_vars => IInv'
<1> SUFFICES ASSUME IInv, [Next]_vars PROVE IInv'
  OBVIOUS
<1>0. TypeOK
  BY DEF IInv
<1>1. CASE Open
  BY <1>1, OpenStep
<1>2. CASE Close \/ Crash
  BY <1>2, ForgetStep DEF Close, Crash
<1>3. CASE Submission
  <2>1. ASSUME NEW k \in Keys, SubmitFails(k) PROVE IInv'
    BY <1>0, <2>1, PhaseStep DEF SubmitFails, CanSubmit, Phase, ExcKind
  <2>2. ASSUME NEW k \in Keys, NEW t \in TaskType,
               Skip(k, t) \/ SkipFails(k, t) \/ Run(k, t)
        PROVE  IInv'
    BY <2>2, SkipStep, RunStep
  <2> QED
    BY <1>3, <2>1, <2>2 DEF Submission
<1>4. CASE BodyReturns \/ BodyCatches \/ BodyAborts
  <2>1. exc' \in ExcKind \union {"none"}
    BY <1>0, <1>4 DEF TypeOK, BodyReturns, BodyCatches, BodyAborts
  <2> QED
    BY <1>4, <2>1, PhaseStep DEF BodyReturns, BodyCatches, BodyAborts, Phase
<1>5. ASSUME NEW e \in Raisable, BodyRaises(e) PROVE IInv'
  BY <1>5, PhaseStep, TaskExecutorAssumption DEF BodyRaises, Phase
<1>6. ASSUME NEW v \in BOOLEAN, EnterScope(v) PROVE IInv'
  <2>1. Top \in Frame
    <3>1. stack \in Seq(Frame) /\ Len(stack) \in 1..Len(stack)
      BY <1>0, <1>6, EmptySeq DEF TypeOK, EnterScope
    <3> QED
      BY <3>1, ElementOfSeq DEF Top
  <2>2. Append(Top.scopes, skipStages) \in Seq(BOOLEAN)
    <3>1. Top.scopes \in Seq(BOOLEAN) /\ skipStages \in BOOLEAN
      BY <1>0, <2>1 DEF Frame, TypeOK
    <3> QED
      BY <3>1
  <2>3. stack' = [stack EXCEPT ![Len(stack)] =
                    [Top EXCEPT !.scopes = Append(Top.scopes, skipStages)]]
    BY <1>6 DEF EnterScope, Top
  <2>4. /\ phase \in {"body", "raising"} /\ skipStages' \in BOOLEAN
        /\ UNCHANGED <<phase, exc, latest, records, session>>
    BY <1>6 DEF EnterScope
  <2> QED
    BY <2>2, <2>3, <2>4, ScopeStep
<1>7. CASE ExitScope
  <2>1. Top \in Frame
    <3>1. stack \in Seq(Frame) /\ Len(stack) \in 1..Len(stack)
      BY <1>0, <1>7, EmptySeq DEF TypeOK, ExitScope
    <3> QED
      BY <3>1, ElementOfSeq DEF Top
  <2>2. Top.scopes \in Seq(BOOLEAN) /\ Top.scopes # <<>>
    BY <1>7, <2>1 DEF Frame, ExitScope
  <2>3. Len(Top.scopes) \in 1..Len(Top.scopes)
    BY <2>2, EmptySeq
  <2>4. SubSeq(Top.scopes, 1, Len(Top.scopes) - 1) \in Seq(BOOLEAN)
    BY <2>2, <2>3
  <2>5. stack' = [stack EXCEPT ![Len(stack)] =
                    [Top EXCEPT !.scopes = SubSeq(Top.scopes, 1, Len(Top.scopes) - 1)]]
    BY <1>7 DEF ExitScope, Top
  <2>6. skipStages' \in BOOLEAN
    BY <1>7, <2>2, <2>3, ElementOfSeq DEF ExitScope
  <2>7. phase \in {"body", "raising"} /\ UNCHANGED <<phase, exc, latest, records, session>>
    BY <1>7 DEF ExitScope
  <2> QED
    BY <2>4, <2>5, <2>6, <2>7, ScopeStep
<1>8. CASE Invoked \/ InvokedRaises \/ MarkRaises \/ FinishedRaises
  <2>1. Len(stack) > 1 /\ exc \in ExcKind \union {"none"} /\ "error" \in ExcKind
    BY <1>0, <1>8
       DEF TypeOK, Invoked, InvokedRaises, MarkRaises, FinishedRaises, ExcKind
  <2> QED
    BY <1>8, <2>1, PhaseStep
       DEF Invoked, InvokedRaises, MarkRaises, FinishedRaises, Throw, Phase
<1>9. CASE MarkFinished
  BY <1>9, MarkStep
<1>10. CASE Finished \/ Handled \/ HandlerRaises
  <2>1. Len(stack) > 1 /\ exc \in ExcKind \union {"none"} /\ "error" \in ExcKind
    BY <1>0, <1>10 DEF TypeOK, Finished, Handled, HandlerRaises, ExcKind
  <2>2. Leave /\ phase' \in {"body", "raising"} /\ UNCHANGED <<skipStages, records, session>>
    BY <1>10 DEF Finished, Handled, HandlerRaises, ReturnToCaller, RaiseInCaller
  <2>3. exc' \in ExcKind \union {"none"}
    BY <1>10, <2>1 DEF Finished, Handled, HandlerRaises, ReturnToCaller, RaiseInCaller
  <2>4. latest' = latest \/ latest' = TaskOf(Top)
    BY <1>10 DEF Finished, Handled, HandlerRaises, ReturnToCaller, RaiseInCaller
  <2> QED
    BY <2>1, <2>2, <2>3, <2>4, LeaveStep
<1>11. CASE UNCHANGED vars
  BY <1>11
     DEF vars, IInv, TypeOK, CoordinatesAgree, StepIsLeaf, StepNotYetRecorded, OffForgets,
         OneRecordPerStep, LatestInPast, LatestBeforePosition, RecordsInPast, Top, IsRecorded
<1> QED
  BY <1>1, <1>2, <1>3, <1>4, <1>5, <1>6, <1>7, <1>8, <1>9, <1>10, <1>11
     DEF Next, UserCode, Machinery

(***************************************************************************)
(* The flag of skip_executed_stages.  Each scope holds the value it has to *)
(* restore, so of all open scopes the outermost one holds the value from   *)
(* outside of every scope: FALSE.  Only the running body opens and closes  *)
(* scopes, and a frame that is not in its body has none of its own.        *)
(***************************************************************************)
NoScopes == \A i \in DOMAIN stack : stack[i].scopes = <<>>

OutermostRestores ==
  \A i \in DOMAIN stack :
    stack[i].scopes # <<>> /\ (\A j \in 1..(i - 1) : stack[j].scopes = <<>>)
      => stack[i].scopes[1] = FALSE

ScopesClosed ==
  phase \in {"invoking", "returned", "recorded", "failing"} => Top.scopes = <<>>

ScopeInv ==
  /\ NoScopes => skipStages = FALSE
  /\ OutermostRestores
  /\ ScopesClosed

\* A step that leaves all scopes, and the flag, as they are.
LEMMA ScopesKept ==
  ASSUME TypeOK, ScopeInv, stack' \in Seq(Frame), Len(stack') = Len(stack),
         \A i \in 1..Len(stack) : stack'[i].scopes = stack[i].scopes,
         UNCHANGED skipStages,
         phase' \in {"invoking", "returned", "recorded", "failing"} => Top.scopes = <<>>
  PROVE  ScopeInv'
<1>1. stack \in Seq(Frame) /\ Len(stack) \in Nat /\ DOMAIN stack = 1..Len(stack)
      /\ DOMAIN stack' = 1..Len(stack)
  BY DEF TypeOK
<1>2. NoScopes' => NoScopes
  BY <1>1 DEF NoScopes
<1>3. OutermostRestores'
  <2>1. ASSUME NEW i \in 1..Len(stack), stack'[i].scopes # <<>>,
               \A j \in 1..(i - 1) : stack'[j].scopes = <<>>
        PROVE  stack'[i].scopes[1] = FALSE
    <3>1. stack[i].scopes # <<>> /\ \A j \in 1..(i - 1) : stack[j].scopes = <<>>
      BY <1>1, <2>1
    <3> QED
      BY <1>1, <3>1 DEF ScopeInv, OutermostRestores
  <2> QED
    BY <1>1, <2>1 DEF OutermostRestores
<1>4. ScopesClosed'
  <2>1. CASE Len(stack) = 0
    <3>1. stack = <<>> /\ stack' = <<>>
      BY <1>1, <2>1, EmptySeq
    <3> QED
      BY <3>1 DEF ScopesClosed, Top
  <2>2. CASE Len(stack) > 0
    BY <1>1, <2>2 DEF ScopesClosed, Top
  <2> QED
    BY <1>1, <2>1, <2>2
<1> QED
  BY <1>2, <1>3, <1>4 DEF ScopeInv

\* A frame is pushed that has no scopes, or popped that has none.
LEMMA ScopesPushPop ==
  ASSUME TypeOK, ScopeInv, UNCHANGED skipStages, stack' \in Seq(Frame),
         NEW n \in Nat, n <= Len(stack), n <= Len(stack'),
         \A i \in 1..n : stack'[i].scopes = stack[i].scopes,
         \A i \in (n + 1)..Len(stack) : stack[i].scopes = <<>>,
         \A i \in (n + 1)..Len(stack') : stack'[i].scopes = <<>>,
         phase' \in {"invoking", "returned", "recorded", "failing"} => Top'.scopes = <<>>
  PROVE  ScopeInv'
<1>1. stack \in Seq(Frame) /\ Len(stack) \in Nat /\ DOMAIN stack = 1..Len(stack)
      /\ Len(stack') \in Nat /\ DOMAIN stack' = 1..Len(stack')
  BY DEF TypeOK
<1>2. NoScopes' => NoScopes
  BY <1>1 DEF NoScopes
<1>3. ASSUME NEW i \in 1..Len(stack'), stack'[i].scopes # <<>>,
             \A j \in 1..(i - 1) : stack'[j].scopes = <<>>
      PROVE  stack'[i].scopes[1] = FALSE
  <2>1. i \in 1..n
    BY <1>1, <1>3
  <2>2. stack[i].scopes # <<>> /\ \A j \in 1..(i - 1) : stack[j].scopes = <<>>
    BY <1>1, <1>3, <2>1
  <2> QED
    BY <1>1, <2>1, <2>2 DEF ScopeInv, OutermostRestores
<1>4. OutermostRestores'
  BY <1>1, <1>3 DEF OutermostRestores
<1> QED
  BY <1>2, <1>4 DEF ScopeInv, ScopesClosed

\* The top frame of a session that is open.
LEMMA TopFrame ==
  ASSUME TypeOK, stack # <<>>
  PROVE  /\ stack \in Seq(Frame) /\ Len(stack) \in 1..Len(stack) /\ DOMAIN stack = 1..Len(stack)
         /\ Top \in Frame /\ Top = stack[Len(stack)] /\ Top.scopes \in Seq(BOOLEAN)
<1>1. stack \in Seq(Frame) /\ Len(stack) \in 1..Len(stack) /\ DOMAIN stack = 1..Len(stack)
  BY EmptySeq DEF TypeOK
<1>2. Top \in Frame /\ Top = stack[Len(stack)]
  BY <1>1, ElementOfSeq DEF Top
<1> QED
  BY <1>1, <1>2 DEF Frame

\* A frame whose scopes are replaced.
LEMMA ScopesOfTop ==
  ASSUME TypeOK, stack # <<>>, NEW scopes \in Seq(BOOLEAN),
         stack' = [stack EXCEPT ![Len(stack)] = [Top EXCEPT !.scopes = scopes]]
  PROVE  /\ stack' \in Seq(Frame) /\ Len(stack') = Len(stack)
         /\ Top'.scopes = scopes
         /\ \A i \in 1..(Len(stack) - 1) : stack'[i] = stack[i]
         /\ stack'[Len(stack)].scopes = scopes
<1> DEFINE f == [Top EXCEPT !.scopes = scopes]
<1>1. f \in Frame /\ f.scopes = scopes
  BY TopFrame DEF Frame
<1>2. stack' = [stack EXCEPT ![Len(stack)] = f]
  OBVIOUS
<1> HIDE DEF f
<1>3. /\ stack' \in Seq(Frame) /\ Len(stack') = Len(stack)
      /\ \A i \in 1..Len(stack) : stack'[i] = IF i = Len(stack) THEN f ELSE stack[i]
  BY <1>1, <1>2, ExceptTop
<1> QED
  BY <1>1, <1>3, TopFrame DEF Top

\* A scope is entered: the flag's value goes into the last scope.
LEMMA ScopeEntered ==
  ASSUME TypeOK, ScopeInv, NEW v \in BOOLEAN, EnterScope(v)
  PROVE  ScopeInv'
<1> DEFINE scopes == Append(Top.scopes, skipStages)
<1>1. stack # <<>>
  BY DEF EnterScope, TypeOK
<1>2. /\ stack \in Seq(Frame) /\ Len(stack) \in 1..Len(stack) /\ DOMAIN stack = 1..Len(stack)
      /\ Top = stack[Len(stack)] /\ Top.scopes \in Seq(BOOLEAN) /\ skipStages \in BOOLEAN
  BY <1>1, TopFrame DEF TypeOK
<1>3. /\ scopes \in Seq(BOOLEAN) /\ Len(scopes) = Len(Top.scopes) + 1
      /\ scopes[Len(Top.scopes) + 1] = skipStages
      /\ \A i \in 1..Len(Top.scopes) : scopes[i] = Top.scopes[i]
  BY <1>2, AppendProperties
<1>4. stack' = [stack EXCEPT ![Len(stack)] = [Top EXCEPT !.scopes = scopes]]
  BY DEF EnterScope, Top
<1> HIDE DEF scopes
<1>5. /\ stack' \in Seq(Frame) /\ Len(stack') = Len(stack)
      /\ \A i \in 1..(Len(stack) - 1) : stack'[i] = stack[i]
      /\ stack'[Len(stack)].scopes = scopes
  BY <1>1, <1>3, <1>4, ScopesOfTop
<1>6. ~NoScopes'
  <2>1. scopes # <<>> /\ Len(stack) \in 1..Len(stack') /\ DOMAIN stack' = 1..Len(stack')
    BY <1>2, <1>3, <1>5, EmptySeq
  <2> QED
    BY <1>5, <2>1 DEF NoScopes
<1>7. ASSUME NEW i \in 1..Len(stack), stack'[i].scopes # <<>>,
             \A j \in 1..(i - 1) : stack'[j].scopes = <<>>
      PROVE  stack'[i].scopes[1] = FALSE
  <2>1. \A j \in 1..(i - 1) : stack[j].scopes = <<>>
    BY <1>2, <1>5, <1>7
  <2>2. CASE i # Len(stack)
    BY <1>2, <1>5, <1>7, <2>1, <2>2 DEF ScopeInv, OutermostRestores
  <2>3. CASE i = Len(stack) /\ Top.scopes # <<>>
    <3>1. 1 \in 1..Len(Top.scopes)
      BY <1>2, <2>3, EmptySeq
    <3>2. Top.scopes[1] = FALSE
      BY <1>2, <2>1, <2>3 DEF ScopeInv, OutermostRestores
    <3> QED
      BY <1>3, <1>5, <2>3, <3>1, <3>2
  <2>4. CASE i = Len(stack) /\ Top.scopes = <<>>
    <3>1. NoScopes
      BY <1>2, <2>1, <2>4 DEF NoScopes
    <3>2. skipStages = FALSE
      BY <3>1 DEF ScopeInv
    <3>3. Len(Top.scopes) = 0
      BY <2>4
    <3> QED
      BY <1>3, <1>5, <2>4, <3>2, <3>3
  <2> QED
    BY <2>2, <2>3, <2>4
<1>8. OutermostRestores'
  <2>1. DOMAIN stack' = 1..Len(stack)
    BY <1>2, <1>5
  <2> QED
    BY <1>7, <2>1 DEF OutermostRestores
<1>9. ScopesClosed'
  BY DEF EnterScope, ScopesClosed
<1> QED
  BY <1>6, <1>8, <1>9 DEF ScopeInv

\* A scope is left, in whatever way: the flag has the value from before.
LEMMA ScopeLeft ==
  ASSUME TypeOK, ScopeInv, ExitScope
  PROVE  ScopeInv'
<1> DEFINE scopes == SubSeq(Top.scopes, 1, Len(Top.scopes) - 1)
<1>1. stack # <<>>
  BY DEF ExitScope, TypeOK
<1>2. /\ stack \in Seq(Frame) /\ Len(stack) \in 1..Len(stack) /\ DOMAIN stack = 1..Len(stack)
      /\ Top = stack[Len(stack)] /\ Top.scopes \in Seq(BOOLEAN)
  BY <1>1, TopFrame
<1>3. Top.scopes # <<>> /\ Len(Top.scopes) \in 1..Len(Top.scopes)
  BY <1>2, EmptySeq DEF ExitScope
<1>4. /\ scopes \in Seq(BOOLEAN) /\ Len(scopes) = Len(Top.scopes) - 1
      /\ \A i \in 1..(Len(Top.scopes) - 1) : scopes[i] = Top.scopes[i]
      /\ 1 < Len(Top.scopes) => scopes[1] = Top.scopes[1]
  BY <1>2, <1>3
<1>5. stack' = [stack EXCEPT ![Len(stack)] = [Top EXCEPT !.scopes = scopes]]
  BY DEF ExitScope, Top
<1>6. skipStages' = Top.scopes[Len(Top.scopes)]
  BY DEF ExitScope
<1> HIDE DEF scopes
<1>7. /\ stack' \in Seq(Frame) /\ Len(stack') = Len(stack)
      /\ \A i \in 1..(Len(stack) - 1) : stack'[i] = stack[i]
      /\ stack'[Len(stack)].scopes = scopes
      /\ DOMAIN stack' = 1..Len(stack)
  <2>1. /\ stack' \in Seq(Frame) /\ Len(stack') = Len(stack)
        /\ \A i \in 1..(Len(stack) - 1) : stack'[i] = stack[i]
        /\ stack'[Len(stack)].scopes = scopes
    BY <1>1, <1>4, <1>5, ScopesOfTop
  <2> QED
    BY <2>1
<1>m. 1 < Len(Top.scopes) \/ Len(Top.scopes) = 1
  <2>1. ASSUME NEW n, n \in 1..n
        PROVE  1 < n \/ n = 1
    BY <2>1
  <2> QED
    BY <1>3, <2>1
<1>n. Len(stack) \in Nat /\ Len(stack) >= 1 /\ Len(Top.scopes) \in Nat /\ Len(scopes) \in Nat
  BY <1>2, <1>3, <1>4
<1>k. /\ \A i \in 1..Len(stack) : i # Len(stack) => stack'[i] = stack[i] /\ i \in DOMAIN stack
      /\ Len(scopes) # 0 => scopes[1] = Top.scopes[1]
  <2>1. ASSUME NEW i \in 1..Len(stack), i # Len(stack)
        PROVE  stack'[i] = stack[i] /\ i \in DOMAIN stack
    <3>1. i \in 1..(Len(stack) - 1)
      BY <1>n, <2>1
    <3> QED
      BY <1>2, <1>7, <3>1
  <2>2. ASSUME Len(scopes) # 0
        PROVE  scopes[1] = Top.scopes[1]
    <3>1. CASE 1 < Len(Top.scopes)
      BY <1>4, <3>1
    <3>2. CASE Len(Top.scopes) = 1
      BY <1>4, <2>2, <3>2
    <3> QED
      BY <1>m, <3>1, <3>2
  <2> QED
    BY <2>1, <2>2
<1>8. ASSUME \A j \in 1..(Len(stack) - 1) : stack[j].scopes = <<>>
      PROVE  Top.scopes[1] = FALSE
  BY <1>2, <1>3, <1>8 DEF ScopeInv, OutermostRestores
<1>9. ASSUME NoScopes' PROVE skipStages' = FALSE
  <2>1. \A j \in 1..Len(stack) : stack'[j].scopes = <<>>
    BY <1>7, <1>9 DEF NoScopes
  <2>2. scopes = <<>>
    BY <1>7, <1>n, <2>1
  <2>3. \A j \in 1..(Len(stack) - 1) : stack[j].scopes = <<>>
    BY <1>7, <1>n, <2>1
  <2>4. Len(Top.scopes) = 1
    BY <1>4, <1>n, <2>2
  <2> QED
    BY <1>6, <1>8, <2>3, <2>4
<1>10. ASSUME NEW i \in 1..Len(stack), stack'[i].scopes # <<>>,
              \A j \in 1..(i - 1) : stack'[j].scopes = <<>>
       PROVE  stack'[i].scopes[1] = FALSE
  <2>1. \A j \in 1..(i - 1) : stack[j].scopes = <<>>
    BY <1>2, <1>7, <1>10
  <2>2. CASE i # Len(stack)
    <3>1. stack'[i] = stack[i] /\ i \in DOMAIN stack
      BY <1>k, <2>2
    <3> QED
      BY <1>10, <2>1, <3>1 DEF ScopeInv, OutermostRestores
  <2>3. CASE i = Len(stack)
    <3>1. Top.scopes[1] = FALSE
      BY <1>8, <2>1, <2>3
    <3>2. Len(scopes) # 0
      BY <1>4, <1>7, <1>10, <2>3, EmptySeq
    <3> QED
      BY <1>7, <1>k, <2>3, <3>1, <3>2
  <2> QED
    BY <2>2, <2>3
<1>11. OutermostRestores'
  BY <1>7, <1>10 DEF OutermostRestores
<1>12. ScopesClosed'
  BY DEF ExitScope, ScopesClosed
<1> QED
  BY <1>9, <1>11, <1>12 DEF ScopeInv

\* The steps of tasks keep what scopes hold.
LEMMA NextScopes ==
  ASSUME IInv, ScopeInv, [Next]_vars
  PROVE  ScopeInv'
<1>0. TypeOK /\ CoordinatesAgree
  BY DEF IInv
<1>1. CASE Open
  <2>1. stack = <<>> /\ skipStages' = skipStages /\ stack' = <<RootFrame>> /\ phase' = "body"
    BY <1>0, <1>1 DEF Open, TypeOK
  <2>2. skipStages = FALSE
    BY <2>1 DEF ScopeInv, NoScopes
  <2>3. stack'[1].scopes = <<>> /\ DOMAIN stack' = {1}
    BY <2>1 DEF RootFrame
  <2> QED
    BY <2>1, <2>2, <2>3 DEF ScopeInv, NoScopes, OutermostRestores, ScopesClosed
<1>2. CASE Close \/ Crash
  BY <1>2 DEF Close, Crash, Forget, ScopeInv, NoScopes, OutermostRestores, ScopesClosed
<1>3. CASE UNCHANGED <<stack, skipStages>>
           /\ (phase' \in {"invoking", "returned", "recorded", "failing"} => Top.scopes = <<>>)
  <2>1. stack \in Seq(Frame)
    BY <1>0 DEF TypeOK
  <2> QED
    BY <1>0, <1>3, <2>1, ScopesKept
<1>4. ASSUME NEW k \in Keys, NEW t \in TaskType, Skip(k, t) \/ SkipFails(k, t)
      PROVE  ScopeInv'
  <2> DEFINE f == [Top EXCEPT !.next = Top.next + 1]
  <2>1. stack # <<>>
    BY <1>0, <1>4 DEF TypeOK, Skip, SkipFails, CanSubmit
  <2>2. /\ Advance(stack, Len(stack)) = [stack EXCEPT ![Len(stack)] = f] /\ f \in Frame
        /\ f.scopes = Top.scopes
    BY <1>0, <2>1, AdvanceTop, TopFrame, NextFrame
  <2> HIDE DEF f
  <2>3. stack' = [stack EXCEPT ![Len(stack)] = f]
    BY <1>4, <2>2 DEF Skip, SkipFails
  <2>4. /\ stack' \in Seq(Frame) /\ Len(stack') = Len(stack)
        /\ \A i \in 1..Len(stack) : stack'[i] = IF i = Len(stack) THEN f ELSE stack[i]
    BY <1>0, <2>1, <2>2, <2>3, ExceptTop
  <2>5. \A i \in 1..Len(stack) : stack'[i].scopes = stack[i].scopes
    BY <2>2, <2>4 DEF Top
  <2>6. UNCHANGED skipStages /\ phase' \in {"body", "raising"}
    BY <1>4 DEF Skip, SkipFails, CanSubmit
  <2> QED
    BY <1>0, <2>4, <2>5, <2>6, ScopesKept
<1>5. ASSUME NEW k \in Keys, NEW t \in TaskType, Run(k, t) PROVE ScopeInv'
  <2> DEFINE f == FrameOf(Subtask(Top, k, t))
  <2>1. stack # <<>>
    BY <1>0, <1>5 DEF TypeOK, Run, CanSubmit
  <2>2. Subtask(Top, k, t) \in Task
    BY <1>0, <2>1, SubtaskType
  <2>3. f.scopes = <<>>
    BY DEF FrameOf
  <2>4. f \in Frame
    <3>1. <<>> \in Seq(BOOLEAN)
      BY EmptySeq
    <3> QED
      BY <2>2, <3>1 DEF FrameOf, Frame, Task
  <2>5. stack' = Append(stack, f) /\ UNCHANGED skipStages
    BY <1>5 DEF Run
  <2> HIDE DEF f
  <2>6. /\ stack' \in Seq(Frame) /\ Len(stack') = Len(stack) + 1 /\ Len(stack) \in Nat
        /\ stack'[Len(stack) + 1] = f
        /\ \A i \in 1..Len(stack) : stack'[i] = stack[i]
    BY <1>0, <2>1, <2>4, <2>5, TopFrame, AppendProperties
  <2>7. /\ Len(stack) <= Len(stack) /\ Len(stack) <= Len(stack')
        /\ \A i \in 1..Len(stack) : stack'[i].scopes = stack[i].scopes
        /\ \A i \in (Len(stack) + 1)..Len(stack) : stack[i].scopes = <<>>
        /\ \A i \in (Len(stack) + 1)..Len(stack') : stack'[i].scopes = <<>>
        /\ Top'.scopes = <<>>
    BY <2>3, <2>6 DEF Top
  <2> QED
    BY <1>0, <2>5, <2>6, <2>7, ScopesPushPop
<1>6. CASE Finished \/ Handled \/ HandlerRaises
  <2>1. Leave /\ phase' \in {"body", "raising"} /\ UNCHANGED skipStages
    BY <1>6 DEF Finished, Handled, HandlerRaises, ReturnToCaller, RaiseInCaller
  <2>2. Len(stack) > 1 /\ Top.scopes = <<>>
    BY <1>0, <1>6 DEF Finished, Handled, HandlerRaises, TypeOK, ScopeInv, ScopesClosed
  <2>3. /\ stack' \in Seq(Frame) /\ Len(stack') = Len(stack) - 1
        /\ \A i \in 1..(Len(stack) - 2) : stack'[i] = stack[i]
        /\ Top' = [Parent EXCEPT !.next = Parent.next + 1]
    BY <1>0, <2>1, <2>2, LeaveStack
  <2>4. Parent \in Frame /\ Len(stack) \in Nat
    BY <1>0, <2>2, TopIsTask
  <2>5. Top'.scopes = Parent.scopes
    BY <2>3, <2>4, NextFrame
  <2>6. stack'[Len(stack) - 1].scopes = stack[Len(stack) - 1].scopes
    BY <2>3, <2>5 DEF Top, Parent
  <2> DEFINE n == Len(stack) - 1
  <2>7. n \in Nat /\ n <= Len(stack) /\ n <= Len(stack') /\ n + 1 = Len(stack) /\ n = Len(stack')
    BY <2>2, <2>3, <2>4
  <2>8. \A i \in 1..n : stack'[i].scopes = stack[i].scopes
    BY <2>3, <2>4, <2>6
  <2> HIDE DEF n
  <2>9. /\ \A i \in (n + 1)..Len(stack) : stack[i].scopes = <<>>
        /\ \A i \in (n + 1)..Len(stack') : stack'[i].scopes = <<>>
    BY <2>2, <2>7 DEF Top
  <2> QED
    BY <1>0, <2>1, <2>3, <2>7, <2>8, <2>9, ScopesPushPop
<1>7. ASSUME NEW v \in BOOLEAN, EnterScope(v) PROVE ScopeInv'
  BY <1>0, <1>7, ScopeEntered
<1>8. CASE ExitScope
  BY <1>0, <1>8, ScopeLeft
<1>9. CASE Submission
  BY <1>3, <1>4, <1>5, <1>9 DEF Submission, SubmitFails
<1>10. CASE UserCode
  BY <1>3, <1>7, <1>8, <1>10
     DEF UserCode, BodyReturns, BodyCatches, BodyAborts, BodyRaises
<1>11. CASE Machinery
  BY <1>3, <1>6, <1>11
     DEF Machinery, Invoked, InvokedRaises, MarkFinished, MarkRaises, FinishedRaises, Throw,
         ScopeInv, ScopesClosed
<1>12. CASE UNCHANGED vars
  BY <1>3, <1>12 DEF vars, ScopeInv, ScopesClosed
<1> QED
  BY <1>1, <1>2, <1>9, <1>10, <1>11, <1>12 DEF Next

(***************************************************************************)
(* The theorems.                                                           *)
(***************************************************************************)

\* The invariant holds throughout every behaviour.
THEOREM Invariant == Spec => []IInv
BY InitInv, NextInv, PTL DEF Spec

\* The variables keep their types (see TypeOK), for any keys and bounds.
THEOREM TypeCorrect == Spec => []TypeOK
<1>1. IInv => TypeOK
  BY DEF IInv
<1> QED
  BY <1>1, Invariant, PTL

\* No STEP ever gets two records: the assertion of _find_execution_log
\* (executor.py:271) holds, whatever the program, the callbacks and the crashes do.
THEOREM OneRecordPerStepHolds == Spec => []OneRecordPerStep
<1>1. IInv => OneRecordPerStep
  BY DEF IInv
<1> QED
  BY <1>1, Invariant, PTL

\* latest_step, the executor's and the records', is never ahead of the program, so a
\* skipped task never brings back the data of a later one.
THEOREM LatestInPastHolds == Spec => []LatestInPast
<1>1. IInv => LatestInPast
  BY DEF IInv
<1> QED
  BY <1>1, Invariant, PTL

\* The order in a task's coordinates is the one its parent's counter shows.
THEOREM CoordinatesAgreeHolds == Spec => []CoordinatesAgree
<1>1. IInv => CoordinatesAgree
  BY DEF IInv
<1> QED
  BY <1>1, Invariant, PTL

\* Within a context session the program only moves forward: no coordinates are handed
\* out twice, whatever is skipped, fails, or is swallowed.
THEOREM PositionAdvancesHolds == Spec => PositionAdvances
<1> DEFINE Moves == stack # <<>> /\ stack' # <<>> =>
                      \/ Position(Top)' = Position(Top)
                      \/ Precedes(Position(Top), Position(Top)')
<1>1. ASSUME IInv, [Next]_vars PROVE Moves
  <2> SUFFICES ASSUME stack # <<>>, stack' # <<>>
               PROVE  \/ Position(Top)' = Position(Top)
                      \/ Precedes(Position(Top), Position(Top)')
    OBVIOUS
  <2>0. TypeOK /\ CoordinatesAgree /\ StepIsLeaf
    BY <1>1 DEF IInv
  <2>1. Top \in Frame /\ stack \in Seq(Frame) /\ Len(stack) \in 1..Len(stack)
    <3>1. stack \in Seq(Frame) /\ Len(stack) \in 1..Len(stack)
      BY <2>0, EmptySeq DEF TypeOK
    <3> QED
      BY <3>1, ElementOfSeq DEF Top
  <2>2. Top.order \in Seq(Nat) /\ Top.next \in Nat /\ Position(Top) \in Seq(Nat)
    BY <2>1 DEF Frame, Position
  <2>3. CASE UNCHANGED stack
    BY <2>3 DEF Position, Top
  <2>4. CASE Leave /\ Len(stack) > 1
    <3>1. Position(Top)' = Append(Parent.order, Parent.next + 1)
      BY <2>0, <2>4, LeaveStack, TopIsTask, NextFrame DEF Position
    <3>2. Position(Top) = Append(Append(Parent.order, Parent.next), Top.next)
      BY <2>0, <2>4, TopIsTask DEF Position
    <3>3. Parent.order \in Seq(Nat) /\ Parent.next \in Nat
      BY <2>0, <2>4, TopIsTask DEF Frame
    <3> QED
      BY <2>2, <3>1, <3>2, <3>3, PrecedesItsInside
  <2>5. CASE stack' = Advance(stack, Len(stack))
    <3> DEFINE f == [Top EXCEPT !.next = Top.next + 1]
    <3>1. /\ stack' = [stack EXCEPT ![Len(stack)] = f]
          /\ f \in Frame /\ Position(f) = Append(Top.order, Top.next + 1)
      BY <2>0, <2>5, AdvanceTop
    <3> HIDE DEF f
    <3>2. Top' = f
      BY <2>0, <2>1, <3>1, ExceptTop DEF Top
    <3> QED
      BY <2>2, <3>1, <3>2, NextFollows DEF Position
  <2>6. ASSUME NEW g \in Frame, stack' = Append(stack, g), g.order = Position(Top)
        PROVE  Precedes(Position(Top), Position(Top)')
    <3>1. Top' = g
      BY <2>1, <2>6 DEF Top
    <3>2. g.next \in Nat
      BY <2>6 DEF Frame
    <3> QED
      BY <2>2, <2>6, <3>1, <3>2, PrecedesItsInside DEF Position
  <2>7. ASSUME NEW scopes, stack' = [stack EXCEPT ![Len(stack)] = [Top EXCEPT !.scopes = scopes]]
        PROVE  Position(Top)' = Position(Top)
    <3>1. Top' = [Top EXCEPT !.scopes = scopes]
      BY <2>1, <2>7 DEF Top
    <3>2. Top'.order = Top.order /\ Top'.next = Top.next
      BY <2>1, <3>1 DEF Frame
    <3> QED
      BY <3>2 DEF Position
  <2>8. ASSUME NEW k \in Keys, NEW t \in TaskType, Run(k, t)
        PROVE  Precedes(Position(Top), Position(Top)')
    <3> DEFINE task == Subtask(Top, k, t)
    <3>1. task.path \in Seq(Keys) /\ task.order \in Seq(Nat) /\ task.type = t
          /\ task.order = Position(Top)
      BY <2>0, SubtaskType DEF Task, Subtask
    <3>2. stack' = Append(stack, FrameOf(task))
      BY <2>8 DEF Run
    <3> HIDE DEF task
    <3>3. <<>> \in Seq(BOOLEAN)
      BY EmptySeq
    <3>4. FrameOf(task) \in Frame /\ FrameOf(task).order = Position(Top)
      BY <3>1, <3>3 DEF FrameOf, Frame
    <3> QED
      BY <2>6, <3>2, <3>4
  <2>9. CASE Submission
    BY <2>3, <2>5, <2>8, <2>9 DEF Submission, SubmitFails, Skip, SkipFails
  <2>10. CASE UserCode
    BY <2>3, <2>7, <2>10
       DEF UserCode, BodyReturns, BodyCatches, BodyAborts, ExitScope, BodyRaises, EnterScope, Top
  <2>11. CASE Machinery
    <3>1. Handled \/ HandlerRaises \/ Finished => Leave /\ Len(stack) > 1
      BY <2>0 DEF TypeOK, Handled, HandlerRaises, Finished, ReturnToCaller, RaiseInCaller
    <3> QED
      BY <2>3, <2>4, <2>11, <3>1
         DEF Machinery, Invoked, InvokedRaises, MarkFinished, MarkRaises, FinishedRaises
  <2>12. CASE UNCHANGED vars
    BY <2>3, <2>12 DEF vars
  <2>13. ~Open /\ ~Close /\ ~Crash
    BY <2>0 DEF TypeOK, Open, Close, Crash, Forget
  <2> QED
    BY <1>1, <2>9, <2>10, <2>11, <2>12, <2>13 DEF Next
<1> QED
  BY <1>1, Invariant, PTL DEF Spec, PositionAdvances

\* STAGEs are only skipped inside of a skip_executed_stages scope: whichever way scopes
\* are left, nested in whatever bodies, the flag outside of all of them is FALSE.
THEOREM SkipFlagScopedHolds == Spec => []SkipFlagScoped
<1>1. Init => ScopeInv
  BY DEF Init, ScopeInv, NoScopes, OutermostRestores, ScopesClosed
<1>2. IInv /\ ScopeInv /\ [Next]_vars => ScopeInv'
  BY NextScopes
<1>3. ScopeInv => SkipFlagScoped
  BY DEF ScopeInv, NoScopes, SkipFlagScoped
<1> QED
  BY <1>1, <1>2, <1>3, Invariant, PTL DEF Spec

=============================================================================
