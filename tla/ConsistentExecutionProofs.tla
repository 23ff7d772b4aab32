----------------------- MODULE ConsistentExecutionProofs -----------------------
(***************************************************************************)
(* Proofs about ConsistentExecution, for any program.                      *)
(*                                                                         *)
(* A step of the executor with its data layer is one of the executor, or   *)
(* leaves it alone: so TaskExecutor's invariant IInv holds here.  DataInv  *)
(* adds what ties the database to the executor.  Two of its parts carry    *)
(* the others: the branch that is checked out is never ahead of the        *)
(* program (BranchInPast), which is why the branch that on_step_invoked    *)
(* deletes is not the current one; and a STEP whose branch is deleted is   *)
(* not on record (IInv), which is why recorded data stays.                 *)
(*                                                                         *)
(* The second part is about programs whose exceptions end the session.     *)
(* There a position says what is done (Past): all of it is on record, on   *)
(* the branch that is checked out, and in the log, in the program's order. *)
(***************************************************************************)
EXTENDS ConsistentExecution, TaskExecutorProofs

\* The STAGEs on the stack are STAGEs of the program.
ProgramPaths ==
  \A i \in 1..Len(stack) : stack[i].type # "STEP" => stack[i].path \in DOMAIN Program

DataTypeOK ==
  /\ NoStep \in DOMAIN head /\ DOMAIN head = DOMAIN work
  /\ \A b \in DOMAIN head :
       b \in Branch /\ head[b] \subseteq Task /\ work[b] \subseteq Task
  /\ branch \in DOMAIN head
  /\ access \in {"RO", "RW"}
  /\ todo \in Todo
  /\ faults \in 0..MaxFaults
  /\ torn \subseteq Task

\* on_step_invoked has calls left exactly between the push of the frame and the body.
TodoWhileInvoking == todo # "nothing" <=> phase = "invoking" /\ InStep

\* What is checked out precedes the next position of the running frame, ...
BranchInPast ==
  /\ phase = "off" => branch = NoStep
  /\ phase # "off" => IsBefore(branch, Position(Top))

\* ... and as long as the STEP's own branch is not checked out, the STEP itself.
BranchBeforeStep == todo \in {"delete", "create"} => IsBefore(branch, Top.order)

\* The new branch is clean when the STEP gets to write on it.
NewBranchClean ==
  /\ todo = "checkout" => work[TaskOf(Top)] = head[TaskOf(Top)]
  /\ todo = "allow" => branch = TaskOf(Top) /\ work[branch] = head[branch]

\* A STEP has saved before it returns.
SavedBeforeReturn ==
  InStep /\ phase \in {"returned", "recorded"} => TaskOf(Top) \in work[branch]

DataInv ==
  /\ DataTypeOK
  /\ TodoWhileInvoking
  /\ BranchInPast
  /\ BranchBeforeStep
  /\ NewBranchClean
  /\ StepIsolated
  /\ SavedBeforeReturn
  /\ RecordedOrTorn

CInv == IInv /\ ProgramPaths /\ DataInv

\* Where exceptions end the session: writing is allowed in a STEP, or on the way out of
\* the session, with an exception that no top-level task swallows.
WritableOnTheWayOut ==
  access = "RW" =>
    \/ InStep /\ phase \in {"body", "raising", "returned", "recorded", "failing"}
    \/ phase \in {"raising", "failing"} /\ exc # "tbc"

-----------------------------------------------------------------------------
(* A step is one of the executor's, or leaves the executor alone. *)

\* What the running STAGE of a program submits next is a task, and again a STAGE of the
\* program if it is one.
LEMMA NextTaskTyped ==
  ASSUME TypeOK, ProgramPaths, Pending
  PROVE  /\ NextTask.key \in Keys /\ NextTask.type \in TaskType
         /\ NextTask.type = "STAGE" => Append(Top.path, NextTask.key) \in DOMAIN Program
<1>1. stack \in Seq(Frame) /\ stack # <<>> /\ Len(stack) \in 1..Len(stack)
  BY EmptySeq DEF TypeOK, Pending
<1>2. Top \in Frame
  BY <1>1, ElementOfSeq DEF Top
<1>3. Top.next \in Nat
  BY <1>2 DEF Frame
<1>4. Top.path \in DOMAIN Program
  BY <1>1 DEF ProgramPaths, Pending, Top
<1> DEFINE tasks == Program[Top.path]
<1>5. tasks \in Seq([key : Keys, type : TaskType])
  BY <1>4, ConsistentExecutionAssumption
<1>6. \A i \in 1..Len(tasks) :
        tasks[i].type = "STAGE" => Append(Top.path, tasks[i].key) \in DOMAIN Program
  BY <1>4, ConsistentExecutionAssumption
<1>7. Top.next < Len(tasks) /\ NextTask = tasks[Top.next + 1]
  BY DEF Pending, NextTask
<1> HIDE DEF tasks
<1>8. Top.next + 1 \in 1..Len(tasks)
  BY <1>3, <1>5, <1>7
<1>9. NextTask \in [key : Keys, type : TaskType]
  BY <1>5, <1>7, <1>8, ElementOfSeq
<1> QED
  BY <1>6, <1>7, <1>8, <1>9

\* Every step of the executor with its data layer is one of the executor.
LEMMA ExecutorSteps ==
  ASSUME TypeOK, ProgramPaths, [CNext]_cvars
  PROVE  [Next]_vars
<1>1. CASE CSkip \/ CSkipFails \/ CRun
  <2>1. Pending
    BY <1>1 DEF CSkip, CSkipFails, CRun
  <2>2. NextTask.key \in Keys /\ NextTask.type \in TaskType
    BY <2>1, NextTaskTyped
  <2>3. \/ Skip(NextTask.key, NextTask.type) \/ SkipFails(NextTask.key, NextTask.type)
        \/ Run(NextTask.key, NextTask.type)
    BY <1>1 DEF CSkip, CSkipFails, CRun
  <2> QED
    BY <2>2, <2>3 DEF Next, Submission
<1>2. CASE COpen \/ CClose \/ CCrash
  BY <1>2 DEF COpen, CClose, CCrash, Next
<1>3. CASE CScope \/ CBodyCatches \/ CBodyReturns \/ CBodyAborts \/ CBodyRaises
  BY <1>3 DEF CScope, CBodyCatches, CBodyReturns, CBodyAborts, CBodyRaises, Next, UserCode
<1>4. CASE WritingAllowed \/ StageInvoked \/ StepInvokedRaises
  BY <1>4 DEF WritingAllowed, StageInvoked, StepInvokedRaises, Next, Machinery
<1>5. CASE CMarkFinished \/ CMarkRaises \/ CFinished \/ CFinishedRaises \/ CHandled \/ CHandlerRaises
  BY <1>5 DEF CMarkFinished, CMarkRaises, CFinished, CFinishedRaises, CHandled, CHandlerRaises,
              Next, Machinery
<1>6. CASE EnsureDeleted \/ EnsureCreated \/ CheckedOut \/ CSave
  BY <1>6 DEF EnsureDeleted, EnsureCreated, CheckedOut, CSave
<1>7. CASE UNCHANGED cvars
  BY <1>7 DEF cvars
<1> QED
  BY <1>1, <1>2, <1>3, <1>4, <1>5, <1>6, <1>7 DEF CNext, Progress, Accidents

-----------------------------------------------------------------------------
(* What a step does to the top frame. *)

\* An assignment to the top frame that keeps its task
LEMMA TopReplaced ==
  ASSUME TypeOK, stack # <<>>, NEW f \in Frame, TaskOf(f) = TaskOf(Top),
         stack' = [stack EXCEPT ![Len(stack)] = f]
  PROVE  /\ Top' = f /\ TaskOf(Top)' = TaskOf(Top) /\ stack' # <<>>
         /\ InStep' <=> InStep
         /\ ProgramPaths => ProgramPaths'
<1>1. /\ stack' \in Seq(Frame) /\ Len(stack') = Len(stack)
      /\ \A i \in 1..Len(stack) : stack'[i] = IF i = Len(stack) THEN f ELSE stack[i]
  BY ExceptTop
<1>2. Len(stack) \in 1..Len(stack)
  BY EmptySeq DEF TypeOK
<1>3. Top' = f
  BY <1>1, <1>2 DEF Top
<1>4. f.path = Top.path /\ f.type = Top.type
  BY DEF TaskOf
<1>5. TaskOf(Top)' = TaskOf(Top)
  BY <1>3 DEF TaskOf
<1>6. InStep' <=> InStep
  BY <1>1, <1>3, <1>4 DEF InStep
<1>7. ASSUME ProgramPaths PROVE ProgramPaths'
  BY <1>1, <1>2, <1>4, <1>7 DEF ProgramPaths, Top
<1>8. stack' # <<>>
  BY <1>1, <1>2, EmptySeq
<1> QED
  BY <1>3, <1>5, <1>6, <1>7, <1>8

\* A scope is entered or left: the position stays.
LEMMA ScopeTop ==
  ASSUME TypeOK, stack # <<>>, EnterScope(TRUE) \/ ExitScope
  PROVE  /\ TaskOf(Top)' = TaskOf(Top) /\ Position(Top)' = Position(Top) /\ stack' # <<>>
         /\ InStep' <=> InStep
         /\ ProgramPaths => ProgramPaths'
<1>1. Top \in Frame /\ Top.scopes \in Seq(BOOLEAN) /\ Top = stack[Len(stack)]
  BY TopFrame
<1>2. PICK scopes \in Seq(BOOLEAN) :
        stack' = [stack EXCEPT ![Len(stack)] = [Top EXCEPT !.scopes = scopes]]
  <2>1. CASE EnterScope(TRUE)
    <3>1. Append(Top.scopes, skipStages) \in Seq(BOOLEAN)
      BY <1>1 DEF TypeOK
    <3>2. stack' = [stack EXCEPT ![Len(stack)] =
                      [Top EXCEPT !.scopes = Append(Top.scopes, skipStages)]]
      BY <2>1 DEF EnterScope, Top
    <3> QED
      BY <3>1, <3>2
  <2>2. CASE ExitScope
    <3>1. Top.scopes # <<>>
      BY <2>2 DEF ExitScope
    <3>2. SubSeq(Top.scopes, 1, Len(Top.scopes) - 1) \in Seq(BOOLEAN)
      BY <1>1, <3>1
    <3>3. stack' = [stack EXCEPT ![Len(stack)] =
                      [Top EXCEPT !.scopes = SubSeq(Top.scopes, 1, Len(Top.scopes) - 1)]]
      BY <2>2 DEF ExitScope, Top
    <3> QED
      BY <3>2, <3>3
  <2> QED
    BY <2>1, <2>2
<1> DEFINE f == [Top EXCEPT !.scopes = scopes]
<1>3. f \in Frame /\ TaskOf(f) = TaskOf(Top) /\ Position(f) = Position(Top)
  BY <1>1 DEF Frame, TaskOf, Position
<1>4. stack' = [stack EXCEPT ![Len(stack)] = f]
  BY <1>2
<1> HIDE DEF f
<1>5. /\ Top' = f /\ TaskOf(Top)' = TaskOf(Top) /\ stack' # <<>>
      /\ InStep' <=> InStep
      /\ ProgramPaths => ProgramPaths'
  BY <1>3, <1>4, TopReplaced
<1>6. Position(Top)' = Position(Top)
  BY <1>3, <1>5 DEF Position
<1> QED
  BY <1>5, <1>6

\* The counter of the top frame goes up: what was in the past still is.
LEMMA AdvancedTop ==
  ASSUME TypeOK, stack # <<>>, stack' = Advance(stack, Len(stack))
  PROVE  /\ TaskOf(Top)' = TaskOf(Top) /\ stack' # <<>>
         /\ InStep' <=> InStep
         /\ ProgramPaths => ProgramPaths'
         /\ \A b \in Branch : IsBefore(b, Position(Top)) => IsBefore(b, Position(Top)')
<1> DEFINE f == [Top EXCEPT !.next = Top.next + 1]
<1>1. /\ stack' = [stack EXCEPT ![Len(stack)] = f]
      /\ f \in Frame /\ TaskOf(f) = TaskOf(Top)
      /\ Position(f) = Append(Top.order, Top.next + 1)
      /\ Top.order \in Seq(Nat) /\ Top.next \in Nat
  BY AdvanceTop
<1> HIDE DEF f
<1>2. /\ Top' = f /\ TaskOf(Top)' = TaskOf(Top) /\ stack' # <<>>
      /\ InStep' <=> InStep
      /\ ProgramPaths => ProgramPaths'
  BY <1>1, TopReplaced
<1>3. Position(Top)' = Append(Top.order, Top.next + 1)
  BY <1>1, <1>2 DEF Position
<1>4. ASSUME NEW b \in Branch, IsBefore(b, Position(Top))
      PROVE  IsBefore(b, Position(Top)')
  <2>1. CASE b = NoStep
    BY <2>1 DEF IsBefore
  <2>2. CASE b # NoStep
    <3>1. b.order \in Seq(Nat)
      BY <2>2 DEF Branch, Task
    <3>2. Precedes(b.order, Append(Top.order, Top.next))
      BY <1>4, <2>2 DEF IsBefore, Position
    <3>3. Precedes(b.order, Append(Top.order, Top.next + 1))
      BY <1>1, <3>1, <3>2, PrecedesNext
    <3> QED
      BY <1>3, <3>3 DEF IsBefore
  <2> QED
    BY <2>1, <2>2
<1> QED
  BY <1>2, <1>4

\* A task gets a frame: its order is the position its parent is at.
LEMMA PushedTop ==
  ASSUME TypeOK, NEW k \in Keys, NEW t \in TaskType, Run(k, t)
  PROVE  /\ TaskOf(Top)' = Subtask(Top, k, t) /\ stack' # <<>>
         /\ Top'.order = Position(Top) /\ Position(Top)' = Append(Position(Top), 0)
         /\ Position(Top) \in Seq(Nat)
         /\ InStep' <=> t = "STEP"
         /\ ProgramPaths /\ (t = "STAGE" => Append(Top.path, k) \in DOMAIN Program)
              => ProgramPaths'
<1> DEFINE task == Subtask(Top, k, t)
           f == FrameOf(task)
<1>1. stack \in Seq(Frame) /\ stack # <<>>
  BY DEF TypeOK, Run, CanSubmit
<1>2. Top \in Frame /\ Len(stack) \in Nat \ {0} /\ Position(Top) \in Seq(Nat) /\ task \in Task
  BY <1>1, SubtaskType
<1>3. /\ f.path = Append(Top.path, k) /\ f.order = Position(Top) /\ f.type = t /\ f.next = 0
      /\ TaskOf(f) = task
  BY DEF FrameOf, TaskOf, Subtask
<1>4. f \in Frame
  BY <1>2 DEF FrameOf, Frame, Task
<1>5. stack' = Append(stack, f)
  BY DEF Run
<1> HIDE DEF f, task
<1>6. /\ Len(stack') = Len(stack) + 1 /\ stack'[Len(stack) + 1] = f
      /\ \A i \in 1..Len(stack) : stack'[i] = stack[i]
      /\ stack' \in Seq(Frame)
  BY <1>1, <1>4, <1>5
<1>7. Top' = f
  BY <1>6 DEF Top
<1>8. TaskOf(Top)' = Subtask(Top, k, t)
  BY <1>3, <1>7 DEF TaskOf, task
<1>9. Position(Top)' = Append(Position(Top), 0) /\ Top'.order = Position(Top)
  BY <1>3, <1>7 DEF Position
<1>10. InStep' <=> t = "STEP"
  BY <1>2, <1>3, <1>6, <1>7 DEF InStep
<1>11. ASSUME ProgramPaths, t = "STAGE" => Append(Top.path, k) \in DOMAIN Program
       PROVE  ProgramPaths'
  <2>1. ASSUME NEW i \in 1..(Len(stack) + 1), stack'[i].type # "STEP"
        PROVE  stack'[i].path \in DOMAIN Program
    <3>1. CASE i = Len(stack) + 1
      BY <1>3, <1>6, <1>11, <2>1, <3>1 DEF TaskType
    <3>2. CASE i # Len(stack) + 1
      <4>1. i \in 1..Len(stack)
        BY <1>2, <2>1, <3>2
      <4> QED
        BY <1>6, <1>11, <2>1, <4>1 DEF ProgramPaths
    <3> QED
      BY <3>1, <3>2
  <2> QED
    BY <1>6, <2>1 DEF ProgramPaths
<1>12. stack' # <<>>
  BY <1>2, <1>6, EmptySeq
<1> QED
  BY <1>2, <1>8, <1>9, <1>10, <1>11, <1>12

\* A frame is left: its parent is no STEP, and what was in the past still is.
LEMMA LeftTop ==
  ASSUME TypeOK, CoordinatesAgree, StepIsLeaf, Len(stack) > 1, Leave
  PROVE  /\ ~InStep' /\ stack' # <<>>
         /\ ProgramPaths => ProgramPaths'
         /\ \A b \in Branch : IsBefore(b, Position(Top)) => IsBefore(b, Position(Top)')
<1>1. /\ stack' \in Seq(Frame) /\ Len(stack') = Len(stack) - 1
      /\ \A i \in 1..(Len(stack) - 2) : stack'[i] = stack[i]
      /\ Top' = [Parent EXCEPT !.next = Parent.next + 1]
      /\ Top'.type # "STEP"
  BY LeaveStack
<1>2. /\ Top \in Frame /\ Parent \in Frame
      /\ Top.order = Position(Parent) /\ Len(stack) \in Nat
  BY TopIsTask
<1>3. ~InStep'
  BY <1>1 DEF InStep
<1>4. stack' # <<>>
  BY <1>1, <1>2, EmptySeq
<1>5. Parent.order \in Seq(Nat) /\ Parent.next \in Nat /\ Top.next \in Nat
  BY <1>2 DEF Frame
<1>6. Position(Top)' = Append(Parent.order, Parent.next + 1)
  BY <1>1, <1>2, NextFrame DEF Position
<1>7. ASSUME NEW b \in Branch, IsBefore(b, Position(Top))
      PROVE  IsBefore(b, Position(Top)')
  <2>1. CASE b = NoStep
    BY <2>1 DEF IsBefore
  <2>2. CASE b # NoStep
    <3>1. b.order \in Seq(Nat)
      BY <2>2 DEF Branch, Task
    <3>2. Precedes(b.order, Append(Append(Parent.order, Parent.next), Top.next))
      BY <1>2, <1>7, <2>2 DEF IsBefore, Position
    <3>3. Precedes(b.order, Append(Parent.order, Parent.next + 1))
      BY <1>5, <3>1, <3>2, PrecedesEnd
    <3> QED
      BY <1>6, <3>3 DEF IsBefore
  <2> QED
    BY <2>1, <2>2
<1>8. ASSUME ProgramPaths PROVE ProgramPaths'
  <2>1. Top'.path = Parent.path /\ Top'.type = Parent.type
    BY <1>1, <1>2 DEF Frame
  <2>2. ASSUME NEW i \in 1..(Len(stack) - 1), stack'[i].type # "STEP"
        PROVE  stack'[i].path \in DOMAIN Program
    <3>1. CASE i = Len(stack) - 1
      <4>1. stack'[i].type = Parent.type /\ stack'[i].path = Parent.path
        BY <1>1, <2>1, <3>1 DEF Top
      <4>2. Len(stack) - 1 \in 1..Len(stack)
        BY <1>2
      <4>3. Parent.type # "STEP" => Parent.path \in DOMAIN Program
        BY <1>8, <4>2 DEF ProgramPaths, Parent
      <4> QED
        BY <2>2, <4>1, <4>3
    <3>2. CASE i # Len(stack) - 1
      <4>1. i \in 1..(Len(stack) - 2) /\ i \in 1..Len(stack)
        BY <1>2, <2>2, <3>2
      <4> QED
        BY <1>1, <1>8, <2>2, <4>1 DEF ProgramPaths
    <3> QED
      BY <3>1, <3>2
  <2> QED
    BY <1>1, <2>2 DEF ProgramPaths
<1> QED
  BY <1>3, <1>4, <1>7, <1>8

-----------------------------------------------------------------------------
(* The types of the state that the layers share. *)

LEMMA OnRecord ==
  ASSUME NEW s
  PROVE  s \in RecordedSteps <=> IsRecorded(s) /\ s.type = "STEP"
BY DEF RecordedSteps, IsRecorded

\* The top frame of a STEP holds a task that is one, and no branch but its own has its name.
LEMMA StepOnTop ==
  ASSUME IInv, InStep
  PROVE  /\ TaskOf(Top) \in Task /\ TaskOf(Top) # NoStep /\ TaskOf(Top).type = "STEP"
         /\ phase # "off" /\ Len(stack) > 1
BY TopIsTask, TaskExecutorAssumption, EmptySeq DEF IInv, InStep, TaskOf, TypeOK

LEMMA FaultTyped ==
  ASSUME faults \in 0..MaxFaults, UNCHANGED faults \/ Fault
  PROVE  faults' \in 0..MaxFaults
BY ConsistentExecutionAssumption DEF Fault

\* A branch is in the past of what is no task, or precedes it.
LEMMA NotBeforeItself ==
  ASSUME NEW b \in Task, IsBefore(b, b.order), NoStep \notin Task
  PROVE  FALSE
<1>1. b.order \in Seq(Nat) /\ Precedes(b.order, b.order)
  BY DEF Task, IsBefore
<1>2. PICK i \in 1..Len(b.order) : Len(b.order) >= i => b.order[i] < b.order[i]
  BY <1>1 DEF Precedes
<1>3. b.order[i] \in Nat
  BY <1>1, <1>2
<1> QED
  BY <1>1, <1>2, <1>3

\* What Tear leaves: the STEP on top is torn, if its record came before its commit.
LEMMA Torn ==
  ASSUME IInv, torn \subseteq Task, Tear
  PROVE  /\ torn \subseteq torn' /\ torn' \subseteq Task
         /\ InStep /\ phase = "recorded" => TaskOf(Top) \in head[branch] \union torn'
BY StepOnTop DEF Tear, Tearing

-----------------------------------------------------------------------------
(* DataInv is preserved, one lemma per way in which a step changes the state. *)

\* The steps that leave the database, the records and the task on top alone
LEMMA RestsKeeps ==
  ASSUME IInv, DataInv, phase # "off", phase' # "off",
         UNCHANGED <<data, records>>, TaskOf(Top)' = TaskOf(Top), InStep' <=> InStep,
         IsBefore(branch, Position(Top)) => IsBefore(branch, Position(Top)'),
         todo' = "nothing", ~(phase' = "invoking" /\ InStep),
         UNCHANGED faults \/ Fault, torn' \subseteq Task, torn \subseteq torn',
         InStep /\ phase' \in {"body", "raising", "returned", "recorded"}
           => phase \in {"body", "raising", "returned", "recorded"},
         InStep /\ phase' \in {"returned", "recorded"} => TaskOf(Top) \in work[branch],
         InStep /\ phase = "recorded" => TaskOf(Top) \in head[branch] \union torn'
  PROVE  DataInv'
<1>1. DataTypeOK'
  BY FaultTyped DEF DataInv, DataTypeOK, data, Todo
<1>2. TodoWhileInvoking' /\ BranchBeforeStep' /\ NewBranchClean'
  BY DEF TodoWhileInvoking, BranchBeforeStep, NewBranchClean
<1>3. BranchInPast'
  BY DEF DataInv, BranchInPast, data
<1>4. StepIsolated'
  BY DEF DataInv, StepIsolated, data
<1>5. SavedBeforeReturn'
  BY DEF SavedBeforeReturn, data
<1>6. RecordedOrTorn'
  <2>1. RecordedSteps' = RecordedSteps /\ head' = head
    BY DEF RecordedSteps, data
  <2>2. ASSUME NEW s \in RecordedSteps
        PROVE  /\ D!HasBranch(s)
               /\ Durable(s) \/ s \in torn'
    <3>1. CASE InStep /\ s = TaskOf(Top) /\ phase = "recorded"
      <4>1. D!HasBranch(s)
        BY <2>2 DEF DataInv, RecordedOrTorn
      <4>2. branch = TaskOf(Top)
        BY <3>1 DEF DataInv, StepIsolated
      <4> QED
        BY <3>1, <4>1, <4>2 DEF Durable
    <3>2. CASE ~(InStep /\ s = TaskOf(Top) /\ phase = "recorded")
      BY <2>2, <3>2 DEF DataInv, RecordedOrTorn
    <3> QED
      BY <3>1, <3>2
  <2>3. ASSUME NEW s \in RecordedSteps PROVE D!HasBranch(s)' /\ (Durable(s)' \/ s \in torn')
    BY <2>1, <2>2, <2>3 DEF Durable, D!HasBranch
  <2> QED
    BY <2>1, <2>3 DEF RecordedOrTorn
<1> QED
  BY <1>1, <1>2, <1>3, <1>4, <1>5, <1>6 DEF DataInv

\* What a body does to itself, and what a callback does that raises
LEMMA BodyKeeps ==
  ASSUME IInv, DataInv,
         \/ CBodyReturns \/ CBodyRaises \/ CBodyCatches \/ CBodyAborts \/ CMarkRaises
         \/ StageInvoked \/ StepInvokedRaises
  PROVE  DataInv'
<1>1. /\ stack' = stack /\ UNCHANGED <<data, records, torn>>
      /\ phase # "off" /\ phase' # "off" /\ phase # "recorded" /\ phase' # "invoking"
      /\ UNCHANGED faults \/ Fault
  BY DEF CBodyReturns, CBodyRaises, CBodyCatches, CBodyAborts, CMarkRaises, StageInvoked,
         StepInvokedRaises, BodyReturns, BodyRaises, BodyCatches, BodyAborts, MarkRaises,
         Invoked, InvokedRaises, Throw
<1>2. /\ TaskOf(Top)' = TaskOf(Top) /\ Position(Top)' = Position(Top)
      /\ InStep' <=> InStep
  BY <1>1 DEF TaskOf, Top, Position, InStep
<1>3. todo' = "nothing"
  BY DEF CBodyReturns, CBodyRaises, CBodyCatches, CBodyAborts, CMarkRaises, StageInvoked,
         StepInvokedRaises, BodyReturns, BodyRaises, BodyCatches, BodyAborts, MarkRaises,
         DataInv, TodoWhileInvoking
<1>4. /\ InStep /\ phase' \in {"body", "raising", "returned", "recorded"}
           => phase \in {"body", "raising", "returned", "recorded"}
      /\ InStep /\ phase' \in {"returned", "recorded"} => TaskOf(Top) \in work[branch]
  <2>1. CASE CBodyReturns
    BY <2>1 DEF CBodyReturns, BodyReturns
  <2>2. CASE StageInvoked
    BY <2>2 DEF StageInvoked, Invoked, DataInv, TodoWhileInvoking
  <2>3. CASE CBodyRaises \/ CBodyCatches \/ CBodyAborts \/ CMarkRaises \/ StepInvokedRaises
    BY <2>3 DEF CBodyRaises, CBodyCatches, CBodyAborts, CMarkRaises, StepInvokedRaises,
                BodyRaises, BodyCatches, BodyAborts, MarkRaises, InvokedRaises, Throw
  <2> QED
    BY <2>1, <2>2, <2>3
<1>5. torn' \subseteq Task
  BY <1>1 DEF DataInv, DataTypeOK
<1> QED
  BY <1>1, <1>2, <1>3, <1>4, <1>5, RestsKeeps

\* A scope, and a skip whose callback raises
LEMMA ScopeKeeps ==
  ASSUME IInv, DataInv, CScope
  PROVE  DataInv'
<1>1. /\ UNCHANGED <<data, records, torn, todo, faults, phase>>
      /\ phase \in {"body", "raising"}
      /\ EnterScope(TRUE) \/ ExitScope
  BY DEF CScope, EnterScope, ExitScope
<1>2. TypeOK /\ stack # <<>>
  BY <1>1 DEF IInv, TypeOK
<1>3. /\ TaskOf(Top)' = TaskOf(Top) /\ Position(Top)' = Position(Top)
      /\ InStep' <=> InStep
  BY <1>1, <1>2, ScopeTop
<1>4. todo' = "nothing" /\ torn' \subseteq Task
  BY <1>1 DEF DataInv, TodoWhileInvoking, DataTypeOK
<1> QED
  BY <1>1, <1>3, <1>4, RestsKeeps

LEMMA SkipFailsKeeps ==
  ASSUME IInv, DataInv, CSkipFails
  PROVE  DataInv'
<1>1. /\ UNCHANGED <<data, records, torn, todo>> /\ phase = "body" /\ phase' = "raising"
      /\ stack' = Advance(stack, Len(stack))
      /\ UNCHANGED faults \/ Fault
  BY DEF CSkipFails, SkipFails, CanSubmit
<1>2. TypeOK /\ stack # <<>>
  BY <1>1 DEF IInv, TypeOK
<1>3. /\ TaskOf(Top)' = TaskOf(Top)
      /\ InStep' <=> InStep
      /\ \A b \in Branch : IsBefore(b, Position(Top)) => IsBefore(b, Position(Top)')
  BY <1>1, <1>2, AdvancedTop
<1>4. todo' = "nothing" /\ torn' \subseteq Task /\ branch \in Branch
  BY <1>1 DEF DataInv, TodoWhileInvoking, DataTypeOK
<1> QED
  BY <1>1, <1>3, <1>4, RestsKeeps

\* The record of a task is inserted: the branch of a STEP is there, and the STEP has saved.
LEMMA MarkKeeps ==
  ASSUME IInv, DataInv, CMarkFinished
  PROVE  DataInv'
<1>1. /\ phase = "returned" /\ phase' = "recorded" /\ stack' = stack
      /\ UNCHANGED <<data, todo, faults, torn>>
      /\ records' = Append(records, [task |-> TaskOf(Top), latest |-> latest])
  BY DEF CMarkFinished, MarkFinished
<1>2. /\ TaskOf(Top)' = TaskOf(Top) /\ Position(Top)' = Position(Top)
      /\ InStep' <=> InStep
  BY <1>1 DEF TaskOf, Top, Position, InStep
<1>3. DataTypeOK'
  BY <1>1 DEF DataInv, DataTypeOK, data
<1>4. TodoWhileInvoking' /\ BranchBeforeStep' /\ NewBranchClean'
  BY <1>1 DEF DataInv, TodoWhileInvoking, BranchBeforeStep, NewBranchClean
<1>5. BranchInPast' /\ StepIsolated' /\ SavedBeforeReturn'
  BY <1>1, <1>2 DEF DataInv, BranchInPast, StepIsolated, SavedBeforeReturn, data
<1>6. RecordedOrTorn'
  <2>1. ASSUME NEW s \in RecordedSteps'
        PROVE  s \in RecordedSteps \/ (s = TaskOf(Top) /\ s.type = "STEP")
    <3>1. records \in Seq(Record)
      BY DEF IInv, TypeOK
    <3>2. PICK i \in DOMAIN records' : records'[i].task = s
      BY <2>1 DEF RecordedSteps
    <3>3. s.type = "STEP"
      BY <2>1 DEF RecordedSteps
    <3>4. (i \in DOMAIN records /\ records'[i] = records[i]) \/ records'[i].task = TaskOf(Top)
      BY <1>1, <3>1, <3>2
    <3> QED
      BY <3>2, <3>3, <3>4 DEF RecordedSteps
  <2>2. head' = head /\ torn' = torn
    BY <1>1 DEF data
  <2>3. ASSUME NEW s \in RecordedSteps
        PROVE  D!HasBranch(s)' /\ (Durable(s)' \/ s \in torn')
    BY <1>1, <2>2, <2>3 DEF DataInv, RecordedOrTorn, Durable, D!HasBranch
  <2>4. ASSUME NEW s, s = TaskOf(Top), s.type = "STEP"
        PROVE  D!HasBranch(s)' /\ InStep' /\ s = TaskOf(Top)' /\ phase' = "recorded"
    <3>1. InStep
      BY <1>1, <2>4 DEF IInv, TypeOK, InStep, TaskOf
    <3>2. branch = s
      BY <1>1, <2>4, <3>1 DEF DataInv, StepIsolated
    <3> QED
      BY <1>1, <1>2, <2>2, <2>4, <3>1, <3>2 DEF DataInv, DataTypeOK, D!HasBranch
  <2> QED
    BY <2>1, <2>3, <2>4 DEF RecordedOrTorn
<1> QED
  BY <1>3, <1>4, <1>5, <1>6 DEF DataInv

\* A skip checks out the branch that becomes latest_step, which is in the past.
LEMMA SkipKeeps ==
  ASSUME IInv, IInv', DataInv, CSkip
  PROVE  DataInv'
<1> DEFINE task == Subtask(Top, NextTask.key, NextTask.type)
<1>1. /\ phase = "body" /\ phase' = "body" /\ Top.type # "STEP"
      /\ stack' = Advance(stack, Len(stack))
      /\ latest' = Restored(task) /\ branch' = Restored(task)
      /\ Restored(task) \in DOMAIN head
      /\ UNCHANGED <<head, work, access, todo, faults, torn, records>>
  BY DEF CSkip, Skip, CanSubmit, Restored, D!Checkout, D!HasBranch
<1> HIDE DEF task
<1>2. TypeOK /\ stack # <<>>
  BY <1>1 DEF IInv, TypeOK
<1>3. ~InStep /\ ~InStep'
  BY <1>1, <1>2, AdvancedTop DEF InStep
<1>4. todo = "nothing" /\ todo' = "nothing"
  BY <1>1 DEF DataInv, TodoWhileInvoking
<1>5. DataTypeOK'
  BY <1>1 DEF DataInv, DataTypeOK
<1>6. TodoWhileInvoking' /\ BranchBeforeStep' /\ NewBranchClean' /\ StepIsolated' /\ SavedBeforeReturn'
  BY <1>3, <1>4 DEF TodoWhileInvoking, BranchBeforeStep, NewBranchClean, StepIsolated,
                    SavedBeforeReturn
<1>7. BranchInPast'
  <2>1. IsBefore(latest', Position(Top)')
    BY <1>1 DEF IInv, LatestInPast, LatestBeforePosition
  <2> QED
    BY <1>1, <2>1 DEF BranchInPast
<1>8. RecordedOrTorn'
  <2>1. RecordedSteps' = RecordedSteps /\ head' = head /\ torn' = torn
    BY <1>1 DEF RecordedSteps
  <2> QED
    BY <1>3, <2>1 DEF DataInv, RecordedOrTorn, Durable, D!HasBranch
<1> QED
  BY <1>5, <1>6, <1>7, <1>8 DEF DataInv

\* A task gets a frame: the branch that is checked out precedes it.
LEMMA RunKeeps ==
  ASSUME IInv, ProgramPaths, DataInv, CRun
  PROVE  DataInv' /\ ProgramPaths'
<1>1. Pending /\ NextTask.key \in Keys /\ NextTask.type \in TaskType
  BY NextTaskTyped DEF CRun, IInv
<1>2. /\ Run(NextTask.key, NextTask.type) /\ phase = "body" /\ phase' = "invoking"
      /\ UNCHANGED <<data, faults, torn, records>>
      /\ todo' = IF NextTask.type = "STEP" THEN "delete" ELSE "nothing"
  BY DEF CRun, Run, CanSubmit
<1>3. /\ stack' # <<>>
      /\ Top'.order = Position(Top) /\ Position(Top)' = Append(Position(Top), 0)
      /\ Position(Top) \in Seq(Nat)
      /\ InStep' <=> NextTask.type = "STEP"
      /\ ProgramPaths'
  BY <1>1, <1>2, PushedTop, NextTaskTyped DEF IInv
<1>4. ~InStep
  BY <1>1 DEF Pending, InStep
<1>5. DataTypeOK'
  BY <1>2 DEF DataInv, DataTypeOK, data, Todo
<1>6. TodoWhileInvoking' /\ NewBranchClean' /\ StepIsolated' /\ SavedBeforeReturn'
  BY <1>2, <1>3 DEF TodoWhileInvoking, NewBranchClean, StepIsolated, SavedBeforeReturn
<1>7. IsBefore(branch, Position(Top)) /\ branch \in Branch
  BY <1>2 DEF DataInv, BranchInPast, DataTypeOK
<1>8. BranchBeforeStep'
  BY <1>2, <1>3, <1>7 DEF BranchBeforeStep, data
<1>9. BranchInPast'
  <2>1. IsBefore(branch, Append(Position(Top), 0))
    <3>1. CASE branch = NoStep
      BY <3>1 DEF IsBefore
    <3>2. CASE branch # NoStep
      <4>1. branch.order \in Seq(Nat) /\ Precedes(branch.order, Position(Top))
        BY <1>7, <3>2 DEF Branch, Task, IsBefore
      <4>2. Precedes(branch.order, Append(Position(Top), 0))
        BY <1>3, <4>1, PrecedesInside
      <4> QED
        BY <4>2 DEF IsBefore
    <3> QED
      BY <3>1, <3>2
  <2> QED
    BY <1>2, <1>3, <2>1 DEF BranchInPast, data
<1>10. RecordedOrTorn'
  <2>1. RecordedSteps' = RecordedSteps /\ head' = head /\ torn' = torn
    BY <1>2 DEF RecordedSteps, data
  <2> QED
    BY <1>4, <2>1 DEF DataInv, RecordedOrTorn, Durable, D!HasBranch
<1> QED
  BY <1>3, <1>5, <1>6, <1>8, <1>9, <1>10 DEF DataInv

\* The calls of on_step_invoked leave the executor alone, and the branches of the STEPs on
\* record: the STEP that runs is not one of them.
LEMMA CallsKeep ==
  ASSUME IInv, DataInv, EnsureDeleted \/ EnsureCreated \/ CheckedOut
  PROVE  DataInv'
<1> DEFINE step == TaskOf(Top)
<1>1. UNCHANGED <<vars, faults, torn>> /\ todo # "nothing"
  BY DEF EnsureDeleted, EnsureCreated, CheckedOut
<1>2. InStep /\ phase = "invoking"
  BY <1>1 DEF DataInv, TodoWhileInvoking
<1>3. /\ TaskOf(Top)' = TaskOf(Top) /\ Position(Top)' = Position(Top) /\ Top' = Top
      /\ InStep' /\ phase' = "invoking" /\ RecordedSteps' = RecordedSteps
  BY <1>1, <1>2 DEF vars, TaskOf, Top, Position, InStep, RecordedSteps
<1>4. step \in Task /\ step # NoStep
  BY <1>2, StepOnTop
<1>5. step \notin RecordedSteps
  BY <1>2, OnRecord DEF IInv, StepNotYetRecorded, InStep
<1>6. step.order = Top.order
  BY DEF TaskOf
<1> HIDE DEF step
<1>7. ASSUME todo' # "nothing"
      PROVE  TodoWhileInvoking' /\ StepIsolated' /\ SavedBeforeReturn'
  BY <1>3, <1>7 DEF TodoWhileInvoking, StepIsolated, SavedBeforeReturn
<1>8. ASSUME \A s \in RecordedSteps :
               s \in DOMAIN head => s \in DOMAIN head' /\ head'[s] = head[s]
      PROVE  RecordedOrTorn'
  BY <1>1, <1>2, <1>3, <1>8 DEF DataInv, RecordedOrTorn, Durable, D!HasBranch
<1>9. ASSUME branch' = branch, todo \in {"delete", "create"}
      PROVE  BranchInPast' /\ BranchBeforeStep'
  <2>1. IsBefore(branch, Position(Top)) /\ IsBefore(branch, Top.order)
    BY <1>2, <1>9 DEF DataInv, BranchInPast, BranchBeforeStep
  <2>2. IsBefore(branch', Position(Top)') /\ IsBefore(branch', Top'.order)
    BY <1>3, <1>9, <2>1
  <2> QED
    BY <1>3, <2>2 DEF BranchInPast, BranchBeforeStep
<1>10. CASE EnsureDeleted
  <2>1. todo = "delete" /\ todo' = "create"
    BY <1>10 DEF EnsureDeleted
  <2>2. \/ UNCHANGED data
        \/ /\ step # branch /\ UNCHANGED <<branch, access>>
           /\ head' = [x \in DOMAIN head \ {step} |-> head[x]]
           /\ work' = [x \in DOMAIN work \ {step} |-> work[x]]
    BY <1>10 DEF EnsureDeleted, D!DeleteBranch, D!CanDelete, step
  <2>3. DataTypeOK'
    BY <1>1, <1>4, <2>1, <2>2 DEF DataInv, DataTypeOK, data, Todo
  <2>4. BranchInPast' /\ BranchBeforeStep' /\ NewBranchClean'
    <3>1. branch' = branch
      BY <2>2 DEF data
    <3>2. NewBranchClean'
      BY <2>1 DEF NewBranchClean
    <3> QED
      BY <1>9, <2>1, <3>1, <3>2
  <2>5. RecordedOrTorn'
    BY <1>5, <1>8, <2>2 DEF data
  <2> QED
    BY <1>7, <2>1, <2>3, <2>4, <2>5 DEF DataInv
<1>11. CASE EnsureCreated
  <2>1. /\ todo = "create" /\ todo' = "checkout" /\ step \notin DOMAIN head
        /\ UNCHANGED <<branch, access>>
        /\ head' = [x \in DOMAIN head \union {step} |-> IF x = step THEN head[branch] ELSE head[x]]
        /\ work' = [x \in DOMAIN work \union {step} |-> IF x = step THEN head[branch] ELSE work[x]]
    BY <1>11 DEF EnsureCreated, D!NewBranch, D!HasBranch, step
  <2>2. DataTypeOK'
    BY <1>1, <1>4, <2>1 DEF DataInv, DataTypeOK, Todo, Branch
  <2>3. NewBranchClean'
    BY <1>3, <2>1 DEF NewBranchClean, step
  <2>4. BranchInPast' /\ BranchBeforeStep'
    BY <1>9, <2>1
  <2>5. RecordedOrTorn'
    BY <1>5, <1>8, <2>1
  <2> QED
    BY <1>7, <2>1, <2>2, <2>3, <2>4, <2>5 DEF DataInv
<1>12. CASE CheckedOut
  <2>1. /\ todo = "checkout" /\ todo' = "allow" /\ step \in DOMAIN head
        /\ branch' = step /\ UNCHANGED <<head, work, access>>
    BY <1>12 DEF CheckedOut, D!Checkout, D!HasBranch, step
  <2>2. DataTypeOK'
    BY <1>1, <2>1 DEF DataInv, DataTypeOK, Todo
  <2>3. NewBranchClean' /\ BranchBeforeStep'
    BY <1>3, <2>1 DEF DataInv, NewBranchClean, BranchBeforeStep, step
  <2>4. BranchInPast'
    <3>1. step.order \in Seq(Nat) /\ Top.next \in Nat
      BY <1>2, <1>4, TopIsTask DEF IInv, InStep, Task, Frame
    <3>2. Precedes(step.order, Append(step.order, Top.next))
      BY <3>1, PrecedesItsInside
    <3> QED
      BY <1>3, <1>6, <2>1, <3>2 DEF BranchInPast, IsBefore, Position
  <2>5. RecordedOrTorn'
    BY <1>8, <2>1
  <2> QED
    BY <1>7, <2>1, <2>2, <2>3, <2>4, <2>5 DEF DataInv
<1> QED
  BY <1>10, <1>11, <1>12

\* Writing is allowed once the STEP's own branch is checked out; then the STEP saves.
LEMMA WritingKeeps ==
  ASSUME IInv, DataInv, WritingAllowed \/ CSave
  PROVE  DataInv'
<1>1. /\ stack' = stack /\ UNCHANGED <<head, branch, faults, torn, records>>
      /\ phase' = "body" /\ todo' = "nothing" /\ InStep /\ access' \in {"RO", "RW"}
      /\ phase # "off" /\ phase # "recorded"
  <2>1. CASE WritingAllowed
    BY <2>1 DEF WritingAllowed, Invoked, D!AllowWriting, DataInv, TodoWhileInvoking
  <2>2. CASE CSave
    BY <2>2 DEF CSave, vars, D!Save, DataInv, TodoWhileInvoking
  <2> QED
    BY <2>1, <2>2
<1>2. /\ TaskOf(Top)' = TaskOf(Top) /\ Position(Top)' = Position(Top)
      /\ InStep' /\ RecordedSteps' = RecordedSteps
  BY <1>1 DEF TaskOf, Top, Position, InStep, RecordedSteps
<1>3. /\ branch = TaskOf(Top)
      /\ work[branch] \subseteq head[branch] \union {TaskOf(Top)}
      /\ \/ work' = work
         \/ work' = [work EXCEPT ![branch] = @ \union {TaskOf(Top)}]
  <2>1. CASE WritingAllowed
    BY <2>1 DEF WritingAllowed, D!AllowWriting, DataInv, NewBranchClean
  <2>2. CASE CSave
    BY <2>2 DEF CSave, D!Save, DataInv, StepIsolated
  <2> QED
    BY <2>1, <2>2
<1>4. branch \in DOMAIN work /\ TaskOf(Top) \in Task
  BY <1>1, StepOnTop DEF DataInv, DataTypeOK
<1>5. DataTypeOK'
  BY <1>1, <1>3, <1>4 DEF DataInv, DataTypeOK, Todo
<1>6. TodoWhileInvoking' /\ NewBranchClean' /\ BranchBeforeStep' /\ SavedBeforeReturn'
  BY <1>1 DEF TodoWhileInvoking, NewBranchClean, BranchBeforeStep, SavedBeforeReturn
<1>7. BranchInPast'
  BY <1>1, <1>2 DEF DataInv, BranchInPast
<1>8. StepIsolated'
  BY <1>1, <1>2, <1>3, <1>4 DEF StepIsolated
<1>9. RecordedOrTorn'
  BY <1>1, <1>2 DEF DataInv, RecordedOrTorn, Durable, D!HasBranch
<1> QED
  BY <1>5, <1>6, <1>7, <1>8, <1>9 DEF DataInv

\* A task is over: a STEP's data is committed or rolled back, its frame is popped.
LEMMA PopKeeps ==
  ASSUME IInv, ProgramPaths, DataInv, CFinished \/ CHandled \/ CHandlerRaises
  PROVE  DataInv' /\ ProgramPaths'
<1>1. /\ phase \in {"recorded", "failing"} /\ phase' \in {"body", "raising"}
      /\ Leave
      /\ UNCHANGED <<records, torn, todo, branch>>
      /\ access' \in {access, "RO"}
      /\ UNCHANGED faults \/ Fault
  BY DEF CFinished, CHandled, CHandlerRaises, Finished, Handled, HandlerRaises,
         ReturnToCaller, RaiseInCaller, D!CommitAndDisallow, D!RollbackAndDisallow, data
<1>2. \/ head' = head /\ ~(InStep /\ phase = "recorded")
      \/ head' = [head EXCEPT ![branch] = work[branch]] /\ InStep /\ phase = "recorded"
  BY DEF CFinished, CHandled, CHandlerRaises, Finished, Handled, HandlerRaises,
         D!CommitAndDisallow, D!RollbackAndDisallow, data
<1>3. work' = work \/ work' = [work EXCEPT ![branch] = head[branch]]
  BY DEF CFinished, CHandled, CHandlerRaises, D!CommitAndDisallow, D!RollbackAndDisallow, data
<1>4. /\ ~InStep' /\ ProgramPaths'
      /\ \A b \in Branch : IsBefore(b, Position(Top)) => IsBefore(b, Position(Top)')
  BY <1>1, LeftTop DEF IInv, TypeOK
<1>5. todo = "nothing" /\ todo' = "nothing"
  BY <1>1 DEF DataInv, TodoWhileInvoking
<1>6. DataTypeOK'
  <2>1. DataTypeOK
    BY DEF DataInv
  <2>2. head' = head \/ head' = [head EXCEPT ![branch] = work[branch]]
    BY <1>2
  <2>3. faults' \in 0..MaxFaults
    BY <1>1, <2>1, FaultTyped DEF DataTypeOK
  <2>4. DOMAIN head' = DOMAIN head /\ DOMAIN work' = DOMAIN work
    BY <1>3, <2>2
  <2>5. \A b \in DOMAIN head : head'[b] \subseteq Task /\ work'[b] \subseteq Task
    BY <1>3, <2>1, <2>2 DEF DataTypeOK
  <2> QED
    BY <1>1, <1>5, <2>1, <2>3, <2>4, <2>5 DEF DataTypeOK, Todo
<1>7. /\ TodoWhileInvoking' /\ BranchBeforeStep' /\ NewBranchClean' /\ StepIsolated'
      /\ SavedBeforeReturn'
  BY <1>1, <1>4, <1>5 DEF TodoWhileInvoking, BranchBeforeStep, NewBranchClean, StepIsolated,
                          SavedBeforeReturn
<1>8. BranchInPast'
  <2>1. branch \in Branch /\ IsBefore(branch, Position(Top))
    BY <1>1 DEF DataInv, DataTypeOK, BranchInPast
  <2>2. IsBefore(branch, Position(Top)')
    BY <1>4, <2>1
  <2> QED
    BY <1>1, <2>2 DEF BranchInPast
<1>9. RecordedOrTorn'
  <2>1. RecordedSteps' = RecordedSteps /\ torn' = torn
    BY <1>1 DEF RecordedSteps
  <2>2. CASE head' = head /\ ~(InStep /\ phase = "recorded")
    BY <2>1, <2>2 DEF DataInv, RecordedOrTorn, Durable, D!HasBranch
  <2>3. CASE head' = [head EXCEPT ![branch] = work[branch]] /\ InStep /\ phase = "recorded"
    <3>1. branch = TaskOf(Top) /\ TaskOf(Top) \in work[branch] /\ branch \in DOMAIN head
      BY <2>3 DEF DataInv, StepIsolated, SavedBeforeReturn, DataTypeOK
    <3>2. DOMAIN head' = DOMAIN head /\ branch \in head'[branch]
      BY <2>3, <3>1
    <3>3. ASSUME NEW s \in RecordedSteps
          PROVE  D!HasBranch(s)' /\ (Durable(s)' \/ s \in torn')
      <4>1. s \in DOMAIN head'
        BY <3>2, <3>3 DEF DataInv, RecordedOrTorn, D!HasBranch
      <4>2. CASE s = branch
        BY <3>2, <4>1, <4>2 DEF Durable, D!HasBranch
      <4>3. CASE s # branch
        <5>1. head'[s] = head[s]
          BY <2>3, <3>2, <4>1, <4>3
        <5> QED
          BY <2>1, <3>1, <3>3, <4>1, <4>3, <5>1
             DEF DataInv, RecordedOrTorn, Durable, D!HasBranch
      <4> QED
        BY <4>2, <4>3
    <3> QED
      BY <2>1, <3>3 DEF RecordedOrTorn
  <2> QED
    BY <1>2, <2>2, <2>3
<1> QED
  BY <1>4, <1>6, <1>7, <1>8, <1>9 DEF DataInv

\* commit() raises: the STEP is torn if it had no effect, and durable if it had.
LEMMA FinishedRaisesKeeps ==
  ASSUME IInv, DataInv, CFinishedRaises
  PROVE  DataInv'
<1>1. /\ phase = "recorded" /\ phase' = "failing" /\ stack' = stack /\ InStep
      /\ UNCHANGED <<records, todo, work, branch, access>> /\ Fault
      /\ \/ head' = head /\ Tear
         \/ head' = [head EXCEPT ![branch] = work[branch]] /\ torn' = torn
  BY DEF CFinishedRaises, FinishedRaises, Throw, D!CommitOnly, data
<1>2. /\ TaskOf(Top)' = TaskOf(Top) /\ Position(Top)' = Position(Top)
      /\ InStep' /\ RecordedSteps' = RecordedSteps
  BY <1>1 DEF TaskOf, Top, Position, InStep, RecordedSteps
<1>3. /\ branch = TaskOf(Top) /\ TaskOf(Top) \in work[branch]
      /\ branch \in DOMAIN head /\ torn \subseteq Task
  BY <1>1 DEF DataInv, StepIsolated, SavedBeforeReturn, DataTypeOK
<1>4. /\ torn \subseteq torn' /\ torn' \subseteq Task
      /\ head' = head => TaskOf(Top) \in head[branch] \union torn'
  <2>1. CASE Tear
    BY <1>1, <1>3, <2>1, Torn
  <2>2. CASE torn' = torn /\ head' = [head EXCEPT ![branch] = work[branch]]
    BY <1>3, <2>2
  <2> QED
    BY <1>1, <2>1, <2>2
<1>5. DataTypeOK'
  <2>1. DataTypeOK
    BY DEF DataInv
  <2>2. faults' \in 0..MaxFaults
    BY <1>1, <2>1, FaultTyped DEF DataTypeOK
  <2>3. DOMAIN head' = DOMAIN head /\ \A b \in DOMAIN head : head'[b] \subseteq Task
    BY <1>1, <2>1 DEF DataTypeOK
  <2> QED
    BY <1>1, <1>4, <2>1, <2>2, <2>3 DEF DataTypeOK
<1>6. todo' = "nothing"
  BY <1>1 DEF DataInv, TodoWhileInvoking
<1>7. /\ TodoWhileInvoking' /\ BranchBeforeStep' /\ NewBranchClean' /\ StepIsolated'
      /\ SavedBeforeReturn'
  BY <1>1, <1>6 DEF TodoWhileInvoking, BranchBeforeStep, NewBranchClean, StepIsolated,
                    SavedBeforeReturn
<1>8. BranchInPast'
  <2>1. IsBefore(branch, Position(Top))
    BY <1>1 DEF DataInv, BranchInPast
  <2> QED
    BY <1>1, <1>2, <2>1 DEF BranchInPast
<1>9. RecordedOrTorn'
  <2>1. DOMAIN head' = DOMAIN head
    BY <1>1
  <2>2. ASSUME NEW s \in RecordedSteps
        PROVE  D!HasBranch(s)' /\ (Durable(s)' \/ s \in torn')
    <3>1. s \in DOMAIN head'
      BY <2>1, <2>2 DEF DataInv, RecordedOrTorn, D!HasBranch
    <3>2. CASE s = branch
      <4>1. branch \in head'[branch] \/ branch \in torn'
        BY <1>1, <1>3, <1>4
      <4> QED
        BY <3>1, <3>2, <4>1 DEF Durable, D!HasBranch
    <3>3. CASE s # branch
      <4>1. head'[s] = head[s]
        BY <1>1, <2>1, <3>1, <3>3
      <4> QED
        BY <1>3, <1>4, <2>2, <3>1, <3>3, <4>1
           DEF DataInv, RecordedOrTorn, Durable, D!HasBranch
    <3> QED
      BY <3>2, <3>3
  <2> QED
    BY <1>2, <2>2 DEF RecordedOrTorn
<1> QED
  BY <1>5, <1>7, <1>8, <1>9 DEF DataInv

\* A session begins on main.
LEMMA OpenKeeps ==
  ASSUME IInv, DataInv, COpen
  PROVE  DataInv' /\ ProgramPaths'
<1>1. /\ phase = "off" /\ phase' = "body" /\ stack' = <<RootFrame>>
      /\ UNCHANGED <<data, todo, faults, torn, records>>
  BY DEF COpen, Open
<1>2. /\ Len(stack') = 1 /\ Top' = RootFrame /\ ~InStep'
  BY <1>1 DEF Top, InStep
<1>3. ProgramPaths'
  BY <1>1, <1>2, ConsistentExecutionAssumption DEF ProgramPaths, RootFrame
<1>4. todo = "nothing" /\ branch = NoStep
  BY <1>1 DEF DataInv, TodoWhileInvoking, BranchInPast
<1>5. DataTypeOK'
  BY <1>1 DEF DataInv, DataTypeOK, data
<1>6. /\ TodoWhileInvoking' /\ BranchBeforeStep' /\ NewBranchClean' /\ StepIsolated'
      /\ SavedBeforeReturn' /\ BranchInPast'
  BY <1>1, <1>2, <1>4 DEF TodoWhileInvoking, BranchBeforeStep, NewBranchClean, StepIsolated,
                          SavedBeforeReturn, BranchInPast, IsBefore, data
<1>7. RecordedOrTorn'
  <2>1. RecordedSteps' = RecordedSteps /\ head' = head /\ torn' = torn
    BY <1>1 DEF RecordedSteps, data
  <2> QED
    BY <1>1, <2>1 DEF DataInv, RecordedOrTorn, Durable, D!HasBranch
<1> QED
  BY <1>3, <1>5, <1>6, <1>7 DEF DataInv

\* A session ends: what was not committed is gone, the branches stay.
LEMMA EndKeeps ==
  ASSUME IInv, DataInv, CClose \/ CCrash
  PROVE  DataInv' /\ ProgramPaths'
<1>1. /\ phase # "off" /\ phase' = "off" /\ stack' = <<>>
      /\ head' = head /\ work' = head /\ branch' = NoStep /\ access' = "RO"
      /\ UNCHANGED records
      /\ UNCHANGED faults \/ Fault
      /\ CClose => todo' = todo /\ torn' = torn /\ phase # "recorded"
      /\ CCrash => todo' = "nothing" /\ Tear
  BY DEF CClose, CCrash, Close, Crash, Forget, D!Disconnect
<1>2. ~InStep' /\ ProgramPaths'
  BY <1>1 DEF InStep, ProgramPaths
<1>3. todo' = "nothing"
  BY <1>1 DEF CClose, Close, DataInv, TodoWhileInvoking
<1>4. /\ torn \subseteq torn' /\ torn' \subseteq Task
      /\ InStep /\ phase = "recorded" => TaskOf(Top) \in head[branch] \union torn'
  <2>1. torn \subseteq Task
    BY DEF DataInv, DataTypeOK
  <2>2. CASE CClose
    BY <1>1, <2>1, <2>2
  <2>3. CASE CCrash
    BY <1>1, <2>1, <2>3, Torn
  <2> QED
    BY <2>2, <2>3
<1>5. DataTypeOK'
  <2>1. faults' \in 0..MaxFaults
    BY <1>1, FaultTyped DEF DataInv, DataTypeOK
  <2> QED
    BY <1>1, <1>3, <1>4, <2>1 DEF DataInv, DataTypeOK, Todo
<1>6. /\ TodoWhileInvoking' /\ BranchBeforeStep' /\ NewBranchClean' /\ StepIsolated'
      /\ SavedBeforeReturn' /\ BranchInPast'
  BY <1>1, <1>2, <1>3 DEF TodoWhileInvoking, BranchBeforeStep, NewBranchClean, StepIsolated,
                          SavedBeforeReturn, BranchInPast
<1>7. RecordedOrTorn'
  <2>1. RecordedSteps' = RecordedSteps
    BY <1>1 DEF RecordedSteps
  <2>2. ASSUME NEW s \in RecordedSteps
        PROVE  D!HasBranch(s)' /\ (Durable(s)' \/ s \in torn')
    <3>1. CASE InStep /\ s = TaskOf(Top) /\ phase = "recorded"
      <4>1. branch = s
        BY <3>1 DEF DataInv, StepIsolated
      <4>2. D!HasBranch(s)
        BY <2>2 DEF DataInv, RecordedOrTorn
      <4> QED
        BY <1>1, <1>4, <3>1, <4>1, <4>2 DEF Durable, D!HasBranch
    <3>2. CASE ~(InStep /\ s = TaskOf(Top) /\ phase = "recorded")
      BY <1>1, <1>4, <2>2, <3>2 DEF DataInv, RecordedOrTorn, Durable, D!HasBranch
    <3> QED
      BY <3>1, <3>2
  <2> QED
    BY <2>1, <2>2 DEF RecordedOrTorn
<1> QED
  BY <1>2, <1>5, <1>6, <1>7 DEF DataInv

-----------------------------------------------------------------------------
(* The invariant is inductive. *)

LEMMA InitCInv == CInit => CInv
<1> SUFFICES ASSUME CInit PROVE CInv
  OBVIOUS
<1>1. IInv
  BY InitInv DEF CInit
<1>2. /\ phase = "off" /\ stack = <<>> /\ records = <<>>
      /\ head = [b \in {NoStep} |-> {}] /\ work = head /\ branch = NoStep /\ access = "RO"
      /\ todo = "nothing" /\ faults = 0 /\ torn = {}
  BY DEF CInit, Init, D!Init
<1>3. ~InStep /\ ProgramPaths
  BY <1>2 DEF InStep, ProgramPaths
<1>4. DataTypeOK
  BY <1>2, ConsistentExecutionAssumption DEF DataTypeOK, Todo, Branch
<1>5. /\ TodoWhileInvoking /\ BranchInPast /\ BranchBeforeStep /\ NewBranchClean
      /\ StepIsolated /\ SavedBeforeReturn
  BY <1>2, <1>3 DEF TodoWhileInvoking, BranchInPast, BranchBeforeStep, NewBranchClean,
                    StepIsolated, SavedBeforeReturn
<1>6. RecordedSteps = {}
  BY <1>2 DEF RecordedSteps
<1>7. RecordedOrTorn
  BY <1>6 DEF RecordedOrTorn
<1> QED
  BY <1>1, <1>3, <1>4, <1>5, <1>7 DEF CInv, DataInv

\* The steps that neither push nor pop a frame: the STAGEs on the stack stay.
LEMMA PathsStay ==
  ASSUME TypeOK, ProgramPaths,
         \/ UNCHANGED stack
         \/ stack # <<>> /\ (EnterScope(TRUE) \/ ExitScope)
         \/ stack # <<>> /\ stack' = Advance(stack, Len(stack))
  PROVE  ProgramPaths'
<1>1. CASE UNCHANGED stack
  BY <1>1 DEF ProgramPaths
<1>2. CASE stack # <<>> /\ (EnterScope(TRUE) \/ ExitScope)
  BY <1>2, ScopeTop
<1>3. CASE stack # <<>> /\ stack' = Advance(stack, Len(stack))
  BY <1>3, AdvancedTop
<1> QED
  BY <1>1, <1>2, <1>3

LEMMA NextCInv == CInv /\ [CNext]_cvars => CInv'
<1> SUFFICES ASSUME IInv, ProgramPaths, DataInv, [CNext]_cvars
             PROVE  IInv' /\ ProgramPaths' /\ DataInv'
  BY DEF CInv
<1>1. IInv'
  BY ExecutorSteps, NextInv DEF IInv
<1>2. TypeOK
  BY DEF IInv
<1>3. CASE CSkip
  <2>1. stack # <<>> /\ stack' = Advance(stack, Len(stack))
    BY <1>2, <1>3 DEF CSkip, Skip, CanSubmit, TypeOK
  <2> QED
    BY <1>1, <1>2, <1>3, <2>1, SkipKeeps, PathsStay
<1>4. CASE CSkipFails
  <2>1. stack # <<>> /\ stack' = Advance(stack, Len(stack))
    BY <1>2, <1>4 DEF CSkipFails, SkipFails, CanSubmit, TypeOK
  <2> QED
    BY <1>1, <1>2, <1>4, <2>1, SkipFailsKeeps, PathsStay
<1>5. CASE CScope
  <2>1. stack # <<>> /\ (EnterScope(TRUE) \/ ExitScope)
    BY <1>2, <1>5 DEF CScope, EnterScope, ExitScope, TypeOK
  <2> QED
    BY <1>1, <1>2, <1>5, <2>1, ScopeKeeps, PathsStay
<1>6. CASE CRun
  BY <1>1, <1>6, RunKeeps
<1>7. CASE \/ CBodyReturns \/ CBodyRaises \/ CBodyCatches \/ CBodyAborts \/ CMarkRaises
           \/ StageInvoked \/ StepInvokedRaises
  <2>1. UNCHANGED stack
    BY <1>7 DEF CBodyReturns, CBodyRaises, CBodyCatches, CBodyAborts, CMarkRaises, StageInvoked,
                StepInvokedRaises, BodyReturns, BodyRaises, BodyCatches, BodyAborts, MarkRaises,
                Invoked, InvokedRaises
  <2> QED
    BY <1>1, <1>2, <1>7, <2>1, BodyKeeps, PathsStay
<1>8. CASE CMarkFinished
  <2>1. UNCHANGED stack
    BY <1>8 DEF CMarkFinished, MarkFinished
  <2> QED
    BY <1>1, <1>2, <1>8, <2>1, MarkKeeps, PathsStay
<1>9. CASE EnsureDeleted \/ EnsureCreated \/ CheckedOut
  <2>1. UNCHANGED stack
    BY <1>9 DEF EnsureDeleted, EnsureCreated, CheckedOut, vars
  <2> QED
    BY <1>1, <1>2, <1>9, <2>1, CallsKeep, PathsStay
<1>10. CASE WritingAllowed \/ CSave
  <2>1. UNCHANGED stack
    BY <1>10 DEF WritingAllowed, Invoked, CSave, vars
  <2> QED
    BY <1>1, <1>2, <1>10, <2>1, WritingKeeps, PathsStay
<1>11. CASE CFinished \/ CHandled \/ CHandlerRaises
  BY <1>1, <1>11, PopKeeps
<1>12. CASE CFinishedRaises
  <2>1. UNCHANGED stack
    BY <1>12 DEF CFinishedRaises, FinishedRaises
  <2> QED
    BY <1>1, <1>2, <1>12, <2>1, FinishedRaisesKeeps, PathsStay
<1>13. CASE COpen
  BY <1>1, <1>13, OpenKeeps
<1>14. CASE CClose \/ CCrash
  BY <1>1, <1>14, EndKeeps
<1>15. CASE UNCHANGED cvars
  <2>1. UNCHANGED <<vars, data, todo, faults, done, torn>>
    BY <1>15 DEF cvars
  <2>2. /\ UNCHANGED <<phase, stack, records, head, work, branch, access, todo, faults, torn>>
        /\ TaskOf(Top)' = TaskOf(Top) /\ Position(Top)' = Position(Top) /\ Top' = Top
        /\ InStep' <=> InStep
        /\ RecordedSteps' = RecordedSteps
    BY <2>1 DEF vars, data, TaskOf, Top, Position, InStep, RecordedSteps
  <2>3. ProgramPaths' /\ DataTypeOK' /\ TodoWhileInvoking'
    BY <2>2 DEF DataInv, ProgramPaths, DataTypeOK, TodoWhileInvoking
  <2>4. BranchInPast' /\ BranchBeforeStep'
    BY <2>2 DEF DataInv, BranchInPast, BranchBeforeStep
  <2>5. NewBranchClean' /\ StepIsolated' /\ SavedBeforeReturn'
    BY <2>2 DEF DataInv, NewBranchClean, StepIsolated, SavedBeforeReturn
  <2>6. RecordedOrTorn'
    BY <2>2 DEF DataInv, RecordedOrTorn, Durable, D!HasBranch
  <2> QED
    BY <1>1, <2>3, <2>4, <2>5, <2>6 DEF DataInv
<1> QED
  BY <1>3, <1>4, <1>5, <1>6, <1>7, <1>8, <1>9, <1>10, <1>11, <1>12, <1>13, <1>14, <1>15
     DEF CNext, Progress, Accidents

\* The current branch is not the one of the STEP that on_step_invoked prepares: it
\* precedes the STEP.
LEMMA CurrentIsAnother ==
  ASSUME CInv, todo \in {"delete", "create"}
  PROVE  branch # TaskOf(Top)
<1>1. IsBefore(branch, Top.order) /\ InStep
  BY DEF CInv, DataInv, BranchBeforeStep, TodoWhileInvoking
<1>2. TaskOf(Top) \in Task /\ TaskOf(Top).order = Top.order
  BY <1>1, StepOnTop DEF CInv, TaskOf
<1> QED
  BY <1>1, <1>2, NotBeforeItself, TaskExecutorAssumption

-----------------------------------------------------------------------------
(* Theorems *)

\* The invariant holds throughout every behaviour.
THEOREM ConsistentInvariant == CSpec => []CInv
BY InitCInv, NextCInv, PTL DEF CSpec

\* The data layer only follows the executor: every behaviour of the two is one of the
\* executor, whose theorems hold here, too.
THEOREM ImplementsExecutor == CSpec => Spec
<1>1. CInit => Init
  BY DEF CInit
<1>2. CInv /\ [CNext]_cvars => [Next]_vars
  BY ExecutorSteps DEF CInv, IInv
<1> QED
  BY <1>1, <1>2, ConsistentInvariant, PTL DEF CSpec, Spec

\* The variables keep their types (see CTypeOK), for any program.
THEOREM ConsistentTyped == CSpec => []CTypeOK
<1> DEFINE DoneTyped == done \subseteq Task
<1>1. CInit => DoneTyped
  BY DEF CInit
<1>2. CInv /\ DoneTyped /\ [CNext]_cvars => DoneTyped'
  <2> SUFFICES ASSUME CInv, done \subseteq Task, [CNext]_cvars
               PROVE  done' \subseteq Task
    OBVIOUS
  <2>1. CASE CSkip
    <3>1. \A i \in DOMAIN records : records[i].task \in Task
      <4>1. records \in Seq(Record)
        BY DEF CInv, IInv, TypeOK
      <4>2. \A i \in DOMAIN records : records[i] \in Record
        BY <4>1
      <4> QED
        BY <4>2 DEF Record
    <3>2. \A task : StepsWithin(task) \subseteq Task
      BY <3>1 DEF StepsWithin
    <3>3. \E task : done' = done \union StepsWithin(task)
      BY <2>1 DEF CSkip
    <3> QED
      BY <3>2, <3>3
  <2>2. CASE CFinished
    <3>1. InStep => TaskOf(Top) \in Task
      BY StepOnTop DEF CInv
    <3> QED
      BY <2>2, <3>1 DEF CFinished
  <2>3. done' = {} \/ done' = done \/ CSkip \/ CFinished
    BY DEF CNext, Progress, Accidents, COpen, CClose, CCrash, CScope, CSkipFails, CRun,
                EnsureDeleted, EnsureCreated, CheckedOut, WritingAllowed, StageInvoked,
                StepInvokedRaises, CSave, CBodyReturns, CBodyRaises, CBodyCatches, CBodyAborts,
                CMarkFinished, CMarkRaises, CFinishedRaises, CHandled, CHandlerRaises, cvars
  <2> QED
    BY <2>1, <2>2, <2>3
<1>3. CInv /\ DoneTyped => CTypeOK
  <2> SUFFICES ASSUME CInv, done \subseteq Task PROVE CTypeOK
    OBVIOUS
  <2>1. TypeOK /\ DataTypeOK /\ TodoWhileInvoking
    BY DEF CInv, IInv, DataInv
  <2> QED
    BY <2>1 DEF DataTypeOK, TodoWhileInvoking, CTypeOK
<1> HIDE DEF DoneTyped
<1> QED
  BY <1>1, <1>2, <1>3, ConsistentInvariant, PTL DEF CSpec

\* A STEP works on its own branch and finds nothing uncommitted there.
THEOREM StepIsolatedHolds == CSpec => []StepIsolated
<1>1. CInv => StepIsolated
  BY DEF CInv, DataInv
<1> QED
  BY <1>1, ConsistentInvariant, PTL

\* ensure_empty_branch never has to delete the branch that is checked out.
THEOREM NeverDropsCurrentHolds == CSpec => []NeverDropsCurrent
<1>1. CInv => NeverDropsCurrent
  BY CurrentIsAnother DEF NeverDropsCurrent
<1> QED
  BY <1>1, ConsistentInvariant, PTL

\* The only STEPs recorded without data are those that a failed commit, or a death of
\* the process between the record and the commit, tore apart.
THEOREM RecordedOrTornHolds == CSpec => []RecordedOrTorn
<1>1. CInv => RecordedOrTorn
  BY DEF CInv, DataInv
<1> QED
  BY <1>1, ConsistentInvariant, PTL

\* The committed data of a recorded STEP is never lost.
THEOREM DurableForeverHolds == CSpec => DurableForever
<1> DEFINE Kept == \A s \in RecordedSteps : Durable(s) => Durable(s)'
<1>1. ASSUME CInv, [CNext]_cvars PROVE Kept
  <2> SUFFICES ASSUME NEW s \in RecordedSteps, Durable(s)
               PROVE  Durable(s)'
    OBVIOUS
  <2>1. s \in DOMAIN head /\ s \in head[s]
    BY DEF Durable, D!HasBranch
  <2>2. CASE head' = head
    BY <2>1, <2>2 DEF Durable, D!HasBranch
  <2>3. CASE EnsureDeleted /\ D!DeleteBranch(TaskOf(Top))
    <3>1. InStep /\ phase = "invoking"
      BY <1>1, <2>3 DEF EnsureDeleted, CInv, DataInv, TodoWhileInvoking
    <3>2. s # TaskOf(Top)
      BY <1>1, <3>1, OnRecord DEF CInv, IInv, StepNotYetRecorded, InStep
    <3>3. head' = [x \in DOMAIN head \ {TaskOf(Top)} |-> head[x]]
      BY <2>3 DEF D!DeleteBranch
    <3> QED
      BY <2>1, <3>2, <3>3 DEF Durable, D!HasBranch
  <2>4. CASE EnsureCreated
    <3>1. TaskOf(Top) \notin DOMAIN head
      BY <2>4 DEF EnsureCreated, D!NewBranch, D!HasBranch
    <3>2. head' = [x \in DOMAIN head \union {TaskOf(Top)} |->
                     IF x = TaskOf(Top) THEN head[branch] ELSE head[x]]
      BY <2>4 DEF EnsureCreated, D!NewBranch
    <3> QED
      BY <2>1, <3>1, <3>2 DEF Durable, D!HasBranch
  <2>5. CASE /\ (CFinished \/ CFinishedRaises) /\ InStep
             /\ head' = [head EXCEPT ![branch] = work[branch]]
    <3>1. phase = "recorded"
      BY <2>5 DEF CFinished, CFinishedRaises, Finished, FinishedRaises
    <3>2. branch = TaskOf(Top) /\ TaskOf(Top) \in work[branch]
      BY <1>1, <2>5, <3>1 DEF CInv, DataInv, StepIsolated, SavedBeforeReturn
    <3> QED
      BY <2>1, <2>5, <3>2 DEF Durable, D!HasBranch
  <2>6. CASE UNCHANGED cvars
    BY <2>2, <2>6 DEF cvars, data
  <2>7. CASE CNext
    <3>1. CASE COpen \/ CClose \/ CCrash \/ CScope \/ CSkip \/ CSkipFails \/ CRun
      BY <2>2, <3>1 DEF COpen, CClose, CCrash, CScope, CSkip, CSkipFails, CRun, data,
                        D!Disconnect, D!Checkout
    <3>2. CASE CheckedOut \/ WritingAllowed \/ StageInvoked \/ StepInvokedRaises \/ CSave
      BY <2>2, <3>2 DEF CheckedOut, WritingAllowed, StageInvoked, StepInvokedRaises, CSave, data,
                        D!Checkout, D!AllowWriting, D!Save
    <3>3. CASE CBodyReturns \/ CBodyRaises \/ CBodyCatches \/ CBodyAborts \/ CMarkFinished
               \/ CMarkRaises \/ CHandled \/ CHandlerRaises
      BY <2>2, <3>3 DEF CBodyReturns, CBodyRaises, CBodyCatches, CBodyAborts, CMarkFinished,
                        CMarkRaises, CHandled, CHandlerRaises, data, D!RollbackAndDisallow
    <3>4. CASE EnsureDeleted
      BY <2>2, <2>3, <3>4 DEF EnsureDeleted, data
    <3>5. CASE EnsureCreated
      BY <2>4, <3>5
    <3>6. CASE CFinished \/ CFinishedRaises
      BY <2>2, <2>5, <3>6 DEF CFinished, CFinishedRaises, data, D!CommitAndDisallow, D!CommitOnly
    <3> QED
      BY <2>7, <3>1, <3>2, <3>3, <3>4, <3>5, <3>6 DEF CNext, Progress, Accidents
  <2> QED
    BY <1>1, <2>6, <2>7
<1>2. CInv /\ [CNext]_cvars => [Kept]_cvars
  BY <1>1
<1> QED
  BY <1>2, ConsistentInvariant, PTL DEF CSpec, DurableForever

\* Where a program catches nothing, writing stays allowed only on the way out of the
\* session: whatever the last calls of a STEP could not disallow, no body sees.
LEMMA WayOutKeeps ==
  ASSUME CInv, MayCatch = FALSE, WritableOnTheWayOut, [CNext]_cvars
  PROVE  WritableOnTheWayOut'
<1> SUFFICES ASSUME access' = "RW"
             PROVE  \/ InStep' /\ phase' \in {"body", "raising", "returned", "recorded", "failing"}
                    \/ phase' \in {"raising", "failing"} /\ exc' # "tbc"
  BY DEF WritableOnTheWayOut
<1> DEFINE InWriting == InStep /\ phase \in {"body", "raising", "returned", "recorded", "failing"}
           Leaving   == phase \in {"raising", "failing"} /\ exc # "tbc"
<1>1. access = "RW" => InWriting \/ Leaving
  BY DEF WritableOnTheWayOut
<1>2. todo # "nothing" <=> phase = "invoking" /\ InStep
  BY DEF CInv, DataInv, TodoWhileInvoking
<1>3. stack' = stack => (InStep' <=> InStep)
  BY DEF InStep, Top
<1>4. CASE WritingAllowed \/ StageInvoked \/ StepInvokedRaises
  BY <1>1, <1>2, <1>3, <1>4 DEF WritingAllowed, StageInvoked, StepInvokedRaises, Invoked,
                                InvokedRaises, Throw, data
<1>5. CASE CBodyReturns \/ CBodyRaises \/ CBodyCatches \/ CBodyAborts
  BY <1>1, <1>3, <1>5 DEF CBodyReturns, CBodyRaises, CBodyCatches, CBodyAborts, BodyReturns,
                          BodyRaises, BodyAborts, data
<1>6. CASE CMarkFinished \/ CMarkRaises \/ CFinishedRaises
  BY <1>1, <1>3, <1>6 DEF CMarkFinished, CMarkRaises, CFinishedRaises, MarkFinished, MarkRaises,
                          FinishedRaises, Throw, D!CommitOnly, data
<1>7. CASE CFinished \/ CHandled \/ CHandlerRaises
  <2>1. CFinished => ~InStep /\ phase = "recorded" /\ access = "RW"
    BY DEF CFinished, Finished, D!CommitAndDisallow, data
  <2>2. CASE CHandled
    <3>1. access = "RW" /\ phase = "failing" /\ (InStep => exc = "exit")
      BY <2>2 DEF CHandled, Handled, D!RollbackAndDisallow, data
    <3>2. exc # "tbc"
      BY <1>1, <3>1
    <3>3. phase' = "raising" /\ exc' = exc
      BY <2>2, <3>2 DEF CHandled, Handled, Swallows, RaiseInCaller
    <3> QED
      BY <3>2, <3>3
  <2>3. CASE CHandlerRaises
    BY <2>3 DEF CHandlerRaises, HandlerRaises, RaiseInCaller
  <2> QED
    BY <1>1, <1>7, <2>1, <2>2, <2>3
<1>8. CASE COpen \/ CClose \/ CCrash
  BY <1>1, <1>8 DEF COpen, CClose, CCrash, Open, data, D!Disconnect
<1>9. CASE CScope
  BY <1>1, <1>9 DEF CScope, EnterScope, ExitScope, InStep, data
<1>10. CASE CSkip \/ CSkipFails \/ CRun
  BY <1>1, <1>10 DEF CSkip, CSkipFails, CRun, Pending, Skip, SkipFails, Run, InStep, data, D!Checkout
<1>11. CASE EnsureDeleted \/ EnsureCreated \/ CheckedOut
  BY <1>1, <1>2, <1>11 DEF EnsureDeleted, EnsureCreated, CheckedOut, D!DeleteBranch, D!NewBranch,
                           D!Checkout, data
<1>12. CASE CSave
  BY <1>1, <1>3, <1>12 DEF CSave, D!Save, vars
<1>13. CASE UNCHANGED cvars
  BY <1>1, <1>3, <1>13 DEF cvars, vars, data
<1> QED
  BY <1>4, <1>5, <1>6, <1>7, <1>8, <1>9, <1>10, <1>11, <1>12, <1>13 DEF CNext, Progress, Accidents

\* Outside of STEPs nothing can be saved, in a program that catches nothing: read-only is
\* the mode that a body finds.
THEOREM WritableOnlyInStepHolds ==
  ASSUME MayCatch = FALSE
  PROVE  CSpec => []WritableOnlyInStep
<1>1. CInit => WritableOnTheWayOut
  BY DEF CInit, D!Init, WritableOnTheWayOut
<1>2. CInv /\ WritableOnTheWayOut /\ [CNext]_cvars => WritableOnTheWayOut'
  BY WayOutKeeps
<1>3. WritableOnTheWayOut => WritableOnlyInStep
  BY DEF WritableOnTheWayOut, WritableOnlyInStep
<1> QED
  BY <1>1, <1>2, <1>3, ConsistentInvariant, PTL DEF CSpec

-----------------------------------------------------------------------------
(***************************************************************************)
(* Programs whose exceptions end the session: what is done, and what the   *)
(* branch that is checked out holds, follows from the position.            *)
(***************************************************************************)
\* The order is the one of a task, or of something that is submitted from inside of it.
Inside(order, outer) ==
  Len(order) >= Len(outer) /\ \A j \in 1..Len(outer) : order[j] = outer[j]

\* What precedes the end of a task precedes the task, or is inside of it.
LEMMA BeforeEnd ==
  ASSUME NEW a \in Seq(Nat), NEW p \in Seq(Nat), p # <<>>
  PROVE  Precedes(a, Successor(p)) <=> Precedes(a, p) \/ Inside(a, p)
<1> DEFINE e == Successor(p)
<1>1. /\ Len(p) \in 1..Len(p) /\ Len(e) = Len(p)
      /\ \A j \in 1..(Len(p) - 1) : e[j] = p[j]
      /\ e[Len(p)] = p[Len(p)] + 1 /\ p[Len(p)] \in Nat
  BY EmptySeq DEF Successor
<1> HIDE DEF e
<1>2. ASSUME Precedes(a, e), ~Precedes(a, p) PROVE Inside(a, p)
  <2>1. PICK i \in 1..Len(p) :
          /\ Len(a) >= i - 1
          /\ \A j \in 1..(i - 1) : a[j] = e[j]
          /\ Len(a) >= i => a[i] < e[i]
    BY <1>1, <1>2 DEF Precedes
  <2>2. \A j \in 1..(i - 1) : a[j] = p[j]
    BY <1>1, <2>1
  <2>3. Len(a) >= i /\ ~(a[i] < p[i])
    BY <1>2, <2>1, <2>2 DEF Precedes
  <2>4. a[i] \in Nat /\ p[i] \in Nat /\ a[i] < e[i]
    BY <2>1, <2>3
  <2>5. i = Len(p) /\ a[i] = p[i]
    BY <1>1, <2>3, <2>4
  <2> QED
    BY <1>1, <2>2, <2>3, <2>5 DEF Inside
<1>3. ASSUME Precedes(a, p) PROVE Precedes(a, e)
  <2>1. PICK i \in 1..Len(p) :
          /\ Len(a) >= i - 1
          /\ \A j \in 1..(i - 1) : a[j] = p[j]
          /\ Len(a) >= i => a[i] < p[i]
    BY <1>3 DEF Precedes
  <2>2. \A j \in 1..(i - 1) : a[j] = e[j]
    BY <1>1, <2>1
  <2>3. Len(a) >= i => a[i] < e[i]
    <3>1. Len(a) >= i => a[i] \in Nat
      OBVIOUS
    <3>2. p[i] \in Nat
      OBVIOUS
    <3>3. e[i] \in Nat /\ e[i] >= p[i]
      <4>1. CASE i = Len(p)
        BY <1>1, <3>2, <4>1
      <4>2. CASE i # Len(p)
        <5>1. i \in 1..(Len(p) - 1)
          BY <1>1, <4>2
        <5>2. e[i] = p[i]
          BY <1>1, <5>1
        <5> QED
          BY <3>2, <5>2
      <4> QED
        BY <4>1, <4>2
    <3> QED
      BY <2>1, <3>1, <3>2, <3>3
  <2> QED
    BY <1>1, <2>1, <2>2, <2>3 DEF Precedes
<1>4. ASSUME Inside(a, p) PROVE Precedes(a, e)
  <2>1. Len(a) >= Len(p) /\ \A j \in 1..Len(p) : a[j] = p[j]
    BY <1>4 DEF Inside
  <2>2. a[Len(p)] < e[Len(p)] /\ \A j \in 1..(Len(p) - 1) : a[j] = e[j]
    BY <1>1, <2>1
  <2> QED
    BY <1>1, <2>1, <2>2 DEF Precedes
<1> QED
  BY <1>2, <1>3, <1>4 DEF e

\* What precedes a position that a body has reached precedes the task, or is inside of it
\* and not after that position.
LEMMA BeforePosition ==
  ASSUME NEW a \in Seq(Nat), NEW p \in Seq(Nat), NEW n \in Nat
  PROVE  Precedes(a, Append(p, n)) <=>
           \/ Precedes(a, p)
           \/ Inside(a, p) /\ (Len(a) = Len(p) \/ a[Len(p) + 1] < n)
<1> DEFINE e == Append(p, n)
<1>1. /\ Len(e) = Len(p) + 1 /\ e[Len(p) + 1] = n /\ Len(p) \in Nat
      /\ \A j \in 1..Len(p) : e[j] = p[j]
  OBVIOUS
<1> HIDE DEF e
<1>2. ASSUME Precedes(a, e), ~Precedes(a, p)
      PROVE  Inside(a, p) /\ (Len(a) = Len(p) \/ a[Len(p) + 1] < n)
  <2>1. PICK i \in 1..(Len(p) + 1) :
          /\ Len(a) >= i - 1
          /\ \A j \in 1..(i - 1) : a[j] = e[j]
          /\ Len(a) >= i => a[i] < e[i]
    BY <1>1, <1>2 DEF Precedes
  <2>2. \A j \in 1..(i - 1) : a[j] = p[j]
    BY <1>1, <2>1
  <2>3. i = Len(p) + 1
    <3>1. CASE i \in 1..Len(p)
      BY <1>1, <1>2, <2>1, <2>2, <3>1 DEF Precedes
    <3> QED
      BY <1>1, <3>1
  <2> QED
    BY <1>1, <2>1, <2>2, <2>3 DEF Inside
<1>3. ASSUME Inside(a, p), Len(a) = Len(p) \/ a[Len(p) + 1] < n PROVE Precedes(a, e)
  <2> DEFINE i == Len(p) + 1
  <2>1. Len(a) >= i - 1 /\ \A j \in 1..(i - 1) : a[j] = e[j]
    BY <1>1, <1>3 DEF Inside
  <2>2. Len(a) >= i => a[i] < e[i]
    BY <1>1, <1>3
  <2>3. i \in 1..Len(e)
    BY <1>1
  <2> HIDE DEF i
  <2> QED
    BY <2>1, <2>2, <2>3 DEF Precedes
<1>4. Precedes(a, p) => Precedes(a, e)
  BY PrecedesInside DEF e
<1> QED
  BY <1>2, <1>3, <1>4 DEF e

\* Nothing is before itself, or before what it is inside of.
LEMMA NotBeforeInside ==
  ASSUME NEW a \in Seq(Nat), NEW p \in Seq(Nat), Inside(a, p)
  PROVE  ~Precedes(a, p)
<1>1. ASSUME NEW i \in 1..Len(p), Len(a) >= i => a[i] < p[i] PROVE FALSE
  <2>1. Len(a) \in Nat /\ Len(p) \in Nat
    OBVIOUS
  <2>2. Len(a) >= i /\ a[i] = p[i]
    BY <2>1 DEF Inside
  <2>3. a[i] \in Nat
    BY <2>1, <2>2
  <2> QED
    BY <1>1, <2>2, <2>3
<1> QED
  BY <1>1 DEF Precedes

-----------------------------------------------------------------------------
\* What is submitted at one position of a path
LEMMA SubmittedAt ==
  ASSUME NEW t \in Task, Submitted(t), NEW i \in 1..Len(t.path)
  PROVE  /\ SubSeq(t.path, 1, i - 1) \in DOMAIN Program
         /\ t.order[i] + 1 \in 1..Len(Program[SubSeq(t.path, 1, i - 1)])
         /\ Program[SubSeq(t.path, 1, i - 1)][t.order[i] + 1] =
              [key |-> t.path[i], type |-> IF i = Len(t.path) THEN t.type ELSE "STAGE"]
BY Zenon DEF Submitted

\* Two tasks of the program whose orders agree for a while have the same path there.
LEMMA SamePaths ==
  ASSUME NEW s \in Task, NEW t \in Task, Submitted(s), Submitted(t), Inside(s.order, t.order)
  PROVE  /\ Len(s.path) >= Len(t.path) /\ Len(t.path) \in Nat /\ Len(s.path) \in Nat
         /\ \A j \in 1..Len(t.path) : s.path[j] = t.path[j]
         /\ SubSeq(s.path, 1, Len(t.path)) = t.path
<1>1. /\ s.path \in Seq(Keys) /\ t.path \in Seq(Keys)
      /\ s.order \in Seq(Nat) /\ t.order \in Seq(Nat)
  BY DEF Task
<1>2. Len(s.order) = Len(s.path) /\ Len(t.order) = Len(t.path)
  BY DEF Submitted
<1>3. Len(s.path) >= Len(t.path) /\ \A j \in 1..Len(t.path) : s.order[j] = t.order[j]
  BY <1>2 DEF Inside
<1> DEFINE T == {j \in 1..Len(t.path) : s.path[j] # t.path[j]}
<1>4. T = {}
  <2> SUFFICES ASSUME T # {} PROVE FALSE
    OBVIOUS
  <2>1. T \subseteq Nat
    BY <1>1
  <2>2. PICK i \in T : \A y \in T : ~(y < i)
    BY <2>1, Least
  <2>3. /\ i \in 1..Len(t.path) /\ i \in 1..Len(s.path)
        /\ \A j \in 1..(i - 1) : s.path[j] = t.path[j]
    <3>1. i \in 1..Len(t.path) /\ Len(t.path) \in Nat /\ Len(s.path) \in Nat
      BY <1>1, <2>2
    <3>2. \A j \in 1..(i - 1) : j \in 1..Len(t.path) /\ j < i
      BY <3>1
    <3>3. \A j \in 1..(i - 1) : j \notin T
      BY <2>2, <3>2
    <3>4. \A j \in 1..(i - 1) : s.path[j] = t.path[j]
      BY <3>2, <3>3
    <3> QED
      BY <1>3, <3>1, <3>4
  <2>4. SubSeq(s.path, 1, i - 1) = SubSeq(t.path, 1, i - 1)
    <3>1. /\ Len(SubSeq(s.path, 1, i - 1)) = i - 1 /\ Len(SubSeq(t.path, 1, i - 1)) = i - 1
          /\ SubSeq(s.path, 1, i - 1) \in Seq(Keys) /\ SubSeq(t.path, 1, i - 1) \in Seq(Keys)
          /\ \A j \in 1..(i - 1) : /\ SubSeq(s.path, 1, i - 1)[j] = s.path[j]
                                   /\ SubSeq(t.path, 1, i - 1)[j] = t.path[j]
      BY <1>1, <2>3
    <3> QED
      BY <2>3, <3>1, SeqEqual
  <2>5. s.order[i] = t.order[i]
    BY <1>3, <2>3
  <2>6. [key |-> s.path[i], type |-> IF i = Len(s.path) THEN s.type ELSE "STAGE"] =
        [key |-> t.path[i], type |-> IF i = Len(t.path) THEN t.type ELSE "STAGE"]
    BY <2>3, <2>4, <2>5 DEF Submitted
  <2>7. s.path[i] = t.path[i]
    BY <2>6
  <2> QED
    BY <2>2, <2>7
<1>5. \A j \in 1..Len(t.path) : s.path[j] = t.path[j]
  BY <1>4
<1>6. SubSeq(s.path, 1, Len(t.path)) = t.path
  <2>1. /\ Len(SubSeq(s.path, 1, Len(t.path))) = Len(t.path)
        /\ SubSeq(s.path, 1, Len(t.path)) \in Seq(Keys)
        /\ \A j \in 1..Len(t.path) : SubSeq(s.path, 1, Len(t.path))[j] = s.path[j]
    BY <1>1, <1>3
  <2> QED
    BY <1>1, <1>5, <2>1, SeqEqual
<1> QED
  BY <1>1, <1>3, <1>5, <1>6

\* A task of the program is given by its order, ...
LEMMA SameTask ==
  ASSUME NEW s \in Task, NEW t \in Task, Submitted(s), Submitted(t),
         Inside(s.order, t.order), Len(s.order) = Len(t.order)
  PROVE  s = t
<1>1. /\ s.path \in Seq(Keys) /\ t.path \in Seq(Keys)
      /\ s.order \in Seq(Nat) /\ t.order \in Seq(Nat)
      /\ s = [path |-> s.path, order |-> s.order, type |-> s.type]
      /\ t = [path |-> t.path, order |-> t.order, type |-> t.type]
  BY DEF Task
<1>2. s.order = t.order
  BY <1>1, SeqEqual DEF Inside
<1>3. Len(s.path) = Len(s.order) /\ Len(t.path) = Len(t.order) /\ Len(t.path) \in 1..Len(t.path)
  BY <1>1, EmptySeq DEF Submitted
<1>4. s.path = t.path
  BY <1>1, <1>3, SamePaths, SeqEqual
<1>5. [key |-> t.path[Len(t.path)], type |-> s.type] = [key |-> t.path[Len(t.path)], type |-> t.type]
  BY <1>2, <1>3, <1>4 DEF Submitted
<1> QED
  BY <1>1, <1>2, <1>4, <1>5

\* ... a STEP has nothing inside, and what is inside of a STAGE is what the STAGE submits.
LEMMA InsideOfTask ==
  ASSUME NEW s \in Task, NEW t \in Task, Submitted(s), Submitted(t),
         Inside(s.order, t.order), Len(s.order) # Len(t.order)
  PROVE  /\ t.type = "STAGE"
         /\ s.order[Len(t.order) + 1] < Len(Program[t.path])
<1>1. /\ s.path \in Seq(Keys) /\ t.path \in Seq(Keys)
      /\ s.order \in Seq(Nat) /\ t.order \in Seq(Nat)
  BY DEF Task
<1>2. Len(s.path) = Len(s.order) /\ Len(t.path) = Len(t.order) /\ Len(t.path) \in 1..Len(t.path)
  BY <1>1, EmptySeq DEF Submitted
<1> DEFINE n == Len(t.path)
<1>3. n \in 1..Len(s.path) /\ n + 1 \in 1..Len(s.path) /\ n # Len(s.path) /\ n \in Nat
  BY <1>1, <1>2 DEF Inside
<1>4. s.path[n] = t.path[n] /\ SubSeq(s.path, 1, n) = t.path /\ s.order[n] = t.order[n]
  BY <1>2, SamePaths DEF Inside
<1>5. SubSeq(s.path, 1, n - 1) = SubSeq(t.path, 1, n - 1)
  <2>1. /\ Len(SubSeq(s.path, 1, n - 1)) = n - 1 /\ Len(SubSeq(t.path, 1, n - 1)) = n - 1
        /\ SubSeq(s.path, 1, n - 1) \in Seq(Keys) /\ SubSeq(t.path, 1, n - 1) \in Seq(Keys)
        /\ \A j \in 1..(n - 1) : /\ SubSeq(s.path, 1, n - 1)[j] = s.path[j]
                                 /\ SubSeq(t.path, 1, n - 1)[j] = t.path[j]
    BY <1>1, <1>3
  <2> QED
    BY <1>3, <2>1, SamePaths, SeqEqual
<1>6. [key |-> s.path[n], type |-> "STAGE"] = [key |-> t.path[n], type |-> t.type]
  BY <1>2, <1>3, <1>4, <1>5 DEF Submitted
<1>7. PICK m \in 1..Len(s.path) : m = n + 1
  BY <1>3
<1>8. SubSeq(s.path, 1, m - 1) = t.path
  BY <1>3, <1>4, <1>7
<1>9. /\ SubSeq(s.path, 1, m - 1) \in DOMAIN Program
      /\ s.order[m] + 1 \in 1..Len(Program[SubSeq(s.path, 1, m - 1)])
  BY SubmittedAt, Zenon
<1>10. s.order[m] \in Nat
  BY <1>1, <1>2, <1>7
<1>11. Len(Program[t.path]) \in Nat
  BY <1>8, <1>9, ConsistentExecutionAssumption
<1> HIDE DEF n
<1>12. s.order[m] < Len(Program[t.path])
  <2>1. s.order[m] + 1 \in 1..Len(Program[t.path])
    BY <1>8, <1>9, Zenon
  <2> QED
    BY <1>10, <1>11, <2>1
<1>13. t.type = "STAGE"
  BY <1>6
<1>14. m = Len(t.order) + 1
  BY <1>2, <1>7 DEF n
<1> QED
  BY <1>12, <1>13, <1>14

-----------------------------------------------------------------------------
\* The STEPs of the program that come before a position, ...
StepsBefore(position) == {s \in ProgramSteps : Precedes(s.order, position)}

\* ... before the end of a task, ...
StepsUpto(task) == StepsBefore(Successor(task.order))

\* ... and before the position of the running frame, but for the STEP that is running.
Past == StepsBefore(Position(Top)) \ {TaskOf(Top)}

\* The last STEP of a set, if there is one
IsLastOf(step, steps) ==
  IF step = NoStep THEN steps = {}
  ELSE step \in steps /\ \A s \in steps : s = step \/ Precedes(s.order, step.order)

\* What runs was submitted by the program.
FramesOfProgram ==
  /\ stack # <<>> => stack[1].path = <<>> /\ stack[1].order = <<>> /\ stack[1].type = "ROOT"
  /\ \A i \in 2..Len(stack) : Submitted(TaskOf(stack[i]))

LEMMA InProgramSteps ==
  ASSUME NEW s
  PROVE  s \in ProgramSteps <=> s \in Task /\ s.type = "STEP" /\ Submitted(s)
<1> DEFINE positions == UNION {{i - 1 : i \in 1..Len(Program[path])} : path \in DOMAIN Program}
           of(path) == [path  : {Append(path, k) : k \in Keys},
                        order : [1..(Len(path) + 1) -> positions],
                        type  : {"STEP"}]
<1>1. ProgramSteps = UNION {{x \in of(path) : Submitted(x)} : path \in DOMAIN Program}
  BY DEF ProgramSteps
<1>2. ASSUME s \in ProgramSteps PROVE s \in Task /\ s.type = "STEP" /\ Submitted(s)
  <2>1. s \in Task
    <3>1. PICK i \in 1..Len(Steps) : s = Steps[i]
      BY <1>2, StepsAssumption
    <3> QED
      BY <3>1, StepsAssumption, ElementOfSeq
  <2>2. PICK path \in DOMAIN Program : s \in of(path) /\ Submitted(s)
    BY <1>1, <1>2
  <2> QED
    BY <2>1, <2>2
<1>3. ASSUME s \in Task, s.type = "STEP", Submitted(s) PROVE s \in ProgramSteps
  <2> DEFINE n == Len(s.path)
             outer == SubSeq(s.path, 1, n - 1)
  <2>1. s.path \in Seq(Keys) /\ s.order \in Seq(Nat) /\ n \in 1..n /\ Len(s.order) = n
    BY <1>3, EmptySeq DEF Task, Submitted
  <2>2. outer \in DOMAIN Program
    BY <1>3, <2>1, SubmittedAt
  <2>3. Len(outer) = n - 1 /\ outer \in Seq(Keys) /\ \A j \in 1..(n - 1) : outer[j] = s.path[j]
    BY <2>1
  <2>4. s.path = Append(outer, s.path[n]) /\ s.path[n] \in Keys
    <3>1. s.path[n] \in Keys
      BY <2>1, ElementOfSeq
    <3>2. /\ Append(outer, s.path[n]) \in Seq(Keys) /\ Len(Append(outer, s.path[n])) = n
          /\ \A j \in 1..n : Append(outer, s.path[n])[j] = s.path[j]
      BY <2>1, <2>3, <3>1
    <3> QED
      BY <2>1, <3>1, <3>2, SeqEqual
  <2>5. ASSUME NEW i \in 1..n PROVE s.order[i] \in positions
    <3>1. /\ SubSeq(s.path, 1, i - 1) \in DOMAIN Program
          /\ s.order[i] + 1 \in 1..Len(Program[SubSeq(s.path, 1, i - 1)])
      BY <1>3, <2>5, SubmittedAt, Zenon
    <3>2. PICK path \in DOMAIN Program : s.order[i] + 1 \in 1..Len(Program[path])
      BY <3>1, Zenon
    <3>3. s.order[i] = (s.order[i] + 1) - 1
      <4>1. s.order[i] \in Nat
        BY <2>1, <2>5
      <4> QED
        BY <4>1
    <3>4. s.order[i] \in {j - 1 : j \in 1..Len(Program[path])}
      BY <3>2, <3>3, Zenon
    <3> QED
      BY <3>4
  <2>6. s.order \in [1..n -> positions]
    <3>1. s.order \in [1..n -> Nat]
      BY <2>1
    <3> HIDE DEF positions
    <3> QED
      BY <2>5, <3>1
  <2>7. s = [path |-> s.path, order |-> s.order, type |-> s.type]
    BY <1>3 DEF Task
  <2>8. Len(outer) + 1 = n
    BY <2>1, <2>3
  <2> HIDE DEF positions, n, outer
  <2>9. s \in of(outer)
    BY <1>3, <2>4, <2>6, <2>7, <2>8
  <2> HIDE DEF of
  <2> QED
    BY <1>1, <1>3, <2>2, <2>9
<1> QED
  BY <1>2, <1>3

\* The end of a STEP comes right after it.
LEMMA UptoStep ==
  ASSUME NEW s \in ProgramSteps
  PROVE  StepsUpto(s) = StepsBefore(s.order) \union {s} /\ s \notin StepsBefore(s.order)
<1>1. s \in Task /\ s.type = "STEP" /\ Submitted(s) /\ s.order \in Seq(Nat) /\ s.order # <<>>
  BY InProgramSteps, EmptySeq DEF Task, Submitted
<1>2. Inside(s.order, s.order)
  BY <1>1 DEF Inside
<1>3. ASSUME NEW t \in ProgramSteps
      PROVE  t \in StepsUpto(s) <=> t \in StepsBefore(s.order) \/ t = s
  <2>1. t \in Task /\ Submitted(t) /\ t.order \in Seq(Nat)
    BY InProgramSteps DEF Task
  <2>2. Inside(t.order, s.order) => t = s
    BY <1>1, <2>1, SameTask, InsideOfTask
  <2>3. Precedes(t.order, Successor(s.order)) <=> Precedes(t.order, s.order) \/ Inside(t.order, s.order)
    BY <1>1, <2>1, BeforeEnd
  <2> QED
    BY <1>2, <2>2, <2>3 DEF StepsUpto, StepsBefore
<1>4. s \notin StepsBefore(s.order)
  BY <1>1, <1>2, NotBeforeInside DEF StepsBefore
<1>5. StepsUpto(s) \subseteq ProgramSteps /\ StepsBefore(s.order) \subseteq ProgramSteps
  BY DEF StepsUpto, StepsBefore
<1> QED
  BY <1>3, <1>4, <1>5

\* The top frame holds a task of the program, if it is not the root.
LEMMA TopOfProgram ==
  ASSUME IInv, FramesOfProgram, Len(stack) > 1
  PROVE  /\ TaskOf(Top) \in Task /\ Submitted(TaskOf(Top))
         /\ Top.order \in Seq(Nat) /\ Top.next \in Nat /\ Top.order # <<>>
         /\ TaskOf(Top).order = Top.order /\ TaskOf(Top).path = Top.path /\ TaskOf(Top).type = Top.type
<1>1. Top \in Frame /\ TaskOf(Top) \in Task /\ Len(stack) \in Nat
  BY TopIsTask DEF IInv
<1>2. Submitted(TaskOf(Top))
  BY <1>1 DEF FramesOfProgram, Top
<1>3. TaskOf(Top).order = Top.order /\ TaskOf(Top).path = Top.path /\ TaskOf(Top).type = Top.type
  BY DEF TaskOf
<1>4. Top.order \in Seq(Nat) /\ Top.next \in Nat /\ Top.path \in Seq(Keys)
  BY <1>1 DEF Frame
<1>5. Top.order # <<>>
  BY <1>2, <1>3, <1>4, EmptySeq DEF Submitted
<1> QED
  BY <1>1, <1>2, <1>3, <1>4, <1>5

\* What precedes a running STEP is in the past, and nothing else.
LEMMA PastOfStep ==
  ASSUME IInv, FramesOfProgram, InStep
  PROVE  TaskOf(Top) \in ProgramSteps /\ Past = StepsBefore(Top.order)
<1> DEFINE step == TaskOf(Top)
<1>1. /\ step \in Task /\ Submitted(step) /\ step.order = Top.order /\ step.type = "STEP"
      /\ Top.order \in Seq(Nat) /\ Top.next \in Nat
  BY TopOfProgram DEF InStep
<1> HIDE DEF step
<1>2. step \in ProgramSteps
  BY <1>1, InProgramSteps
<1>3. ASSUME NEW t \in ProgramSteps
      PROVE  t \in StepsBefore(Position(Top)) /\ t # step <=> t \in StepsBefore(Top.order)
  <2>1. t \in Task /\ Submitted(t) /\ t.order \in Seq(Nat)
    BY InProgramSteps DEF Task
  <2>2. Inside(t.order, Top.order) => t = step
    BY <1>1, <2>1, SameTask, InsideOfTask
  <2>3. Precedes(t.order, Position(Top)) <=>
          \/ Precedes(t.order, Top.order)
          \/ Inside(t.order, Top.order)
               /\ (Len(t.order) = Len(Top.order) \/ t.order[Len(Top.order) + 1] < Top.next)
    BY <1>1, <2>1, BeforePosition DEF Position
  <2>4. t = step => ~Precedes(t.order, Top.order)
    BY <1>1, <1>2, UptoStep DEF StepsBefore
  <2> QED
    BY <2>2, <2>3, <2>4 DEF StepsBefore
<1> QED
  BY <1>2, <1>3 DEF Past, StepsBefore, step

\* Outside of STEPs, what precedes the position is in the past.
LEMMA PastOfOther ==
  IInv /\ FramesOfProgram /\ stack # <<>> /\ ~InStep =>
    Past = StepsBefore(Position(Top)) /\ Top.type # "STEP"
<1> SUFFICES ASSUME IInv, FramesOfProgram, stack # <<>>, ~InStep
             PROVE  Past = StepsBefore(Position(Top)) /\ Top.type # "STEP"
  OBVIOUS
<1>1. Len(stack) \in Nat \ {0}
  BY EmptySeq DEF IInv, TypeOK
<1>2. Top.type # "STEP"
  BY <1>1 DEF FramesOfProgram, InStep, Top
<1>3. TaskOf(Top) \notin ProgramSteps
  BY <1>2, InProgramSteps DEF TaskOf
<1> QED
  BY <1>2, <1>3 DEF Past, StepsBefore

\* When the body of a STAGE is over, what precedes the end of it is in the past.
LEMMA UptoStage ==
  ASSUME IInv, FramesOfProgram, Len(stack) > 1, ~InStep, Top.next >= Len(Program[Top.path]),
         Top.path \in DOMAIN Program
  PROVE  StepsUpto(TaskOf(Top)) = Past
<1> DEFINE task == TaskOf(Top)
<1>1. /\ task \in Task /\ Submitted(task) /\ task.order = Top.order /\ task.type # "STEP"
      /\ task.path = Top.path
      /\ Top.order \in Seq(Nat) /\ Top.next \in Nat /\ Top.order # <<>>
  BY TopOfProgram DEF InStep
<1>2. Past = StepsBefore(Position(Top))
  BY PastOfOther, EmptySeq DEF IInv, TypeOK
<1>3. Len(Program[Top.path]) \in Nat
  BY ConsistentExecutionAssumption
<1> HIDE DEF task
<1>4. ASSUME NEW t \in ProgramSteps
      PROVE  t \in StepsUpto(task) <=> t \in StepsBefore(Position(Top))
  <2>1. t \in Task /\ Submitted(t) /\ t.order \in Seq(Nat) /\ t.type = "STEP"
    BY InProgramSteps DEF Task
  <2>2. Inside(t.order, Top.order) =>
          Len(t.order) # Len(Top.order) /\ t.order[Len(Top.order) + 1] < Top.next
    <3> SUFFICES ASSUME Inside(t.order, Top.order)
                 PROVE  Len(t.order) # Len(Top.order) /\ t.order[Len(Top.order) + 1] < Top.next
      OBVIOUS
    <3>1. Len(t.order) # Len(Top.order)
      BY <1>1, <2>1, SameTask
    <3>2. t.order[Len(Top.order) + 1] < Len(Program[Top.path])
      BY <1>1, <2>1, <3>1, InsideOfTask
    <3>3. t.order[Len(Top.order) + 1] \in Nat
      <4>1. Len(t.order) >= Len(Top.order) /\ Len(t.order) \in Nat /\ Len(Top.order) \in Nat
        BY <1>1, <2>1 DEF Inside
      <4>2. Len(Top.order) + 1 \in 1..Len(t.order)
        BY <3>1, <4>1
      <4> QED
        BY <2>1, <4>2
    <3> QED
      BY <1>1, <1>3, <3>1, <3>2, <3>3
  <2>3. Precedes(t.order, Position(Top)) <=>
          \/ Precedes(t.order, Top.order)
          \/ Inside(t.order, Top.order)
               /\ (Len(t.order) = Len(Top.order) \/ t.order[Len(Top.order) + 1] < Top.next)
    BY <1>1, <2>1, BeforePosition DEF Position
  <2>4. Precedes(t.order, Successor(Top.order)) <=>
          Precedes(t.order, Top.order) \/ Inside(t.order, Top.order)
    BY <1>1, <2>1, BeforeEnd
  <2> QED
    BY <1>1, <2>2, <2>3, <2>4 DEF StepsUpto, StepsBefore
<1> QED
  BY <1>2, <1>4 DEF StepsUpto, StepsBefore, task

-----------------------------------------------------------------------------
\* What the running body submits next is a task of the program.
LEMMA NextSubmitted ==
  ASSUME IInv, ProgramPaths, FramesOfProgram, Pending
  PROVE  LET task == Subtask(Top, NextTask.key, NextTask.type) IN
         /\ task \in Task /\ Submitted(task)
         /\ task.order = Position(Top) /\ task.type = NextTask.type
<1> DEFINE task == Subtask(Top, NextTask.key, NextTask.type)
           n == Len(Top.path) + 1
<1>0. stack # <<>>
  BY DEF IInv, TypeOK, Pending
<1>1. Len(stack) \in Nat \ {0}
  BY EmptySeq DEF IInv, TypeOK, Pending
<1> Len(stack) # 1 => Len(stack) > 1
  BY <1>1
<1>2. NextTask.key \in Keys /\ NextTask.type \in TaskType
  BY NextTaskTyped DEF IInv
<1>3. Top \in Frame /\ task \in Task
  BY <1>0, <1>2, SubtaskType DEF IInv
<1>4. Top.path \in Seq(Keys) /\ Top.order \in Seq(Nat) /\ Top.next \in Nat
  BY <1>3 DEF Frame
<1>5. Top.path \in DOMAIN Program
  BY <1>1 DEF ProgramPaths, Pending, Top
<1>6. Len(Top.order) = Len(Top.path)
  <2>1. CASE Len(stack) = 1
    BY <1>0, <2>1 DEF FramesOfProgram, Top
  <2>2. CASE Len(stack) # 1
    <3>1. Submitted(TaskOf(Top)) /\ TaskOf(Top).order = Top.order /\ TaskOf(Top).path = Top.path
      <4>1. Len(stack) > 1
        BY <1>1, <2>2
      <4> QED
        BY <4>1, TopOfProgram
    <3>2. Len(TaskOf(Top).order) = Len(TaskOf(Top).path)
      BY <3>1, Zenon DEF Submitted
    <3> QED
      BY <3>1, <3>2
  <2> QED
    BY <2>1, <2>2
<1>7. /\ task.path = Append(Top.path, NextTask.key) /\ task.order = Append(Top.order, Top.next)
      /\ task.type = NextTask.type /\ Position(Top) = Append(Top.order, Top.next)
  BY DEF Subtask, Position
<1>8. /\ Len(task.path) = n /\ Len(task.order) = n /\ n \in Nat \ {0}
      /\ task.path[n] = NextTask.key /\ task.order[n] = Top.next
      /\ \A i \in 1..(n - 1) : task.path[i] = Top.path[i] /\ task.order[i] = Top.order[i]
  BY <1>4, <1>6, <1>7, <1>2
<1>9. task.path \in Seq(Keys)
  BY <1>3 DEF Task
<1>10. ASSUME NEW i \in 1..n
       PROVE  SubSeq(task.path, 1, i - 1) = SubSeq(Top.path, 1, i - 1)
  <2>1. /\ Len(SubSeq(task.path, 1, i - 1)) = i - 1 /\ Len(SubSeq(Top.path, 1, i - 1)) = i - 1
        /\ SubSeq(task.path, 1, i - 1) \in Seq(Keys) /\ SubSeq(Top.path, 1, i - 1) \in Seq(Keys)
        /\ \A j \in 1..(i - 1) : /\ SubSeq(task.path, 1, i - 1)[j] = task.path[j]
                                 /\ SubSeq(Top.path, 1, i - 1)[j] = Top.path[j]
    BY <1>4, <1>8, <1>9, <1>10
  <2> QED
    BY <1>8, <1>10, <2>1, SeqEqual
<1>11. SubSeq(Top.path, 1, n - 1) = Top.path
  <2>1. /\ Len(SubSeq(Top.path, 1, n - 1)) = n - 1 /\ n - 1 = Len(Top.path)
        /\ SubSeq(Top.path, 1, n - 1) \in Seq(Keys)
        /\ \A j \in 1..(n - 1) : SubSeq(Top.path, 1, n - 1)[j] = Top.path[j]
    BY <1>4, <1>8
  <2> QED
    BY <1>4, <2>1, SeqEqual
<1>12. Top.next + 1 \in 1..Len(Program[Top.path]) /\ NextTask = Program[Top.path][Top.next + 1]
  <2>1. Len(Program[Top.path]) \in Nat
    BY <1>5, ConsistentExecutionAssumption
  <2> QED
    BY <1>4, <2>1 DEF Pending, NextTask
<1>13. NextTask = [key |-> NextTask.key, type |-> NextTask.type]
  <2> DEFINE tasks == Program[Top.path]
  <2>1. tasks \in Seq([key : Keys, type : TaskType])
    BY <1>5, ConsistentExecutionAssumption
  <2>2. NextTask = tasks[Top.next + 1] /\ Top.next + 1 \in 1..Len(tasks)
    BY <1>12
  <2> HIDE DEF tasks
  <2>3. NextTask \in [key : Keys, type : TaskType]
    BY <2>1, <2>2, ElementOfSeq
  <2> QED
    BY <2>3
<1>14. ASSUME NEW i \in 1..n
       PROVE  /\ SubSeq(task.path, 1, i - 1) \in DOMAIN Program
              /\ task.order[i] + 1 \in 1..Len(Program[SubSeq(task.path, 1, i - 1)])
              /\ Program[SubSeq(task.path, 1, i - 1)][task.order[i] + 1] =
                   [key |-> task.path[i], type |-> IF i = n THEN task.type ELSE "STAGE"]
  <2>1. CASE i = n
    <3>1. SubSeq(task.path, 1, i - 1) = Top.path /\ task.order[i] = Top.next
      BY <1>8, <1>10, <1>11, <2>1
    <3>2. [key |-> task.path[i], type |-> IF i = n THEN task.type ELSE "STAGE"] = NextTask
      BY <1>7, <1>8, <1>13, <2>1
    <3> HIDE DEF task, n
    <3> QED
      BY <1>5, <1>12, <3>1, <3>2, Zenon
  <2>2. CASE i # n
    <3>1. i \in 1..(n - 1) /\ i \in 1..Len(Top.path) /\ Len(stack) > 1
      <4>1. i \in 1..(n - 1)
        BY <1>8, <1>14, <2>2
      <4>2. Len(stack) # 1
        <5>1. Len(stack) = 1 => Top.path = <<>>
          BY <1>0 DEF FramesOfProgram, Top
        <5> QED
          BY <4>1, <5>1
      <4>3. n - 1 = Len(Top.path)
        BY <1>4
      <4>4. Len(stack) > 1
        BY <1>1, <4>2
      <4>5. i \in 1..Len(Top.path)
        BY <4>1, <4>3
      <4> QED
        BY <4>1, <4>4, <4>5
    <3>2. Submitted(TaskOf(Top)) /\ TaskOf(Top) \in Task /\ TaskOf(Top).path = Top.path
          /\ TaskOf(Top).order = Top.order /\ TaskOf(Top).type = Top.type
      BY <3>1, TopOfProgram
    <3>3. Top.type = "STAGE"
      BY <3>1, <1>1 DEF IInv, TypeOK, Pending, TaskType, Top
    <3>4. /\ SubSeq(Top.path, 1, i - 1) \in DOMAIN Program
          /\ Top.order[i] + 1 \in 1..Len(Program[SubSeq(Top.path, 1, i - 1)])
          /\ Program[SubSeq(Top.path, 1, i - 1)][Top.order[i] + 1] =
               [key |-> Top.path[i], type |-> IF i = Len(Top.path) THEN "STAGE" ELSE "STAGE"]
      <4> DEFINE u == TaskOf(Top)
      <4>1. u \in Task /\ Submitted(u) /\ u.path = Top.path /\ u.order = Top.order
            /\ u.type = "STAGE"
        BY <3>2, <3>3
      <4> HIDE DEF u
      <4>2. i \in 1..Len(u.path)
        BY <3>1, <4>1
      <4>3. /\ SubSeq(u.path, 1, i - 1) \in DOMAIN Program
            /\ u.order[i] + 1 \in 1..Len(Program[SubSeq(u.path, 1, i - 1)])
            /\ Program[SubSeq(u.path, 1, i - 1)][u.order[i] + 1] =
                 [key |-> u.path[i], type |-> IF i = Len(u.path) THEN u.type ELSE "STAGE"]
        BY <4>1, <4>2, SubmittedAt, Zenon
      <4> QED
        BY <4>1, <4>3
    <3>5. task.path[i] = Top.path[i] /\ task.order[i] = Top.order[i]
      BY <1>8, <3>1
    <3>6. [key |-> task.path[i], type |-> IF i = n THEN task.type ELSE "STAGE"] =
          [key |-> Top.path[i], type |-> IF i = Len(Top.path) THEN "STAGE" ELSE "STAGE"]
      BY <2>2, <3>5
    <3> HIDE DEF task, n
    <3> QED
      BY <1>10, <3>4, <3>5, <3>6, Zenon
  <2> QED
    BY <2>1, <2>2
<1>15. task.path # <<>>
  BY <1>8, <1>9, EmptySeq
<1> HIDE DEF task, n
<1>16. Submitted(task)
  <2>1. Len(task.path) = n /\ Len(task.order) = Len(task.path)
    BY <1>8
  <2> QED
    BY <1>14, <1>15, <2>1 DEF Submitted
<1> QED
  BY <1>3, <1>7, <1>16 DEF task

-----------------------------------------------------------------------------
(* What runs stays what the program submitted. *)

\* Frames are changed, and their tasks are not.
LEMMA FramesKept ==
  ASSUME TypeOK, FramesOfProgram, stack # <<>>, stack' \in Seq(Frame), Len(stack') <= Len(stack),
         \A i \in 1..Len(stack') : TaskOf(stack'[i]) = TaskOf(stack[i])
  PROVE  FramesOfProgram'
<1>1. Len(stack) \in Nat \ {0} /\ Len(stack') \in Nat
  BY EmptySeq DEF TypeOK
<1>2. ASSUME stack' # <<>>
      PROVE  stack'[1].path = <<>> /\ stack'[1].order = <<>> /\ stack'[1].type = "ROOT"
  <2>1. Len(stack') # 0
    BY <1>2, EmptySeq
  <2>2. TaskOf(stack'[1]) = TaskOf(stack[1])
    BY <1>1, <2>1
  <2> QED
    BY <2>2 DEF TaskOf, FramesOfProgram
<1>3. ASSUME NEW i \in 2..Len(stack') PROVE Submitted(TaskOf(stack'[i]))
  <2>1. i \in 1..Len(stack') /\ i \in 2..Len(stack)
    BY <1>1, <1>3
  <2> QED
    BY <2>1 DEF FramesOfProgram
<1> QED
  BY <1>2, <1>3 DEF FramesOfProgram, TaskOf

LEMMA FramesNext ==
  ASSUME CInv, FramesOfProgram, [CNext]_cvars
  PROVE  FramesOfProgram'
<1>0. IInv /\ TypeOK /\ ProgramPaths /\ CoordinatesAgree
  BY DEF CInv, IInv
<1>1. CASE UNCHANGED stack
  BY <1>1 DEF FramesOfProgram
<1>2. CASE COpen
  <2>1. stack' = <<RootFrame>>
    BY <1>2 DEF COpen, Open
  <2> QED
    BY <2>1 DEF FramesOfProgram, RootFrame
<1>3. CASE CClose \/ CCrash
  <2>1. stack' = <<>>
    BY <1>3 DEF CClose, CCrash, Close, Crash, Forget
  <2> QED
    BY <2>1 DEF FramesOfProgram
<1>4. CASE CScope \/ CSkip \/ CSkipFails
  <2>1. stack # <<>>
    BY <1>0, <1>4 DEF CScope, CSkip, CSkipFails, EnterScope, ExitScope, Skip, SkipFails, CanSubmit,
                      TypeOK
  <2>2. Top \in Frame /\ Top.scopes \in Seq(BOOLEAN) /\ Top = stack[Len(stack)]
    BY <1>0, <2>1, TopFrame
  <2>3. PICK f \in Frame : TaskOf(f) = TaskOf(Top) /\ stack' = [stack EXCEPT ![Len(stack)] = f]
    <3>1. CASE CScope
      <4>1. PICK scopes \in Seq(BOOLEAN) :
              stack' = [stack EXCEPT ![Len(stack)] = [Top EXCEPT !.scopes = scopes]]
        <5>1. CASE EnterScope(TRUE)
          <6>1. Append(Top.scopes, skipStages) \in Seq(BOOLEAN)
            BY <1>0, <2>2 DEF TypeOK
          <6>2. stack' = [stack EXCEPT ![Len(stack)] =
                            [Top EXCEPT !.scopes = Append(Top.scopes, skipStages)]]
            BY <5>1 DEF EnterScope, Top
          <6> QED
            BY <6>1, <6>2
        <5>2. CASE ExitScope
          <6>1. SubSeq(Top.scopes, 1, Len(Top.scopes) - 1) \in Seq(BOOLEAN)
            BY <2>2, <5>2 DEF ExitScope
          <6>2. stack' = [stack EXCEPT ![Len(stack)] =
                            [Top EXCEPT !.scopes = SubSeq(Top.scopes, 1, Len(Top.scopes) - 1)]]
            BY <5>2 DEF ExitScope, Top
          <6> QED
            BY <6>1, <6>2
        <5> QED
          BY <3>1, <5>1, <5>2 DEF CScope
      <4>2. [Top EXCEPT !.scopes = scopes] \in Frame
        BY <2>2 DEF Frame
      <4>3. TaskOf([Top EXCEPT !.scopes = scopes]) = TaskOf(Top)
        BY <2>2 DEF Frame, TaskOf
      <4> QED
        BY <4>1, <4>2, <4>3
    <3>2. CASE CSkip \/ CSkipFails
      <4>1. stack' = Advance(stack, Len(stack))
        BY <3>2 DEF CSkip, CSkipFails, Skip, SkipFails
      <4> QED
        BY <1>0, <2>1, <4>1, AdvanceTop
    <3> QED
      BY <1>4, <3>1, <3>2
  <2>4. /\ stack' \in Seq(Frame) /\ Len(stack') = Len(stack)
        /\ \A i \in 1..Len(stack) : stack'[i] = IF i = Len(stack) THEN f ELSE stack[i]
    BY <1>0, <2>1, <2>3, ExceptTop
  <2>5. \A i \in 1..Len(stack) : TaskOf(stack'[i]) = TaskOf(stack[i])
    BY <2>3, <2>4 DEF Top
  <2>6. Len(stack') <= Len(stack)
    BY <1>0, <2>4 DEF TypeOK
  <2> QED
    BY <1>0, <2>1, <2>4, <2>5, <2>6, FramesKept
<1>5. CASE CRun
  <2> DEFINE task == Subtask(Top, NextTask.key, NextTask.type)
             f == FrameOf(task)
  <2>1. Pending /\ stack' = Append(stack, f) /\ stack # <<>>
    BY <1>0, <1>5 DEF CRun, Run, CanSubmit, TypeOK
  <2>2. task \in Task /\ Submitted(task)
    BY <1>0, <2>1, NextSubmitted
  <2>3. f \in Frame /\ TaskOf(f) = task
    BY <2>2 DEF FrameOf, Frame, Task, TaskOf
  <2>4. stack \in Seq(Frame) /\ Len(stack) \in Nat \ {0}
    BY <1>0, <2>1, EmptySeq DEF TypeOK
  <2> HIDE DEF f, task
  <2>5. /\ Len(stack') = Len(stack) + 1 /\ stack'[Len(stack) + 1] = f
        /\ \A i \in 1..Len(stack) : stack'[i] = stack[i]
    BY <2>1, <2>3, <2>4
  <2>6. \A i \in 2..Len(stack') : i = Len(stack) + 1 \/ i \in 2..Len(stack)
    BY <2>4, <2>5
  <2>7. \A i \in 2..Len(stack') : Submitted(TaskOf(stack'[i]))
    BY <2>2, <2>3, <2>4, <2>5, <2>6 DEF FramesOfProgram
  <2>8. stack'[1] = stack[1]
    BY <2>4, <2>5
  <2> QED
    BY <2>1, <2>7, <2>8 DEF FramesOfProgram, TaskOf
<1>6. CASE CFinished \/ CHandled \/ CHandlerRaises
  <2>1. Leave /\ Len(stack) > 1
    BY <1>0, <1>6 DEF CFinished, CHandled, CHandlerRaises, Finished, Handled, HandlerRaises,
                      ReturnToCaller, RaiseInCaller, TypeOK
  <2>2. /\ stack' \in Seq(Frame) /\ Len(stack') = Len(stack) - 1
        /\ \A i \in 1..(Len(stack) - 2) : stack'[i] = stack[i]
        /\ Top' = [Parent EXCEPT !.next = Parent.next + 1]
    BY <1>0, <2>1, LeaveStack
  <2>3. Parent \in Frame /\ Len(stack) \in Nat /\ stack # <<>>
    BY <1>0, <2>1, TopIsTask, EmptySeq
  <2>4. TaskOf(stack'[Len(stack) - 1]) = TaskOf(stack[Len(stack) - 1])
    BY <2>2, <2>3, NextFrame DEF Top, Parent
  <2>5. \A i \in 1..Len(stack') : i = Len(stack) - 1 \/ i \in 1..(Len(stack) - 2)
    BY <2>2, <2>3
  <2>6. \A i \in 1..Len(stack') : TaskOf(stack'[i]) = TaskOf(stack[i])
    BY <2>2, <2>4, <2>5
  <2>7. Len(stack') <= Len(stack)
    BY <2>2, <2>3
  <2> QED
    BY <1>0, <2>2, <2>3, <2>6, <2>7, FramesKept
<1>7. \/ UNCHANGED stack \/ COpen \/ CClose \/ CCrash \/ CScope \/ CSkip \/ CSkipFails \/ CRun
      \/ CFinished \/ CHandled \/ CHandlerRaises
  <2>1. CASE EnsureDeleted \/ EnsureCreated \/ CheckedOut \/ CSave \/ UNCHANGED cvars
    BY <2>1 DEF EnsureDeleted, EnsureCreated, CheckedOut, CSave, cvars, vars
  <2>2. CASE WritingAllowed \/ StageInvoked \/ StepInvokedRaises
    BY <2>2 DEF WritingAllowed, StageInvoked, StepInvokedRaises, Invoked, InvokedRaises
  <2>3. CASE \/ CBodyReturns \/ CBodyRaises \/ CBodyCatches \/ CBodyAborts \/ CMarkFinished
             \/ CMarkRaises \/ CFinishedRaises
    BY <2>3 DEF CBodyReturns, CBodyRaises, CBodyCatches, CBodyAborts, CMarkFinished, CMarkRaises,
                CFinishedRaises, BodyReturns, BodyRaises, BodyCatches, BodyAborts, MarkFinished,
                MarkRaises, FinishedRaises
  <2> QED
    BY <2>1, <2>2, <2>3 DEF CNext, Progress, Accidents
<1> QED
  BY <1>1, <1>2, <1>3, <1>4, <1>5, <1>6, <1>7

-----------------------------------------------------------------------------
(* What is done, as long as nothing was raised, and what is on record. *)

Going == phase \in {"invoking", "body", "returned", "recorded"}

\* All that is in the past is recorded, the last of it is latest_step, and the branch that
\* is checked out, or is about to be, has its data.
PastDone ==
  Going =>
    /\ Past \subseteq RecordedSteps
    /\ IsLastOf(latest, Past)
    /\ done \subseteq Past
    /\ Past \ torn \subseteq head[branch]
    /\ todo = "checkout" => Past \ torn \subseteq head[TaskOf(Top)]

\* A record is one of a task of the program; what precedes the end of that task is
\* recorded, and the last of it is what a STAGE's record keeps.
RecordsDone ==
  \A i \in DOMAIN records :
    LET r == records[i] IN
    /\ Submitted(r.task)
    /\ StepsUpto(r.task) \subseteq RecordedSteps
    /\ r.task.type = "STAGE" => IsLastOf(r.latest, StepsUpto(r.task))

\* The branch of a recorded STEP has the data of all that precede it.
DataDone == \A s \in RecordedSteps : StepsBefore(s.order) \ torn \subseteq head[s]

\* A STAGE is over when everything was submitted.
BodyOver ==
  phase \in {"returned", "recorded"} /\ ~InStep => Top.next >= Len(Program[Top.path])

TopRecorded == phase = "recorded" => IsRecorded(TaskOf(Top))

\* Nothing that was committed is gone from the working set.
HeadInWork == \A b \in DOMAIN head : head[b] \subseteq work[b]

\* Exceptions end the session: none of them is swallowed.
NothingSwallowed == exc # "tbc"

ProgramInv ==
  /\ FramesOfProgram /\ BodyOver /\ TopRecorded /\ NothingSwallowed
  /\ HeadInWork
  /\ RecordsDone /\ DataDone /\ PastDone
  /\ CompletedDataVisible

\* Exceptions end the session if the program does not catch them, and none is one that a
\* top-level task swallows.
ExceptionsEndSession == MayCatch = FALSE /\ "tbc" \notin Raisable

LEMMA NothingSwallowedNext ==
  ASSUME ExceptionsEndSession, NothingSwallowed, [CNext]_cvars
  PROVE  NothingSwallowed'
<1>1. CASE COpen \/ CClose \/ CCrash \/ CScope \/ CSkip \/ CSkipFails \/ CRun
  BY <1>1 DEF COpen, CClose, CCrash, CScope, CSkip, CSkipFails, CRun, Open, Close, Crash, Forget,
              EnterScope, ExitScope, Skip, SkipFails, Run, NothingSwallowed
<1>2. CASE \/ WritingAllowed \/ StageInvoked \/ StepInvokedRaises \/ CSave
           \/ EnsureDeleted \/ EnsureCreated \/ CheckedOut \/ UNCHANGED cvars
  BY <1>2 DEF WritingAllowed, StageInvoked, StepInvokedRaises, CSave, EnsureDeleted, EnsureCreated,
              CheckedOut, cvars, vars, Invoked, InvokedRaises, Throw, NothingSwallowed
<1>3. CASE CBodyReturns \/ CBodyRaises \/ CBodyCatches \/ CBodyAborts
  BY <1>3 DEF CBodyReturns, CBodyRaises, CBodyCatches, CBodyAborts, BodyReturns, BodyRaises,
              BodyCatches, BodyAborts, NothingSwallowed, ExceptionsEndSession
<1>4. CASE CMarkFinished \/ CMarkRaises \/ CFinished \/ CFinishedRaises \/ CHandled \/ CHandlerRaises
  BY <1>4 DEF CMarkFinished, CMarkRaises, CFinished, CFinishedRaises, CHandled, CHandlerRaises,
              MarkFinished, MarkRaises, Finished, FinishedRaises, Handled, HandlerRaises,
              ReturnToCaller, RaiseInCaller, Throw, NothingSwallowed
<1> QED
  BY <1>1, <1>2, <1>3, <1>4 DEF CNext, Progress, Accidents

\* The phases in which the record of the top frame is due, or made
LEMMA ReturnedNext ==
  ASSUME [CNext]_cvars, phase' \in {"returned", "recorded"}
  PROVE  \/ CBodyReturns \/ CMarkFinished
         \/ UNCHANGED <<phase, stack, records>>
<1>1. CASE COpen \/ CClose \/ CCrash \/ CScope \/ CSkip \/ CSkipFails \/ CRun
  BY <1>1 DEF COpen, CClose, CCrash, CScope, CSkip, CSkipFails, CRun, Open, Close, Crash, Forget,
              EnterScope, ExitScope, Skip, SkipFails, Run, CanSubmit
<1>2. CASE \/ WritingAllowed \/ StageInvoked \/ StepInvokedRaises \/ CSave
           \/ EnsureDeleted \/ EnsureCreated \/ CheckedOut \/ UNCHANGED cvars
  BY <1>2 DEF WritingAllowed, StageInvoked, StepInvokedRaises, CSave, EnsureDeleted, EnsureCreated,
              CheckedOut, cvars, vars, Invoked, InvokedRaises, Throw
<1>3. CASE CBodyRaises \/ CBodyCatches \/ CBodyAborts
  BY <1>3 DEF CBodyRaises, CBodyCatches, CBodyAborts, BodyRaises, BodyCatches, BodyAborts
<1>4. CASE CMarkRaises \/ CFinished \/ CFinishedRaises \/ CHandled \/ CHandlerRaises
  BY <1>4 DEF CMarkRaises, CFinished, CFinishedRaises, CHandled, CHandlerRaises,
              MarkRaises, Finished, FinishedRaises, Handled, HandlerRaises,
              ReturnToCaller, RaiseInCaller, Throw
<1> QED
  BY <1>1, <1>2, <1>3, <1>4 DEF CNext, Progress, Accidents

LEMMA TopNext ==
  ASSUME CInv, BodyOver, TopRecorded, [CNext]_cvars
  PROVE  BodyOver' /\ TopRecorded'
<1> SUFFICES ASSUME phase' \in {"returned", "recorded"}
             PROVE  BodyOver' /\ TopRecorded'
  BY DEF BodyOver, TopRecorded
<1>1. CASE UNCHANGED <<phase, stack, records>>
  <2>1. Top' = Top /\ (InStep' <=> InStep)
    BY <1>1 DEF Top, InStep
  <2> QED
    BY <1>1, <2>1 DEF BodyOver, TopRecorded, IsRecorded, TaskOf
<1>2. CASE CBodyReturns
  <2>1. /\ phase = "body" /\ stack' = stack /\ phase' = "returned" /\ Len(stack) > 1
        /\ ~InStep => ~Pending
    BY <1>2 DEF CBodyReturns, BodyReturns
  <2>2. Top' = Top /\ (InStep' <=> InStep)
    BY <2>1 DEF Top, InStep
  <2>3. ASSUME ~InStep PROVE Top.next >= Len(Program[Top.path])
    <3>1. ~(Top.next < Len(Program[Top.path]))
      BY <2>1, <2>3 DEF Pending, InStep
    <3>2. Top.next \in Nat /\ Top.path \in DOMAIN Program
      <4>1. Top \in Frame /\ Len(stack) \in Nat
        BY <2>1, TopIsTask DEF CInv, IInv
      <4>2. Top.path \in DOMAIN Program
        BY <2>1, <2>3, <4>1 DEF CInv, ProgramPaths, InStep, Top
      <4> QED
        BY <4>1, <4>2 DEF Frame
    <3>3. Len(Program[Top.path]) \in Nat
      BY <3>2, ConsistentExecutionAssumption
    <3> QED
      BY <3>1, <3>2, <3>3
  <2> QED
    BY <2>1, <2>2, <2>3 DEF BodyOver, TopRecorded
<1>3. CASE CMarkFinished
  <2>1. /\ phase = "returned" /\ stack' = stack /\ phase' = "recorded"
        /\ records' = Append(records, [task |-> TaskOf(Top), latest |-> latest])
    BY <1>3 DEF CMarkFinished, MarkFinished
  <2>2. Top' = Top /\ (InStep' <=> InStep) /\ TaskOf(Top)' = TaskOf(Top)
    BY <2>1 DEF Top, InStep, TaskOf
  <2>3. records \in Seq(Record)
    BY DEF CInv, IInv, TypeOK
  <2>4. /\ Len(records) + 1 \in DOMAIN records'
        /\ records'[Len(records) + 1] = [task |-> TaskOf(Top), latest |-> latest]
    BY <2>1, <2>3
  <2>5. IsRecorded(TaskOf(Top))'
    BY <2>2, <2>4 DEF IsRecorded
  <2> QED
    BY <2>1, <2>2, <2>5 DEF BodyOver, TopRecorded
<1> QED
  BY <1>1, <1>2, <1>3, ReturnedNext

-----------------------------------------------------------------------------
(* What happens to data and records. *)

\* What a step does to the committed data
LEMMA HeadChanges ==
  ASSUME CInv, [CNext]_cvars
  PROVE  \/ head' = head
         \/ EnsureDeleted /\ head' = [x \in DOMAIN head \ {TaskOf(Top)} |-> head[x]]
         \/ EnsureCreated /\ TaskOf(Top) \notin DOMAIN head
              /\ head' = [x \in DOMAIN head \union {TaskOf(Top)} |->
                            IF x = TaskOf(Top) THEN head[branch] ELSE head[x]]
         \/ /\ CFinished \/ CFinishedRaises
            /\ InStep /\ phase = "recorded" /\ head' = [head EXCEPT ![branch] = work[branch]]
<1>1. CASE COpen \/ CClose \/ CCrash \/ CScope \/ CSkip \/ CSkipFails \/ CRun
  BY <1>1 DEF COpen, CClose, CCrash, CScope, CSkip, CSkipFails, CRun, data, D!Disconnect, D!Checkout
<1>2. CASE \/ WritingAllowed \/ StageInvoked \/ StepInvokedRaises \/ CSave \/ CheckedOut
           \/ UNCHANGED cvars
  BY <1>2 DEF WritingAllowed, StageInvoked, StepInvokedRaises, CSave, CheckedOut, cvars, data,
              D!Checkout, D!AllowWriting, D!Save
<1>3. CASE EnsureDeleted
  BY <1>3 DEF EnsureDeleted, data, D!DeleteBranch
<1>4. CASE EnsureCreated
  BY <1>4 DEF EnsureCreated, D!NewBranch, D!HasBranch
<1>5. CASE \/ CBodyReturns \/ CBodyRaises \/ CBodyCatches \/ CBodyAborts \/ CMarkFinished
           \/ CMarkRaises \/ CHandled \/ CHandlerRaises
  BY <1>5 DEF CBodyReturns, CBodyRaises, CBodyCatches, CBodyAborts, CMarkFinished,
              CMarkRaises, CHandled, CHandlerRaises, data, D!RollbackAndDisallow
<1>6. CASE CFinished
  BY <1>6 DEF CFinished, Finished, data, D!CommitAndDisallow
<1>7. CASE CFinishedRaises
  BY <1>7 DEF CFinishedRaises, FinishedRaises, data, D!CommitOnly
<1> QED
  BY <1>1, <1>2, <1>3, <1>4, <1>5, <1>6, <1>7 DEF CNext, Progress, Accidents

\* ... and to the table and to what was torn.
LEMMA RecordsChange ==
  ASSUME CInv, [CNext]_cvars
  PROVE  /\ records' = records \/ CMarkFinished
         /\ torn \subseteq torn'
<1>1. CASE COpen \/ CClose \/ CCrash \/ CScope \/ CSkip \/ CSkipFails \/ CRun
  BY <1>1 DEF COpen, CClose, CCrash, CScope, CSkip, CSkipFails, CRun, Open, Close, Crash, Forget,
              EnterScope, ExitScope, Skip, SkipFails, Run, Tear
<1>2. CASE \/ WritingAllowed \/ StageInvoked \/ StepInvokedRaises \/ CSave
           \/ EnsureDeleted \/ EnsureCreated \/ CheckedOut \/ UNCHANGED cvars
  BY <1>2 DEF WritingAllowed, StageInvoked, StepInvokedRaises, CSave, EnsureDeleted, EnsureCreated,
              CheckedOut, cvars, vars, Invoked, InvokedRaises
<1>3. CASE CBodyReturns \/ CBodyRaises \/ CBodyCatches \/ CBodyAborts
  BY <1>3 DEF CBodyReturns, CBodyRaises, CBodyCatches, CBodyAborts, BodyReturns, BodyRaises,
              BodyCatches, BodyAborts
<1>4. CASE CMarkFinished \/ CMarkRaises \/ CFinished \/ CFinishedRaises \/ CHandled \/ CHandlerRaises
  BY <1>4 DEF CMarkFinished, CMarkRaises, CFinished, CFinishedRaises, CHandled, CHandlerRaises,
              MarkRaises, Finished, FinishedRaises, Handled, HandlerRaises,
              ReturnToCaller, RaiseInCaller, Throw, Tear
<1> QED
  BY <1>1, <1>2, <1>3, <1>4 DEF CNext, Progress, Accidents

LEMMA HeadInWorkNext ==
  ASSUME CInv, HeadInWork, [CNext]_cvars
  PROVE  HeadInWork'
<1>0. DOMAIN head = DOMAIN work /\ branch \in DOMAIN head
  BY DEF CInv, DataInv, DataTypeOK
<1>1. CASE UNCHANGED <<head, work>>
  BY <1>1 DEF HeadInWork
<1>2. CASE work' = head /\ head' = head
  BY <1>2 DEF HeadInWork
<1>3. CASE EnsureDeleted /\ D!DeleteBranch(TaskOf(Top))
  BY <1>0, <1>3 DEF D!DeleteBranch, HeadInWork
<1>4. CASE EnsureCreated
  BY <1>0, <1>4 DEF EnsureCreated, D!NewBranch, HeadInWork
<1>5. CASE head' = head /\ work' = [work EXCEPT ![branch] = @ \union {TaskOf(Top)}]
  BY <1>0, <1>5 DEF HeadInWork
<1>6. CASE head' = [head EXCEPT ![branch] = work[branch]] /\ work' = work
  BY <1>0, <1>6 DEF HeadInWork
<1>7. CASE work' = [work EXCEPT ![branch] = head[branch]] /\ head' = head
  BY <1>0, <1>7 DEF HeadInWork
<1>8. \/ UNCHANGED <<head, work>>
      \/ work' = head /\ head' = head
      \/ EnsureDeleted /\ D!DeleteBranch(TaskOf(Top))
      \/ EnsureCreated
      \/ head' = head /\ work' = [work EXCEPT ![branch] = @ \union {TaskOf(Top)}]
      \/ head' = [head EXCEPT ![branch] = work[branch]] /\ work' = work
      \/ work' = [work EXCEPT ![branch] = head[branch]] /\ head' = head
  <2>1. CASE COpen \/ CClose \/ CCrash \/ CScope \/ CSkip \/ CSkipFails \/ CRun
    BY <2>1 DEF COpen, CClose, CCrash, CScope, CSkip, CSkipFails, CRun, data, D!Disconnect, D!Checkout
  <2>2. CASE \/ WritingAllowed \/ StageInvoked \/ StepInvokedRaises \/ CSave \/ CheckedOut
             \/ UNCHANGED cvars
    BY <2>2 DEF WritingAllowed, StageInvoked, StepInvokedRaises, CSave, CheckedOut, cvars, data,
                D!Checkout, D!AllowWriting, D!Save
  <2>3. CASE EnsureDeleted \/ EnsureCreated
    BY <2>3 DEF EnsureDeleted, data
  <2>4. CASE \/ CBodyReturns \/ CBodyRaises \/ CBodyCatches \/ CBodyAborts \/ CMarkFinished
             \/ CMarkRaises \/ CHandled \/ CHandlerRaises
    BY <2>4 DEF CBodyReturns, CBodyRaises, CBodyCatches, CBodyAborts, CMarkFinished,
                CMarkRaises, CHandled, CHandlerRaises, data, D!RollbackAndDisallow
  <2>5. CASE CFinished \/ CFinishedRaises
    BY <2>5 DEF CFinished, CFinishedRaises, data, D!CommitAndDisallow, D!CommitOnly
  <2> QED
    BY <2>1, <2>2, <2>3, <2>4, <2>5 DEF CNext, Progress, Accidents
<1> QED
  BY <1>1, <1>2, <1>3, <1>4, <1>5, <1>6, <1>7, <1>8

\* A task is marked: it is one more record, and if it is a STEP, one more recorded STEP.
LEMMA Marked ==
  ASSUME IInv, CMarkFinished
  PROVE  /\ phase = "returned" /\ Len(stack) > 1 /\ UNCHANGED <<stack, data, torn>>
         /\ Len(records) \in Nat /\ DOMAIN records = 1..Len(records)
         /\ DOMAIN records' = 1..(Len(records) + 1)
         /\ \A i \in DOMAIN records : records'[i] = records[i]
         /\ records'[Len(records) + 1] = [task |-> TaskOf(Top), latest |-> latest]
         /\ RecordedSteps \subseteq RecordedSteps'
         /\ RecordedSteps' \subseteq RecordedSteps \union {TaskOf(Top)}
         /\ InStep => TaskOf(Top) \in RecordedSteps'
         /\ ~InStep => RecordedSteps' = RecordedSteps
<1>1. /\ phase = "returned" /\ UNCHANGED <<stack, data, torn>>
      /\ records' = Append(records, [task |-> TaskOf(Top), latest |-> latest])
  BY DEF CMarkFinished, MarkFinished
<1>2. records \in Seq(Record) /\ Len(stack) > 1
  BY <1>1 DEF IInv, TypeOK
<1>3. /\ Len(records) \in Nat /\ DOMAIN records = 1..Len(records)
      /\ DOMAIN records' = 1..(Len(records) + 1)
      /\ \A i \in DOMAIN records : records'[i] = records[i]
      /\ records'[Len(records) + 1] = [task |-> TaskOf(Top), latest |-> latest]
  BY <1>1, <1>2
<1>4. \A s : IsRecorded(s)' <=> IsRecorded(s) \/ s = TaskOf(Top)
  <2>1. \A i \in 1..(Len(records) + 1) : i \in DOMAIN records \/ i = Len(records) + 1
    BY <1>3
  <2>2. \A i \in DOMAIN records : i \in 1..(Len(records) + 1)
    BY <1>3
  <2>3. Len(records) + 1 \in 1..(Len(records) + 1)
    BY <1>3
  <2>4. records'[Len(records) + 1].task = TaskOf(Top)
    BY <1>3
  <2> QED
    BY <1>3, <2>1, <2>2, <2>3, <2>4 DEF IsRecorded
<1>5. \A s : s \in RecordedSteps' <=> IsRecorded(s)' /\ s.type = "STEP"
  BY DEF RecordedSteps, IsRecorded
<1>6. \A s : s \in RecordedSteps' <=> s \in RecordedSteps \/ (s = TaskOf(Top) /\ s.type = "STEP")
  BY <1>4, <1>5, OnRecord
<1>7. TaskOf(Top).type = "STEP" <=> InStep
  BY <1>2 DEF TaskOf, InStep
<1> QED
  BY <1>1, <1>2, <1>3, <1>6, <1>7

\* When the body is over, the end of its task is the next position.
LEMMA EndOfBody ==
  ASSUME CInv, FramesOfProgram, BodyOver, phase \in {"returned", "recorded"}
  PROVE  StepsUpto(TaskOf(Top)) = IF InStep THEN Past \union {TaskOf(Top)} ELSE Past
<1>1. IInv /\ Len(stack) > 1
  BY DEF CInv, IInv, TypeOK
<1>2. CASE InStep
  <2>1. TaskOf(Top) \in ProgramSteps /\ Past = StepsBefore(Top.order)
    BY <1>1, <1>2, PastOfStep
  <2>2. TaskOf(Top).order = Top.order
    BY DEF TaskOf
  <2> QED
    BY <1>2, <2>1, <2>2, UptoStep
<1>3. CASE ~InStep
  <2>1. Top.next >= Len(Program[Top.path])
    BY <1>3 DEF BodyOver
  <2>2. Top.path \in DOMAIN Program
    <3>1. Len(stack) \in Nat
      BY <1>1 DEF IInv, TypeOK
    <3> QED
      BY <1>1, <1>3, <3>1 DEF CInv, ProgramPaths, InStep, Top
  <2> QED
    BY <1>1, <1>3, <2>1, <2>2, UptoStage
<1> QED
  BY <1>2, <1>3

LEMMA RecordsDoneNext ==
  ASSUME CInv, FramesOfProgram, BodyOver, RecordsDone, PastDone, [CNext]_cvars
  PROVE  RecordsDone'
<1>1. CASE records' = records
  <2>1. RecordedSteps' = RecordedSteps
    BY <1>1 DEF RecordedSteps
  <2> QED
    BY <1>1, <2>1 DEF RecordsDone, StepsUpto, StepsBefore, IsLastOf
<1>2. CASE CMarkFinished
  <2> DEFINE n == Len(records)
             task == TaskOf(Top)
  <2>1. /\ phase = "returned" /\ Len(stack) > 1 /\ n \in Nat /\ DOMAIN records = 1..n
        /\ DOMAIN records' = 1..(n + 1)
        /\ \A i \in DOMAIN records : records'[i] = records[i]
        /\ records'[n + 1] = [task |-> task, latest |-> latest]
        /\ RecordedSteps \subseteq RecordedSteps'
        /\ InStep => task \in RecordedSteps'
    BY <1>2, Marked DEF CInv
  <2>2. Past \subseteq RecordedSteps /\ IsLastOf(latest, Past)
    BY <2>1 DEF PastDone, Going
  <2>3. StepsUpto(task) = IF InStep THEN Past \union {task} ELSE Past
    BY <2>1, EndOfBody
  <2>4. Submitted(task) /\ (task.type = "STEP" <=> InStep)
    BY <2>1, TopOfProgram DEF CInv, InStep
  <2>5. StepsUpto(task) \subseteq RecordedSteps'
    BY <2>1, <2>2, <2>3
  <2>6. task.type = "STAGE" => IsLastOf(latest, StepsUpto(task))
    BY <2>2, <2>3, <2>4
  <2> HIDE DEF n, task
  <2>7. ASSUME NEW i \in DOMAIN records'
        PROVE  /\ Submitted(records'[i].task)
               /\ StepsUpto(records'[i].task) \subseteq RecordedSteps'
               /\ records'[i].task.type = "STAGE" =>
                    IsLastOf(records'[i].latest, StepsUpto(records'[i].task))
    <3>1. CASE i = n + 1
      <4>1. records'[i].task = task /\ records'[i].latest = latest
        BY <2>1, <3>1
      <4> QED
        BY <2>4, <2>5, <2>6, <4>1
    <3>2. CASE i # n + 1
      <4>1. i \in DOMAIN records /\ records'[i] = records[i]
        BY <2>1, <2>7, <3>2
      <4>2. /\ Submitted(records[i].task)
            /\ StepsUpto(records[i].task) \subseteq RecordedSteps
            /\ records[i].task.type = "STAGE" => IsLastOf(records[i].latest, StepsUpto(records[i].task))
        BY <4>1 DEF RecordsDone
      <4> QED
        BY <2>1, <4>1, <4>2
    <3> QED
      BY <3>1, <3>2
  <2> QED
    BY <2>7 DEF RecordsDone, StepsUpto, StepsBefore, IsLastOf
<1> QED
  BY <1>1, <1>2, RecordsChange

LEMMA DataDoneNext ==
  ASSUME CInv, FramesOfProgram, BodyOver, HeadInWork, DataDone, PastDone, [CNext]_cvars
  PROVE  DataDone'
<1>0. IInv /\ DataInv /\ branch \in DOMAIN head
  BY DEF CInv, DataInv, DataTypeOK
<1>1. CASE CMarkFinished
  <2>1. /\ phase = "returned" /\ UNCHANGED <<head, branch, torn>>
        /\ RecordedSteps' \subseteq RecordedSteps \union {TaskOf(Top)}
        /\ ~InStep => RecordedSteps' = RecordedSteps
    BY <1>0, <1>1, Marked DEF data
  <2>2. CASE InStep
    <3>1. branch = TaskOf(Top)
      BY <1>0, <2>1, <2>2 DEF DataInv, StepIsolated
    <3>2. Past = StepsBefore(Top.order) /\ TaskOf(Top).order = Top.order
      BY <1>0, <2>2, PastOfStep DEF TaskOf
    <3>3. Past \ torn \subseteq head[branch]
      BY <2>1 DEF PastDone, Going
    <3> QED
      BY <2>1, <3>1, <3>2, <3>3 DEF DataDone, StepsBefore
  <2>3. CASE ~InStep
    BY <2>1, <2>3 DEF DataDone, StepsBefore
  <2> QED
    BY <2>2, <2>3
<1>2. CASE records' = records
  <2>1. RecordedSteps' = RecordedSteps /\ torn \subseteq torn'
    BY <1>2, RecordsChange DEF RecordedSteps
  <2>2. ASSUME NEW s \in RecordedSteps PROVE head[s] \subseteq head'[s]
    <3>1. s \in DOMAIN head
      BY <1>0 DEF DataInv, RecordedOrTorn, D!HasBranch
    <3>2. CASE EnsureDeleted /\ head' = [x \in DOMAIN head \ {TaskOf(Top)} |-> head[x]]
      <4>1. InStep /\ phase = "invoking"
        BY <1>0, <3>2 DEF EnsureDeleted, DataInv, TodoWhileInvoking
      <4>2. s # TaskOf(Top)
        BY <1>0, <4>1, OnRecord DEF IInv, StepNotYetRecorded, InStep
      <4> QED
        BY <3>1, <3>2, <4>2
    <3>3. CASE /\ TaskOf(Top) \notin DOMAIN head
               /\ head' = [x \in DOMAIN head \union {TaskOf(Top)} |->
                             IF x = TaskOf(Top) THEN head[branch] ELSE head[x]]
      BY <3>1, <3>3
    <3>4. CASE head' = [head EXCEPT ![branch] = work[branch]]
      BY <1>0, <3>1, <3>4 DEF HeadInWork
    <3>5. CASE head' = head
      BY <3>5
    <3> QED
      BY <3>2, <3>3, <3>4, <3>5, HeadChanges
  <2> QED
    BY <2>1, <2>2 DEF DataDone, StepsBefore
<1> QED
  BY <1>1, <1>2, RecordsChange

-----------------------------------------------------------------------------
(* The past of the running frame. *)

\* Nothing precedes the first position.
LEMMA NothingBefore == StepsBefore(<< 0 >>) = {}
<1>1. ASSUME NEW s \in ProgramSteps PROVE ~Precedes(s.order, << 0 >>)
  <2>1. s.order \in Seq(Nat) /\ s.order # <<>>
    BY InProgramSteps, EmptySeq DEF Task, Submitted
  <2>2. Len(s.order) \in Nat /\ Len(s.order) # 0
    BY <2>1, EmptySeq
  <2>3. s.order[1] \in Nat
    BY <2>1, <2>2
  <2>4. /\ Len(<< 0 >>) = 1 /\ << 0 >>[1] = 0
    OBVIOUS
  <2>5. ASSUME NEW i \in 1..1, Len(s.order) >= i => s.order[i] < << 0 >>[i] PROVE FALSE
    BY <2>2, <2>3, <2>4, <2>5
  <2> QED
    BY <2>4, <2>5 DEF Precedes
<1> QED
  BY <1>1 DEF StepsBefore

\* A task gets a frame: nothing is in the past that was not.
LEMMA PastOfPushed ==
  ASSUME CInv, CInv', FramesOfProgram, FramesOfProgram', CRun
  PROVE  Past' = Past
<1> DEFINE task == Subtask(Top, NextTask.key, NextTask.type)
           p == Position(Top)
<1>1. IInv /\ TypeOK /\ ProgramPaths
  BY DEF CInv, IInv
<1>2. Pending /\ Run(NextTask.key, NextTask.type) /\ stack # <<>> /\ ~InStep
  BY <1>1 DEF CRun, Pending, InStep, TypeOK
<1>3. NextTask.key \in Keys /\ NextTask.type \in TaskType
  BY <1>1, <1>2, NextTaskTyped
<1>4. task \in Task /\ Submitted(task) /\ task.order = p
  BY <1>1, <1>2, NextSubmitted
<1>5. /\ TaskOf(Top)' = task /\ Position(Top)' = Append(p, 0) /\ p \in Seq(Nat)
  BY <1>1, <1>2, <1>3, PushedTop
<1>6. Past = StepsBefore(p)
  BY <1>1, <1>2, PastOfOther
<1>7. Past' = StepsBefore(Append(p, 0)) \ {task}
  BY <1>5 DEF Past, StepsBefore
<1> HIDE DEF task, p
<1>8. ASSUME NEW t \in ProgramSteps
      PROVE  t \in StepsBefore(Append(p, 0)) /\ t # task <=> t \in StepsBefore(p)
  <2>1. t \in Task /\ Submitted(t) /\ t.order \in Seq(Nat)
    BY InProgramSteps DEF Task
  <2>2. Inside(t.order, p) /\ Len(t.order) = Len(p) => t = task
    BY <1>4, <2>1, SameTask
  <2>3. Inside(t.order, p) /\ Len(t.order) # Len(p) => ~(t.order[Len(p) + 1] < 0)
    <3> SUFFICES ASSUME Inside(t.order, p), Len(t.order) # Len(p)
                 PROVE  ~(t.order[Len(p) + 1] < 0)
      OBVIOUS
    <3>1. Len(t.order) \in Nat /\ Len(p) \in Nat
      BY <1>5, <2>1
    <3>2. Len(p) + 1 \in 1..Len(t.order)
      BY <3>1 DEF Inside
    <3>3. t.order[Len(p) + 1] \in Nat
      BY <2>1, <3>2
    <3> QED
      BY <3>3
  <2>4. Precedes(t.order, Append(p, 0)) <=>
          \/ Precedes(t.order, p)
          \/ Inside(t.order, p) /\ (Len(t.order) = Len(p) \/ t.order[Len(p) + 1] < 0)
    BY <1>5, <2>1, BeforePosition
  <2>5. Inside(p, p)
    BY <1>5 DEF Inside
  <2>6. t = task => ~Precedes(t.order, p)
    BY <1>4, <1>5, <2>5, NotBeforeInside
  <2> QED
    BY <2>2, <2>3, <2>4, <2>6 DEF StepsBefore
<1> QED
  BY <1>6, <1>7, <1>8 DEF StepsBefore

\* A task is skipped: what precedes its end is in the past.
LEMMA PastOfSkip ==
  ASSUME CInv, CInv', FramesOfProgram, FramesOfProgram', Pending,
         Skip(NextTask.key, NextTask.type)
  PROVE  LET task == Subtask(Top, NextTask.key, NextTask.type) IN
         /\ task \in Task /\ Submitted(task)
         /\ Past' = StepsUpto(task) /\ Past = StepsBefore(task.order)
         /\ Past \subseteq Past'
<1> DEFINE task == Subtask(Top, NextTask.key, NextTask.type)
<1>1. IInv /\ TypeOK /\ ProgramPaths /\ stack # <<>> /\ ~InStep
  BY DEF CInv, IInv, TypeOK, Pending, InStep
<1>2. task \in Task /\ Submitted(task) /\ task.order = Position(Top)
  BY <1>1, NextSubmitted
<1>3. stack' = Advance(stack, Len(stack))
  BY DEF Skip
<1> DEFINE f == [Top EXCEPT !.next = Top.next + 1]
<1>4. /\ stack' = [stack EXCEPT ![Len(stack)] = f]
      /\ f \in Frame /\ TaskOf(f) = TaskOf(Top)
      /\ Position(f) = Append(Top.order, Top.next + 1)
      /\ Top.order \in Seq(Nat) /\ Top.next \in Nat
  BY <1>1, <1>3, AdvanceTop
<1> HIDE DEF f
<1>5. Top' = f /\ stack' # <<>> /\ ~InStep'
  BY <1>1, <1>4, TopReplaced
<1>6. Position(Top)' = Append(Top.order, Top.next + 1)
  BY <1>4, <1>5 DEF Position
<1>7. Successor(task.order) = Append(Top.order, Top.next + 1)
  BY <1>2, <1>4, SuccessorOfPosition DEF Position
<1>8. Past' = StepsBefore(Position(Top)')
  <2>1. IInv' /\ FramesOfProgram'
    BY DEF CInv
  <2>2. (Past = StepsBefore(Position(Top)))'
    <3>1. (stack # <<>> /\ ~InStep)'
      BY <1>5
    <3> QED
      BY <2>1, <3>1, PastOfOther, PTL
  <2> QED
    BY <2>2 DEF StepsBefore
<1>9. Past' = StepsUpto(task)
  BY <1>6, <1>7, <1>8 DEF StepsUpto
<1>10. Past = StepsBefore(task.order)
  BY <1>1, <1>2, PastOfOther
<1>11. Past \subseteq Past'
  <2>1. ASSUME NEW t \in ProgramSteps, Precedes(t.order, task.order)
        PROVE  Precedes(t.order, Successor(task.order))
    <3>1. t.order \in Seq(Nat) /\ task.order \in Seq(Nat) /\ task.order # <<>>
      BY <1>2, InProgramSteps, EmptySeq DEF Task, Submitted
    <3> QED
      BY <2>1, <3>1, BeforeEnd
  <2> QED
    BY <1>9, <1>10, <2>1 DEF StepsUpto, StepsBefore
<1> QED
  BY <1>2, <1>9, <1>10, <1>11

\* A task is left: what precedes its end is in the past.
LEMMA PastOfLeft ==
  ASSUME CInv, CInv', FramesOfProgram, FramesOfProgram', Len(stack) > 1, Leave
  PROVE  Past' = StepsUpto(TaskOf(Top))
<1>1. IInv /\ TypeOK /\ CoordinatesAgree /\ StepIsLeaf /\ ProgramPaths
  BY DEF CInv, IInv
<1>2. /\ Len(stack') = Len(stack) - 1
      /\ Top' = [Parent EXCEPT !.next = Parent.next + 1]
  BY <1>1, LeaveStack
<1>3. /\ Top \in Frame /\ Parent \in Frame
      /\ Top.order = Position(Parent) /\ Len(stack) \in Nat
  BY <1>1, TopIsTask
<1>4. Parent.order \in Seq(Nat) /\ Parent.next \in Nat
  BY <1>3 DEF Frame
<1>5. Position(Top)' = Append(Parent.order, Parent.next + 1)
  BY <1>2, <1>3, NextFrame DEF Position
<1>6. Successor(Top.order) = Append(Parent.order, Parent.next + 1)
  BY <1>3, <1>4, SuccessorOfPosition DEF Position
<1>7. ~InStep' /\ stack' # <<>>
  BY <1>1, LeftTop
<1>8. Past' = StepsBefore(Position(Top)')
  <2>1. IInv' /\ FramesOfProgram'
    BY DEF CInv
  <2>2. (Past = StepsBefore(Position(Top)))'
    <3>1. (stack # <<>> /\ ~InStep)'
      BY <1>7
    <3> QED
      BY <2>1, <3>1, PastOfOther, PTL
  <2> QED
    BY <2>2 DEF StepsBefore
<1>9. TaskOf(Top).order = Top.order
  BY DEF TaskOf
<1> QED
  BY <1>5, <1>6, <1>8, <1>9 DEF StepsUpto

\* On the way out of the session nothing is done any more, and the branch stays.
LEMMA WayOutVisible ==
  ASSUME HeadInWork, CompletedDataVisible, torn \subseteq torn', done' = done, ~Going',
         phase' # "off" => /\ phase # "off" /\ branch' = branch
                           /\ head[branch] \subseteq head'[branch]
  PROVE  PastDone' /\ CompletedDataVisible'
BY DEF PastDone, CompletedDataVisible

\* The past stays what it was.
LEMMA PastDoneKept ==
  ASSUME Going, Going', PastDone, Past' = Past, UNCHANGED <<latest, done>>, torn \subseteq torn',
         RecordedSteps \subseteq RecordedSteps',
         Past \ torn \subseteq head'[branch'],
         todo' = "checkout" => Past \ torn \subseteq head'[TaskOf(Top)']
  PROVE  PastDone' /\ CompletedDataVisible'
<1>1. /\ Past \subseteq RecordedSteps /\ IsLastOf(latest, Past) /\ done \subseteq Past
  BY DEF PastDone
<1>2. IsLastOf(latest', Past')
  BY <1>1 DEF IsLastOf
<1> QED
  BY <1>1, <1>2 DEF PastDone, CompletedDataVisible

\* A skipped task, and all that was recorded inside of it, is in the past: the branch that
\* is checked out has the data.
LEMMA SkipPast ==
  ASSUME CInv, CInv', FramesOfProgram, FramesOfProgram', RecordsDone, DataDone, PastDone, CSkip
  PROVE  PastDone' /\ CompletedDataVisible'
<1> DEFINE task == Subtask(Top, NextTask.key, NextTask.type)
<1>1. /\ Pending /\ Skip(NextTask.key, NextTask.type) /\ D!Checkout(Restored(task))
      /\ done' = done \union StepsWithin(task) /\ UNCHANGED <<todo, torn>>
  BY DEF CSkip
<1>2. /\ IInv /\ TypeOK /\ DataInv /\ phase = "body" /\ phase' = "body" /\ records' = records
      /\ IsRecorded(task) /\ latest' = LatestAfterSkip(task)
      /\ head' = head /\ branch' = LatestAfterSkip(task)
  BY <1>1 DEF CInv, IInv, Skip, Skips, Pending, Restored, D!Checkout
<1>3. /\ task \in Task /\ Submitted(task)
      /\ Past' = StepsUpto(task) /\ Past = StepsBefore(task.order) /\ Past \subseteq Past'
  BY <1>1, PastOfSkip
<1>4. todo # "checkout"
  BY <1>2 DEF DataInv, TodoWhileInvoking
<1>5. task.type \in {"STEP", "STAGE"} /\ task.order \in Seq(Nat) /\ task.order # <<>>
  BY <1>3, EmptySeq DEF Task, TaskType, Submitted
<1>6. RecordedSteps' = RecordedSteps
  BY <1>2 DEF RecordedSteps
<1> HIDE DEF task
<1>7. PICK i \in DOMAIN records : records[i].task = task /\ ExecutionLog(task) = records[i]
  BY <1>2, ExecutionLogFound
<1>8. /\ StepsUpto(task) \subseteq RecordedSteps
      /\ task.type = "STAGE" => IsLastOf(ExecutionLog(task).latest, StepsUpto(task))
  BY <1>7 DEF RecordsDone
<1>9. \A s \in RecordedSteps : s \in ProgramSteps
  <2>1. ASSUME NEW s \in RecordedSteps PROVE s \in ProgramSteps
    <3>1. PICK j \in DOMAIN records : records[j].task = s
      BY DEF RecordedSteps
    <3>2. Submitted(s) /\ s.type = "STEP"
      BY <3>1 DEF RecordsDone, RecordedSteps
    <3>3. s \in Task
      <4>1. records \in Seq(Record)
        BY <1>2 DEF TypeOK
      <4>2. records[j] \in Record
        BY <4>1
      <4> QED
        BY <3>1, <4>2 DEF Record
    <3> QED
      BY <3>2, <3>3, InProgramSteps
  <2> QED
    BY <2>1
<1>10. IsLastOf(latest', Past')
  <2>1. CASE task.type = "STEP"
    <3>1. task \in ProgramSteps
      BY <1>3, <2>1, InProgramSteps
    <3>2. latest' = task /\ task # NoStep
      BY <1>2, <1>3, <2>1, TaskExecutorAssumption DEF LatestAfterSkip
    <3>3. StepsUpto(task) = StepsBefore(task.order) \union {task}
      BY <3>1, UptoStep
    <3> QED
      BY <1>3, <3>2, <3>3 DEF IsLastOf, StepsBefore
  <2>2. CASE task.type = "STAGE"
    BY <1>2, <1>3, <1>8, <2>2 DEF LatestAfterSkip
  <2> QED
    BY <1>5, <2>1, <2>2
<1>11. Past' \ torn \subseteq head[latest']
  <2> SUFFICES ASSUME NEW t \in Past', t \notin torn PROVE t \in head[latest']
    OBVIOUS
  <2>1. latest' # NoStep /\ latest' \in Past' /\ (t = latest' \/ Precedes(t.order, latest'.order))
    BY <1>10 DEF IsLastOf
  <2>2. latest' \in RecordedSteps /\ t \in RecordedSteps /\ t \in ProgramSteps
    BY <1>3, <1>8, <1>9, <2>1
  <2>3. CASE t = latest'
    BY <1>2, <2>2, <2>3 DEF DataInv, RecordedOrTorn, Durable
  <2>4. CASE Precedes(t.order, latest'.order)
    BY <2>2, <2>4 DEF DataDone, StepsBefore
  <2> QED
    BY <2>1, <2>3, <2>4
<1>12. done' \subseteq Past'
  <2>1. done \subseteq Past
    BY <1>2 DEF PastDone, Going
  <2>2. ASSUME NEW s \in StepsWithin(task) PROVE s \in StepsUpto(task)
    <3>1. /\ s \in RecordedSteps /\ Len(s.order) >= Len(task.order)
          /\ SubSeq(s.order, 1, Len(task.order)) = task.order
      BY DEF StepsWithin, RecordedSteps
    <3>2. s \in ProgramSteps /\ s.order \in Seq(Nat)
      BY <1>9, <3>1, InProgramSteps DEF Task
    <3>3. \A j \in 1..Len(task.order) : SubSeq(s.order, 1, Len(task.order))[j] = s.order[j]
      BY <1>5, <3>1, <3>2
    <3>4. Inside(s.order, task.order)
      BY <3>1, <3>3 DEF Inside
    <3> QED
      BY <1>5, <3>2, <3>4, BeforeEnd DEF StepsUpto, StepsBefore
  <2> QED
    BY <1>1, <1>3, <2>1, <2>2 DEF task
<1>13. PastDone'
  BY <1>1, <1>2, <1>3, <1>4, <1>6, <1>8, <1>10, <1>11, <1>12 DEF PastDone
<1>14. CompletedDataVisible'
  BY <1>1, <1>2, <1>11, <1>12 DEF CompletedDataVisible
<1> QED
  BY <1>13, <1>14

\* A task ends well: a STEP is in the past, committed to its branch; a STAGE adds nothing.
LEMMA FinishedPast ==
  ASSUME CInv, CInv', FramesOfProgram, FramesOfProgram', BodyOver, TopRecorded, HeadInWork,
         PastDone, CFinished
  PROVE  PastDone' /\ CompletedDataVisible'
<1>1. /\ phase = "recorded" /\ Leave /\ phase' = "body" /\ records' = records
      /\ latest' = IF Top.type = "STEP" THEN TaskOf(Top) ELSE latest
      /\ done' = IF InStep THEN done \union {TaskOf(Top)} ELSE done
      /\ UNCHANGED <<todo, torn>>
  BY DEF CFinished, Finished, ReturnToCaller
<1>2. IInv /\ DataInv /\ Len(stack) > 1 /\ (InStep <=> Top.type = "STEP")
  BY <1>1 DEF CInv, IInv, TypeOK, InStep
<1>3. todo # "checkout"
  BY <1>1, <1>2 DEF DataInv, TodoWhileInvoking
<1>4. RecordedSteps' = RecordedSteps
  BY <1>1 DEF RecordedSteps
<1>5. Past' = StepsUpto(TaskOf(Top))
  BY <1>1, <1>2, PastOfLeft
<1>6. Past' = IF InStep THEN Past \union {TaskOf(Top)} ELSE Past
  BY <1>1, <1>5, EndOfBody
<1>7. /\ Past \subseteq RecordedSteps /\ IsLastOf(latest, Past) /\ done \subseteq Past
      /\ Past \ torn \subseteq head[branch]
  BY <1>1 DEF PastDone, Going
<1>8. branch \in DOMAIN head /\ head[branch] \subseteq work[branch]
  BY <1>2 DEF DataInv, DataTypeOK, HeadInWork
<1>9. CASE InStep
  <2>1. TaskOf(Top) \in ProgramSteps /\ Past = StepsBefore(Top.order) /\ TaskOf(Top) # NoStep
        /\ TaskOf(Top).order = Top.order
    BY <1>2, <1>9, PastOfStep, StepOnTop DEF TaskOf
  <2>2. TaskOf(Top) \in RecordedSteps
    BY <1>1, <1>2, <1>9, StepOnTop, OnRecord DEF TopRecorded
  <2>3. head' = [head EXCEPT ![branch] = work[branch]] /\ branch' = branch
    BY <1>9 DEF CFinished, D!CommitAndDisallow
  <2>4. head'[branch'] = work[branch] /\ TaskOf(Top) \in work[branch]
    BY <1>1, <1>2, <1>8, <1>9, <2>3 DEF DataInv, SavedBeforeReturn
  <2>5. latest' = TaskOf(Top) /\ Past' = Past \union {TaskOf(Top)} /\ done' = done \union {TaskOf(Top)}
    BY <1>1, <1>2, <1>6, <1>9
  <2>6. IsLastOf(latest', Past')
    BY <2>1, <2>5 DEF IsLastOf, StepsBefore
  <2>7. Past' \ torn \subseteq head'[branch'] /\ Past' \subseteq RecordedSteps /\ done' \subseteq Past'
    BY <1>7, <1>8, <2>2, <2>4, <2>5
  <2> QED
    BY <1>1, <1>3, <1>4, <2>6, <2>7 DEF PastDone, CompletedDataVisible
<1>10. CASE ~InStep
  <2>1. UNCHANGED <<head, branch, latest, done>> /\ Past' = Past
    BY <1>1, <1>2, <1>6, <1>10 DEF CFinished, data
  <2>2. IsLastOf(latest', Past')
    BY <1>7, <2>1 DEF IsLastOf
  <2> QED
    BY <1>1, <1>3, <1>4, <1>7, <2>1, <2>2 DEF PastDone, CompletedDataVisible
<1> QED
  BY <1>9, <1>10

\* A session begins: nothing is in the past.
LEMMA OpenPast ==
  ASSUME CInv, CInv', FramesOfProgram', COpen
  PROVE  PastDone' /\ CompletedDataVisible'
<1>1. /\ phase = "off" /\ phase' = "body" /\ stack' = <<RootFrame>> /\ done' = {}
      /\ UNCHANGED <<latest, records, todo, torn>>
  BY DEF COpen, Open
<1>2. latest' = NoStep /\ todo # "checkout"
  BY <1>1 DEF CInv, IInv, OffForgets, DataInv, TodoWhileInvoking
<1>3. Position(Top)' = << 0 >>
  <2>1. Top' = RootFrame
    BY <1>1 DEF Top
  <2>2. RootFrame.order = <<>> /\ RootFrame.next = 0
    BY DEF RootFrame
  <2>3. Append(<<>>, 0) = << 0 >>
    OBVIOUS
  <2> QED
    BY <2>1, <2>2, <2>3 DEF Position
<1>4. Past' = {}
  BY <1>3, NothingBefore DEF Past, StepsBefore
<1> QED
  BY <1>1, <1>2, <1>4 DEF PastDone, CompletedDataVisible, IsLastOf

LEMMA PastDoneNext ==
  ASSUME ExceptionsEndSession, CInv, CInv', ProgramInv, FramesOfProgram', [CNext]_cvars
  PROVE  PastDone' /\ CompletedDataVisible'
<1>0. /\ IInv /\ TypeOK /\ DataInv /\ FramesOfProgram /\ BodyOver /\ TopRecorded
      /\ HeadInWork /\ RecordsDone /\ DataDone /\ PastDone /\ CompletedDataVisible
      /\ exc # "tbc" /\ branch \in DOMAIN head /\ DOMAIN head = DOMAIN work
      /\ torn \subseteq torn'
  BY RecordsChange DEF ProgramInv, CInv, IInv, DataInv, DataTypeOK, NothingSwallowed
<1>1. CASE COpen
  BY <1>0, <1>1, OpenPast
<1>2. CASE CClose \/ CCrash
  <2>1. phase' = "off" /\ done' = done
    BY <1>2 DEF CClose, CCrash, Close, Crash, Forget
  <2>2. ~Going'
    BY <2>1 DEF Going
  <2> QED
    BY <1>0, <2>1, <2>2, WayOutVisible
<1>3. CASE CSkip
  BY <1>0, <1>3, SkipPast
<1>4. CASE CFinished
  BY <1>0, <1>4, FinishedPast
<1>5. CASE \/ CSkipFails \/ StepInvokedRaises \/ CBodyRaises \/ CBodyAborts \/ CMarkRaises
           \/ CFinishedRaises \/ CHandled \/ CHandlerRaises
  <2>1. phase # "off" /\ phase' \in {"raising", "failing"} /\ done' = done
    <3>1. CASE CSkipFails \/ StepInvokedRaises \/ CBodyRaises \/ CBodyAborts \/ CMarkRaises
      BY <3>1 DEF CSkipFails, StepInvokedRaises, CBodyRaises, CBodyAborts, CMarkRaises, SkipFails,
                  CanSubmit, InvokedRaises, BodyRaises, BodyAborts, MarkRaises, Throw
    <3>2. CASE CFinishedRaises \/ CHandled \/ CHandlerRaises
      BY <1>0, <3>2 DEF CFinishedRaises, CHandled, CHandlerRaises, FinishedRaises, Handled,
                        HandlerRaises, Swallows, RaiseInCaller, Throw
    <3> QED
      BY <1>5, <3>1, <3>2
  <2>2. branch' = branch /\ head[branch] \subseteq head'[branch]
    <3>1. CASE UNCHANGED <<head, branch>>
      BY <3>1
    <3>2. CASE CFinishedRaises /\ D!CommitOnly
      BY <1>0, <3>2 DEF D!CommitOnly, HeadInWork
    <3>3. UNCHANGED <<head, branch>> \/ (CFinishedRaises /\ D!CommitOnly)
      BY <1>5 DEF CSkipFails, StepInvokedRaises, CBodyRaises, CBodyAborts, CMarkRaises,
                  CFinishedRaises, CHandled, CHandlerRaises, data, D!RollbackAndDisallow
    <3> QED
      BY <3>1, <3>2, <3>3
  <2>3. ~Going'
    BY <2>1 DEF Going
  <2> QED
    BY <1>0, <2>1, <2>2, <2>3, WayOutVisible
<1>6. CASE CScope
  <2>1. /\ EnterScope(TRUE) \/ ExitScope
        /\ UNCHANGED <<phase, latest, records, data, todo, done, torn>>
    BY <1>6 DEF CScope, EnterScope, ExitScope
  <2>2. phase \in {"body", "raising"} /\ stack # <<>>
    BY <1>0, <2>1 DEF EnterScope, ExitScope, TypeOK
  <2>3. TaskOf(Top)' = TaskOf(Top) /\ Position(Top)' = Position(Top)
    BY <1>0, <2>1, <2>2, ScopeTop
  <2>4. Past' = Past /\ RecordedSteps' = RecordedSteps
    BY <2>1, <2>3 DEF Past, StepsBefore, RecordedSteps
  <2>5. CASE phase = "body"
    <3>1. Going /\ Going'
      BY <2>1, <2>5 DEF Going
    <3>2. todo # "checkout"
      BY <1>0, <2>5 DEF DataInv, TodoWhileInvoking
    <3>3. Past \ torn \subseteq head[branch]
      BY <1>0, <3>1 DEF PastDone
    <3> QED
      BY <1>0, <2>1, <2>4, <3>1, <3>2, <3>3, PastDoneKept DEF data
  <2>6. CASE phase = "raising"
    <3>1. ~Going'
      BY <2>1, <2>6 DEF Going
    <3> QED
      BY <1>0, <2>1, <2>6, <3>1, WayOutVisible DEF data
  <2> QED
    BY <2>2, <2>5, <2>6
<1>7. CASE CRun
  <2>1. /\ phase = "body" /\ phase' = "invoking" /\ UNCHANGED <<latest, records, data, done, torn>>
        /\ todo' # "checkout"
    BY <1>7 DEF CRun, Run, CanSubmit
  <2>2. Past' = Past /\ RecordedSteps' = RecordedSteps
    BY <1>0, <1>7, <2>1, PastOfPushed DEF RecordedSteps
  <2>3. Going /\ Going'
    BY <2>1 DEF Going
  <2>4. Past \ torn \subseteq head[branch]
    BY <1>0, <2>3 DEF PastDone
  <2> QED
    BY <1>0, <2>1, <2>2, <2>3, <2>4, PastDoneKept DEF data
<1>8. CASE WritingAllowed \/ StageInvoked \/ CSave \/ CBodyReturns \/ CMarkFinished
  <2>1. /\ stack' = stack /\ UNCHANGED <<head, branch, latest, done>>
        /\ Going /\ Going' /\ todo' # "checkout"
    <3>1. CASE WritingAllowed \/ StageInvoked \/ CSave
      BY <1>0, <3>1 DEF WritingAllowed, StageInvoked, CSave, Invoked, vars, data, D!AllowWriting,
                        D!Save, Going, DataInv, TodoWhileInvoking
    <3>2. CASE CBodyReturns \/ CMarkFinished
      BY <1>0, <3>2 DEF CBodyReturns, CMarkFinished, BodyReturns, MarkFinished, data, Going,
                        DataInv, TodoWhileInvoking
    <3> QED
      BY <1>8, <3>1, <3>2
  <2>2. Past' = Past
    BY <2>1 DEF Past, StepsBefore, Position, TaskOf, Top
  <2>3. RecordedSteps \subseteq RecordedSteps'
    <3>1. CASE records' = records
      BY <3>1 DEF RecordedSteps
    <3>2. CASE CMarkFinished
      BY <1>0, <3>2, Marked
    <3> QED
      BY <3>1, <3>2, RecordsChange
  <2>4. Past \ torn \subseteq head[branch]
    BY <1>0, <2>1 DEF PastDone
  <2> QED
    BY <1>0, <2>1, <2>2, <2>3, <2>4, PastDoneKept
<1>9. CASE EnsureDeleted \/ EnsureCreated \/ CheckedOut
  <2>1. /\ UNCHANGED <<phase, stack, records, latest, done>>
    BY <1>9 DEF EnsureDeleted, EnsureCreated, CheckedOut, vars
  <2>2. todo # "nothing" /\ phase = "invoking" /\ InStep
    BY <1>0, <1>9 DEF EnsureDeleted, EnsureCreated, CheckedOut, DataInv, TodoWhileInvoking
  <2>3. Going /\ Going'
    BY <2>1, <2>2 DEF Going
  <2>4. /\ Past' = Past /\ RecordedSteps' = RecordedSteps
        /\ TaskOf(Top)' = TaskOf(Top) /\ TaskOf(Top') = TaskOf(Top)
    BY <2>1 DEF Past, StepsBefore, Position, TaskOf, Top, RecordedSteps
  <2>5. /\ Past \ torn \subseteq head[branch]
        /\ todo = "checkout" => Past \ torn \subseteq head[TaskOf(Top)]
    BY <1>0, <2>3 DEF PastDone
  <2>6. CASE EnsureDeleted
    <3>1. branch # TaskOf(Top)
      BY <2>6, CurrentIsAnother DEF EnsureDeleted
    <3>2. todo' = "create" /\ branch' = branch /\ head'[branch] = head[branch]
      <4>1. CASE D!DeleteBranch(TaskOf(Top))
        BY <1>0, <2>6, <3>1, <4>1 DEF EnsureDeleted, D!DeleteBranch
      <4>2. CASE UNCHANGED data
        BY <2>6, <4>2 DEF EnsureDeleted, data
      <4> QED
        BY <2>6, <4>1, <4>2 DEF EnsureDeleted
    <3> QED
      BY <1>0, <2>1, <2>3, <2>4, <2>5, <3>2, PastDoneKept
  <2>7. CASE EnsureCreated
    <3>1. /\ TaskOf(Top) \notin DOMAIN head /\ branch' = branch
          /\ head' = [x \in DOMAIN head \union {TaskOf(Top)} |->
                        IF x = TaskOf(Top) THEN head[branch] ELSE head[x]]
      BY <2>7 DEF EnsureCreated, D!NewBranch, D!HasBranch
    <3>2. head'[branch] = head[branch] /\ head'[TaskOf(Top)] = head[branch]
      BY <1>0, <3>1
    <3> QED
      BY <1>0, <2>1, <2>3, <2>4, <2>5, <3>1, <3>2, PastDoneKept
  <2>8. CASE CheckedOut
    <3>1. todo = "checkout" /\ todo' = "allow" /\ branch' = TaskOf(Top) /\ head' = head
      BY <2>8 DEF CheckedOut, D!Checkout
    <3> QED
      BY <1>0, <2>1, <2>3, <2>4, <2>5, <3>1, PastDoneKept
  <2> QED
    BY <1>9, <2>6, <2>7, <2>8
<1>10. CASE UNCHANGED cvars
  <2>1. UNCHANGED <<phase, stack, latest, records, head, branch, todo, done, torn>>
    BY <1>10 DEF cvars, vars, data
  <2>2. /\ Past' = Past /\ RecordedSteps' = RecordedSteps /\ (Going' <=> Going)
        /\ TaskOf(Top)' = TaskOf(Top)
    BY <2>1 DEF Past, StepsBefore, Position, TaskOf, Top, RecordedSteps, Going
  <2>3. PastDone'
    BY <1>0, <2>1, <2>2 DEF PastDone, IsLastOf
  <2>4. CompletedDataVisible'
    BY <1>0, <2>1 DEF CompletedDataVisible
  <2> QED
    BY <2>3, <2>4
<1>11. ~CBodyCatches
  BY DEF ExceptionsEndSession, CBodyCatches
<1> QED
  BY <1>1, <1>2, <1>3, <1>4, <1>5, <1>6, <1>7, <1>8, <1>9, <1>10, <1>11
     DEF CNext, Progress, Accidents

LEMMA ProgramInit ==
  ASSUME CInit
  PROVE  ProgramInv
<1>1. /\ phase = "off" /\ stack = <<>> /\ exc = "none" /\ records = <<>>
      /\ head = [b \in {NoStep} |-> {}] /\ work = head
  BY DEF CInit, Init, D!Init
<1>2. FramesOfProgram
  BY <1>1 DEF FramesOfProgram
<1>3. BodyOver /\ TopRecorded /\ NothingSwallowed /\ PastDone /\ CompletedDataVisible
  BY <1>1 DEF BodyOver, TopRecorded, NothingSwallowed, PastDone, Going, CompletedDataVisible
<1>4. HeadInWork
  BY <1>1 DEF HeadInWork
<1>5. RecordedSteps = {} /\ RecordsDone
  BY <1>1 DEF RecordedSteps, RecordsDone
<1>6. DataDone
  BY <1>5 DEF DataDone
<1> QED
  BY <1>2, <1>3, <1>4, <1>5, <1>6 DEF ProgramInv

LEMMA ProgramNext ==
  ASSUME ExceptionsEndSession, CInv, CInv', ProgramInv, [CNext]_cvars
  PROVE  ProgramInv'
<1>1. FramesOfProgram'
  BY FramesNext DEF ProgramInv
<1>2. BodyOver' /\ TopRecorded'
  BY TopNext DEF ProgramInv
<1>3. NothingSwallowed'
  BY NothingSwallowedNext DEF ProgramInv
<1>4. HeadInWork'
  BY HeadInWorkNext DEF ProgramInv
<1>5. RecordsDone' /\ DataDone'
  BY RecordsDoneNext, DataDoneNext DEF ProgramInv
<1>6. PastDone' /\ CompletedDataVisible'
  BY <1>1, PastDoneNext
<1> QED
  BY <1>1, <1>2, <1>3, <1>4, <1>5, <1>6 DEF ProgramInv

THEOREM ProgramInvariant ==
  ASSUME ExceptionsEndSession
  PROVE  CSpec => []ProgramInv
<1>1. CInit => ProgramInv
  BY ProgramInit
<1>2. CInv /\ CInv' /\ ProgramInv /\ [CNext]_cvars => ProgramInv'
  BY ProgramNext
<1> QED
  BY <1>1, <1>2, ConsistentInvariant, PTL DEF CSpec

THEOREM CompletedAndClosedHolds ==
  ASSUME ExceptionsEndSession
  PROVE  CSpec => []CompletedAndClosed
<1>1. ProgramInv => CompletedDataVisible
  BY DEF ProgramInv
<1>2. CSpec => []WritableOnlyInStep
  BY WritableOnlyInStepHolds DEF ExceptionsEndSession
<1>3. CompletedDataVisible /\ WritableOnlyInStep => CompletedAndClosed
  BY DEF CompletedAndClosed
<1> QED
  BY <1>1, <1>2, <1>3, ProgramInvariant, PTL

-----------------------------------------------------------------------------
(* The log of the program's STEPs. *)

\* How StepsOf gets to its result.
LEMMA StepsOfSteps ==
  ASSUME NEW rs \in Seq(Record)
  PROVE  \E f : /\ f[0] = <<>>
                /\ \A i \in 1..Len(rs) :
                     f[i] = IF rs[i].task.type = "STEP" THEN Append(f[i - 1], rs[i].task) ELSE f[i - 1]
                /\ StepsOf(rs) = f[Len(rs)]
<1> DEFINE n == Len(rs)
           P(f, m) ==
             f = [i \in 0..m |->
                   IF i = 0 THEN <<>>
                   ELSE IF rs[i].task.type = "STEP" THEN Append(f[i - 1], rs[i].task) ELSE f[i - 1]]
           c == CHOOSE f : P(f, n)
<1>1. Len(rs) \in Nat
  OBVIOUS
<1>2. \E f : P(f, n)
  <2> DEFINE T == {m \in Nat : ~ \E f : P(f, m)}
  <2> HIDE DEF P
  <2>1. SUFFICES ASSUME T # {} PROVE FALSE
    <3>1. n \in Nat
      BY <1>1
    <3> HIDE DEF n
    <3> QED
      BY <3>1
  <2>2. PICK m \in T : \A y \in T : ~(y < m)
    BY <2>1, Least
  <2>3. m # 0
    <3>1. P([i \in 0..0 |-> <<>>], 0)
      BY DEF P
    <3> QED
      BY <2>2, <3>1
  <2>4. m - 1 \in Nat /\ m - 1 \notin T
    BY <2>2, <2>3
  <2>5. PICK f : P(f, m - 1)
    BY <2>4
  <2> DEFINE Next1(h, i) ==
               IF i = 0 THEN <<>>
               ELSE IF rs[i].task.type = "STEP" THEN Append(h[i - 1], rs[i].task) ELSE h[i - 1]
             g == [i \in 0..m |-> Next1(f, i)]
  <2>6. \A j \in 0..(m - 1) : f[j] = Next1(f, j)
    BY <2>5, Zenon DEF P
  <2>7. ASSUME NEW i \in 0..m, i # 0 PROVE f[i - 1] = g[i - 1]
    <3>1. i - 1 \in 0..(m - 1) /\ i - 1 \in 0..m
      BY <2>2, <2>7
    <3> HIDE DEF Next1
    <3>2. f[i - 1] = Next1(f, i - 1)
      BY <2>6, <3>1
    <3>3. g[i - 1] = Next1(f, i - 1)
      BY <3>1
    <3> QED
      BY <3>2, <3>3
  <2>8. P(g, m)
    <3>1. ASSUME NEW i \in 0..m PROVE Next1(f, i) = Next1(g, i)
      BY <2>7, <3>1
    <3> DEFINE g2 == [i \in 0..m |-> Next1(g, i)]
    <3>2. g = g2
      <4> HIDE DEF Next1
      <4> QED
        BY <3>1
    <3> HIDE DEF g
    <3> QED
      BY <3>2 DEF P
  <2> QED
    BY <2>2, <2>8
<1>3. StepsOf(rs) = c[Len(rs)]
  BY DEF StepsOf
<1>4. P(c, n)
  <2> HIDE DEF P
  <2> QED
    BY <1>2
<1> HIDE DEF c
<1>5. \A i \in 0..Len(rs) :
        c[i] = IF i = 0 THEN <<>>
               ELSE IF rs[i].task.type = "STEP" THEN Append(c[i - 1], rs[i].task) ELSE c[i - 1]
  BY <1>4, Zenon
<1>6. c[0] = <<>>
  BY <1>1, <1>5
<1>7. ASSUME NEW i \in 1..Len(rs)
      PROVE  c[i] = IF rs[i].task.type = "STEP" THEN Append(c[i - 1], rs[i].task) ELSE c[i - 1]
  <2>1. i \in 0..Len(rs) /\ i # 0
    BY <1>1
  <2> QED
    BY <1>5, <2>1
<1> QED
  BY <1>3, <1>6, <1>7

\* One more record
LEMMA StepsOfGrows ==
  ASSUME NEW rs \in Seq(Record), NEW r \in Record
  PROVE  StepsOf(Append(rs, r)) =
           IF r.task.type = "STEP" THEN Append(StepsOf(rs), r.task) ELSE StepsOf(rs)
<1> DEFINE n == Len(rs)
           more == Append(rs, r)
<1>1. /\ n \in Nat /\ more \in Seq(Record) /\ Len(more) = n + 1 /\ more[n + 1] = r
      /\ \A i \in 1..n : more[i] = rs[i]
  OBVIOUS
<1>2. PICK f : /\ f[0] = <<>>
               /\ \A i \in 1..n :
                    f[i] = IF rs[i].task.type = "STEP" THEN Append(f[i - 1], rs[i].task) ELSE f[i - 1]
               /\ StepsOf(rs) = f[n]
  BY StepsOfSteps
<1> HIDE DEF n, more
<1>3. PICK g : /\ g[0] = <<>>
               /\ \A i \in 1..(n + 1) :
                    g[i] = IF more[i].task.type = "STEP" THEN Append(g[i - 1], more[i].task)
                           ELSE g[i - 1]
               /\ StepsOf(more) = g[n + 1]
  BY <1>1, StepsOfSteps
<1>4. \A i \in 0..n : f[i] = g[i]
  <2> DEFINE T == {i \in 0..n : f[i] # g[i]}
  <2>1. SUFFICES ASSUME T # {} PROVE FALSE
    OBVIOUS
  <2>2. PICK i \in T : \A y \in T : ~(y < i)
    <3>1. T \subseteq Nat
      BY <1>1
    <3> HIDE DEF T
    <3> QED
      BY <2>1, <3>1, Least
  <2>3. i \in 0..n /\ f[i] # g[i]
    BY <2>2
  <2>4. i # 0
    BY <1>2, <1>3, <2>3
  <2>5. i \in 1..n /\ i \in 1..(n + 1) /\ i - 1 \in 0..n /\ i - 1 < i
    BY <1>1, <2>3, <2>4
  <2>6. f[i - 1] = g[i - 1]
    <3>1. i - 1 \notin T
      BY <2>2, <2>5
    <3> QED
      BY <2>5, <3>1
  <2>7. f[i] = IF rs[i].task.type = "STEP" THEN Append(f[i - 1], rs[i].task) ELSE f[i - 1]
    BY <1>2, <2>5
  <2>8. g[i] = IF more[i].task.type = "STEP" THEN Append(g[i - 1], more[i].task) ELSE g[i - 1]
    BY <1>3, <2>5
  <2>9. more[i] = rs[i]
    BY <1>1, <2>5
  <2> QED
    BY <2>3, <2>6, <2>7, <2>8, <2>9
<1>5. g[n] = StepsOf(rs)
  BY <1>1, <1>2, <1>4
<1>6. n + 1 \in 1..(n + 1) /\ (n + 1) - 1 = n
  BY <1>1
<1>7. g[n + 1] = IF more[n + 1].task.type = "STEP" THEN Append(g[(n + 1) - 1], more[n + 1].task)
                 ELSE g[(n + 1) - 1]
  BY <1>3, <1>6
<1> QED
  BY <1>1, <1>3, <1>5, <1>6, <1>7 DEF more

\* The log is a prefix of the STEPs of the program, and all that is recorded.
LogIsPrefix ==
  /\ LoggedSteps \in Seq(Task) /\ Len(LoggedSteps) <= Len(Steps)
  /\ \A s : s \in RecordedSteps <=> \E i \in 1..Len(LoggedSteps) : s = Steps[i]

\* A STEP is logged in its turn: those before it are, and those after it are not.
LEMMA LogNext ==
  ASSUME CInv, ProgramInv, LogIsPrefix, [CNext]_cvars
  PROVE  LogIsPrefix' /\ [L!Finish]_LoggedSteps
<1>1. CASE records' = records
  <2>1. LoggedSteps' = LoggedSteps /\ RecordedSteps' = RecordedSteps
    BY <1>1 DEF LoggedSteps, RecordedSteps
  <2> QED
    BY <2>1 DEF LogIsPrefix
<1>2. CASE CMarkFinished
  <2> DEFINE step == TaskOf(Top)
             n == Len(LoggedSteps)
  <2>1. /\ phase = "returned" /\ Len(stack) > 1
        /\ RecordedSteps \subseteq RecordedSteps'
        /\ RecordedSteps' \subseteq RecordedSteps \union {step}
        /\ InStep => step \in RecordedSteps'
        /\ ~InStep => RecordedSteps' = RecordedSteps
    BY <1>2, Marked DEF CInv
  <2>2. IInv /\ records \in Seq(Record) /\ step \in Task /\ latest \in Task \union {NoStep}
        /\ (step.type = "STEP" <=> InStep)
    BY <2>1, TopOfProgram DEF CInv, IInv, TypeOK, ProgramInv, InStep
  <2>3. LoggedSteps' = IF InStep THEN Append(LoggedSteps, step) ELSE LoggedSteps
    <3> DEFINE r == [task |-> step, latest |-> latest]
    <3>1. records' = Append(records, r)
      BY <1>2 DEF CMarkFinished, MarkFinished
    <3>2. r \in Record /\ r.task = step
      BY <2>2 DEF Record
    <3> HIDE DEF r, step
    <3>3. StepsOf(records') =
            IF step.type = "STEP" THEN Append(StepsOf(records), step) ELSE StepsOf(records)
      BY <2>2, <3>1, <3>2, StepsOfGrows
    <3> QED
      BY <2>2, <3>3 DEF LoggedSteps
  <2>4. LoggedSteps \in Seq(Task) /\ n \in Nat /\ n <= Len(Steps) /\ Len(Steps) \in Nat
    BY StepsAssumption DEF LogIsPrefix
  <2>5. CASE ~InStep
    BY <2>1, <2>3, <2>5 DEF LogIsPrefix
  <2>6. CASE InStep
    <3>1. step \in ProgramSteps /\ Past = StepsBefore(Top.order) /\ step.order = Top.order
      BY <2>2, <2>6, PastOfStep DEF ProgramInv, TaskOf
    <3>2. step \notin RecordedSteps
      BY <2>1, <2>2, <2>6, OnRecord DEF IInv, StepNotYetRecorded, InStep
    <3>3. Past \subseteq RecordedSteps
      BY <2>1 DEF ProgramInv, PastDone, Going
    <3> HIDE DEF step, n
    <3>4. PICK m \in 1..Len(Steps) : step = Steps[m]
      BY <3>1, StepsAssumption
    <3>5. ~(m <= n)
      BY <2>4, <3>2, <3>4 DEF LogIsPrefix, n
    <3>6. m = n + 1
      <4> SUFFICES ASSUME n + 1 < m PROVE FALSE
        BY <2>4, <3>5
      <4>1. n + 1 \in 1..Len(Steps)
        BY <2>4
      <4>2. Steps[n + 1] \in ProgramSteps
        BY <4>1, StepsAssumption
      <4>3. Precedes(Steps[n + 1].order, step.order)
        BY <3>4, <4>1, StepsAssumption
      <4>4. Steps[n + 1] \in RecordedSteps
        BY <3>1, <3>3, <4>2, <4>3 DEF StepsBefore
      <4>5. PICK j \in 1..n : Steps[n + 1] = Steps[j]
        BY <4>4 DEF LogIsPrefix, n
      <4>6. Precedes(Steps[j].order, Steps[n + 1].order)
        <5>1. j \in 1..Len(Steps) /\ j < n + 1
          BY <2>4
        <5> QED
          BY <4>1, <5>1, StepsAssumption
      <4>7. Steps[j].order \in Seq(Nat)
        BY <4>2, <4>5, InProgramSteps DEF Task
      <4>8. Inside(Steps[j].order, Steps[j].order)
        BY <4>7 DEF Inside
      <4> QED
        BY <4>5, <4>6, <4>7, <4>8, NotBeforeInside
    <3>7. LoggedSteps' = Append(LoggedSteps, Steps[n + 1]) /\ n < Len(Steps)
      BY <2>3, <2>4, <2>6, <3>4, <3>6
    <3>8. L!Finish
      BY <3>7 DEF L!Finish, n
    <3>9. LoggedSteps' \in Seq(Task) /\ Len(LoggedSteps') = n + 1
      BY <2>2, <2>3, <2>4, <2>6 DEF n
    <3>10. ASSUME NEW s
           PROVE  s \in RecordedSteps' <=> \E i \in 1..(n + 1) : s = Steps[i]
      <4>1. s \in RecordedSteps' <=> s \in RecordedSteps \/ s = Steps[n + 1]
        BY <2>1, <2>6, <3>4, <3>6
      <4>2. s \in RecordedSteps <=> \E i \in 1..n : s = Steps[i]
        BY DEF LogIsPrefix, n
      <4>3. \A i : i \in 1..(n + 1) <=> i \in 1..n \/ i = n + 1
        BY <2>4
      <4> QED
        BY <4>1, <4>2, <4>3
    <3>11. Len(LoggedSteps') <= Len(Steps)
      BY <2>4, <3>7, <3>9
    <3>12. LogIsPrefix'
      BY <3>9, <3>10, <3>11 DEF LogIsPrefix
    <3> QED
      BY <3>8, <3>12
  <2> QED
    BY <2>5, <2>6
<1> QED
  BY <1>1, <1>2, RecordsChange

\* The STEPs of a program whose exceptions end the session are recorded in program order
\* and once each, across all sessions and deaths of the process.
THEOREM StepLogImplemented ==
  ASSUME ExceptionsEndSession
  PROVE  CSpec => ImplementsStepLog
<1>1. CInit => LogIsPrefix /\ L!Init
  <2> SUFFICES ASSUME CInit PROVE LogIsPrefix /\ L!Init
    OBVIOUS
  <2>1. records = <<>>
    BY DEF CInit, Init
  <2>2. LoggedSteps = <<>>
    <3>1. <<>> \in Seq(Record) /\ Len(<<>>) = 0
      OBVIOUS
    <3>2. StepsOf(<<>>) = <<>>
      BY <3>1, StepsOfSteps
    <3> QED
      BY <2>1, <3>2 DEF LoggedSteps
  <2>3. RecordedSteps = {} /\ Len(<<>>) = 0 /\ <<>> \in Seq(Task) /\ Len(Steps) \in Nat
    BY <2>1, StepsAssumption DEF RecordedSteps
  <2> QED
    BY <2>2, <2>3 DEF LogIsPrefix, L!Init
<1>2. CInv /\ ProgramInv /\ LogIsPrefix /\ [CNext]_cvars => LogIsPrefix' /\ [L!Finish]_LoggedSteps
  BY LogNext
<1>3. CSpec => L!Spec
  BY <1>1, <1>2, ConsistentInvariant, ProgramInvariant, PTL DEF CSpec, L!Spec
<1> QED
  BY <1>3 DEF ImplementsStepLog

=============================================================================
