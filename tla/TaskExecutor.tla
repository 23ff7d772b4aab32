---------------------------- MODULE TaskExecutor ----------------------------
(***************************************************************************)
(* SimpleTaskExecutor (thinking_executor/executor.py): a program is a tree *)
(* of tasks that user code builds by calling execute() from inside task    *)
(* bodies.  A STEP that is already in the table of execution records is    *)
(* skipped; a STAGE is run again, unless a skip_executed_stages(True)      *)
(* scope is open.  The table survives the process, everything else is in   *)
(* memory and starts afresh with every context session.                    *)
(*                                                                         *)
(* The user program and the callbacks are arbitrary: any body may submit   *)
(* any task, return, raise, catch what a subtask raised, and any callback  *)
(* may raise.  The process may die between any two steps.                  *)
(***************************************************************************)
EXTENDS Integers, Sequences

CONSTANTS
  Keys,         \* task keys
  TopKeys,      \* those of them that are strings: the legal top-level keys
  Raisable,     \* the kinds of exception that user code raises
  NoStep,       \* Python's None as a latest_step
  MaxDepth,     \* bound: nesting of tasks
  MaxOrder,     \* bound: subtasks submitted from one body
  MaxScopes,    \* bound: skip_executed_stages scopes open in one body
  MaxRecords,   \* bound: records in the table
  MaxSessions   \* bound: context sessions

TaskType == {"STAGE", "STEP"}
ExcKind  == {"error", "tbc", "interrupt", "exit"}

\* TaskCoordinates: where a task is in the tree, by keys and by position.
Task == [path : Seq(Keys), order : Seq(Nat), type : TaskType]

ASSUME TaskExecutorAssumption ==
  /\ TopKeys \subseteq Keys
  /\ Raisable \subseteq ExcKind
  /\ NoStep \notin Task
  /\ {MaxDepth, MaxOrder, MaxScopes, MaxRecords, MaxSessions} \subseteq Nat

VARIABLES
  phase,       \* where the innermost execute() call is, see Phase
  stack,       \* ExecutionFrames: the open session's root, then the tasks being run
  exc,         \* the exception in flight, "none" if there is none
  latest,      \* latest_step: the last STEP that was run or skipped
  skipStages,  \* _skip_executed_stages
  records,     \* the table of TaskExecutionRecords, in order of insertion
  session      \* how many context sessions have been opened

vars == <<phase, stack, exc, latest, skipStages, records, session>>

(***************************************************************************)
(* "off"       no context session is open                                  *)
(* "body"      the body of the top frame is running (at depth 1: the code  *)
(*             inside `with context.lifecycle()`)                          *)
(* "invoking"  the frame is pushed, on_task_invoked is due                 *)
(* "returned"  the body returned, the record is due                        *)
(* "recorded"  the record is in the table, on_task_finished(Result) is due *)
(* "failing"   run() of the top frame caught exc, _exception_handler is due*)
(* "raising"   exc reached the body of the top frame                       *)
(***************************************************************************)
Phase == {"off", "body", "invoking", "returned", "recorded", "failing", "raising"}

\* next_subtask_order of the code is Append(order, next).
Frame == [path : Seq(Keys), order : Seq(Nat), next : Nat,
          type : TaskType \union {"ROOT"}, scopes : Seq(BOOLEAN)]

Record == [task : Task, latest : Task \union {NoStep}]

Top    == stack[Len(stack)]
Parent == stack[Len(stack) - 1]

RootFrame == [path |-> <<>>, order |-> <<>>, next |-> 0, type |-> "ROOT", scopes |-> <<>>]

\* next_subtask_order: the order the next subtask of a frame gets.
Position(f) == Append(f.order, f.next)

TaskOf(f) == [path |-> f.path, order |-> f.order, type |-> f.type]

\* Coordinates of a subtask submitted from the body of frame f.
Subtask(f, k, t) == [path |-> Append(f.path, k), order |-> Position(f), type |-> t]

FrameOf(task) == [path |-> task.path, order |-> task.order, next |-> 0,
                  type |-> task.type, scopes |-> <<>>]

-----------------------------------------------------------------------------
\* The table of execution records.

IsRecorded(task) == \E i \in DOMAIN records : records[i].task = task

\* _find_execution_log: the most recently finished record of the task.
ExecutionLog(task) ==
  records[CHOOSE i \in DOMAIN records :
            /\ records[i].task = task
            /\ \A j \in DOMAIN records : j > i => records[j].task # task]

\* Mutant of Skips: the scope decides about STEPs, too.
SkipsOnlyInScope(task) == IsRecorded(task) /\ skipStages

Skips(task) == IsRecorded(task) /\ (task.type = "STEP" \/ skipStages)

\* latest_step after a skip: the STEP itself, or what the STAGE's record says.
LatestAfterSkip(task) ==
  IF task.type = "STEP" THEN task ELSE ExecutionLog(task).latest

-----------------------------------------------------------------------------
Init ==
  /\ phase = "off"
  /\ stack = <<>>
  /\ exc = "none"
  /\ latest = NoStep
  /\ skipStages = FALSE
  /\ records = <<>>
  /\ session = 0

\* A new executor instance is created, injected and initialized.
Open ==
  /\ phase = "off"
  /\ session < MaxSessions
  /\ phase' = "body"
  /\ stack' = <<RootFrame>>
  /\ session' = session + 1
  /\ UNCHANGED <<exc, latest, skipStages, records>>

\* Mutants of Forget: deinitialize keeps the stack, or latest_step outlives the executor.
ForgetKeepsStack ==
  /\ phase' = "off"
  /\ exc' = "none"
  /\ latest' = NoStep
  /\ skipStages' = FALSE
  /\ UNCHANGED <<stack, records, session>>

ForgetKeepsLatest ==
  /\ phase' = "off"
  /\ stack' = <<>>
  /\ exc' = "none"
  /\ skipStages' = FALSE
  /\ UNCHANGED <<latest, records, session>>

\* What is left of the process's executor once it is gone: nothing.
Forget ==
  /\ phase' = "off"
  /\ stack' = <<>>
  /\ exc' = "none"
  /\ latest' = NoStep
  /\ skipStages' = FALSE
  /\ UNCHANGED <<records, session>>

\* The context's lifecycle is left, normally or by an exception.
Close == phase \in {"body", "raising"} /\ Len(stack) = 1 /\ Top.scopes = <<>> /\ Forget

\* The process is killed.
Crash == phase # "off" /\ Forget

-----------------------------------------------------------------------------
\* execute() passes its assertions: inside a STEP there are no subtasks, and
\* a top-level key is a string.  (One that is refused raises in the body: BodyRaises.)
CanSubmit(k) ==
  /\ phase = "body"
  /\ Top.type # "STEP"
  /\ Len(stack) = 1 => k \in TopKeys
  /\ Len(stack) <= MaxDepth
  /\ Top.next < MaxOrder

\* The counter of frame number i goes up by one.
Advance(frames, i) == [frames EXCEPT ![i].next = @ + 1]

\* on_task_submitted raises: nothing has happened yet, the position is kept.
SubmitFails(k) ==
  /\ CanSubmit(k)
  /\ phase' = "raising"
  /\ exc' = "error"
  /\ UNCHANGED <<stack, latest, skipStages, records, session>>

\* skip(), then latest_step is updated.
Skip(k, t) ==
  LET task == Subtask(Top, k, t) IN
  /\ CanSubmit(k)
  /\ Skips(task)
  /\ stack' = Advance(stack, Len(stack))
  /\ latest' = LatestAfterSkip(task)
  /\ UNCHANGED <<phase, exc, skipStages, records, session>>

\* skip() advances the counter before on_task_skipped raises.
SkipFails(k, t) ==
  /\ CanSubmit(k)
  /\ Skips(Subtask(Top, k, t))
  /\ stack' = Advance(stack, Len(stack))
  /\ phase' = "raising"
  /\ exc' = "error"
  /\ UNCHANGED <<latest, skipStages, records, session>>

\* Mutant of Run: the parent's counter advances when the task starts.
RunAdvances(k, t) ==
  LET task == Subtask(Top, k, t) IN
  /\ CanSubmit(k)
  /\ ~Skips(task)
  /\ stack' = Append(Advance(stack, Len(stack)), FrameOf(task))
  /\ phase' = "invoking"
  /\ UNCHANGED <<exc, latest, skipStages, records, session>>

\* run(): the task gets a frame.
Run(k, t) ==
  LET task == Subtask(Top, k, t) IN
  /\ CanSubmit(k)
  /\ ~Skips(task)
  /\ stack' = Append(stack, FrameOf(task))
  /\ phase' = "invoking"
  /\ UNCHANGED <<exc, latest, skipStages, records, session>>

-----------------------------------------------------------------------------
\* The exception reaches the `except` clauses of the top frame's run().
Throw(e) == phase' = "failing" /\ exc' = e

\* on_task_invoked
Invoked ==
  /\ phase = "invoking"
  /\ phase' = "body"
  /\ UNCHANGED <<stack, exc, latest, skipStages, records, session>>

InvokedRaises ==
  /\ phase = "invoking"
  /\ Throw("error")
  /\ UNCHANGED <<stack, latest, skipStages, records, session>>

BodyReturns ==
  /\ phase = "body"
  /\ Len(stack) > 1
  /\ Top.scopes = <<>>
  /\ phase' = "returned"
  /\ UNCHANGED <<stack, exc, latest, skipStages, records, session>>

BodyRaises(e) ==
  /\ phase = "body"
  /\ phase' = "raising"
  /\ exc' = e
  /\ UNCHANGED <<stack, latest, skipStages, records, session>>

\* User code catches what was raised in it or in one of its subtasks.
BodyCatches ==
  /\ phase = "raising"
  /\ phase' = "body"
  /\ exc' = "none"
  /\ UNCHANGED <<stack, latest, skipStages, records, session>>

\* ... or does not, and it leaves the body.
BodyAborts ==
  /\ phase = "raising"
  /\ Len(stack) > 1
  /\ Top.scopes = <<>>
  /\ phase' = "failing"
  /\ UNCHANGED <<stack, exc, latest, skipStages, records, session>>

\* _mark_finished, with the latest step before (STEP) or within (STAGE) the task
MarkFinished ==
  /\ phase = "returned"
  /\ Len(records) < MaxRecords
  /\ records' = Append(records, [task |-> TaskOf(Top), latest |-> latest])
  /\ phase' = "recorded"
  /\ UNCHANGED <<stack, exc, latest, skipStages, session>>

MarkRaises ==
  /\ phase = "returned"
  /\ Throw("error")
  /\ UNCHANGED <<stack, latest, skipStages, records, session>>

\* Mutant of Leave: the counter is left alone.
LeaveInPlace == stack' = SubSeq(stack, 1, Len(stack) - 1)

\* The `finally` of run(): the parent's counter advances, the frame is popped.
Leave == stack' = Advance(SubSeq(stack, 1, Len(stack) - 1), Len(stack) - 1)

\* execute() returns to its caller: only then is latest_step set, for a STEP.
ReturnToCaller ==
  /\ Leave
  /\ phase' = "body"
  /\ exc' = "none"
  /\ latest' = IF Top.type = "STEP" THEN TaskOf(Top) ELSE latest
  /\ UNCHANGED <<skipStages, records, session>>

\* Mutant of RaiseInCaller: the counter only advances when the task succeeds.
RaiseInPlace(e) ==
  /\ LeaveInPlace
  /\ phase' = "raising"
  /\ exc' = e
  /\ UNCHANGED <<latest, skipStages, records, session>>

\* execute() raises e in its caller.
RaiseInCaller(e) ==
  /\ Leave
  /\ phase' = "raising"
  /\ exc' = e
  /\ UNCHANGED <<latest, skipStages, records, session>>

\* on_task_finished(Result)
Finished == phase = "recorded" /\ ReturnToCaller

FinishedRaises ==
  /\ phase = "recorded"
  /\ Throw("error")
  /\ UNCHANGED <<stack, latest, skipStages, records, session>>

\* Only a top-level task swallows, and only a ToBeContinuedException.
Swallows == Len(stack) = 2 /\ exc = "tbc"

\* _exception_handler: on_task_finished(Failure or Unfinished), then re-raise or not.
\* SystemExit is not caught by run(): its `finally` runs, the handler does not.
Handled ==
  /\ phase = "failing"
  /\ IF Swallows THEN ReturnToCaller ELSE RaiseInCaller(exc)

\* on_task_finished raises inside the handler: that exception replaces the first.
HandlerRaises ==
  /\ phase = "failing"
  /\ exc # "exit"
  /\ RaiseInCaller("error")

-----------------------------------------------------------------------------
\* with executor.skip_executed_stages(v): the scope keeps the value it replaces.
EnterScope(v) ==
  /\ phase = "body"
  /\ Len(Top.scopes) < MaxScopes
  /\ stack' = [stack EXCEPT ![Len(stack)].scopes = Append(@, skipStages)]
  /\ skipStages' = v
  /\ UNCHANGED <<phase, exc, latest, records, session>>

\* Mutant of ExitScope: an exception gets past the scope without restoring the flag.
ExitScopeUnlessRaising ==
  /\ phase \in {"body", "raising"}
  /\ Top.scopes # <<>>
  /\ skipStages' = IF phase = "raising" THEN skipStages ELSE Top.scopes[Len(Top.scopes)]
  /\ stack' = [stack EXCEPT ![Len(stack)].scopes = SubSeq(@, 1, Len(@) - 1)]
  /\ UNCHANGED <<phase, exc, latest, records, session>>

\* __exit__, on the normal and on the exceptional way out
ExitScope ==
  /\ phase \in {"body", "raising"}
  /\ Top.scopes # <<>>
  /\ skipStages' = Top.scopes[Len(Top.scopes)]
  /\ stack' = [stack EXCEPT ![Len(stack)].scopes = SubSeq(@, 1, Len(@) - 1)]
  /\ UNCHANGED <<phase, exc, latest, records, session>>

-----------------------------------------------------------------------------
Submission ==
  \E k \in Keys :
    \/ SubmitFails(k)
    \/ \E t \in TaskType : Skip(k, t) \/ SkipFails(k, t) \/ Run(k, t)

UserCode ==
  \/ BodyReturns \/ BodyCatches \/ BodyAborts \/ ExitScope
  \/ \E e \in Raisable : BodyRaises(e)
  \/ \E v \in BOOLEAN : EnterScope(v)

Machinery ==
  \/ Invoked \/ InvokedRaises \/ MarkFinished \/ MarkRaises
  \/ Finished \/ FinishedRaises \/ Handled \/ HandlerRaises

Next == Open \/ Close \/ Crash \/ Submission \/ UserCode \/ Machinery

Spec == Init /\ [][Next]_vars

-----------------------------------------------------------------------------
(***************************************************************************)
(* Properties                                                              *)
(***************************************************************************)
TypeOK ==
  /\ phase \in Phase
  /\ stack \in Seq(Frame)
  /\ exc \in ExcKind \union {"none"}
  /\ latest \in Task \union {NoStep}
  /\ skipStages \in BOOLEAN
  /\ records \in Seq(Record)
  /\ session \in Nat
  /\ \A i \in 2..Len(stack) : stack[i].type \in TaskType
  /\ phase = "off" <=> stack = <<>>
  /\ phase \in {"invoking", "returned", "recorded", "failing"} => Len(stack) > 1

\* There are never two records of one STEP, whatever fails, however often the
\* program is restarted: the assertion "Database inconsistency!" in
\* _find_execution_log (executor.py:271) cannot fail.
OneRecordPerStep ==
  \A i, j \in DOMAIN records :
    records[i].task = records[j].task /\ records[i].task.type = "STEP" => i = j

\* Lexicographic order on the positions of the task tree.
Precedes(a, b) ==
  \E i \in 1..Len(b) :
    /\ Len(a) >= i - 1
    /\ \A j \in 1..(i - 1) : a[j] = b[j]
    /\ Len(a) >= i => a[i] < b[i]

IsBefore(step, position) == step = NoStep \/ Precedes(step.order, position)

\* The position a frame has reached when the task is over: its successor.
Successor(order) == [order EXCEPT ![Len(order)] = @ + 1]

\* The two halves of LatestInPast: of the executor's latest_step, of the records'.
LatestBeforePosition == phase # "off" => IsBefore(latest, Position(Top))

RecordsInPast ==
  \A i \in DOMAIN records :
    IsBefore(records[i].latest, Successor(records[i].task.order))

\* latest_step is never ahead of the program: it precedes the next position of the
\* running frame, and what a record keeps of it precedes the end of the record's own
\* task.  The data layer checks that step's branch out when it skips a STAGE
\* (consistency.py:49), so a step from the future would bring back later data.
LatestInPast == LatestBeforePosition /\ RecordsInPast

\* current_coordinates (executor.py:161) reads the order of the running task out of its
\* parent's counter; execute() has a copy of its own, taken when the task was
\* submitted.  The two agree for as long as the task is on the stack.
CoordinatesAgree ==
  \A i \in 2..Len(stack) : stack[i].order = Position(stack[i - 1])

\* Within a context session the program only moves forward, so no coordinates are
\* handed out twice: every step leaves the position where it was or moves it to a
\* later one, failures, skips and swallowed exceptions included.
PositionAdvances ==
  [][stack # <<>> /\ stack' # <<>> =>
       \/ Position(Top)' = Position(Top)
       \/ Precedes(Position(Top), Position(Top)')]_vars

\* Outside of every skip_executed_stages scope, STAGEs are not skipped, whichever way
\* the scopes were left.
SkipFlagScoped ==
  (\A i \in DOMAIN stack : stack[i].scopes = <<>>) => ~skipStages

=============================================================================
