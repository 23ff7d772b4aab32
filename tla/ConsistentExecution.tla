------------------------- MODULE ConsistentExecution -------------------------
(***************************************************************************)
(* The executor with its data layer: a program that always submits the     *)
(* same tasks, run by TaskExecutor, with                                   *)
(* ConsistentDataVersioningCallback (common/consistency.py) turning what   *)
(* happens to a STEP into operations on its branch in VersionedData.  Each *)
(* STEP saves one piece of data, which has the STEP's name.                *)
(*                                                                         *)
(* Every call a callback makes is a step of its own: it may fail, and the  *)
(* process may die before and after it.                                    *)
(***************************************************************************)
EXTENDS TaskExecutor

CONSTANTS
  Program,    \* path of a STAGE |-> the sequence of tasks its body submits
  Steps,      \* the STEPs of the program, in the order it runs them
  MayCatch,   \* whether the program catches what its tasks raise
  MaxFaults   \* bound: exceptions and deaths of the process

VARIABLES
  head, work, branch, access,   \* see VersionedData
  todo,     \* what is left of on_step_invoked, "nothing" outside of it
  faults,   \* how many faults there have been
  \* History:
  done,     \* the STEPs the session completed or skipped
  torn      \* the STEPs that were recorded and lost their data

data == <<head, work, branch, access>>
cvars == <<vars, data, todo, faults, done, torn>>

D == INSTANCE VersionedData WITH Main <- NoStep

Todo == {"nothing", "delete", "create", "checkout", "allow"}

ASSUME ConsistentExecutionAssumption ==
  /\ \A path \in DOMAIN Program :
       /\ Program[path] \in Seq([key : Keys, type : TaskType])
       /\ \A i \in 1..Len(Program[path]) :
            Program[path][i].type = "STAGE" => Append(path, Program[path][i].key) \in DOMAIN Program
  /\ <<>> \in DOMAIN Program
  /\ MayCatch \in BOOLEAN
  /\ MaxFaults \in Nat

\* What the program submits at some point: each key on the path is the one that is
\* submitted at its position, and only STAGEs submit.
Submitted(task) ==
  /\ task.path # <<>>
  /\ Len(task.order) = Len(task.path)
  /\ \A i \in 1..Len(task.path) :
       LET outer == SubSeq(task.path, 1, i - 1) IN
       /\ outer \in DOMAIN Program
       /\ task.order[i] + 1 \in 1..Len(Program[outer])
       /\ Program[outer][task.order[i] + 1] =
            [key |-> task.path[i], type |-> IF i = Len(task.path) THEN task.type ELSE "STAGE"]

ProgramSteps ==
  LET positions == UNION {{i - 1 : i \in 1..Len(Program[path])} : path \in DOMAIN Program} IN
  UNION {{s \in [path  : {Append(path, k) : k \in Keys},
                 order : [1..(Len(path) + 1) -> positions],
                 type  : {"STEP"}] : Submitted(s)} : path \in DOMAIN Program}

ASSUME StepsAssumption ==
  /\ Steps \in Seq(Task)
  /\ {Steps[i] : i \in 1..Len(Steps)} = ProgramSteps
  /\ \A i, j \in 1..Len(Steps) : i < j => Precedes(Steps[i].order, Steps[j].order)

InStep == Len(stack) > 1 /\ Top.type = "STEP"

\* The next task of the running body.
Pending  == phase = "body" /\ Top.type # "STEP" /\ Top.next < Len(Program[Top.path])
NextTask == Program[Top.path][Top.next + 1]

Fault == faults < MaxFaults /\ faults' = faults + 1

\* The record of the top frame's STEP is in the table, its data is not committed.
Tearing == phase = "recorded" /\ InStep /\ TaskOf(Top) \notin head[branch]

Tear == torn' = IF Tearing THEN torn \union {TaskOf(Top)} ELSE torn

-----------------------------------------------------------------------------
CInit ==
  /\ Init
  /\ D!Init
  /\ todo = "nothing"
  /\ faults = 0
  /\ done = {}
  /\ torn = {}

COpen ==
  /\ Open
  /\ done' = {}
  /\ UNCHANGED <<data, todo, faults, torn>>

CClose ==
  /\ Close
  /\ ~Pending
  /\ D!Disconnect
  /\ UNCHANGED <<todo, faults, done, torn>>

CCrash ==
  /\ Crash
  /\ Fault
  /\ D!Disconnect
  /\ Tear
  /\ todo' = "nothing"
  /\ UNCHANGED done

\* with executor.skip_executed_stages(True), around any part of the program
CScope ==
  /\ Len(stack) = 1
  /\ EnterScope(TRUE) \/ ExitScope
  /\ UNCHANGED <<data, todo, faults, done, torn>>

-----------------------------------------------------------------------------
\* on_step_skipped and on_stage_skipped check out the branch of the record.
Restored(task) == LatestAfterSkip(task)

\* The STEPs recorded inside of a task.
StepsWithin(task) ==
  {s \in {records[i].task : i \in DOMAIN records} :
     /\ s.type = "STEP"
     /\ Len(s.order) >= Len(task.order)
     /\ SubSeq(s.order, 1, Len(task.order)) = task.order}

CSkip ==
  LET task == Subtask(Top, NextTask.key, NextTask.type) IN
  /\ Pending
  /\ Skip(NextTask.key, NextTask.type)
  /\ D!Checkout(Restored(task))
  /\ done' = done \union StepsWithin(task)
  /\ UNCHANGED <<todo, faults, torn>>

\* The checkout raises, because there is no such branch or for a reason of its own.
CSkipFails ==
  LET task == Subtask(Top, NextTask.key, NextTask.type) IN
  /\ Pending
  /\ SkipFails(NextTask.key, NextTask.type)
  /\ IF D!HasBranch(Restored(task)) THEN Fault ELSE UNCHANGED faults
  /\ UNCHANGED <<data, todo, done, torn>>

CRun ==
  /\ Pending
  /\ Run(NextTask.key, NextTask.type)
  /\ todo' = IF NextTask.type = "STEP" THEN "delete" ELSE "nothing"
  /\ UNCHANGED <<data, faults, done, torn>>

-----------------------------------------------------------------------------
\* Mutant of EnsureDeleted: the branch of an earlier attempt is kept.
EnsureKept ==
  /\ todo = "delete"
  /\ todo' = "create"
  /\ UNCHANGED <<vars, data, faults, done, torn>>

\* on_step_invoked: ensure_empty_branch, in two calls, checkout, allow_writing.
EnsureDeleted ==
  /\ todo = "delete"
  /\ IF D!HasBranch(TaskOf(Top)) THEN D!DeleteBranch(TaskOf(Top)) ELSE UNCHANGED data
  /\ todo' = "create"
  /\ UNCHANGED <<vars, faults, done, torn>>

EnsureCreated ==
  /\ todo = "create"
  /\ D!NewBranch(TaskOf(Top))
  /\ todo' = "checkout"
  /\ UNCHANGED <<vars, faults, done, torn>>

\* Mutant of CheckedOut: the new branch is not checked out.
NotCheckedOut ==
  /\ todo = "checkout"
  /\ todo' = "allow"
  /\ UNCHANGED <<vars, data, faults, done, torn>>

CheckedOut ==
  /\ todo = "checkout"
  /\ D!Checkout(TaskOf(Top))
  /\ todo' = "allow"
  /\ UNCHANGED <<vars, faults, done, torn>>

WritingAllowed ==
  /\ todo = "allow"
  /\ D!AllowWriting
  /\ Invoked
  /\ todo' = "nothing"
  /\ UNCHANGED <<faults, done, torn>>

\* on_stage_invoked does nothing.
StageInvoked ==
  /\ todo = "nothing"
  /\ Invoked
  /\ UNCHANGED <<data, todo, faults, done, torn>>

\* The call that is next cannot succeed ...
Stuck ==
  \/ todo = "delete" /\ D!HasBranch(TaskOf(Top)) /\ ~D!CanDelete(TaskOf(Top))
  \/ todo = "allow" /\ ~D!CanAllow

\* ... or a call fails for a reason of its own.
StepInvokedRaises ==
  /\ todo # "nothing"
  /\ InvokedRaises
  /\ IF Stuck THEN UNCHANGED faults ELSE Fault
  /\ todo' = "nothing"
  /\ UNCHANGED <<data, done, torn>>

-----------------------------------------------------------------------------
\* The body of a STEP: one save, then the end of it.
CSave ==
  /\ phase = "body" /\ InStep
  /\ TaskOf(Top) \notin work[branch]
  /\ D!Save(TaskOf(Top))
  /\ UNCHANGED <<vars, todo, faults, done, torn>>

CBodyReturns ==
  /\ BodyReturns
  /\ IF InStep THEN TaskOf(Top) \in work[branch] ELSE ~Pending
  /\ UNCHANGED <<data, todo, faults, done, torn>>

CBodyRaises ==
  /\ \E e \in Raisable : BodyRaises(e)
  /\ Fault
  /\ UNCHANGED <<data, todo, done, torn>>

\* A STEP's own exception ends it; a STAGE, or the root, may catch.
CBodyCatches ==
  /\ MayCatch
  /\ ~InStep
  /\ BodyCatches
  /\ UNCHANGED <<data, todo, faults, done, torn>>

CBodyAborts ==
  /\ BodyAborts
  /\ UNCHANGED <<data, todo, faults, done, torn>>

-----------------------------------------------------------------------------
CMarkFinished ==
  /\ MarkFinished
  /\ UNCHANGED <<data, todo, faults, done, torn>>

CMarkRaises ==
  /\ MarkRaises
  /\ Fault
  /\ UNCHANGED <<data, todo, done, torn>>

\* on_step_finished(Result); on_stage_finished changes nothing
CFinished ==
  /\ Finished
  /\ IF InStep THEN D!CommitAndDisallow ELSE UNCHANGED data
  /\ done' = IF InStep THEN done \union {TaskOf(Top)} ELSE done
  /\ UNCHANGED <<todo, faults, torn>>

\* commit() raises, before or after the commit took effect.
CFinishedRaises ==
  /\ InStep
  /\ FinishedRaises
  /\ Fault
  /\ \/ UNCHANGED data /\ Tear
     \/ D!CommitOnly /\ UNCHANGED torn
  /\ UNCHANGED <<todo, done>>

\* on_step_finished(Failure or Unfinished); SystemExit never gets there.
CHandled ==
  /\ Handled
  /\ IF InStep /\ exc # "exit" THEN D!RollbackAndDisallow ELSE UNCHANGED data
  /\ UNCHANGED <<todo, faults, done, torn>>

\* rollback() raises: writing stays allowed.
CHandlerRaises ==
  /\ InStep
  /\ HandlerRaises
  /\ Fault
  /\ UNCHANGED <<data, todo, done, torn>>

-----------------------------------------------------------------------------
\* What happens as long as nothing goes wrong, and what follows when it did.
Progress ==
  \/ COpen \/ CClose
  \/ CSkip \/ CRun
  \/ EnsureDeleted \/ EnsureCreated \/ CheckedOut \/ WritingAllowed \/ StageInvoked
  \/ CSave \/ CBodyReturns \/ CBodyAborts
  \/ CMarkFinished \/ CFinished \/ CHandled

Accidents ==
  \/ CCrash \/ CSkipFails \/ StepInvokedRaises \/ CBodyRaises
  \/ CMarkRaises \/ CFinishedRaises \/ CHandlerRaises

CNext == Progress \/ Accidents \/ CScope \/ CBodyCatches

CSpec == CInit /\ [][CNext]_cvars

\* The executor is synchronous code, a `with` block is always left, and somebody
\* starts the program again when it stopped.
CFairness == WF_cvars(Progress) /\ WF_cvars(CScope /\ ExitScope)

CFairSpec == CSpec /\ CFairness

-----------------------------------------------------------------------------
(***************************************************************************)
(* Properties                                                              *)
(***************************************************************************)
Branch == Task \union {NoStep}

CTypeOK ==
  /\ TypeOK
  /\ NoStep \in DOMAIN head /\ DOMAIN head = DOMAIN work
  /\ \A b \in DOMAIN head :
       b \in Branch /\ head[b] \subseteq Task /\ work[b] \subseteq Task
  /\ branch \in DOMAIN head
  /\ access \in {"RO", "RW"}
  /\ todo \in Todo
  /\ todo # "nothing" => phase = "invoking" /\ InStep
  /\ faults \in 0..MaxFaults
  /\ done \subseteq Task /\ torn \subseteq Task

RecordedSteps == {s \in {records[i].task : i \in DOMAIN records} : s.type = "STEP"}

\* The data of a STEP is committed to its own branch.
Durable(step) == D!HasBranch(step) /\ step \in head[step]

\* Whoever runs after a STEP that the session completed or skipped sees its data, in
\* every later session too, whether it was skipped itself or as a part of a STAGE.
\* Excepted is what was torn.
CompletedDataVisible == phase # "off" => done \ torn \subseteq head[branch]

\* A STEP works on its own branch, and finds nothing uncommitted there: whatever is
\* committed by on_step_finished is what it found and what it saved itself.
StepIsolated ==
  InStep /\ phase \in {"body", "raising", "returned", "recorded"} =>
    /\ branch = TaskOf(Top)
    /\ work[branch] \subseteq head[branch] \union {TaskOf(Top)}

\* ensure_empty_branch never has to delete the branch that is checked out, which Dolt
\* refuses: latest_step, and with it every branch a skip checks out, is in the past.
NeverDropsCurrent == todo = "delete" => branch # TaskOf(Top)

\* The data of a recorded STEP, once committed, is never lost: no other STEP deletes
\* its branch, and the STEP itself is not run again.
DurableForever ==
  [][\A s \in RecordedSteps : Durable(s) => Durable(s)']_cvars

\* What the rerun tests take for granted (test_reruns.py:152): a STEP that is skipped
\* has its data.
RecordedDataDurable ==
  \A s \in RecordedSteps :
    \/ Durable(s)
    \/ InStep /\ s = TaskOf(Top) /\ phase = "recorded"

\* The only STEPs that are recorded without data are the torn ones and the one that is
\* being committed; a skip finds the branch of all of them.
RecordedOrTorn ==
  \A s \in RecordedSteps :
    /\ D!HasBranch(s)
    /\ \/ Durable(s)
       \/ s \in torn
       \/ InStep /\ s = TaskOf(Top) /\ phase = "recorded"

\* Outside of STEPs nothing can be saved: read-only is the default mode
\* (writability.py:34).
WritableOnlyInStep == phase = "body" /\ access = "RW" => InStep

\* What a completed STEP leaves behind: its data, and a database that is closed.
CompletedAndClosed == CompletedDataVisible /\ WritableOnlyInStep

\* The STEPs of a sequence of records, in their order
StepsOf(rs) ==
  LET steps[n \in 0..Len(rs)] ==
        IF n = 0 THEN <<>>
        ELSE IF rs[n].task.type = "STEP" THEN Append(steps[n - 1], rs[n].task) ELSE steps[n - 1]
  IN steps[Len(rs)]

\* The executor's records, STEPs only, implement the log of the program.
LoggedSteps == StepsOf(records)

L == INSTANCE StepLog WITH log <- LoggedSteps

\* As long as exceptions end the session, STEPs are recorded in program order and once
\* each, across all sessions and deaths of the process.
ImplementsStepLog == L!Spec

\* A program that is restarted often enough gets to its end, whatever failed before:
\* no failure leaves something behind that stops every later session.
EventuallyComplete == <>(LoggedSteps = Steps)

=============================================================================
