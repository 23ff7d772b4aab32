--------------------------- MODULE RecordedExecution ---------------------------
(***************************************************************************)
(* The executor of TaskExecutor with what that module abstracts from: the  *)
(* records are looked up and read back by the text of their coordinates    *)
(* (TaskCoordinates), and each callback is one call of every delegate,     *)
(* which may raise with some of them told and others not                   *)
(* (CompositeCallbacks).                                                   *)
(***************************************************************************)
EXTENDS TaskExecutor, TaskCoordinates, CompositeCallbacks, FiniteSets

\* What keys are made of.
Piece == UNION {{k.pieces[i] : i \in DOMAIN k.pieces} : k \in Keys}

\* All ints and strings are keys: whatever can be read back is one again.
ASSUME RecordedExecutionAssumption ==
  /\ Keys \subseteq [int : BOOLEAN, pieces : Seq(Piece)]
  /\ \A k \in Keys : IsKey(k)
  /\ \A p \in Piece \ Marked : KeyOf(p) \in Keys

VARIABLES
  heard,  \* of each frame of the stack, what each delegate was told of it
  left,   \* the task or session that was left last, see Departure
  ran     \* History: the texts of the STEPs that were run

rvars == <<vars, heard, left, ran>>

\* How a task was left, and whether the last callback about it was told to all.
Departure == [heard : [1..Delegates -> Seq(Event)], recorded : BOOLEAN,
              how : {"returned", "raised", "exit", "unheard", "killed"}]

Fresh == [heard |-> NothingHeard, recorded |-> FALSE, how |-> "killed"]

Innermost == heard[Len(heard)]

-----------------------------------------------------------------------------
\* Mutant of Found: coordinates are compared, not their texts.
FoundByKeys(task) == {i \in DOMAIN records : records[i].task = task}

\* table.search(ExecLog.coordinates == coordinates), in order of insertion
Found(task) == {i \in DOMAIN records : Written(records[i].task) = Written(task)}

\* ... which reads each record that it has found, their latest_step included.
CanRead(found) ==
  \A i \in found :
    /\ Parses(Written(records[i].task))
    /\ records[i].latest # NoStep => Parses(Written(records[i].latest))

\* Mutant of LatestFound: the task of the record, not its latest step.
TaskFound(found) == Parsed(Written(records[Max(found)].task))

LatestFound(found) ==
  LET latestStep == records[Max(found)].latest IN
  IF latestStep = NoStep THEN NoStep ELSE Parsed(Written(latestStep))

MaySkip(task) == Found(task) # {} /\ (task.type = "STEP" \/ skipStages)

-----------------------------------------------------------------------------
RInit == Init /\ heard = <<>> /\ left = Fresh /\ ran = {}

\* before_session is told to every delegate ...
ROpen ==
  /\ Open
  /\ heard' = <<Heard(NothingHeard, "before_session", Delegates)>>
  /\ UNCHANGED <<left, ran>>

\* ... or one raises, and the executor is dropped without an after_session.
ROpenFails(n) ==
  /\ phase = "off"
  /\ session < MaxSessions
  /\ session' = session + 1
  /\ left' = [Fresh EXCEPT !.heard = Heard(NothingHeard, "before_session", n), !.how = "unheard"]
  /\ UNCHANGED <<phase, stack, exc, latest, skipStages, records, heard, ran>>

\* after_session, of which n delegates are told
RClose(n) ==
  /\ Close
  /\ heard' = <<>>
  /\ left' = [Fresh EXCEPT !.heard = Heard(Innermost, "after_session", n),
                           !.how = IF n = Delegates THEN "returned" ELSE "unheard"]
  /\ UNCHANGED ran

RCrash == Crash /\ heard' = <<>> /\ left' = Fresh /\ UNCHANGED ran

-----------------------------------------------------------------------------
RSubmitFails(k) == SubmitFails(k) /\ UNCHANGED <<heard, left, ran>>

\* A record is found and cannot be read: nothing has happened yet, as above.
LookupRaises(k, t) ==
  /\ SubmitFails(k)
  /\ ~CanRead(Found(Subtask(Top, k, t)))
  /\ UNCHANGED <<heard, left, ran>>

RSkip(k, t) ==
  LET task == Subtask(Top, k, t) IN
  /\ CanSubmit(k)
  /\ MaySkip(task)
  /\ CanRead(Found(task))
  /\ stack' = Advance(stack, Len(stack))
  /\ latest' = IF t = "STEP" THEN task ELSE LatestFound(Found(task))
  /\ UNCHANGED <<phase, exc, skipStages, records, session, heard, left, ran>>

RSkipFails(k, t) ==
  LET task == Subtask(Top, k, t) IN
  /\ CanSubmit(k)
  /\ MaySkip(task)
  /\ CanRead(Found(task))
  /\ stack' = Advance(stack, Len(stack))
  /\ phase' = "raising"
  /\ exc' = "error"
  /\ UNCHANGED <<latest, skipStages, records, session, heard, left, ran>>

RRun(k, t) ==
  LET task == Subtask(Top, k, t) IN
  /\ Run(k, t)
  /\ ~MaySkip(task)
  /\ CanRead(Found(task))
  /\ heard' = Append(heard, NothingHeard)
  /\ ran' = IF t = "STEP" THEN ran \union {Written(task)} ELSE ran
  /\ UNCHANGED left

-----------------------------------------------------------------------------
\* n delegates are told of the innermost task.
Tell(event, n) == heard' = [heard EXCEPT ![Len(heard)] = Heard(@, event, n)]

RInvoked == Invoked /\ Tell("invoked", Delegates) /\ UNCHANGED <<left, ran>>

RInvokedRaises(n) == InvokedRaises /\ Tell("invoked", n) /\ UNCHANGED <<left, ran>>

RBody ==
  /\ UserCode \/ MarkFinished \/ MarkRaises
  /\ UNCHANGED <<heard, left, ran>>

\* The task is gone; h is what was heard of it.
Departs(h, how) ==
  /\ heard' = Front(heard)
  /\ left' = [heard |-> h, how |-> how,
              recorded |-> \E i \in DOMAIN records : records[i].task = TaskOf(Top)]
  /\ UNCHANGED ran

RFinished == Finished /\ Departs(Heard(Innermost, EndOf("none"), Delegates), "returned")

RFinishedRaises(n) == FinishedRaises /\ Tell(EndOf("none"), n) /\ UNCHANGED <<left, ran>>

RHandled ==
  /\ Handled
  /\ IF exc = "exit" THEN Departs(Innermost, "exit")
                     ELSE Departs(Heard(Innermost, EndOf(exc), Delegates),
                                  IF Swallows THEN "returned" ELSE "raised")

RHandlerRaises(n) == HandlerRaises /\ Departs(Heard(Innermost, EndOf(exc), n), "unheard")

-----------------------------------------------------------------------------
RSubmission ==
  \E k \in Keys :
    \/ RSubmitFails(k)
    \/ \E t \in TaskType : LookupRaises(k, t) \/ RSkip(k, t) \/ RSkipFails(k, t) \/ RRun(k, t)

Delivery ==
  \/ RInvoked \/ RFinished \/ RHandled
  \/ \E n \in 1..Delegates :
       ROpenFails(n) \/ RClose(n) \/ RInvokedRaises(n) \/ RFinishedRaises(n) \/ RHandlerRaises(n)

RNext == ROpen \/ RCrash \/ RSubmission \/ RBody \/ Delivery

RSpec == RInit /\ [][RNext]_rvars

-----------------------------------------------------------------------------
(***************************************************************************)
(* Properties                                                              *)
(***************************************************************************)
RTypeOK ==
  /\ TypeOK
  /\ Len(heard) = Len(stack)
  /\ \A i \in DOMAIN heard : heard[i] \in [1..Delegates -> Seq(Event)]
  /\ left \in Departure
  /\ \A text \in ran : text.type = "STEP"

\* The assertion "Database inconsistency!" (executor.py:271) is about texts: no two
\* records of STEPs have the same one, although different keys may (1 and "1", or
\* "a/1" below one task and "a" and 1 below another).
RecordedOnce ==
  \A i, j \in DOMAIN records :
    /\ records[i].task.type = "STEP"
    /\ Written(records[i].task) = Written(records[j].task)
    => i = j

\* Coordinates come back from the table as they were, exactly if no key is a numeral
\* that is a string, or has a separator in it (the assertion at executor_model.py:155
\* is one instance).
ReadBack ==
  \A i \in DOMAIN records :
    LET task == records[i].task IN
    Parses(Written(task)) /\ Parsed(Written(task)) = task
      <=> \A j \in DOMAIN task.path : Plain(task.path[j])

\* latest_step is the name of a branch: it names a STEP that was run, after reruns and
\* skipped STAGEs, too, unless that STEP has a numeral such as "01" among its keys,
\* which is "1" once it has been read.
LatestWasRun ==
  latest # NoStep =>
    \/ Written(latest) \in ran
    \/ \E text \in ran : /\ Written(Parsed(text)) = Written(latest)
                         /\ \E i \in DOMAIN text.path : ~KeepsText(text.path[i])

\* The relations between coordinates are those between the tasks on the stack.
AncestryAgrees ==
  \A i, j \in 2..Len(stack) :
    LET upper == TaskOf(stack[i])
        lower == TaskOf(stack[j]) IN
    /\ IsDescendantOf(lower, upper) <=> i <= j
    /\ i <= j => Ancestor(lower, j - i) = [upper EXCEPT !.type = "STAGE"]
    /\ i + 1 = j => Child(upper, Last(lower.path), stack[i].next) = [lower EXCEPT !.type = "STAGE"]
    /\ \A k \in Keys, t \in TaskType :
         Sibling(lower, k, t) = Subtask(Advance(stack, j - 1)[j - 1], k, t)

\* Whoever leaves a task, in whatever way, tells every delegate that it is over, unless
\* a delegate raises while it is told so, or the program exits.
EndHeard ==
  left.how \in {"returned", "raised"} =>
    \A d \in 1..Delegates :
      \E event \in {"result", "failure", "after_session"} : HasHeard(left.heard, d, event)

\* A delegate is only told of a Result, on which the data is committed, after the task
\* was recorded.
ResultIsRecorded ==
  \A d \in 1..Delegates : HasHeard(left.heard, d, "result") => left.recorded

\* What a delegate may hear of one task, or of one session: it may be told that a task
\* is over that it does not know of, and of a Failure after a Result, since the handler
\* tells all of them again.
History == { <<>>, <<"failure">>, <<"invoked">>, <<"invoked", "result">>,
             <<"invoked", "failure">>, <<"invoked", "result", "failure">>,
             <<"before_session">>, <<"before_session", "after_session">> }

\* Sessions nest: whoever is told first that one begins is told last that it is over, so a
\* delegate that raises then only hides the end from those that were there before it.  Tasks
\* do not: nobody hears of one's beginning, or of its Result, before those in front of it.
ToldInOrder ==
  \A d \in 1..Delegates :
    /\ left.heard[d] \in History
    /\ \A e \in 1..(d - 1) :
         /\ \A event \in {"before_session", "invoked", "result"} :
              HasHeard(left.heard, d, event) => HasHeard(left.heard, e, event)
         /\ HasHeard(left.heard, e, "after_session") => HasHeard(left.heard, d, "after_session")

\* The relations of coordinates are those of tasks, on the stack and once they are read.
CoordinatesHold == ReadBack /\ AncestryAgrees

\* Delegates may rely on what they hear: everything ends, each event comes in its order of
\* delegates, and a Result is there to stay.
DelegatesTold == EndHeard /\ ResultIsRecorded /\ ToldInOrder

=============================================================================
