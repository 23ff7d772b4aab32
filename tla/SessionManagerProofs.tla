------------------------ MODULE SessionManagerProofs ------------------------
(***************************************************************************)
(* Proofs about SessionManager, for any number of processes, of lifecycles *)
(* in each, and of invoked steps; and about SessionRecords, for documents  *)
(* of any depth that they need: what is written to its tables is read back.*)
(***************************************************************************)
EXTENDS SessionRecords, SequenceTheorems, WellFoundedInduction, TLAPS

(***************************************************************************)
(* The invariant.  MarksAreTrue and SanitizedBeforeWork are what matters;  *)
(* the rest is what makes them inductive:                                  *)
(*   - a process has a number, and the table has no entry of a later one;  *)
(*   - while a context session is open, LastSession names the process and  *)
(*     its entry in the table is what it has in memory;                    *)
(*   - a killed context session is in the table, under the number of a     *)
(*     process that is gone, and so out of reach of every later _persist;  *)
(*   - what is persisted of a process never is ahead of its memory.        *)
(***************************************************************************)
HasNumber == pc # "down" => sid > 0

LastIsOwn == pc \in {"new", "opening", "opened", "running"} => lastSid = sid

OpenIsPersisted ==
  Open => /\ sid \in DOMAIN table
          /\ table[sid] = contexts
          /\ ~Last(contexts).sanitized

LeftoverIsPast ==
  \A c \in leftover :
    /\ c[1] \in DOMAIN table
    /\ c[2] \in 1..Len(table[c[1]])
    /\ pc # "down" => c[1] # sid

PersistedBelow ==
  sid \in DOMAIN table =>
    /\ Len(table[sid]) <= Len(contexts)
    /\ \A i \in 1..Len(table[sid]) : table[sid][i].invoked <= contexts[i].invoked

\* What makes a start roll back, or fail: no context session is known, or the last one
\* is not sanitized.
Dirty(cs) == cs = <<>> \/ ~Last(cs).sanitized

\* Until the process has opened a context session.
Empty == contexts = <<>> /\ sid \in DOMAIN table /\ table[sid] = <<>>

(***************************************************************************)
(* As long as no process tries again, data that has to be rolled back is   *)
(* found by the next start: the session that LastSession names is dirty,   *)
(* or, once the start has read it, what was read is.  A start that fails   *)
(* puts its own session, which has no context session, in the place of the *)
(* killed one; whoever comes next fails at that.                           *)
(***************************************************************************)
RollbackDue ==
  leftover # {} /\ ~retried =>
    /\ lastSid # NoSid /\ lastSid \in DOMAIN table /\ Dirty(table[lastSid])
    /\ pc \notin {"opening", "opened", "running"}
    /\ pc = "idle" => \/ attempts = 0 /\ lastSid # sid /\ contexts = <<>>
                      \/ Len(contexts) < attempts
    /\ pc \in {"injected", "found", "new"} => Empty /\ attempts > 0
    /\ pc \in {"injected", "found"} => lastSid # sid
    /\ pc = "found" => prevSid = lastSid /\ prev = table[lastSid]
    /\ pc = "new" => prevSid # NoSid /\ Dirty(prev)

IInv ==
  /\ TypeOK
  /\ HasNumber
  /\ LastIsOwn
  /\ OpenIsPersisted
  /\ LeftoverIsPast
  /\ PersistedBelow
  /\ NoFalseSanitized
  /\ RollbackDue

(***************************************************************************)
(* What the steps do to context sessions and to the table.                 *)
(***************************************************************************)

\* The last context session of a sequence, and what an assignment to it leaves.
LEMMA LastContext ==
  ASSUME NEW s \in Seq(Context), s # <<>>, NEW c \in Context
  PROVE  LET t == [s EXCEPT ![Len(s)] = c] IN
         /\ Len(s) \in 1..Len(s) /\ Last(s) \in Context
         /\ t \in Seq(Context) /\ Len(t) = Len(s) /\ Last(t) = c /\ t # <<>>
         /\ \A i \in 1..Len(s) : t[i] = IF i = Len(s) THEN c ELSE s[i]
<1>1. Len(s) \in 1..Len(s)
  BY EmptySeq
<1>2. Last(s) \in Context
  BY <1>1, ElementOfSeq DEF Last
<1> DEFINE t == [s EXCEPT ![Len(s)] = c]
<1>3. /\ t \in Seq(Context) /\ Len(t) = Len(s)
      /\ \A i \in 1..Len(s) : t[i] = IF i = Len(s) THEN c ELSE s[i]
  BY <1>1, ExceptSeq
<1> HIDE DEF t
<1>4. Last(t) = c /\ t # <<>>
  BY <1>1, <1>3, EmptySeq DEF Last
<1> QED
  BY <1>1, <1>2, <1>3, <1>4 DEF t

\* A context session, and what the two assignments to one of its fields leave.
LEMMA ContextFields ==
  ASSUME NEW c \in Context, NEW clean \in BOOLEAN
  PROVE  /\ c.invoked \in Nat /\ c.sanitized \in BOOLEAN
         /\ LET d == [c EXCEPT !.invoked = c.invoked + 1] IN
            d \in Context /\ d.sanitized = c.sanitized /\ d.invoked >= c.invoked
         /\ LET d == [c EXCEPT !.sanitized = clean] IN
            d \in Context /\ d.sanitized = clean /\ d.invoked = c.invoked
  BY DEF Context

\* Every context session of a process has a number of invoked steps.
LEMMA InvokedType ==
  ASSUME NEW s \in Seq(Context), NEW i \in 1..Len(s)
  PROVE  s[i].invoked \in Nat
<1>1. s[i] \in Context
  BY ElementOfSeq
<1> QED
  BY <1>1, ContextFields

\* An open context session is the last one of the process.
LEMMA OpenHasLast ==
  ASSUME TypeOK, Open
  PROVE  /\ contexts \in Seq(Context) /\ contexts # <<>>
         /\ Len(contexts) \in 1..Len(contexts)
         /\ Last(contexts) \in Context
<1>1. contexts \in Seq(Context) /\ contexts # <<>>
  BY DEF TypeOK
<1>2. [sanitized |-> TRUE, invoked |-> 0] \in Context
  BY DEF Context
<1> QED
  BY <1>1, <1>2, LastContext

\* _open_context_session adds an unsanitized context session.
LEMMA ContextOpened ==
  ASSUME TypeOK, contexts' = Append(contexts, [sanitized |-> FALSE, invoked |-> 0])
  PROVE  /\ contexts' \in Seq(Context) /\ contexts' # <<>>
         /\ Len(contexts') = Len(contexts) + 1
         /\ ~Last(contexts').sanitized
         /\ \A i \in 1..Len(contexts) : contexts'[i] = contexts[i]
<1> DEFINE new == [sanitized |-> FALSE, invoked |-> 0]
<1>1. new \in Context /\ ~new.sanitized /\ contexts \in Seq(Context)
  BY DEF Context, TypeOK
<1> HIDE DEF new
<1>2. /\ contexts' \in Seq(Context) /\ Len(contexts') = Len(contexts) + 1
      /\ contexts'[Len(contexts) + 1] = new
      /\ \A i \in 1..Len(contexts) : contexts'[i] = contexts[i]
  BY <1>1, AppendProperties DEF new
<1>3. contexts' # <<>> /\ Last(contexts') = new
  BY <1>1, <1>2, EmptySeq DEF Last
<1> QED
  BY <1>1, <1>2, <1>3

\* mark_invoked_step changes nothing else of the last context session.
LEMMA StepMarked ==
  ASSUME TypeOK, MarkInvokedStep
  PROVE  /\ contexts' \in Seq(Context) /\ contexts' # <<>>
         /\ Len(contexts') = Len(contexts)
         /\ Last(contexts').sanitized = Last(contexts).sanitized
         /\ \A i \in 1..Len(contexts) : contexts'[i].invoked >= contexts[i].invoked
<1> DEFINE c == [Last(contexts) EXCEPT !.invoked = Last(contexts).invoked + 1]
<1>1. Open
  BY DEF MarkInvokedStep, Open
<1>2. /\ contexts \in Seq(Context) /\ contexts # <<>> /\ Last(contexts) \in Context
      /\ Len(contexts) \in 1..Len(contexts)
  BY <1>1, OpenHasLast
<1>3. /\ c \in Context /\ c.sanitized = Last(contexts).sanitized
      /\ c.invoked >= Last(contexts).invoked
  BY <1>2, ContextFields
<1>4. contexts' = [contexts EXCEPT ![Len(contexts)] = c]
  BY DEF MarkInvokedStep, Last
<1> HIDE DEF c
<1>5. /\ contexts' \in Seq(Context) /\ Len(contexts') = Len(contexts)
      /\ contexts' # <<>> /\ Last(contexts') = c
      /\ \A i \in 1..Len(contexts) :
           contexts'[i] = IF i = Len(contexts) THEN c ELSE contexts[i]
  BY <1>2, <1>3, <1>4, LastContext DEF Last
<1>6. ASSUME NEW i \in 1..Len(contexts)
      PROVE  contexts'[i].invoked >= contexts[i].invoked
  <2>1. contexts[i].invoked \in Nat
    BY <1>2, InvokedType
  <2> QED
    BY <1>3, <1>5, <2>1 DEF Last
<1> QED
  BY <1>3, <1>5, <1>6

\* deinitialize only writes the flag.
LEMMA ContextClosed ==
  ASSUME TypeOK, CloseContext
  PROVE  /\ contexts' \in Seq(Context) /\ Len(contexts') = Len(contexts)
         /\ \A i \in 1..Len(contexts) : contexts'[i].invoked >= contexts[i].invoked
<1>1. PICK clean \in BOOLEAN :
        contexts' = [contexts EXCEPT ![Len(contexts)].sanitized = clean]
  BY DEF CloseContext
<1> DEFINE c == [Last(contexts) EXCEPT !.sanitized = clean]
<1>2. /\ contexts \in Seq(Context) /\ contexts # <<>> /\ Last(contexts) \in Context
      /\ Len(contexts) \in 1..Len(contexts)
  BY OpenHasLast DEF CloseContext
<1>3. c \in Context /\ c.invoked = Last(contexts).invoked
  BY <1>2, ContextFields
<1>4. contexts' = [contexts EXCEPT ![Len(contexts)] = c]
  BY <1>1 DEF Last
<1> HIDE DEF c
<1>5. /\ contexts' \in Seq(Context) /\ Len(contexts') = Len(contexts)
      /\ \A i \in 1..Len(contexts) :
           contexts'[i] = IF i = Len(contexts) THEN c ELSE contexts[i]
  BY <1>2, <1>3, <1>4, LastContext
<1>6. ASSUME NEW i \in 1..Len(contexts)
      PROVE  contexts'[i].invoked >= contexts[i].invoked
  <2>1. contexts[i].invoked \in Nat
    BY <1>2, InvokedType
  <2> QED
    BY <1>3, <1>5, <2>1 DEF Last
<1> QED
  BY <1>5, <1>6

\* The memory of a process loses no context session, and no invoked step of one.
LEMMA ContextsGrow ==
  ASSUME TypeOK, [Next]_vars, ~StartProcess
  PROVE  /\ contexts' \in Seq(Context)
         /\ Len(contexts') >= Len(contexts)
         /\ \A i \in 1..Len(contexts) : contexts'[i].invoked >= contexts[i].invoked
<1>1. contexts \in Seq(Context) /\ Len(contexts) \in Nat
  BY DEF TypeOK
<1>2. \A i \in 1..Len(contexts) : contexts[i].invoked \in Nat
  BY <1>1, InvokedType
<1>3. CASE OpenContext \/ OpenContextRaises
  BY <1>1, <1>2, <1>3, ContextOpened DEF OpenContext, OpenContextRaises
<1>4. CASE MarkInvokedStep
  BY <1>1, <1>4, StepMarked
<1>5. CASE CloseContext
  BY <1>1, <1>5, ContextClosed
<1>6. CASE UNCHANGED contexts
  BY <1>1, <1>2, <1>6
<1> QED
  BY <1>3, <1>4, <1>5, <1>6
     DEF Next, vars, process, ExitProcess, Kill, Inject, Find, SaveLast, NothingToSanitize,
         Sanitize, SanitizeRaises, NoLastContextRaises, ContextStarted

\* The table only changes by a _persist, which writes all that the process has in memory.
LEMMA TableSteps ==
  ASSUME [Next]_vars
  PROVE  \/ UNCHANGED table
         \/ Persist(contexts') /\ pc # "down" /\ UNCHANGED sid
<1> QED
  BY DEF Next, vars, file, process, StartProcess, ExitProcess, Kill, Inject, Find, SaveLast,
         NothingToSanitize, Sanitize, SanitizeRaises, NoLastContextRaises, OpenContext,
         OpenContextRaises, ContextStarted, MarkInvokedStep, CloseContext, Persist, Open

\* What a _persist writes.
LEMMA Persisted ==
  ASSUME TypeOK, HasNumber, pc # "down", NEW cs \in Seq(Context), Persist(cs)
  PROVE  /\ DOMAIN table' = DOMAIN table \union {sid}
         /\ DOMAIN table' \subseteq 1..sid
         /\ table'[sid] = cs
         /\ \A s \in DOMAIN table \ {sid} : table'[s] = table[s]
         /\ \A s \in DOMAIN table' : table'[s] \in Seq(Context)
  BY DEF TypeOK, HasNumber, Persist

(***************************************************************************)
(* The invariant is preserved, one lemma per part of it.                   *)
(***************************************************************************)

LEMMA InitInv == Init => IInv
<1> SUFFICES ASSUME Init PROVE IInv
  OBVIOUS
<1> USE DEF Init
<1>1. contexts \in Seq(Context) /\ prev \in Seq(Context)
  BY EmptySeq
<1>2. DOMAIN table = {}
  OBVIOUS
<1>3. TypeOK
  <2>1. retried \in BOOLEAN /\ leftover \subseteq (1..sid) \X (Nat \ {0})
    OBVIOUS
  <2> QED
    BY <1>1, <1>2, <2>1 DEF TypeOK, Stage, Open, NoSid
<1> QED
  BY <1>2, <1>3 DEF IInv, HasNumber, LastIsOwn, OpenIsPersisted, LeftoverIsPast, PersistedBelow,
                    NoFalseSanitized, RollbackDue, Open

\* The table keeps its type, and all the keys it has.
LEMMA TableType ==
  ASSUME TypeOK, HasNumber, [Next]_vars
  PROVE  /\ DOMAIN table' \subseteq 1..(sid')
         /\ \A s \in DOMAIN table' : table'[s] \in Seq(Context)
         /\ DOMAIN table \subseteq DOMAIN table'
<1>1. CASE UNCHANGED table
  <2>1. sid' = sid \/ sid' = sid + 1
    BY DEF Next, vars, process, StartProcess, ExitProcess, Kill, Inject, Find, SaveLast,
           NothingToSanitize, Sanitize, SanitizeRaises, NoLastContextRaises, OpenContext,
           OpenContextRaises, ContextStarted, MarkInvokedStep, CloseContext
  <2> QED
    BY <1>1, <2>1 DEF TypeOK
<1>2. CASE Persist(contexts') /\ pc # "down" /\ UNCHANGED sid
  <2>1. ~StartProcess
    BY <1>2 DEF StartProcess
  <2>2. contexts' \in Seq(Context)
    BY <2>1, ContextsGrow
  <2> QED
    BY <1>2, <2>2, Persisted
<1> QED
  BY <1>1, <1>2, TableSteps

\* The previous session is read from the table, and only ever gets its flag set.
LEMMA PrevType ==
  ASSUME TypeOK, [Next]_vars
  PROVE  prev' \in Seq(Context) /\ (Sanitize => Len(prev') = Len(prev) /\ prev' # <<>>)
<1>1. prev \in Seq(Context) /\ <<>> \in Seq(Context)
  BY EmptySeq DEF TypeOK
<1>2. ASSUME Sanitize
      PROVE  prev' \in Seq(Context) /\ Len(prev') = Len(prev) /\ prev' # <<>>
  <2> DEFINE c == [Last(prev) EXCEPT !.sanitized = TRUE]
  <2>1. prev # <<>>
    BY <1>2 DEF Sanitize, MustSanitize
  <2>2. [sanitized |-> TRUE, invoked |-> 0] \in Context
    BY DEF Context
  <2>3. Last(prev) \in Context
    BY <1>1, <2>1, <2>2, LastContext
  <2>4. c \in Context
    BY <2>3, ContextFields
  <2>5. prev' = [prev EXCEPT ![Len(prev)] = c]
    BY <1>2 DEF Sanitize, Last
  <2> HIDE DEF c
  <2> QED
    BY <1>1, <2>1, <2>4, <2>5, LastContext
<1>3. ASSUME Find PROVE prev' \in Seq(Context)
  BY <1>1, <1>3 DEF Find, TypeOK
<1> QED
  BY <1>1, <1>2, <1>3
     DEF Next, vars, process, StartProcess, ExitProcess, Kill, Inject, SaveLast,
         NothingToSanitize, SanitizeRaises, NoLastContextRaises, OpenContext,
         OpenContextRaises, ContextStarted, MarkInvokedStep, CloseContext

\* A step keeps the types, and the number of a process is positive.
LEMMA TypeStep ==
  ASSUME TypeOK, HasNumber, LastIsOwn, [Next]_vars
  PROVE  TypeOK' /\ HasNumber' /\ LastIsOwn'
<1>1. contexts' \in Seq(Context)
  <2>1. CASE StartProcess
    BY <2>1, EmptySeq DEF StartProcess
  <2> QED
    BY <2>1, ContextsGrow
<1>2. prev' \in Seq(Context)
  BY PrevType
<1>3. /\ DOMAIN table' \subseteq 1..(sid')
      /\ \A s \in DOMAIN table' : table'[s] \in Seq(Context)
  BY TableType
<1>4. Open' => contexts' # <<>>
  <2>1. CASE OpenContext
    BY <2>1, ContextOpened DEF OpenContext
  <2>2. CASE MarkInvokedStep
    BY <2>2, StepMarked
  <2> QED
    BY <2>1, <2>2
       DEF Next, vars, process, TypeOK, Open, StartProcess, ExitProcess, Kill, Inject, Find,
           SaveLast, NothingToSanitize, Sanitize, SanitizeRaises, NoLastContextRaises,
           OpenContextRaises, ContextStarted, CloseContext
<1>5. leftover' \subseteq (1..(sid')) \X (Nat \ {0})
  <2>1. CASE Kill
    <3>1. Open => sid \in 1..sid /\ Len(contexts) \in Nat \ {0}
      BY OpenHasLast DEF TypeOK, HasNumber, Open
    <3> QED
      BY <2>1, <3>1 DEF Kill, TypeOK, process
  <2>2. CASE UNCHANGED leftover \/ leftover' = {}
    <3>1. sid' \in Nat /\ sid' >= sid
      BY DEF TypeOK, Next, vars, process, StartProcess, ExitProcess, Kill, Inject, Find, SaveLast,
             NothingToSanitize, Sanitize, SanitizeRaises, NoLastContextRaises, OpenContext,
             OpenContextRaises, ContextStarted, MarkInvokedStep, CloseContext
    <3> QED
      BY <2>2, <3>1 DEF TypeOK
  <2> QED
    BY <2>1, <2>2
       DEF Next, vars, history, StartProcess, ExitProcess, Inject, Find, SaveLast,
           NothingToSanitize, Sanitize, SanitizeRaises, NoLastContextRaises, OpenContext,
           OpenContextRaises, ContextStarted, MarkInvokedStep, CloseContext
<1>6. /\ pc' \in Stage /\ sid' \in Nat /\ attempts' \in Nat
      /\ lastSid' \in 0..(sid') /\ prevSid' \in 0..(sid')
      /\ HasNumber' /\ LastIsOwn'
  BY DEF TypeOK, HasNumber, LastIsOwn, Stage, NoSid, Open, Next, vars, file, process, history,
         StartProcess, ExitProcess, Kill, Inject, Find, SaveLast, NothingToSanitize, Sanitize,
         MustSanitize, SanitizeRaises, NoLastContextRaises, OpenContext, OpenContextRaises,
         ContextStarted, MarkInvokedStep, CloseContext
<1>7. retried' \in BOOLEAN
  BY DEF TypeOK, Next, vars, history, StartProcess, ExitProcess, Kill, Inject, Find, SaveLast,
         NothingToSanitize, Sanitize, SanitizeRaises, NoLastContextRaises, OpenContext,
         OpenContextRaises, ContextStarted, MarkInvokedStep, CloseContext
<1> QED
  BY <1>1, <1>2, <1>3, <1>4, <1>5, <1>6, <1>7 DEF TypeOK

\* What is open is what was persisted of it last, and is not sanitized.
LEMMA OpenStep ==
  ASSUME TypeOK, HasNumber, OpenIsPersisted, [Next]_vars
  PROVE  OpenIsPersisted'
<1>1. CASE OpenContext
  <2>1. ~Last(contexts').sanitized /\ contexts' \in Seq(Context)
    BY <1>1, ContextOpened DEF OpenContext
  <2>2. sid \in DOMAIN table' /\ table'[sid] = contexts'
    BY <1>1, <2>1, Persisted DEF OpenContext
  <2> QED
    BY <1>1, <2>1, <2>2 DEF OpenContext, OpenIsPersisted, Last
<1>2. CASE MarkInvokedStep
  <2>1. ~Last(contexts').sanitized /\ contexts' \in Seq(Context)
    BY <1>2, StepMarked DEF MarkInvokedStep, OpenIsPersisted, Open
  <2>2. sid \in DOMAIN table' /\ table'[sid] = contexts'
    BY <1>2, <2>1, Persisted DEF MarkInvokedStep
  <2> QED
    BY <1>2, <2>1, <2>2 DEF MarkInvokedStep, OpenIsPersisted, Last
<1>3. CASE UNCHANGED <<table, sid, contexts>> /\ (Open' => Open)
  BY <1>3 DEF OpenIsPersisted, Last
<1>4. CASE ~Open'
  BY <1>4 DEF OpenIsPersisted
<1> QED
  BY <1>1, <1>2, <1>3, <1>4
     DEF Next, vars, file, process, Open, StartProcess, ExitProcess, Kill, Inject, Find, SaveLast,
         NothingToSanitize, Sanitize, SanitizeRaises, NoLastContextRaises, OpenContextRaises,
         ContextStarted, CloseContext

\* What is persisted of a process never is ahead of its memory.
LEMMA BelowStep ==
  ASSUME TypeOK, HasNumber, PersistedBelow, [Next]_vars
  PROVE  PersistedBelow'
<1>1. CASE StartProcess
  BY <1>1 DEF StartProcess, TypeOK, file, PersistedBelow
<1>2. CASE ~StartProcess
  <2>1. /\ contexts' \in Seq(Context)
        /\ Len(contexts') >= Len(contexts)
        /\ \A i \in 1..Len(contexts) : contexts'[i].invoked >= contexts[i].invoked
    BY <1>2, ContextsGrow
  <2>2. contexts \in Seq(Context) /\ Len(contexts) \in Nat /\ Len(contexts') \in Nat
    BY <2>1 DEF TypeOK
  <2>3. /\ \A i \in 1..Len(contexts') : contexts'[i].invoked \in Nat
        /\ \A i \in 1..Len(contexts) : contexts[i].invoked \in Nat
    BY <2>1, <2>2, InvokedType
  <2>4. CASE UNCHANGED table
    <3>1. UNCHANGED sid
      BY <1>2 DEF Next, vars, process, ExitProcess, Kill, Inject, Find, SaveLast,
             NothingToSanitize, Sanitize, SanitizeRaises, NoLastContextRaises, OpenContext,
             OpenContextRaises, ContextStarted, MarkInvokedStep, CloseContext
    <3>2. SUFFICES ASSUME sid \in DOMAIN table
                   PROVE  /\ Len(table[sid]) <= Len(contexts')
                          /\ \A i \in 1..Len(table[sid]) :
                               table[sid][i].invoked <= contexts'[i].invoked
      BY <2>4, <3>1 DEF PersistedBelow
    <3>3. table[sid] \in Seq(Context) /\ Len(table[sid]) <= Len(contexts)
      BY <3>2 DEF TypeOK, PersistedBelow
    <3>4. ASSUME NEW i \in 1..Len(table[sid])
          PROVE  table[sid][i].invoked <= contexts'[i].invoked
      <4>1. i \in 1..Len(contexts) /\ i \in 1..Len(contexts') /\ table[sid][i].invoked \in Nat
        BY <2>1, <2>2, <3>3, InvokedType
      <4>2. table[sid][i].invoked <= contexts[i].invoked
        BY <3>2, <3>4 DEF PersistedBelow
      <4> QED
        BY <2>1, <2>3, <4>1, <4>2
    <3>5. Len(table[sid]) \in Nat
      BY <3>3
    <3> QED
      BY <2>1, <2>2, <3>3, <3>4, <3>5
  <2>5. CASE Persist(contexts') /\ pc # "down" /\ UNCHANGED sid
    <3>1. sid' \in DOMAIN table' /\ table'[sid'] = contexts'
      BY <2>1, <2>5, Persisted
    <3> QED
      BY <2>2, <2>3, <3>1 DEF PersistedBelow
  <2> QED
    BY <2>4, <2>5, TableSteps
<1> QED
  BY <1>1, <1>2

\* Nothing that is in the table gets less.
LEMMA HistoryStep ==
  ASSUME TypeOK, HasNumber, PersistedBelow, [Next]_vars
  PROVE  \A s \in DOMAIN table :
           /\ s \in DOMAIN table'
           /\ Len(table'[s]) >= Len(table[s])
           /\ \A i \in DOMAIN table[s] : table'[s][i].invoked >= table[s][i].invoked
<1> TAKE s \in DOMAIN table
<1>0. /\ s \in DOMAIN table' /\ table[s] \in Seq(Context) /\ table'[s] \in Seq(Context)
      /\ Len(table[s]) \in Nat /\ DOMAIN table[s] = 1..Len(table[s])
  <2>1. s \in DOMAIN table' /\ table[s] \in Seq(Context) /\ table'[s] \in Seq(Context)
    BY TableType DEF TypeOK
  <2> QED
    BY <2>1
<1>1. \A i \in 1..Len(table[s]) : table[s][i].invoked \in Nat
  BY <1>0, InvokedType
<1>2. CASE table'[s] = table[s]
  BY <1>0, <1>1, <1>2
<1>3. CASE s = sid /\ table'[s] = contexts' /\ s \in DOMAIN table' /\ UNCHANGED sid
  <2>1. PersistedBelow'
    BY BelowStep
  <2>2. ~StartProcess
    BY <1>3 DEF StartProcess, TypeOK
  <2>3. /\ contexts' \in Seq(Context)
        /\ Len(contexts') >= Len(contexts)
        /\ \A i \in 1..Len(contexts) : contexts'[i].invoked >= contexts[i].invoked
    BY <2>2, ContextsGrow
  <2>4. /\ Len(contexts) \in Nat /\ Len(contexts') \in Nat
        /\ \A i \in 1..Len(contexts) : contexts[i].invoked \in Nat
        /\ \A i \in 1..Len(contexts') : contexts'[i].invoked \in Nat
    BY <2>3, InvokedType DEF TypeOK
  <2>5. /\ Len(table[s]) <= Len(contexts)
        /\ \A i \in 1..Len(table[s]) : table[s][i].invoked <= contexts[i].invoked
    BY <1>3 DEF PersistedBelow
  <2>6. ASSUME NEW i \in 1..Len(table[s])
        PROVE  contexts'[i].invoked >= table[s][i].invoked
    <3>1. i \in 1..Len(contexts) /\ i \in 1..Len(contexts')
      BY <1>0, <2>3, <2>4, <2>5
    <3> QED
      BY <1>1, <2>3, <2>4, <2>5, <3>1
  <2> QED
    BY <1>0, <1>3, <2>3, <2>4, <2>5, <2>6
<1>4. CASE Persist(contexts') /\ pc # "down" /\ UNCHANGED sid
  <2>1. ~StartProcess
    BY <1>4 DEF StartProcess
  <2>2. contexts' \in Seq(Context)
    BY <2>1, ContextsGrow
  <2>3. table'[sid] = contexts' /\ \A r \in DOMAIN table \ {sid} : table'[r] = table[r]
    BY <1>4, <2>2, Persisted
  <2> QED
    BY <1>0, <1>2, <1>3, <1>4, <2>3
<1> QED
  BY <1>2, <1>4, TableSteps

\* A killed context session is in the table, unsanitized, and stays there as it is.
LEMMA LeftoverStep ==
  ASSUME TypeOK, HasNumber, OpenIsPersisted, LeftoverIsPast, NoFalseSanitized, [Next]_vars
  PROVE  LeftoverIsPast' /\ NoFalseSanitized'
<1>1. CASE Kill
  <2>1. UNCHANGED table /\ pc' = "down"
    BY <1>1 DEF Kill, file
  <2>2. CASE Open
    <3>1. leftover' = leftover \union {<<sid, Len(contexts)>>}
      BY <1>1, <2>2 DEF Kill
    <3>2. /\ sid \in DOMAIN table /\ table[sid] = contexts
          /\ Len(contexts) \in 1..Len(contexts) /\ ~contexts[Len(contexts)].sanitized
      BY <2>2, OpenHasLast DEF OpenIsPersisted, Last
    <3> QED
      BY <2>1, <3>1, <3>2 DEF LeftoverIsPast, NoFalseSanitized
  <2>3. CASE ~Open
    BY <1>1, <2>1, <2>3 DEF Kill, LeftoverIsPast, NoFalseSanitized
  <2> QED
    BY <2>2, <2>3
<1>2. CASE Sanitize
  BY <1>2 DEF Sanitize, LeftoverIsPast, NoFalseSanitized
<1>3. CASE ~Kill /\ ~Sanitize
  <2>1. UNCHANGED leftover
    BY <1>3 DEF Next, vars, history, StartProcess, ExitProcess, Inject, Find, SaveLast,
           NothingToSanitize, SanitizeRaises, NoLastContextRaises, OpenContext,
           OpenContextRaises, ContextStarted, MarkInvokedStep, CloseContext
  <2>2. ASSUME NEW c \in leftover
        PROVE  c[1] \in DOMAIN table' /\ table'[c[1]] = table[c[1]]
    <3>1. c[1] \in DOMAIN table /\ (pc # "down" => c[1] # sid)
      BY <2>2 DEF LeftoverIsPast
    <3>2. CASE Persist(contexts') /\ pc # "down" /\ UNCHANGED sid
      <4>1. ~StartProcess
        BY <3>2 DEF StartProcess
      <4>2. contexts' \in Seq(Context)
        BY <4>1, ContextsGrow
      <4> QED
        BY <3>1, <3>2, <4>2, Persisted
    <3> QED
      BY <3>1, <3>2, TableSteps
  <2>3. ASSUME NEW c \in leftover, pc' # "down"
        PROVE  c[1] # sid'
    <3>1. CASE StartProcess
      BY <2>3, <3>1 DEF StartProcess, TypeOK, LeftoverIsPast
    <3>2. CASE ~StartProcess
      <4>1. sid' = sid /\ pc # "down"
        BY <1>3, <2>3, <3>2
           DEF Next, vars, process, Open, ExitProcess, Inject, Find, SaveLast,
               NothingToSanitize, MustSanitize, SanitizeRaises, NoLastContextRaises,
               OpenContext, OpenContextRaises, ContextStarted, MarkInvokedStep, CloseContext
      <4> QED
        BY <2>3, <4>1 DEF LeftoverIsPast
    <3> QED
      BY <3>1, <3>2
  <2>4. LeftoverIsPast'
    BY <2>1, <2>2, <2>3 DEF LeftoverIsPast
  <2>5. NoFalseSanitized'
    BY <2>1, <2>2 DEF NoFalseSanitized
  <2> QED
    BY <2>4, <2>5
<1> QED
  BY <1>1, <1>2, <1>3

\* No start gets past data that has to be rolled back, as long as none is a retry.
LEMMA RollbackStep ==
  ASSUME TypeOK, HasNumber, LastIsOwn, OpenIsPersisted, RollbackDue, [Next]_vars
  PROVE  RollbackDue'
<1> USE DEF NoSid
<1>1. CASE StartProcess
  BY <1>1 DEF StartProcess, TypeOK, file, history, RollbackDue, Dirty, Last
<1>2. CASE ExitProcess
  BY <1>2 DEF ExitProcess, file, process, history, RollbackDue, Dirty, Last
<1>3. CASE Kill
  <2>1. CASE Open
    <3>1. lastSid = sid /\ sid > 0 /\ sid \in DOMAIN table /\ Dirty(table[sid])
      BY <2>1 DEF Open, LastIsOwn, HasNumber, OpenIsPersisted, Dirty
    <3> QED
      BY <1>3, <3>1 DEF Kill, TypeOK, file, process, RollbackDue, Dirty, Last
  <2>2. CASE ~Open
    BY <1>3, <2>2 DEF Kill, file, process, RollbackDue, Dirty, Last
  <2> QED
    BY <2>1, <2>2
<1>4. CASE Inject
  <2> SUFFICES ASSUME leftover # {}, ~retried, ~(Len(contexts) < attempts)
               PROVE  /\ lastSid # NoSid /\ lastSid \in DOMAIN table' /\ Dirty(table'[lastSid])
                      /\ contexts = <<>> /\ sid \in DOMAIN table' /\ table'[sid] = <<>>
                      /\ attempts + 1 > 0 /\ lastSid # sid
    BY <1>4 DEF Inject, RollbackDue, Empty, Dirty, Last
  <2>1. pc = "idle" /\ UNCHANGED contexts /\ Persist(contexts)
    BY <1>4 DEF Inject
  <2>2. /\ lastSid # NoSid /\ lastSid \in DOMAIN table /\ Dirty(table[lastSid])
        /\ lastSid # sid /\ contexts = <<>>
    BY <2>1 DEF RollbackDue
  <2>3. contexts \in Seq(Context) /\ attempts \in Nat
    BY DEF TypeOK
  <2>4. /\ sid \in DOMAIN table' /\ table'[sid] = contexts
        /\ lastSid \in DOMAIN table' /\ table'[lastSid] = table[lastSid]
    BY <2>1, <2>2, <2>3, Persisted
  <2> QED
    BY <2>2, <2>3, <2>4
<1>5. CASE Find
  <2>1. /\ pc = "injected" /\ pc' = "found" /\ prevSid' = lastSid
        /\ lastSid \in DOMAIN table => prev' = table[lastSid]
        /\ UNCHANGED <<lastSid, table, sid, contexts, attempts, leftover, retried>>
    BY <1>5 DEF Find, file, history
  <2> QED
    BY <2>1 DEF RollbackDue, Empty, Dirty, Last
<1>6. CASE SaveLast
  <2>1. sid > 0
    BY <1>6 DEF SaveLast, HasNumber
  <2> QED
    BY <1>6, <2>1 DEF SaveLast, TypeOK, process, history, RollbackDue, Empty, Dirty, Last
<1>7. CASE NothingToSanitize
  BY <1>7 DEF NothingToSanitize, file, process, history, RollbackDue, Dirty, Last
<1>8. CASE Sanitize
  BY <1>8 DEF Sanitize, RollbackDue
<1>9. CASE SanitizeRaises \/ NoLastContextRaises
  <2>1. pc = "new" /\ pc' = "idle" /\ UNCHANGED <<file, process, history>>
    BY <1>9 DEF SanitizeRaises, MustSanitize, NoLastContextRaises
  <2>2. contexts = <<>> => Len(contexts) = 0
    OBVIOUS
  <2> QED
    BY <2>1, <2>2 DEF file, process, history, RollbackDue, Empty, Dirty, Last
<1>10. CASE OpenContext \/ OpenContextRaises
  BY <1>10 DEF OpenContext, OpenContextRaises, history, RollbackDue
<1>11. CASE ContextStarted \/ MarkInvokedStep
  BY <1>11 DEF ContextStarted, MarkInvokedStep, history, RollbackDue
<1>12. CASE CloseContext
  BY <1>12 DEF CloseContext, Open, history, RollbackDue
<1>13. CASE UNCHANGED vars
  BY <1>13 DEF vars, RollbackDue, Empty, Dirty, Last
<1> QED
  BY <1>1, <1>2, <1>3, <1>4, <1>5, <1>6, <1>7, <1>8, <1>9, <1>10, <1>11, <1>12, <1>13 DEF Next

\* Every step of a process, and its end, preserves the invariant.
LEMMA NextInv == IInv /\ [Next]_vars => IInv'
BY TypeStep, OpenStep, BelowStep, LeftoverStep, RollbackStep DEF IInv

(***************************************************************************)
(* The theorems.                                                           *)
(***************************************************************************)

\* The invariant holds throughout every behaviour.
THEOREM Invariant == Spec => []IInv
BY InitInv, NextInv, PTL DEF Spec

\* The file, the process and the history keep their types.
THEOREM TypeCorrect == Spec => []TypeOK
<1>1. IInv => TypeOK
  BY DEF IInv
<1> QED
  BY <1>1, Invariant, PTL

\* Whenever a process may be killed, the file says what the next one has to know: an open
\* context session is on record and not sanitized, and none that was killed ever gets
\* called sanitized (session.py, consistency.py:33).
THEOREM MarksAreTrueHolds == Spec => []MarksAreTrue
<1>1. IInv => MarksAreTrue
  BY DEF IInv, MarksAreTrue, OpenIsMarked, LastIsOwn, OpenIsPersisted, Open
<1> QED
  BY <1>1, Invariant, PTL

\* A context session runs on data that was rolled back, however many processes died
\* before, and whatever failed in them: as long as no process tries a start again.
THEOREM SanitizedBeforeWorkHolds == Spec => []SanitizedBeforeWork
<1>1. IInv => SanitizedBeforeWork
  BY DEF IInv, RollbackDue, SanitizedBeforeWork
<1> QED
  BY <1>1, Invariant, PTL

\* No process ever takes a context session, or an invoked step of one, out of the table.
THEOREM HistoryKeptHolds == Spec => HistoryKept
<1>1. IInv /\ [Next]_vars =>
        \A s \in DOMAIN table :
          /\ s \in DOMAIN table'
          /\ Len(table'[s]) >= Len(table[s])
          /\ \A i \in DOMAIN table[s] : table'[s][i].invoked >= table[s][i].invoked
  BY HistoryStep DEF IInv
<1> QED
  BY <1>1, Invariant, PTL DEF Spec, HistoryKept

-----------------------------------------------------------------------------
(***************************************************************************)
(* Values.  Each function of Serialization recurses over the parts of a    *)
(* value, which nest less deep than the value: so there is such a function *)
(* on the values of each depth.                                            *)
(***************************************************************************)
\* A non-empty set of numbers has a least member.
LEMMA Least ==
  ASSUME NEW T, T \subseteq Nat, T # {}
  PROVE  \E x \in T : \A y \in T : ~(y < x)
<1>1. PICK x \in T : \A y \in T : <<y, x>> \notin OpToRel(<, Nat)
  BY NatLessThanWellFounded, WFMin, Zenon
<1> QED
  BY <1>1 DEF OpToRel

\* How Values is defined
LEMMA ValuesStep ==
  /\ MaxDepth \in Nat /\ MaxDepth >= 4
  /\ Values[0] = Scalars
  /\ \A n \in 1..MaxDepth : Values[n] = Nested(Values[n - 1])
  /\ Value = Values[MaxDepth]
<1> DEFINE Levels(f, n) == f = [i \in 0..n |-> IF i = 0 THEN Scalars ELSE Nested(f[i - 1])]
           T == {n \in Nat : ~ \E f : Levels(f, n)}
<1>1. T = {}
  <2> HIDE DEF Levels
  <2>1. SUFFICES ASSUME T # {} PROVE FALSE
    OBVIOUS
  <2>2. PICK m \in T : \A y \in T : ~(y < m)
    <3>1. T \subseteq Nat
      OBVIOUS
    <3> HIDE DEF T
    <3> QED
      BY <2>1, <3>1, Least
  <2>3. m # 0
    <3>1. Levels([i \in 0..0 |-> Scalars], 0)
      BY DEF Levels
    <3> QED
      BY <2>2, <3>1
  <2>4. m - 1 \in Nat /\ m - 1 \notin T
    BY <2>2, <2>3
  <2>5. PICK f : Levels(f, m - 1)
    BY <2>4
  <2> DEFINE Next1(h, i) == IF i = 0 THEN Scalars ELSE Nested(h[i - 1])
             g == [i \in 0..m |-> Next1(f, i)]
  <2>6. \A j \in 0..(m - 1) : f[j] = Next1(f, j)
    BY <2>5, Zenon DEF Levels
  <2>7. ASSUME NEW i \in 0..m, i # 0 PROVE f[i - 1] = g[i - 1]
    <3>1. i - 1 \in 0..(m - 1) /\ i - 1 \in 0..m
      BY <2>2, <2>7
    <3> HIDE DEF Next1
    <3> QED
      BY <2>6, <3>1
  <2>8. Levels(g, m)
    <3>1. ASSUME NEW i \in 0..m PROVE Next1(f, i) = Next1(g, i)
      BY <2>7, <3>1
    <3> DEFINE g2 == [i \in 0..m |-> Next1(g, i)]
    <3>2. g = g2
      <4> HIDE DEF Next1
      <4> QED
        BY <3>1
    <3> HIDE DEF g
    <3> QED
      BY <3>2 DEF Levels
  <2> QED
    BY <2>2, <2>8
<1> DEFINE P(f) == Levels(f, MaxDepth)
           c == CHOOSE f : P(f)
<1>2. MaxDepth \in Nat /\ MaxDepth >= 4
  BY SessionRecordsAssumption
<1>3. Values = c
  BY DEF Values
<1>4. P(c)
  <2>1. \E f : P(f)
    <3> HIDE DEF Levels
    <3> QED
      BY <1>1, <1>2
  <2> HIDE DEF P
  <2> QED
    BY <2>1
<1> HIDE DEF c
<1>5. \A n \in 0..MaxDepth : Values[n] = IF n = 0 THEN Scalars ELSE Nested(Values[n - 1])
  BY <1>3, <1>4, Zenon
<1> QED
  BY <1>2, <1>5 DEF Value

\* What a value is made of
PartsIn(v, V) ==
  \/ v \in Scalars
  \/ v = <<"list", v[2]>> /\ v[2] \in Seq(V)
  \/ v = <<"dict", v[2]>> /\ v[2] \in SUBSET (Scalars \X V)
  \/ v = <<"object", v[2], v[3]>> /\ v[2] \in Classes /\ v[3] \in SUBSET (STRING \X V)

\* The values that nest less deep
Below(n) == IF n = 0 THEN {} ELSE Values[n - 1]

LEMMA ScalarKinds ==
  ASSUME NEW v \in Scalars
  PROVE  /\ v = <<v[1], v[2]>> /\ v[2] \in STRING
         /\ v[1] \in EasilySerializable \union {"enum", "TaskCoordinates", "raised"}
         /\ v[1] # "list" /\ v[1] # "dict" /\ v[1] # "object"
  BY DEF Scalars, EasilySerializable, Native

LEMMA PartsGrow ==
  ASSUME NEW v, NEW V, NEW W, PartsIn(v, V), V \subseteq W
  PROVE  PartsIn(v, W)
<1>1. Seq(V) \subseteq Seq(W)
  OBVIOUS
<1>2. SUBSET (Scalars \X V) \subseteq SUBSET (Scalars \X W)
  OBVIOUS
<1>3. SUBSET (STRING \X V) \subseteq SUBSET (STRING \X W)
  OBVIOUS
<1> QED
  BY <1>1, <1>2, <1>3, Zenon DEF PartsIn

LEMMA NestedParts ==
  ASSUME NEW V, NEW v
  PROVE  /\ v \in Nested(V) => v \in V \/ PartsIn(v, V)
         /\ Scalars \subseteq V /\ PartsIn(v, V) => v \in Nested(V)
<1>1. DOMAIN FieldHints = Classes
  BY DEF FieldHints
<1> HIDE DEF FieldHints, Classes
<1>2. ASSUME NEW x, NEW A, NEW B, x \in {A} \X B PROVE x = <<A, x[2]>> /\ x[2] \in B
  BY <1>2
<1>3. ASSUME NEW x, NEW A, NEW B, NEW C, x \in {A} \X B \X C
      PROVE  x = <<A, x[2], x[3]>> /\ x[2] \in B /\ x[3] \in C
  BY <1>3
<1>4. ASSUME NEW x, NEW A, NEW B, x = <<A, x[2]>>, x[2] \in B PROVE x \in {A} \X B
  <2>1. <<A, x[2]>> \in {A} \X B
    BY <1>4
  <2> QED
    BY <1>4, <2>1
<1>5. ASSUME NEW x, NEW A, NEW B, NEW C, x = <<A, x[2], x[3]>>, x[2] \in B, x[3] \in C
      PROVE  x \in {A} \X B \X C
  <2>1. <<A, x[2], x[3]>> \in {A} \X B \X C
    BY <1>5
  <2> QED
    BY <1>5, <2>1
<1>6. Nested(V) = V \union ({"list"} \X Seq(V)) \union ({"dict"} \X SUBSET (Scalars \X V))
                    \union ({"object"} \X Classes \X SUBSET (STRING \X V))
  BY <1>1, Zenon DEF Nested
<1>7. v \in Nested(V) =>
        \/ v \in V \/ v \in {"list"} \X Seq(V) \/ v \in {"dict"} \X SUBSET (Scalars \X V)
        \/ v \in {"object"} \X Classes \X SUBSET (STRING \X V)
  BY <1>6, Zenon
<1>8. v \in Nested(V) => v \in V \/ PartsIn(v, V)
  <2>1. v \in {"list"} \X Seq(V) => v = <<"list", v[2]>> /\ v[2] \in Seq(V)
    BY <1>2
  <2>2. v \in {"dict"} \X SUBSET (Scalars \X V) =>
          v = <<"dict", v[2]>> /\ v[2] \in SUBSET (Scalars \X V)
    BY <1>2
  <2>3. v \in {"object"} \X Classes \X SUBSET (STRING \X V) =>
          v = <<"object", v[2], v[3]>> /\ v[2] \in Classes /\ v[3] \in SUBSET (STRING \X V)
    BY <1>3
  <2> QED
    BY <1>7, <2>1, <2>2, <2>3, Zenon DEF PartsIn
<1>9. Scalars \subseteq V /\ PartsIn(v, V) => v \in Nested(V)
  BY <1>4, <1>5, <1>6, Zenon DEF PartsIn
<1> QED
  BY <1>8, <1>9

\* The parts of a value nest less deep than it does, and what has such parts is a value.
LEMMA Parts ==
  ASSUME NEW n \in 0..MaxDepth
  PROVE  /\ Scalars \subseteq Values[n] /\ Below(n) \subseteq Values[n]
         /\ \A v \in Values[n] : PartsIn(v, Below(n))
         /\ n # 0 => \A v : PartsIn(v, Below(n)) => v \in Values[n]
<1> DEFINE Q(k) == Scalars \subseteq Values[k] /\ \A v \in Values[k] : PartsIn(v, Below(k))
           T == {k \in 0..MaxDepth : ~Q(k)}
<1>1. Q(0)
  BY ValuesStep DEF PartsIn
<1>2. ASSUME NEW k \in 1..MaxDepth PROVE Below(k) = Values[k - 1] /\ Below(k) \subseteq Values[k]
  <2>1. Below(k) = Values[k - 1] /\ Values[k] = Nested(Values[k - 1])
    BY ValuesStep DEF Below
  <2> QED
    BY <2>1 DEF Nested
<1>3. ASSUME NEW k \in 1..MaxDepth, Q(k - 1) PROVE Q(k)
  <2>1. Values[k] = Nested(Values[k - 1]) /\ k - 1 \in 0..MaxDepth
    BY ValuesStep
  <2>2. Below(k - 1) \subseteq Values[k - 1]
    <3>1. CASE k = 1
      BY <3>1 DEF Below
    <3>2. CASE k # 1
      <4>1. k - 1 \in 1..MaxDepth
        BY <3>2, ValuesStep
      <4> QED
        BY <1>2, <4>1
    <3> QED
      BY <3>1, <3>2
  <2>3. ASSUME NEW v \in Values[k] PROVE PartsIn(v, Below(k))
    <3>1. v \in Values[k - 1] \/ PartsIn(v, Values[k - 1])
      BY <2>1, NestedParts
    <3>2. v \in Values[k - 1] => PartsIn(v, Values[k - 1])
      BY <1>3, <2>2, PartsGrow
    <3> QED
      BY <1>2, <3>1, <3>2
  <2>4. Scalars \subseteq Values[k]
    BY <1>2, <1>3
  <2> QED
    BY <2>3, <2>4
<1>4. T = {}
  <2> HIDE DEF Q
  <2>1. SUFFICES ASSUME T # {} PROVE FALSE
    OBVIOUS
  <2>2. PICK m \in T : \A y \in T : ~(y < m)
    <3>1. T \subseteq Nat
      BY ValuesStep
    <3> HIDE DEF T
    <3> QED
      BY <2>1, <3>1, Least
  <2>3. m \in 1..MaxDepth
    BY <1>1, <2>2, ValuesStep
  <2>4. m - 1 \in 0..MaxDepth /\ m - 1 \notin T
    BY <2>2, <2>3, ValuesStep
  <2> QED
    BY <1>3, <2>2, <2>3, <2>4
<1>5. Q(n)
  <2> HIDE DEF Q
  <2> QED
    BY <1>4
<1>6. Below(n) \subseteq Values[n]
  BY <1>2, ValuesStep DEF Below
<1>7. ASSUME n # 0, NEW v, PartsIn(v, Below(n)) PROVE v \in Values[n]
  <2>1. n \in 1..MaxDepth /\ n - 1 \in 0..MaxDepth
    BY <1>7, ValuesStep
  <2>2. Scalars \subseteq Values[n - 1]
    <3> HIDE DEF Q
    <3>1. Q(n - 1)
      BY <1>4, <2>1
    <3> QED
      BY <3>1 DEF Q
  <2> QED
    BY <1>2, <1>7, <2>1, <2>2, NestedParts, ValuesStep
<1> QED
  BY <1>5, <1>6, <1>7

-----------------------------------------------------------------------------
(* serialize() *)

\* serialize(), with f for the calls it makes
SerializedBy(f, v) ==
  CASE v[1] = "list"   -> <<"list", [i \in 1..Len(v[2]) |-> f[v[2][i]]]>>
    [] v[1] = "dict"   ->
         IF \A p \in v[2] : p[1][1] \in EasilySerializable
         THEN <<"dict", {<<<<Represented(p[1][1]), p[1][2]>>, f[p[2]]>> : p \in v[2]}>>
         ELSE Raised
    [] v[1] = "object" ->
         <<"dict", Enhanced(v[2], {<<<<"str", m[1]>>, f[m[2]]>> : m \in v[3]})>>
    [] OTHER           -> <<Represented(v[1]), v[2]>>

\* What it returns for each kind of value
LEMMA SerializedKinds ==
  ASSUME NEW f, NEW v
  PROVE  /\ v \in Scalars => SerializedBy(f, v) = <<Represented(v[1]), v[2]>>
         /\ v[1] = "list" => SerializedBy(f, v) = <<"list", [i \in 1..Len(v[2]) |-> f[v[2][i]]]>>
         /\ v[1] = "dict" =>
              SerializedBy(f, v) =
                IF \A p \in v[2] : p[1][1] \in EasilySerializable
                THEN <<"dict", {<<<<Represented(p[1][1]), p[1][2]>>, f[p[2]]>> : p \in v[2]}>>
                ELSE Raised
         /\ v[1] = "object" =>
              SerializedBy(f, v) =
                <<"dict", Enhanced(v[2], {<<<<"str", m[1]>>, f[m[2]]>> : m \in v[3]})>>
<1>1. v \in Scalars => SerializedBy(f, v) = <<Represented(v[1]), v[2]>>
  <2> SUFFICES ASSUME v \in Scalars PROVE SerializedBy(f, v) = <<Represented(v[1]), v[2]>>
    OBVIOUS
  <2>1. v[1] # "list" /\ v[1] # "dict" /\ v[1] # "object"
    BY ScalarKinds
  <2> QED
    BY <2>1 DEF SerializedBy
<1>2. v[1] = "list" => SerializedBy(f, v) = <<"list", [i \in 1..Len(v[2]) |-> f[v[2][i]]]>>
  BY DEF SerializedBy
<1>3. v[1] = "dict" =>
        SerializedBy(f, v) =
          IF \A p \in v[2] : p[1][1] \in EasilySerializable
          THEN <<"dict", {<<<<Represented(p[1][1]), p[1][2]>>, f[p[2]]>> : p \in v[2]}>>
          ELSE Raised
  BY DEF SerializedBy
<1>4. v[1] = "object" =>
        SerializedBy(f, v) =
          <<"dict", Enhanced(v[2], {<<<<"str", m[1]>>, f[m[2]]>> : m \in v[3]})>>
  BY DEF SerializedBy
<1> QED
  BY <1>1, <1>2, <1>3, <1>4

\* It depends on what the calls on the parts return.
LEMMA SerializedLocal ==
  ASSUME NEW f, NEW g, NEW V, NEW v, PartsIn(v, V), \A x \in V : f[x] = g[x]
  PROVE  SerializedBy(f, v) = SerializedBy(g, v)
<1>1. CASE v \in Scalars
  BY <1>1, SerializedKinds, Zenon
<1>2. CASE v = <<"list", v[2]>> /\ v[2] \in Seq(V)
  <2>1. v[1] = "list"
    BY <1>2
  <2> DEFINE s == v[2]
  <2>2. \A i \in 1..Len(s) : f[s[i]] = g[s[i]]
    BY <1>2
  <2> HIDE DEF s
  <2>3. [i \in 1..Len(s) |-> f[s[i]]] = [i \in 1..Len(s) |-> g[s[i]]]
    BY <2>2
  <2>4. \A h : SerializedBy(h, v) = <<"list", [i \in 1..Len(s) |-> h[s[i]]]>>
    <3> SUFFICES ASSUME NEW h PROVE SerializedBy(h, v) = <<"list", [i \in 1..Len(s) |-> h[s[i]]]>>
      OBVIOUS
    <3> QED
      BY <2>1 DEF s, SerializedBy
  <2> QED
    BY <2>3, <2>4, Zenon
<1>3. CASE v = <<"dict", v[2]>> /\ v[2] \in SUBSET (Scalars \X V)
  <2>1. v[1] = "dict"
    BY <1>3
  <2> DEFINE d == v[2]
             pair(h, p) == <<<<Represented(p[1][1]), p[1][2]>>, h[p[2]]>>
  <2>2. \A p \in d : pair(f, p) = pair(g, p)
    BY <1>3
  <2> HIDE DEF d, pair
  <2>3. {pair(f, p) : p \in d} = {pair(g, p) : p \in d}
    BY <2>2
  <2>4. \A h : SerializedBy(h, v) =
                IF \A p \in d : p[1][1] \in EasilySerializable
                THEN <<"dict", {pair(h, p) : p \in d}>> ELSE Raised
    BY <2>1, SerializedKinds, Zenon DEF d, pair
  <2> QED
    BY <2>3, <2>4, Zenon
<1>4. CASE v = <<"object", v[2], v[3]>> /\ v[2] \in Classes /\ v[3] \in SUBSET (STRING \X V)
  <2>1. v[1] = "object"
    BY <1>4
  <2> DEFINE d == v[3]
             pair(h, m) == <<<<"str", m[1]>>, h[m[2]]>>
  <2>2. \A m \in d : pair(f, m) = pair(g, m)
    BY <1>4
  <2> HIDE DEF d, pair
  <2>3. {pair(f, m) : m \in d} = {pair(g, m) : m \in d}
    BY <2>2
  <2> QED
    BY <2>1, <2>3, SerializedKinds, Zenon DEF d, pair
<1> QED
  BY <1>1, <1>2, <1>3, <1>4 DEF PartsIn

\* serialize() is what it says it is, for every value.
LEMMA SerializedStep ==
  ASSUME NEW v \in Value
  PROVE  Serialized[v] = SerializedBy(Serialized, v)
<1> DEFINE P(f, V) == f = [x \in V |-> SerializedBy(f, x)]
           T == {n \in 0..MaxDepth : ~ \E f : P(f, Values[n])}
<1>1. ASSUME NEW n \in 0..MaxDepth, NEW f, P(f, Below(n)) PROVE \E g : P(g, Values[n])
  <2> DEFINE g == [x \in Values[n] |-> SerializedBy(f, x)]
  <2>1. \A x \in Below(n) : f[x] = SerializedBy(f, x)
    <3> HIDE DEF P
    <3>1. f = [x \in Below(n) |-> SerializedBy(f, x)]
      BY <1>1 DEF P
    <3> QED
      BY <3>1, Zenon
  <2>2. \A x \in Below(n) : f[x] = g[x]
    BY <2>1, Parts
  <2>3. \A x \in Values[n] : SerializedBy(f, x) = SerializedBy(g, x)
    <3> HIDE DEF g
    <3> QED
      BY <2>2, Parts, SerializedLocal
  <2>4. g = [x \in Values[n] |-> SerializedBy(g, x)]
    <3> DEFINE h == [x \in Values[n] |-> SerializedBy(g, x)]
    <3>1. \A x \in Values[n] : g[x] = h[x]
      BY <2>3
    <3>2. g = h
      BY <2>3
    <3> QED
      BY <3>2
  <2> QED
    BY <2>4
<1>2. T = {}
  <2> HIDE DEF P
  <2>1. SUFFICES ASSUME T # {} PROVE FALSE
    OBVIOUS
  <2>2. PICK m \in T : \A y \in T : ~(y < m)
    <3>1. T \subseteq Nat
      BY ValuesStep
    <3> HIDE DEF T
    <3> QED
      BY <2>1, <3>1, Least
  <2>3. \E f : P(f, Below(m))
    <3>1. CASE m = 0
      <4>1. P([x \in {} |-> x], {})
        BY DEF P
      <4> QED
        BY <3>1, <4>1 DEF Below
    <3>2. CASE m # 0
      <4>1. m - 1 \in 0..MaxDepth /\ m - 1 \notin T
        BY <2>2, <3>2, ValuesStep
      <4> QED
        BY <3>2, <4>1 DEF Below
    <3> QED
      BY <3>1, <3>2
  <2> QED
    BY <1>1, <2>2, <2>3
<1> DEFINE c == CHOOSE f : P(f, Value)
<1>3. Serialized = c
  BY DEF Serialized, SerializedBy
<1>4. P(c, Value)
  <2> HIDE DEF P
  <2>1. \E f : P(f, Value)
    BY <1>2, ValuesStep
  <2> QED
    BY <2>1
<1> HIDE DEF c
<1>5. \A x \in Value : c[x] = SerializedBy(c, x)
  BY <1>4, Zenon
<1> QED
  BY <1>3, <1>5

\* A shallow value is one of any greater depth, too.
LEMMA LevelsGrow ==
  ASSUME NEW m \in 0..MaxDepth, NEW n \in 0..MaxDepth, m <= n
  PROVE  Values[m] \subseteq Values[n]
<1> DEFINE T == {k \in m..MaxDepth : ~(Values[m] \subseteq Values[k])}
<1>1. T = {}
  <2>1. SUFFICES ASSUME T # {} PROVE FALSE
    OBVIOUS
  <2>2. PICK k \in T : \A y \in T : ~(y < k)
    <3>1. T \subseteq Nat
      BY ValuesStep
    <3> HIDE DEF T
    <3> QED
      BY <2>1, <3>1, Least
  <2>3. k \in 1..MaxDepth /\ k - 1 \in m..MaxDepth /\ k - 1 < k /\ k # 0
    BY <2>2, ValuesStep
  <2>4. Values[m] \subseteq Values[k - 1]
    BY <2>2, <2>3
  <2>5. Values[k - 1] \subseteq Values[k]
    BY <2>3, Parts, ValuesStep DEF Below
  <2> QED
    BY <2>2, <2>4, <2>5
<1> QED
  BY <1>1, ValuesStep

LEMMA LevelIsValue ==
  ASSUME NEW n \in 0..MaxDepth
  PROVE  Values[n] \subseteq Value
  BY LevelsGrow, ValuesStep

\* Induction on the depth of values: what holds of a value if it holds of its parts.
LEMMA SerializedParts ==
  ASSUME NEW n \in 0..MaxDepth, NEW v \in Values[n],
         \A x \in Below(n) : Serialized[x] \in Below(n)
  PROVE  Serialized[v] \in Values[n]
<1> DEFINE B == Below(n)
<1>1. Serialized[v] = SerializedBy(Serialized, v) /\ PartsIn(v, B)
  BY SerializedStep, LevelIsValue, Parts
<1>2. Scalars \subseteq Values[n]
  BY Parts
<1>3. CASE v \in Scalars
  <2>1. Serialized[v] = <<Represented(v[1]), v[2]>>
    BY <1>1, <1>3, SerializedKinds, Zenon
  <2>2. Represented(v[1]) \in EasilySerializable
    BY DEF Represented, EasilySerializable, Native
  <2>3. v[2] \in STRING
    BY <1>3, ScalarKinds
  <2>4. <<Represented(v[1]), v[2]>> \in Scalars
    BY <2>2, <2>3 DEF Scalars
  <2> QED
    BY <1>2, <2>1, <2>4
<1>4. CASE v \notin Scalars
  <2>1. n # 0
    BY <1>4, ValuesStep
  <2>2. B = Values[n - 1] /\ n - 1 \in 0..MaxDepth
    BY <2>1, ValuesStep DEF Below
  <2>3. Scalars \subseteq B
    BY <2>2, Parts
  <2>4. \A x : PartsIn(x, B) => x \in Values[n]
    BY <2>1, Parts
  <2>5. \A x \in B : Serialized[x] \in B
    OBVIOUS
  <2> HIDE DEF B
  <2>6. CASE v = <<"list", v[2]>> /\ v[2] \in Seq(B)
    <3>1. v[1] = "list"
      BY <2>6
    <3> DEFINE s == [i \in 1..Len(v[2]) |-> Serialized[v[2][i]]]
    <3>2. Serialized[v] = <<"list", s>>
      BY <1>1, <3>1, SerializedKinds, Zenon
    <3>3. s \in Seq(B)
      BY <2>5, <2>6
    <3> HIDE DEF s
    <3>4. PartsIn(<<"list", s>>, B)
      BY <3>3 DEF PartsIn
    <3> QED
      BY <2>4, <3>2, <3>4
  <2>7. CASE v = <<"dict", v[2]>> /\ v[2] \in SUBSET (Scalars \X B)
    <3>1. v[1] = "dict"
      BY <2>7
    <3> DEFINE d == {<<<<Represented(p[1][1]), p[1][2]>>, Serialized[p[2]]>> : p \in v[2]}
    <3>2. Serialized[v] = IF \A p \in v[2] : p[1][1] \in EasilySerializable THEN <<"dict", d>>
                          ELSE Raised
      BY <1>1, <3>1, SerializedKinds, Zenon
    <3>3. d \in SUBSET (Scalars \X B)
      <4>1. ASSUME NEW p \in v[2]
            PROVE  <<<<Represented(p[1][1]), p[1][2]>>, Serialized[p[2]]>> \in Scalars \X B
        <5>1. p[1] \in Scalars /\ p[2] \in B
          BY <2>7
        <5>2. p[1][2] \in STRING
          BY <5>1, ScalarKinds
        <5>3. Represented(p[1][1]) \in EasilySerializable
          BY DEF Represented, EasilySerializable, Native
        <5>4. <<Represented(p[1][1]), p[1][2]>> \in Scalars
          BY <5>2, <5>3 DEF Scalars
        <5> QED
          BY <2>5, <5>1, <5>4
      <4> QED
        BY <4>1
    <3> HIDE DEF d
    <3>4. PartsIn(<<"dict", d>>, B)
      BY <3>3 DEF PartsIn
    <3>5. Raised \in Scalars
      BY StringsAssumption DEF Raised, Scalars
    <3> QED
      BY <1>2, <2>4, <3>2, <3>4, <3>5
  <2>8. CASE v = <<"object", v[2], v[3]>> /\ v[2] \in Classes /\ v[3] \in SUBSET (STRING \X B)
    <3>1. v[1] = "object"
      BY <2>8
    <3> DEFINE d == {<<<<"str", m[1]>>, Serialized[m[2]]>> : m \in v[3]}
               e == Enhanced(v[2], d)
    <3>2. Serialized[v] = <<"dict", e>>
      BY <1>1, <3>1, SerializedKinds, Zenon
    <3>3. \A t \in STRING : <<"str", t>> \in Scalars
      BY DEF Scalars, EasilySerializable, Native
    <3>4. d \in SUBSET (Scalars \X B)
      <4>1. ASSUME NEW m \in v[3] PROVE <<<<"str", m[1]>>, Serialized[m[2]]>> \in Scalars \X B
        BY <2>5, <2>8, <3>3
      <4> QED
        BY <4>1
    <3>5. v[2] \in DOMAIN GlobalTypes => GlobalTypes[v[2]] \in STRING
      BY StringsAssumption DEF GlobalTypes
    <3> HIDE DEF d
    <3>6. v[2] \in DOMAIN GlobalTypes =>
            <<TypeIdField, <<"str", GlobalTypes[v[2]]>>>> \in Scalars \X B
      BY <2>3, <3>3, <3>5, StringsAssumption DEF TypeIdField
    <3>7. e \in SUBSET (Scalars \X B)
      BY <3>4, <3>6 DEF Enhanced
    <3> HIDE DEF e
    <3>8. PartsIn(<<"dict", e>>, B)
      BY <3>7 DEF PartsIn
    <3> QED
      BY <2>4, <3>2, <3>8
  <2> QED
    BY <1>1, <1>4, <2>6, <2>7, <2>8 DEF PartsIn
<1> QED
  BY <1>3, <1>4

\* A representation is a value, and nests no deeper.
LEMMA SerializedTyped ==
  ASSUME NEW n \in 0..MaxDepth
  PROVE  \A v \in Values[n] : Serialized[v] \in Values[n]
<1> DEFINE Q(k) == \A v \in Values[k] : Serialized[v] \in Values[k]
           T == {k \in 0..MaxDepth : ~Q(k)}
<1>1. ASSUME NEW k \in 0..MaxDepth, k # 0 => Q(k - 1) PROVE Q(k)
  <2>1. \A x \in Below(k) : Serialized[x] \in Below(k)
    BY <1>1 DEF Below
  <2> QED
    BY <2>1, SerializedParts
<1>2. T = {}
  <2> HIDE DEF Q
  <2>1. SUFFICES ASSUME T # {} PROVE FALSE
    OBVIOUS
  <2>2. PICK m \in T : \A y \in T : ~(y < m)
    <3>1. T \subseteq Nat
      BY ValuesStep
    <3> HIDE DEF T
    <3> QED
      BY <2>1, <3>1, Least
  <2>3. m # 0 => Q(m - 1)
    BY <2>2, ValuesStep
  <2> QED
    BY <1>1, <2>2, <2>3
<1> HIDE DEF Q
<1>3. Q(n)
  BY <1>2
<1> QED
  BY <1>3 DEF Q

-----------------------------------------------------------------------------
(* The JSON file *)

\* What the file has of a representation, with f for its parts
StoredBy(f, r) ==
  CASE r[1] = "list" -> <<"list", [i \in 1..Len(r[2]) |-> f[r[2][i]]]>>
    [] r[1] = "dict" -> <<"dict", {<<<<"str", p[1][2]>>, f[p[2]]>> : p \in r[2]}>>
    [] OTHER         -> r

LEMMA StoredKinds ==
  ASSUME NEW f, NEW r
  PROVE  /\ r[1] # "list" /\ r[1] # "dict" => StoredBy(f, r) = r
         /\ r[1] = "list" => StoredBy(f, r) = <<"list", [i \in 1..Len(r[2]) |-> f[r[2][i]]]>>
         /\ r[1] = "dict" =>
              StoredBy(f, r) = <<"dict", {<<<<"str", p[1][2]>>, f[p[2]]>> : p \in r[2]}>>
<1>1. r[1] # "list" /\ r[1] # "dict" => StoredBy(f, r) = r
  BY DEF StoredBy
<1>2. r[1] = "list" => StoredBy(f, r) = <<"list", [i \in 1..Len(r[2]) |-> f[r[2][i]]]>>
  BY DEF StoredBy
<1>3. r[1] = "dict" => StoredBy(f, r) = <<"dict", {<<<<"str", p[1][2]>>, f[p[2]]>> : p \in r[2]}>>
  BY DEF StoredBy
<1> QED
  BY <1>1, <1>2, <1>3

LEMMA StoredLocal ==
  ASSUME NEW f, NEW g, NEW V, NEW r, PartsIn(r, V), \A x \in V : f[x] = g[x]
  PROVE  StoredBy(f, r) = StoredBy(g, r)
<1>1. CASE r[1] # "list" /\ r[1] # "dict"
  BY <1>1, StoredKinds, Zenon
<1>2. CASE r = <<"list", r[2]>> /\ r[2] \in Seq(V)
  <2>1. r[1] = "list"
    BY <1>2
  <2> DEFINE s == r[2]
  <2>2. \A i \in 1..Len(s) : f[s[i]] = g[s[i]]
    BY <1>2
  <2> HIDE DEF s
  <2>3. [i \in 1..Len(s) |-> f[s[i]]] = [i \in 1..Len(s) |-> g[s[i]]]
    BY <2>2
  <2>4. \A h : StoredBy(h, r) = <<"list", [i \in 1..Len(s) |-> h[s[i]]]>>
    <3> SUFFICES ASSUME NEW h PROVE StoredBy(h, r) = <<"list", [i \in 1..Len(s) |-> h[s[i]]]>>
      OBVIOUS
    <3> QED
      BY <2>1 DEF s, StoredBy
  <2> QED
    BY <2>3, <2>4, Zenon
<1>3. CASE r = <<"dict", r[2]>> /\ r[2] \in SUBSET (Scalars \X V)
  <2>1. r[1] = "dict"
    BY <1>3
  <2> DEFINE d == r[2]
             pair(h, p) == <<<<"str", p[1][2]>>, h[p[2]]>>
  <2>2. \A p \in d : pair(f, p) = pair(g, p)
    BY <1>3
  <2> HIDE DEF d, pair
  <2>3. {pair(f, p) : p \in d} = {pair(g, p) : p \in d}
    BY <2>2
  <2>4. \A h : StoredBy(h, r) = <<"dict", {pair(h, p) : p \in d}>>
    <3> SUFFICES ASSUME NEW h PROVE StoredBy(h, r) = <<"dict", {pair(h, p) : p \in d}>>
      OBVIOUS
    <3> QED
      BY <2>1 DEF d, pair, StoredBy
  <2> QED
    BY <2>3, <2>4, Zenon
<1>4. r \in Scalars \/ r = <<"object", r[2], r[3]>> => r[1] # "list" /\ r[1] # "dict"
  BY ScalarKinds
<1> QED
  BY <1>1, <1>2, <1>3, <1>4 DEF PartsIn

\* The file has what it is said to have, of every representation.
LEMMA StoredStep ==
  ASSUME NEW v \in Value
  PROVE  Stored[v] = StoredBy(Stored, v)
<1> DEFINE P(f, V) == f = [x \in V |-> StoredBy(f, x)]
           T == {n \in 0..MaxDepth : ~ \E f : P(f, Values[n])}
<1>1. ASSUME NEW n \in 0..MaxDepth, NEW f, P(f, Below(n)) PROVE \E g : P(g, Values[n])
  <2> DEFINE g == [x \in Values[n] |-> StoredBy(f, x)]
  <2>1. \A x \in Below(n) : f[x] = StoredBy(f, x)
    <3> HIDE DEF P
    <3>1. f = [x \in Below(n) |-> StoredBy(f, x)]
      BY <1>1 DEF P
    <3> QED
      BY <3>1, Zenon
  <2>2. \A x \in Below(n) : f[x] = g[x]
    BY <2>1, Parts
  <2>3. \A x \in Values[n] : StoredBy(f, x) = StoredBy(g, x)
    <3> HIDE DEF g
    <3> QED
      BY <2>2, Parts, StoredLocal
  <2>4. g = [x \in Values[n] |-> StoredBy(g, x)]
    <3> DEFINE h == [x \in Values[n] |-> StoredBy(g, x)]
    <3>1. \A x \in Values[n] : g[x] = h[x]
      BY <2>3
    <3>2. g = h
      BY <2>3
    <3> QED
      BY <3>2
  <2> QED
    BY <2>4
<1>2. T = {}
  <2> HIDE DEF P
  <2>1. SUFFICES ASSUME T # {} PROVE FALSE
    OBVIOUS
  <2>2. PICK m \in T : \A y \in T : ~(y < m)
    <3>1. T \subseteq Nat
      BY ValuesStep
    <3> HIDE DEF T
    <3> QED
      BY <2>1, <3>1, Least
  <2>3. \E f : P(f, Below(m))
    <3>1. CASE m = 0
      <4>1. P([x \in {} |-> x], {})
        BY DEF P
      <4> QED
        BY <3>1, <4>1 DEF Below
    <3>2. CASE m # 0
      <4>1. m - 1 \in 0..MaxDepth /\ m - 1 \notin T
        BY <2>2, <3>2, ValuesStep
      <4> QED
        BY <3>2, <4>1 DEF Below
    <3> QED
      BY <3>1, <3>2
  <2> QED
    BY <1>1, <2>2, <2>3
<1> DEFINE c == CHOOSE f : P(f, Value)
<1>3. Stored = c
  BY DEF Stored, StoredBy
<1>4. P(c, Value)
  <2> HIDE DEF P
  <2>1. \E f : P(f, Value)
    BY <1>2, ValuesStep
  <2> QED
    BY <2>1
<1> HIDE DEF c
<1>5. \A x \in Value : c[x] = StoredBy(c, x)
  BY <1>4, Zenon
<1> QED
  BY <1>3, <1>5

\* Induction on the depth again.
LEMMA StoredParts ==
  ASSUME NEW n \in 0..MaxDepth, NEW v \in Values[n],
         \A x \in Below(n) : Stored[x] \in Below(n)
  PROVE  Stored[v] \in Values[n]
<1> DEFINE B == Below(n)
<1>1. Stored[v] = StoredBy(Stored, v) /\ PartsIn(v, B)
  BY StoredStep, LevelIsValue, Parts
<1>2. CASE v[1] # "list" /\ v[1] # "dict"
  <2>1. StoredBy(Stored, v) = v
    BY <1>2, StoredKinds, Zenon
  <2> QED
    BY <1>1, <2>1
<1>3. v \in Scalars \/ v = <<"object", v[2], v[3]>> => v[1] # "list" /\ v[1] # "dict"
  BY ScalarKinds
<1>4. CASE v[1] = "list" \/ v[1] = "dict"
  <2>1. n # 0
    BY <1>3, <1>4, ValuesStep
  <2>2. \A x : PartsIn(x, B) => x \in Values[n]
    BY <2>1, Parts
  <2>3. \A x \in B : Stored[x] \in B
    OBVIOUS
  <2> HIDE DEF B
  <2>4. CASE v = <<"list", v[2]>> /\ v[2] \in Seq(B)
    <3>1. v[1] = "list"
      BY <2>4
    <3> DEFINE s == [i \in 1..Len(v[2]) |-> Stored[v[2][i]]]
    <3>2. Stored[v] = <<"list", s>>
      BY <1>1, <3>1, StoredKinds, Zenon
    <3>3. s \in Seq(B)
      BY <2>3, <2>4
    <3> HIDE DEF s
    <3>4. PartsIn(<<"list", s>>, B)
      BY <3>3 DEF PartsIn
    <3> QED
      BY <2>2, <3>2, <3>4
  <2>5. CASE v = <<"dict", v[2]>> /\ v[2] \in SUBSET (Scalars \X B)
    <3>1. v[1] = "dict"
      BY <2>5
    <3> DEFINE d == {<<<<"str", p[1][2]>>, Stored[p[2]]>> : p \in v[2]}
    <3>2. Stored[v] = <<"dict", d>>
      <4>1. StoredBy(Stored, v) = <<"dict", d>>
        BY <3>1 DEF StoredBy
      <4> QED
        BY <1>1, <4>1
    <3>3. d \in SUBSET (Scalars \X B)
      <4>1. ASSUME NEW p \in v[2] PROVE <<<<"str", p[1][2]>>, Stored[p[2]]>> \in Scalars \X B
        <5>1. p[1] \in Scalars /\ p[2] \in B
          BY <2>5
        <5>2. <<"str", p[1][2]>> \in Scalars
          BY <5>1, ScalarKinds DEF Scalars, EasilySerializable, Native
        <5> QED
          BY <2>3, <5>1, <5>2
      <4> QED
        BY <4>1
    <3> HIDE DEF d
    <3>4. PartsIn(<<"dict", d>>, B)
      BY <3>3 DEF PartsIn
    <3> QED
      BY <2>2, <3>2, <3>4
  <2> QED
    BY <1>1, <1>3, <1>4, <2>4, <2>5 DEF PartsIn
<1> QED
  BY <1>2, <1>4

\* What is in the file is a value, and nests no deeper.
LEMMA StoredTyped ==
  ASSUME NEW n \in 0..MaxDepth
  PROVE  \A v \in Values[n] : Stored[v] \in Values[n]
<1> DEFINE Q(k) == \A v \in Values[k] : Stored[v] \in Values[k]
           T == {k \in 0..MaxDepth : ~Q(k)}
<1>1. ASSUME NEW k \in 0..MaxDepth, k # 0 => Q(k - 1) PROVE Q(k)
  <2>1. \A x \in Below(k) : Stored[x] \in Below(k)
    BY <1>1 DEF Below
  <2> QED
    BY <2>1, StoredParts
<1>2. T = {}
  <2> HIDE DEF Q
  <2>1. SUFFICES ASSUME T # {} PROVE FALSE
    OBVIOUS
  <2>2. PICK m \in T : \A y \in T : ~(y < m)
    <3>1. T \subseteq Nat
      BY ValuesStep
    <3> HIDE DEF T
    <3> QED
      BY <2>1, <3>1, Least
  <2>3. m # 0 => Q(m - 1)
    BY <2>2, ValuesStep
  <2> QED
    BY <1>1, <2>2, <2>3
<1> HIDE DEF Q
<1>3. Q(n)
  BY <1>2
<1> QED
  BY <1>3 DEF Q

-----------------------------------------------------------------------------
(* deserialize() *)

\* The fields, the type ids, and the hints that the parts of a hinted value have.
LEMMA Schema ==
  /\ DOMAIN FieldHints = Classes
  /\ DOMAIN GlobalTypes \subseteq Classes
  /\ \A class \in Classes : \A n \in DOMAIN FieldHints[class] : FieldHints[class][n] \in SessionHints
  /\ \A class \in Classes : <<"class", class>> \in SessionHints
  /\ \A h \in SessionHints :
       /\ h[1] = "list" => h[2] \in SessionHints
       /\ h[1] = "dict" => h[3] \in SessionHints
       /\ h[1] = "class" => h[2] \in Classes
<1>1. DOMAIN FieldHints = Classes
  BY DEF FieldHints
<1>2. DOMAIN GlobalTypes \subseteq Classes
  BY DEF GlobalTypes, Classes
<1> DEFINE Of(class) == {FieldHints[class][n] : n \in DOMAIN FieldHints[class]}
           all == UNION {Of(class) : class \in Classes}
           named == {<<"class", class>> : class \in Classes}
<1>0. SessionHints = all \union named \union {<<"str">>, <<"TaskCoordinates">>}
  BY DEF SessionHints
<1> HIDE DEF all, named
<1>3. \A class \in Classes : \A n \in DOMAIN FieldHints[class] : FieldHints[class][n] \in SessionHints
  <2>1. \A class \in Classes : \A n \in DOMAIN FieldHints[class] : FieldHints[class][n] \in Of(class)
    OBVIOUS
  <2> HIDE DEF Of
  <2>2. \A class \in Classes : \A h \in Of(class) : h \in all
    BY DEF all
  <2> QED
    BY <1>0, <2>1, <2>2, Zenon
<1>4. \A class \in Classes : <<"class", class>> \in SessionHints
  BY <1>0 DEF named
<1>5. <<"str">> \in SessionHints /\ <<"TaskCoordinates">> \in SessionHints
  BY <1>0, Zenon
<1>6. ASSUME NEW h \in SessionHints
      PROVE  /\ h[1] = "list" => h[2] \in SessionHints
             /\ h[1] = "dict" => h[3] \in SessionHints
             /\ h[1] = "class" => h[2] \in Classes
  <2>1. \/ \E class \in Classes : \E n \in DOMAIN FieldHints[class] : h = FieldHints[class][n]
        \/ \E class \in Classes : h = <<"class", class>>
        \/ h = <<"str">> \/ h = <<"TaskCoordinates">>
    <3>1. h \in all => \E class \in Classes : h \in Of(class)
      <4> HIDE DEF Of
      <4> QED
        BY DEF all
    <3>2. h \in named => \E class \in Classes : h = <<"class", class>>
      BY DEF named
    <3>3. h \in all \/ h \in named \/ h = <<"str">> \/ h = <<"TaskCoordinates">>
      BY <1>0, Zenon
    <3>4. \A class \in Classes : h \in Of(class) =>
            \E n \in DOMAIN FieldHints[class] : h = FieldHints[class][n]
      OBVIOUS
    <3> HIDE DEF Of
    <3> QED
      BY <3>1, <3>2, <3>3, <3>4, Zenon
  <2>2. ASSUME NEW class \in Classes, NEW n \in DOMAIN FieldHints[class], h = FieldHints[class][n]
        PROVE  /\ h[1] = "list" => h[2] = <<"str">> \/ h[2] = <<"TaskCoordinates">>
               /\ h[1] = "dict" => h[3] = <<"class", "ContextSession">>
               /\ h[1] = "class" => h[2] \in Classes
    BY <2>2 DEF FieldHints, Classes
  <2>3. "ContextSession" \in Classes
    BY DEF Classes
  <2>4. CASE \E class \in Classes : h = <<"class", class>>
    BY <2>4
  <2>5. CASE h = <<"str">> \/ h = <<"TaskCoordinates">>
    BY <2>5
  <2>6. CASE \E class \in Classes : \E n \in DOMAIN FieldHints[class] : h = FieldHints[class][n]
    <3>1. /\ h[1] = "list" => h[2] = <<"str">> \/ h[2] = <<"TaskCoordinates">>
          /\ h[1] = "dict" => h[3] = <<"class", "ContextSession">>
          /\ h[1] = "class" => h[2] \in Classes
      BY <2>2, <2>6
    <3> QED
      BY <1>4, <1>5, <2>3, <3>1
  <2> QED
    BY <2>1, <2>4, <2>5, <2>6
<1> QED
  BY <1>1, <1>2, <1>3, <1>4, <1>6

\* What deserialize() makes of an entry of a dict, for a field of a class
FieldRead(f, class, p) ==
  <<p[1][2], IF p[1][2] \in DOMAIN FieldHints[class] THEN f[<<p[2], FieldHints[class][p[1][2]]>>]
             ELSE Raised>>

TypeChosen(class, r) == CHOOSE c \in ClassesOf(class, r) : TRUE

\* deserialize(), with f for the calls it makes
DeserializedBy(f, r, hint) ==
  IF r = None \/ IsInstance(r, hint) THEN r
  ELSE IF hint[1] = "class" /\ r[1] = "dict" THEN
    IF ClassesOf(hint[2], r) = {} THEN Raised
    ELSE <<"object", TypeChosen(hint[2], r),
           {FieldRead(f, TypeChosen(hint[2], r), p) : p \in Simplified(hint[2], r)}>>
  ELSE IF hint[1] = "list" /\ r[1] = "list" THEN
    <<"list", [i \in 1..Len(r[2]) |-> f[<<r[2][i], hint[2]>>]]>>
  ELSE IF hint[1] = "dict" /\ r[1] = "dict" /\ hint[2][1] \in EasilySerializable THEN
    <<"dict", {<<KeyRead(p[1], hint[2]), f[<<p[2], hint[3]>>]>> : p \in r[2]}>>
  ELSE OfScalar(r, hint[1])

\* It depends on what the calls on the parts return.
LEMMA DeserializedLocal ==
  ASSUME NEW f, NEW g, NEW V, NEW r, PartsIn(r, V), NEW hint \in SessionHints,
         \A x \in V : \A h \in SessionHints : f[<<x, h>>] = g[<<x, h>>]
  PROVE  DeserializedBy(f, r, hint) = DeserializedBy(g, r, hint)
<1>1. CASE r = None \/ IsInstance(r, hint)
  BY <1>1, Zenon DEF DeserializedBy
<1>2. r[1] = "dict" => r[2] \in SUBSET (Scalars \X V)
  <2>1. r \in Scalars \/ r[1] = "list" \/ r[1] = "object" => r[1] # "dict"
    BY ScalarKinds
  <2> QED
    BY <2>1 DEF PartsIn
<1>3. r[1] = "list" => r[2] \in Seq(V)
  <2>1. r \in Scalars \/ r[1] = "dict" \/ r[1] = "object" => r[1] # "list"
    BY ScalarKinds
  <2> QED
    BY <2>1 DEF PartsIn
<1>4. ASSUME hint[1] = "class", r[1] = "dict", ClassesOf(hint[2], r) # {}
      PROVE  {FieldRead(f, TypeChosen(hint[2], r), p) : p \in Simplified(hint[2], r)}
             = {FieldRead(g, TypeChosen(hint[2], r), p) : p \in Simplified(hint[2], r)}
  <2> DEFINE class == TypeChosen(hint[2], r)
  <2>1. class \in ClassesOf(hint[2], r)
    BY <1>4 DEF TypeChosen
  <2> HIDE DEF class
  <2>2. class \in Classes
    BY <1>4, <2>1, Schema, Zenon DEF ClassesOf
  <2>3. ASSUME NEW p \in Simplified(hint[2], r) PROVE FieldRead(f, class, p) = FieldRead(g, class, p)
    <3>1. p[2] \in V
      BY <1>2, <1>4 DEF Simplified
    <3>2. p[1][2] \in DOMAIN FieldHints[class] => FieldHints[class][p[1][2]] \in SessionHints
      BY <2>2, Schema
    <3>3. p[1][2] \in DOMAIN FieldHints[class] =>
            f[<<p[2], FieldHints[class][p[1][2]]>>] = g[<<p[2], FieldHints[class][p[1][2]]>>]
      BY <3>1, <3>2
    <3> QED
      BY <3>3, Zenon DEF FieldRead
  <2>4. {FieldRead(f, class, p) : p \in Simplified(hint[2], r)}
        = {FieldRead(g, class, p) : p \in Simplified(hint[2], r)}
    BY <2>3
  <2> QED
    BY <2>4, Zenon DEF class
<1>5. ASSUME hint[1] = "list", r[1] = "list"
      PROVE  [i \in 1..Len(r[2]) |-> f[<<r[2][i], hint[2]>>]]
             = [i \in 1..Len(r[2]) |-> g[<<r[2][i], hint[2]>>]]
  <2>1. hint[2] \in SessionHints
    BY <1>5, Schema
  <2>2. \A i \in 1..Len(r[2]) : f[<<r[2][i], hint[2]>>] = g[<<r[2][i], hint[2]>>]
    BY <1>3, <1>5, <2>1
  <2> QED
    BY <2>2
<1>6. ASSUME hint[1] = "dict", r[1] = "dict"
      PROVE  {<<KeyRead(p[1], hint[2]), f[<<p[2], hint[3]>>]>> : p \in r[2]}
             = {<<KeyRead(p[1], hint[2]), g[<<p[2], hint[3]>>]>> : p \in r[2]}
  <2>1. hint[3] \in SessionHints
    BY <1>6, Schema
  <2> DEFINE pair(h, p) == <<KeyRead(p[1], hint[2]), h[<<p[2], hint[3]>>]>>
  <2>2. \A p \in r[2] : pair(f, p) = pair(g, p)
    BY <1>2, <1>6, <2>1
  <2> HIDE DEF pair
  <2>3. {pair(f, p) : p \in r[2]} = {pair(g, p) : p \in r[2]}
    BY <2>2
  <2> QED
    BY <2>3, Zenon DEF pair
<1>7. CASE ~(r = None \/ IsInstance(r, hint)) /\ hint[1] = "class" /\ r[1] = "dict"
  BY <1>4, <1>7, Zenon DEF DeserializedBy
<1>8. hint[1] = "list" => hint[1] # "class"
  OBVIOUS
<1>9. CASE ~(r = None \/ IsInstance(r, hint)) /\ hint[1] = "list" /\ r[1] = "list"
  BY <1>5, <1>8, <1>9, Zenon DEF DeserializedBy
<1>10. hint[1] = "dict" => hint[1] # "class" /\ hint[1] # "list"
  OBVIOUS
<1>11. CASE ~(r = None \/ IsInstance(r, hint)) /\ hint[1] = "dict" /\ r[1] = "dict"
  BY <1>6, <1>10, <1>11, Zenon DEF DeserializedBy
<1> QED
  BY <1>1, <1>7, <1>9, <1>11, Zenon DEF DeserializedBy

\* deserialize() is what it says it is, for every value and every hint.
LEMMA DeserializedStep ==
  ASSUME NEW r \in Value, NEW hint \in SessionHints
  PROVE  Deserialized[<<r, hint>>] = DeserializedBy(Deserialized, r, hint)
<1> DEFINE P(f, V) == f = [x \in V \X SessionHints |-> DeserializedBy(f, x[1], x[2])]
           T == {n \in 0..MaxDepth : ~ \E f : P(f, Values[n])}
<1>1. ASSUME NEW n \in 0..MaxDepth, NEW f, P(f, Below(n)) PROVE \E g : P(g, Values[n])
  <2> DEFINE g == [x \in Values[n] \X SessionHints |-> DeserializedBy(f, x[1], x[2])]
  <2>1. \A x \in Below(n) \X SessionHints : f[x] = DeserializedBy(f, x[1], x[2])
    <3> HIDE DEF P
    <3>1. f = [x \in Below(n) \X SessionHints |-> DeserializedBy(f, x[1], x[2])]
      BY <1>1 DEF P
    <3> QED
      BY <3>1, Zenon
  <2>2. \A x \in Below(n) \X SessionHints : x \in Values[n] \X SessionHints
    BY Parts
  <2>3. \A x \in Below(n) \X SessionHints : f[x] = g[x]
    BY <2>1, <2>2, Zenon
  <2>4. \A x \in Below(n) : \A h \in SessionHints : f[<<x, h>>] = g[<<x, h>>]
    <3> HIDE DEF g
    <3> QED
      BY <2>3
  <2>5. \A x \in Values[n] \X SessionHints :
          DeserializedBy(f, x[1], x[2]) = DeserializedBy(g, x[1], x[2])
    <3> HIDE DEF g, P
    <3>1. ASSUME NEW x \in Values[n] \X SessionHints
          PROVE  DeserializedBy(f, x[1], x[2]) = DeserializedBy(g, x[1], x[2])
      <4>1. x[1] \in Values[n] /\ x[2] \in SessionHints
        OBVIOUS
      <4>2. PartsIn(x[1], Below(n))
        BY <4>1, Parts
      <4> QED
        BY <2>4, <4>1, <4>2, DeserializedLocal
    <3> QED
      BY <3>1
  <2>6. g = [x \in Values[n] \X SessionHints |-> DeserializedBy(g, x[1], x[2])]
    <3> DEFINE F == [x \in Values[n] \X SessionHints |-> DeserializedBy(g, x[1], x[2])]
    <3>1. g = F
      BY <2>5, Zenon
    <3> QED
      BY <3>1
  <2> QED
    BY <2>6
<1>2. T = {}
  <2> HIDE DEF P
  <2>1. SUFFICES ASSUME T # {} PROVE FALSE
    OBVIOUS
  <2>2. PICK m \in T : \A y \in T : ~(y < m)
    <3>1. T \subseteq Nat
      BY ValuesStep
    <3> HIDE DEF T
    <3> QED
      BY <2>1, <3>1, Least
  <2>3. \E f : P(f, Below(m))
    <3>1. CASE m = 0
      <4>1. P([x \in {} |-> x], {})
        <5>1. {} \X SessionHints = {}
          OBVIOUS
        <5> QED
          BY <5>1 DEF P
      <4> QED
        BY <3>1, <4>1 DEF Below
    <3>2. CASE m # 0
      <4>1. m - 1 \in 0..MaxDepth /\ m - 1 \notin T
        BY <2>2, <3>2, ValuesStep
      <4> QED
        BY <3>2, <4>1 DEF Below
    <3> QED
      BY <3>1, <3>2
  <2> QED
    BY <1>1, <2>2, <2>3
<1> DEFINE c == CHOOSE f : P(f, Value)
<1>3. Deserialized = c
  BY DEF Deserialized, DeserializedBy, FieldRead, TypeChosen
<1>4. P(c, Value)
  <2> HIDE DEF P
  <2>1. \E f : P(f, Value)
    BY <1>2, ValuesStep
  <2> QED
    BY <2>1
<1> HIDE DEF c
<1>5. \A x \in Value \X SessionHints : c[x] = DeserializedBy(c, x[1], x[2])
  BY <1>4, Zenon
<1>6. <<r, hint>> \in Value \X SessionHints /\ <<r, hint>>[1] = r /\ <<r, hint>>[2] = hint
  OBVIOUS
<1> QED
  BY <1>3, <1>5, <1>6, Zenon

-----------------------------------------------------------------------------
(* What was written is what is read. *)

ReadsBack(v, hint) == Deserialized[<<Document(v), hint>>] = v

\* What the file has of a value, of each kind
LEMMA ScalarDocument ==
  ASSUME NEW v \in Scalars
  PROVE  /\ v \in Value
         /\ Document(v) \in Value
         /\ Document(v) = <<Represented(v[1]), v[2]>>
<1>1. 0 \in 0..MaxDepth /\ Scalars = Values[0]
  BY ValuesStep
<1>2. v \in Value /\ Serialized[v] \in Value /\ Document(v) \in Value
  BY <1>1, LevelIsValue, SerializedTyped, StoredTyped DEF Document
<1>3. Serialized[v] = SerializedBy(Serialized, v)
  BY <1>2, SerializedStep
<1>4. SerializedBy(Serialized, v) = <<Represented(v[1]), v[2]>>
  BY SerializedKinds, Zenon
<1> DEFINE r == <<Represented(v[1]), v[2]>>
<1>5. Serialized[v] = r
  BY <1>3, <1>4
<1>6. r[1] # "list" /\ r[1] # "dict"
  BY DEF Represented, Native
<1> HIDE DEF r
<1>7. Stored[r] = StoredBy(Stored, r)
  BY <1>2, <1>5, StoredStep
<1>8. StoredBy(Stored, r) = r
  BY <1>6, StoredKinds, Zenon
<1> QED
  BY <1>2, <1>5, <1>7, <1>8 DEF Document, r

LEMMA ListDocument ==
  ASSUME NEW n \in 0..(MaxDepth - 1), NEW s \in Seq(Values[n])
  PROVE  /\ <<"list", s>> \in Values[n + 1]
         /\ Document(<<"list", s>>) \in Value
         /\ Document(<<"list", s>>) = <<"list", [i \in 1..Len(s) |-> Document(s[i])]>>
<1> DEFINE v == <<"list", s>>
           t == [i \in 1..Len(s) |-> Serialized[s[i]]]
           r == <<"list", t>>
<1>1. /\ n + 1 \in 0..MaxDepth /\ n + 1 # 0 /\ Below(n + 1) = Values[n]
      /\ n \in 0..MaxDepth
  BY ValuesStep DEF Below
<1>2. PartsIn(v, Values[n])
  BY DEF PartsIn
<1> HIDE DEF v
<1>3. v \in Values[n + 1]
  BY <1>1, <1>2, Parts
<1>4. v \in Value /\ Serialized[v] \in Value /\ Document(v) \in Value
  BY <1>1, <1>3, LevelIsValue, SerializedTyped, StoredTyped DEF Document
<1>5. v[1] = "list" /\ v[2] = s
  BY DEF v
<1>6. Serialized[v] = r
  <2>1. SerializedBy(Serialized, v) = r
    BY <1>5, SerializedKinds, Zenon
  <2> QED
    BY <1>4, <2>1, SerializedStep
<1>7. r[1] = "list" /\ r[2] = t /\ Len(t) = Len(s) /\ \A i \in 1..Len(s) : t[i] = Serialized[s[i]]
  BY <1>5
<1> HIDE DEF r, t
<1>8. Stored[r] = <<"list", [i \in 1..Len(t) |-> Stored[t[i]]]>>
  <2>1. StoredBy(Stored, r) = <<"list", [i \in 1..Len(t) |-> Stored[t[i]]]>>
    BY <1>7 DEF StoredBy
  <2> QED
    BY <1>4, <1>6, <2>1, StoredStep
<1>9. [i \in 1..Len(t) |-> Stored[t[i]]] = [i \in 1..Len(s) |-> Document(s[i])]
  BY <1>7 DEF Document
<1> QED
  BY <1>3, <1>4, <1>6, <1>8, <1>9 DEF Document, v

\* The keys of a dict become strings.
LEMMA DictDocument ==
  ASSUME NEW n \in 0..(MaxDepth - 1), NEW d \in SUBSET (Scalars \X Values[n]),
         \A p \in d : p[1][1] \in EasilySerializable
  PROVE  /\ <<"dict", d>> \in Values[n + 1]
         /\ Document(<<"dict", d>>) \in Value
         /\ Document(<<"dict", d>>) = <<"dict", {<<<<"str", p[1][2]>>, Document(p[2])>> : p \in d}>>
<1> DEFINE v == <<"dict", d>>
           t == {<<<<Represented(p[1][1]), p[1][2]>>, Serialized[p[2]]>> : p \in d}
           r == <<"dict", t>>
<1>1. /\ n + 1 \in 0..MaxDepth /\ n + 1 # 0 /\ Below(n + 1) = Values[n]
      /\ n \in 0..MaxDepth
  BY ValuesStep DEF Below
<1>2. PartsIn(v, Values[n])
  BY DEF PartsIn
<1> HIDE DEF v
<1>3. v \in Values[n + 1]
  BY <1>1, <1>2, Parts
<1>4. v \in Value /\ Serialized[v] \in Value /\ Document(v) \in Value
  BY <1>1, <1>3, LevelIsValue, SerializedTyped, StoredTyped DEF Document
<1>5. v[1] = "dict" /\ v[2] = d
  BY DEF v
<1>6. Serialized[v] = r
  <2>1. SerializedBy(Serialized, v) = r
    <3> HIDE DEF t
    <3>1. t = {<<<<Represented(p[1][1]), p[1][2]>>, Serialized[p[2]]>> : p \in d}
      BY Zenon DEF t
    <3>2. SerializedBy(Serialized, v) =
            <<"dict", {<<<<Represented(p[1][1]), p[1][2]>>, Serialized[p[2]]>> : p \in d}>>
      BY <1>5 DEF SerializedBy
    <3> QED
      BY <3>1, <3>2, Zenon
  <2> QED
    BY <1>4, <2>1, SerializedStep
<1>7. r[1] = "dict" /\ r[2] = t
  OBVIOUS
<1> HIDE DEF r
<1>8. Stored[r] = <<"dict", {<<<<"str", q[1][2]>>, Stored[q[2]]>> : q \in t}>>
  <2>1. StoredBy(Stored, r) = <<"dict", {<<<<"str", q[1][2]>>, Stored[q[2]]>> : q \in t}>>
    <3> HIDE DEF t
    <3> QED
      BY <1>7 DEF StoredBy
  <2> QED
    BY <1>4, <1>6, <2>1, StoredStep
<1>9. {<<<<"str", q[1][2]>>, Stored[q[2]]>> : q \in t} = {<<<<"str", p[1][2]>>, Document(p[2])>> : p \in d}
  <2> DEFINE inFile(q) == <<<<"str", q[1][2]>>, Stored[q[2]]>>
             entry(p) == <<<<Represented(p[1][1]), p[1][2]>>, Serialized[p[2]]>>
             written(p) == <<<<"str", p[1][2]>>, Document(p[2])>>
  <2>1. \A p \in d : inFile(entry(p)) = written(p)
    BY DEF Document
  <2>2. t = {entry(p) : p \in d}
    BY Zenon DEF t
  <2> HIDE DEF t, inFile, entry, written
  <2>3. {inFile(q) : q \in t} = {written(p) : p \in d}
    BY <2>1, <2>2
  <2> QED
    BY <2>3, Zenon DEF inFile, written
<1> QED
  BY <1>3, <1>4, <1>6, <1>8, <1>9 DEF Document, v

\* An object becomes a dict of its fields.
LEMMA ObjectDocument ==
  ASSUME NEW n \in 0..(MaxDepth - 1), NEW class \in Classes, NEW m \in SUBSET (STRING \X Values[n])
  PROVE  /\ <<"object", class, m>> \in Values[n + 1]
         /\ Document(<<"object", class, m>>) \in Value
         /\ Document(<<"object", class, m>>) =
              <<"dict", Enhanced(class, {<<<<"str", f[1]>>, Document(f[2])>> : f \in m})>>
<1> DEFINE v == <<"object", class, m>>
           t == {<<<<"str", f[1]>>, Serialized[f[2]]>> : f \in m}
           e == Enhanced(class, t)
           r == <<"dict", e>>
<1>1. /\ n + 1 \in 0..MaxDepth /\ n + 1 # 0 /\ Below(n + 1) = Values[n]
      /\ n \in 0..MaxDepth
  BY ValuesStep DEF Below
<1>2. PartsIn(v, Values[n])
  BY DEF PartsIn
<1> HIDE DEF v
<1>3. v \in Values[n + 1]
  BY <1>1, <1>2, Parts
<1>4. v \in Value /\ Serialized[v] \in Value /\ Document(v) \in Value
  BY <1>1, <1>3, LevelIsValue, SerializedTyped, StoredTyped DEF Document
<1>5. v[1] = "object" /\ v[2] = class /\ v[3] = m
  BY DEF v
<1>6. Serialized[v] = r
  <2>1. SerializedBy(Serialized, v) = r
    BY <1>5, SerializedKinds, Zenon
  <2> QED
    BY <1>4, <2>1, SerializedStep
<1>7. r[1] = "dict" /\ r[2] = e
  OBVIOUS
<1> HIDE DEF r
<1> DEFINE inFile(q) == <<<<"str", q[1][2]>>, Stored[q[2]]>>
<1>8. Stored[r] = <<"dict", {inFile(q) : q \in e}>>
  <2>1. StoredBy(Stored, r) = <<"dict", {inFile(q) : q \in e}>>
    <3> HIDE DEF e
    <3> QED
      BY <1>7 DEF StoredBy
  <2> QED
    BY <1>4, <1>6, <2>1, StoredStep
<1> DEFINE u == {<<<<"str", f[1]>>, Document(f[2])>> : f \in m}
<1>9. {inFile(q) : q \in t} = u
  <2> DEFINE entry(f) == <<<<"str", f[1]>>, Serialized[f[2]]>>
             written(f) == <<<<"str", f[1]>>, Document(f[2])>>
  <2>1. \A f \in m : inFile(entry(f)) = written(f)
    BY DEF Document
  <2>2. t = {entry(f) : f \in m} /\ u = {written(f) : f \in m}
    BY Zenon DEF t, u
  <2> HIDE DEF t, u, inFile, entry, written
  <2> QED
    BY <2>1, <2>2
<1> DEFINE id == <<TypeIdField, <<"str", GlobalTypes[class]>>>>
<1>10. class \in DOMAIN GlobalTypes => inFile(id) = id
  <2> SUFFICES ASSUME class \in DOMAIN GlobalTypes PROVE inFile(id) = id
    OBVIOUS
  <2> DEFINE x == <<"str", GlobalTypes[class]>>
  <2>1. GlobalTypes[class] \in STRING
    BY StringsAssumption DEF GlobalTypes
  <2>2. x \in Scalars /\ x[1] # "list" /\ x[1] # "dict"
    BY <2>1 DEF Scalars, EasilySerializable, Native
  <2> HIDE DEF x
  <2>3. x \in Value
    BY <2>2, ScalarDocument
  <2>4. StoredBy(Stored, x) = x
    BY <2>2, StoredKinds, Zenon
  <2>5. Stored[x] = x
    BY <2>3, <2>4, StoredStep
  <2> QED
    BY <2>5 DEF TypeIdField, x
<1>11. {inFile(q) : q \in e} = Enhanced(class, u)
  <2> HIDE DEF u, t, inFile, id
  <2>1. CASE class \in DOMAIN GlobalTypes
    <3>1. e = t \union {id} /\ Enhanced(class, u) = u \union {id}
      BY <2>1, Zenon DEF Enhanced, id
    <3>2. {inFile(q) : q \in t \union {id}} = {inFile(q) : q \in t} \union {inFile(id)}
      OBVIOUS
    <3> HIDE DEF e
    <3> QED
      BY <1>9, <1>10, <2>1, <3>1, <3>2
  <2>2. CASE class \notin DOMAIN GlobalTypes
    <3>1. e = t /\ Enhanced(class, u) = u
      BY <2>2, Zenon DEF Enhanced
    <3> HIDE DEF e
    <3> QED
      BY <1>9, <3>1
  <2> QED
    BY <2>1, <2>2
<1> HIDE DEF e, u, inFile
<1>12. Document(v) = <<"dict", Enhanced(class, u)>>
  BY <1>6, <1>8, <1>11 DEF Document
<1> QED
  BY <1>3, <1>4, <1>12 DEF v, u

\* None comes back whatever is asked for, and a scalar as what it was.
THEOREM ScalarsReadBack ==
  ASSUME NEW hint \in SessionHints
  PROVE  /\ ReadsBack(None, hint)
         /\ \A kind \in EasilySerializable \union {"enum", "TaskCoordinates"} :
              \A text \in STRING : hint = <<kind>> => ReadsBack(<<kind, text>>, hint)
<1>1. ReadsBack(None, hint)
  <2>1. None \in Scalars
    BY StringsAssumption DEF None, Scalars, EasilySerializable, Native
  <2>2. Document(None) \in Value /\ Document(None) = <<Represented(None[1]), None[2]>>
    BY <2>1, ScalarDocument
  <2>3. <<Represented(None[1]), None[2]>> = None
    BY DEF None, Represented, Native
  <2>4. Document(None) \in Value /\ Document(None) = None
    BY <2>2, <2>3
  <2>5. Deserialized[<<Document(None), hint>>] = DeserializedBy(Deserialized, Document(None), hint)
    BY <2>4, DeserializedStep
  <2>6. DeserializedBy(Deserialized, None, hint) = None
    BY Zenon DEF DeserializedBy
  <2> QED
    BY <2>4, <2>5, <2>6 DEF ReadsBack
<1>2. ASSUME NEW kind \in EasilySerializable \union {"enum", "TaskCoordinates"}, NEW text \in STRING,
             hint = <<kind>>
      PROVE  ReadsBack(<<kind, text>>, hint)
  <2> DEFINE v == <<kind, text>>
             r == <<Represented(kind), text>>
  <2>1. v \in Scalars /\ v[1] = kind /\ v[2] = text
    BY DEF Scalars
  <2> HIDE DEF v
  <2>2. Document(v) \in Value /\ Document(v) = r
    BY <2>1, ScalarDocument
  <2>3. Deserialized[<<Document(v), hint>>] = DeserializedBy(Deserialized, Document(v), hint)
    BY <2>2, DeserializedStep
  <2>4. DeserializedBy(Deserialized, r, hint) = <<kind, text>>
    <3>1. hint[1] = kind /\ Len(hint) = 1
      BY <1>2
    <3>2. CASE kind \in Native
      <4>1. r = <<kind, text>> /\ r[1] = kind
        BY <3>2 DEF Represented
      <4>2. IsInstance(r, hint)
        BY <3>1, <4>1 DEF IsInstance
      <4> HIDE DEF r
      <4> QED
        BY <4>1, <4>2, Zenon DEF DeserializedBy
    <3>3. CASE kind \notin Native
      <4>1. kind \in {"datetime", "uuid", "enum", "TaskCoordinates"}
        BY <3>3 DEF EasilySerializable
      <4>2. r = IF kind = "datetime" THEN <<"float", text>> ELSE <<"str", text>>
        BY <3>3 DEF Represented
      <4>3. r # None /\ ~IsInstance(r, hint)
        BY <3>1, <4>1, <4>2 DEF None, IsInstance
      <4>4. hint[1] # "class" /\ hint[1] # "list" /\ hint[1] # "dict"
        BY <3>1, <4>1
      <4>5. OfScalar(r, kind) = <<kind, text>>
        BY <4>1, <4>2 DEF OfScalar, Native
      <4> HIDE DEF r
      <4>6. DeserializedBy(Deserialized, r, hint) = OfScalar(r, hint[1])
        BY <4>3, <4>4, Zenon DEF DeserializedBy
      <4> QED
        BY <3>1, <4>5, <4>6
    <3> QED
      BY <3>2, <3>3
  <2> QED
    BY <2>2, <2>3, <2>4 DEF ReadsBack, v
<1> QED
  BY <1>1, <1>2

\* The hint of a list, a dict or a class is none of a scalar.
LEMMA ContainerHints ==
  ASSUME NEW h \in SessionHints
  PROVE  h[1] \in {"list", "dict", "class"} => Len(h) # 1
<1>1. ASSUME NEW class \in Classes, NEW n \in DOMAIN FieldHints[class]
      PROVE  LET x == FieldHints[class][n] IN x[1] \in {"list", "dict", "class"} => Len(x) # 1
  BY <1>1 DEF FieldHints, Classes
<1> DEFINE Of(class) == {FieldHints[class][n] : n \in DOMAIN FieldHints[class]}
<1>2. \/ \E class \in Classes : h \in Of(class)
      \/ h \in {<<"class", class>> : class \in Classes} \union {<<"str">>, <<"TaskCoordinates">>}
  <2> DEFINE rest == {<<"class", class>> : class \in Classes} \union {<<"str">>, <<"TaskCoordinates">>}
             all == UNION {Of(class) : class \in Classes}
  <2>1. SessionHints = all \union rest
    BY DEF SessionHints
  <2>2. h \in all => \E class \in Classes : h \in Of(class)
    <3> HIDE DEF Of
    <3> QED
      OBVIOUS
  <2> HIDE DEF all, rest, Of
  <2> QED
    BY <2>1, <2>2 DEF rest
<1>3. \A class \in Classes : h \in Of(class) => \E n \in DOMAIN FieldHints[class] : h = FieldHints[class][n]
  OBVIOUS
<1> HIDE DEF Of
<1>4. CASE \E class \in Classes : \E n \in DOMAIN FieldHints[class] : h = FieldHints[class][n]
  BY <1>1, <1>4, Zenon
<1>5. CASE h \in {<<"class", class>> : class \in Classes} \union {<<"str">>, <<"TaskCoordinates">>}
  BY <1>5
<1> QED
  BY <1>2, <1>3, <1>4, <1>5, Zenon

\* A list comes back if its members do.
THEOREM ListsReadBack ==
  ASSUME NEW n \in 0..(MaxDepth - 1), NEW s \in Seq(Values[n]),
         NEW hint \in SessionHints, hint[1] = "list",
         \A i \in 1..Len(s) : ReadsBack(s[i], hint[2])
  PROVE  ReadsBack(<<"list", s>>, hint)
<1> DEFINE v == <<"list", s>>
           d == [i \in 1..Len(s) |-> Document(s[i])]
           r == <<"list", d>>
<1>1. Document(v) \in Value /\ Document(v) = r
  BY ListDocument
<1>2. Deserialized[<<Document(v), hint>>] = DeserializedBy(Deserialized, Document(v), hint)
  BY <1>1, DeserializedStep
<1>3. /\ r[1] = "list" /\ r[2] = d /\ Len(d) = Len(s)
      /\ \A i \in 1..Len(s) : d[i] = Document(s[i])
      /\ r # None
  BY DEF None
<1>4. ~IsInstance(r, hint)
  BY ContainerHints DEF IsInstance
<1> HIDE DEF d, r
<1> DEFINE read == [i \in 1..Len(r[2]) |-> Deserialized[<<r[2][i], hint[2]>>]]
<1>5. DeserializedBy(Deserialized, r, hint) = <<"list", read>>
  <2>1. hint[1] # "class"
    OBVIOUS
  <2> QED
    BY <1>3, <1>4, <2>1, Zenon DEF DeserializedBy
<1>6. read = s
  <2>1. \A i \in 1..Len(s) : Deserialized[<<r[2][i], hint[2]>>] = s[i]
    BY <1>3 DEF ReadsBack
  <2>2. read = [i \in 1..Len(s) |-> s[i]]
    BY <1>3, <2>1
  <2>3. s = [i \in 1..Len(s) |-> s[i]]
    OBVIOUS
  <2> QED
    BY <2>2, <2>3
<1> HIDE DEF read
<1> QED
  BY <1>1, <1>2, <1>5, <1>6 DEF ReadsBack

\* A dict comes back if its values do, and its keys from the strings that they have
\* become in the file.
THEOREM DictsReadBack ==
  ASSUME NEW n \in 0..(MaxDepth - 1), NEW d \in SUBSET (Scalars \X Values[n]),
         NEW hint \in SessionHints, hint[1] = "dict", hint[2][1] \in EasilySerializable,
         \A p \in d : /\ p[1][1] \in EasilySerializable
                      /\ KeyRead(<<"str", p[1][2]>>, hint[2]) = p[1]
                      /\ ReadsBack(p[2], hint[3])
  PROVE  ReadsBack(<<"dict", d>>, hint)
<1> DEFINE v == <<"dict", d>>
           written(p) == <<<<"str", p[1][2]>>, Document(p[2])>>
           c == {written(p) : p \in d}
           r == <<"dict", c>>
<1>1. Document(v) \in Value /\ Document(v) = r
  BY DictDocument
<1>2. Deserialized[<<Document(v), hint>>] = DeserializedBy(Deserialized, Document(v), hint)
  BY <1>1, DeserializedStep
<1>3. r[1] = "dict" /\ r[2] = c /\ r # None
  BY DEF None
<1>4. ~IsInstance(r, hint)
  BY ContainerHints DEF IsInstance
<1> HIDE DEF r
<1> DEFINE entry(q) == <<KeyRead(q[1], hint[2]), Deserialized[<<q[2], hint[3]>>]>>
<1>5. DeserializedBy(Deserialized, r, hint) = <<"dict", {entry(q) : q \in r[2]}>>
  <2>1. hint[1] # "class" /\ hint[1] # "list"
    OBVIOUS
  <2> QED
    BY <1>3, <1>4, <2>1, Zenon DEF DeserializedBy
<1>6. {entry(q) : q \in c} = d
  <2>1. ASSUME NEW p \in d PROVE entry(written(p)) = p
    <3>1. p = <<p[1], p[2]>>
      OBVIOUS
    <3> DEFINE q == written(p)
    <3>2. q[1] = <<"str", p[1][2]>> /\ q[2] = Document(p[2])
      OBVIOUS
    <3> HIDE DEF q
    <3>3. KeyRead(q[1], hint[2]) = p[1] /\ Deserialized[<<q[2], hint[3]>>] = p[2]
      BY <3>2, Zenon DEF ReadsBack
    <3> QED
      BY <3>1, <3>3, Zenon DEF q
  <2> HIDE DEF entry, written
  <2> QED
    BY <2>1
<1> HIDE DEF entry, c
<1> QED
  BY <1>1, <1>2, <1>3, <1>5, <1>6 DEF ReadsBack

\* An object comes back if its fields do: of a class that is not polymorphic as one of that
\* class, of a polymorphic one as what it was, whichever of these classes was asked for.
THEOREM ObjectsReadBack ==
  ASSUME NEW n \in 0..(MaxDepth - 1), NEW class \in Classes, NEW m \in SUBSET (STRING \X Values[n]),
         NEW asked \in Classes,
         asked = class \/ {asked, class} \subseteq DOMAIN GlobalTypes,
         \A f \in m : /\ f[1] \in DOMAIN FieldHints[class]
                      /\ ReadsBack(f[2], FieldHints[class][f[1]])
  PROVE  ReadsBack(<<"object", class, m>>, <<"class", asked>>)
<1> DEFINE v == <<"object", class, m>>
           hint == <<"class", asked>>
           written(f) == <<<<"str", f[1]>>, Document(f[2])>>
           c == {written(f) : f \in m}
           id == <<TypeIdField, <<"str", GlobalTypes[class]>>>>
           e == Enhanced(class, c)
           r == <<"dict", e>>
<1>1. Document(v) \in Value /\ Document(v) = r
  BY ObjectDocument
<1>2. hint \in SessionHints
  BY Schema
<1>3. Deserialized[<<Document(v), hint>>] = DeserializedBy(Deserialized, Document(v), hint)
  BY <1>1, <1>2, DeserializedStep
<1>4. /\ r[1] = "dict" /\ r[2] = e /\ r # None
      /\ hint[1] = "class" /\ hint[2] = asked
  BY DEF None
<1>5. ~IsInstance(r, hint)
  BY <1>2, <1>4, ContainerHints DEF IsInstance
\* No field is called "__type_id__", and no two classes have the same type_id().
<1>6. /\ \A f \in m : written(f)[1] # TypeIdField
      /\ id[1] = TypeIdField
      /\ \A a, b \in DOMAIN GlobalTypes : GlobalTypes[a] = GlobalTypes[b] => a = b
  <2>1. ASSUME NEW x \in DOMAIN FieldHints[class] PROVE x # "__type_id__"
    BY <2>1 DEF FieldHints, Classes
  <2>2. \A f \in m : written(f)[1] # TypeIdField
    BY <2>1 DEF TypeIdField
  <2>3. \A a, b \in DOMAIN GlobalTypes : GlobalTypes[a] = GlobalTypes[b] => a = b
    BY DEF GlobalTypes
  <2> QED
    BY <2>2, <2>3
<1> HIDE DEF v, hint, r, e
<1>7. class \notin DOMAIN GlobalTypes => asked = class
  OBVIOUS
<1>8. /\ ClassesOf(hint[2], r) = {class}
      /\ Simplified(hint[2], r) = c
  <2>1. CASE class \in DOMAIN GlobalTypes
    <3>1. e = c \union {id} /\ asked \in DOMAIN GlobalTypes
      BY <2>1, Zenon DEF Enhanced, e
    <3> DEFINE idOf(a) == <<TypeIdField, <<"str", GlobalTypes[a]>>>>
    <3>2. ASSUME NEW a \in DOMAIN GlobalTypes, idOf(a) \in e PROVE a = class
      <4>1. idOf(a)[1] = TypeIdField /\ idOf(a)[2] = <<"str", GlobalTypes[a]>>
        OBVIOUS
      <4>2. \A f \in m : written(f) # idOf(a)
        BY <1>6, <4>1
      <4> HIDE DEF idOf, written
      <4>3. idOf(a) \notin c
        BY <4>2
      <4>4. idOf(a) = id
        BY <3>1, <3>2, <4>3
      <4>5. GlobalTypes[a] = GlobalTypes[class]
        BY <4>1, <4>4
      <4> QED
        BY <1>6, <2>1, <4>5
    <3>3. idOf(class) \in e
      BY <3>1
    <3>4. ClassesOf(hint[2], r) = {a \in DOMAIN GlobalTypes : idOf(a) \in e}
      BY <1>4, <3>1, Zenon DEF ClassesOf
    <3>5. Simplified(hint[2], r) = {q \in e : q[1] # TypeIdField}
      <4>1. Simplified(hint[2], r) = {q \in e : asked \in DOMAIN GlobalTypes => q[1] # TypeIdField}
        BY <1>4, Zenon DEF Simplified
      <4> QED
        BY <3>1, <4>1
    <3> HIDE DEF idOf
    <3>6. ClassesOf(hint[2], r) = {class}
      BY <2>1, <3>2, <3>3, <3>4
    <3>7. \A q \in c : q[1] # TypeIdField
      <4> HIDE DEF written
      <4> QED
        BY <1>6
    <3> HIDE DEF c, id
    <3>8. Simplified(hint[2], r) = c
      BY <1>6, <3>1, <3>5, <3>7
    <3> QED
      BY <3>6, <3>8
  <2>2. CASE class \notin DOMAIN GlobalTypes
    <3>1. e = c
      BY <2>2, Zenon DEF Enhanced, e
    <3>2. asked = class
      BY <1>7, <2>2
    <3> HIDE DEF c
    <3>3. ClassesOf(hint[2], r) = {class}
      BY <1>4, <2>2, <3>2 DEF ClassesOf
    <3>4. Simplified(hint[2], r) = c
      BY <1>4, <2>2, <3>1, <3>2 DEF Simplified
    <3> QED
      BY <3>3, <3>4
  <2> QED
    BY <2>1, <2>2
<1>9. TypeChosen(hint[2], r) = class
  <2> DEFINE chosen == CHOOSE x \in {class} : TRUE
  <2>1. chosen = class
    OBVIOUS
  <2> QED
    BY <1>8, <2>1, Zenon DEF TypeChosen
<1>10. DeserializedBy(Deserialized, r, hint) =
         <<"object", class, {FieldRead(Deserialized, class, q) : q \in c}>>
  <2>1. ClassesOf(hint[2], r) # {}
    BY <1>8
  <2>2. DeserializedBy(Deserialized, r, hint) =
          <<"object", TypeChosen(hint[2], r),
            {FieldRead(Deserialized, TypeChosen(hint[2], r), q) : q \in Simplified(hint[2], r)}>>
    BY <1>4, <1>5, <2>1, Zenon DEF DeserializedBy
  <2> HIDE DEF c
  <2> QED
    BY <1>8, <1>9, <2>2, Zenon
<1>11. {FieldRead(Deserialized, class, q) : q \in c} = m
  <2>1. ASSUME NEW f \in m PROVE FieldRead(Deserialized, class, written(f)) = f
    <3>1. f = <<f[1], f[2]>>
      OBVIOUS
    <3> DEFINE q == written(f)
    <3>2. q[1][2] = f[1] /\ q[2] = Document(f[2])
      OBVIOUS
    <3> HIDE DEF q
    <3>3. Deserialized[<<q[2], FieldHints[class][q[1][2]]>>] = f[2]
      BY <3>2, Zenon DEF ReadsBack
    <3>4. q[1][2] \in DOMAIN FieldHints[class]
      BY <3>2
    <3>5. FieldRead(Deserialized, class, q) = <<f[1], f[2]>>
      BY <3>2, <3>3, <3>4, Zenon DEF FieldRead
    <3> QED
      BY <3>1, <3>5 DEF q
  <2> HIDE DEF written
  <2> QED
    BY <2>1
<1> HIDE DEF c
<1>12. Deserialized[<<Document(v), hint>>] = v
  BY <1>1, <1>3, <1>10, <1>11 DEF v
<1> QED
  BY <1>12, Zenon DEF ReadsBack, v, hint

-----------------------------------------------------------------------------
(* The documents of the session manager *)

(***************************************************************************)
(* The numbers of processes and of context sessions that there are, and so *)
(* those that have a text.                                                 *)
(***************************************************************************)
Bounded ==
  /\ sid <= MaxRuntimes /\ attempts <= MaxContexts
  /\ Len(contexts) <= attempts
  /\ pc \in {"injected", "found", "new", "opening"} => Len(contexts) < attempts
  /\ \A s \in DOMAIN table : Len(table[s]) <= MaxContexts

LEMMA BoundedInit == Init => Bounded
  BY SessionManagerAssumption DEF Init, Bounded

LEMMA BoundedStep ==
  ASSUME TypeOK, HasNumber, LastIsOwn, Bounded, [Next]_vars
  PROVE  Bounded'
<1>1. /\ MaxRuntimes \in Nat /\ MaxContexts \in Nat
      /\ sid \in Nat /\ attempts \in Nat /\ contexts \in Seq(Context) /\ Len(contexts) \in Nat
  BY SessionManagerAssumption DEF TypeOK
<1>2. /\ sid' <= MaxRuntimes /\ attempts' <= MaxContexts
      /\ Len(contexts') <= attempts'
      /\ pc' \in {"injected", "found", "new", "opening"} => Len(contexts') < attempts'
  <2>1. CASE StartProcess
    BY <1>1, <2>1 DEF StartProcess, Bounded
  <2>2. CASE ExitProcess \/ Kill
    BY <2>2 DEF ExitProcess, Kill, process, Bounded
  <2>3. CASE Inject
    BY <1>1, <2>3 DEF Inject, Bounded
  <2>4. CASE Find \/ SaveLast \/ NothingToSanitize \/ Sanitize
    BY <2>4 DEF Find, SaveLast, NothingToSanitize, Sanitize, MustSanitize, process, Bounded
  <2>5. CASE SanitizeRaises \/ NoLastContextRaises \/ ContextStarted
    BY <2>5 DEF SanitizeRaises, NoLastContextRaises, ContextStarted, process, Bounded
  <2>6. CASE OpenContext \/ OpenContextRaises
    <3>1. Len(contexts') = Len(contexts) + 1 /\ pc = "opening" /\ pc' \in {"opened", "idle"}
          /\ UNCHANGED <<sid, attempts>>
      BY <2>6, ContextOpened DEF OpenContext, OpenContextRaises
    <3> QED
      BY <1>1, <3>1 DEF Bounded
  <2>7. CASE MarkInvokedStep
    <3>1. Len(contexts') = Len(contexts) /\ pc' = "running" /\ UNCHANGED <<sid, attempts>>
      BY <2>7, StepMarked DEF MarkInvokedStep
    <3> QED
      BY <3>1 DEF Bounded
  <2>8. CASE CloseContext
    <3>1. Len(contexts') = Len(contexts) /\ pc' = "idle" /\ UNCHANGED <<sid, attempts>>
      BY <2>8, ContextClosed DEF CloseContext
    <3> QED
      BY <3>1 DEF Bounded
  <2>9. CASE UNCHANGED vars
    BY <2>9 DEF vars, Bounded
  <2> QED
    BY <2>1, <2>2, <2>3, <2>4, <2>5, <2>6, <2>7, <2>8, <2>9 DEF Next
<1>3. \A s \in DOMAIN table' : Len(table'[s]) <= MaxContexts
  <2>1. CASE UNCHANGED table
    BY <2>1 DEF Bounded
  <2>2. CASE Persist(contexts') /\ pc # "down" /\ UNCHANGED sid
    <3>1. ~StartProcess
      BY <2>2 DEF StartProcess
    <3>2. contexts' \in Seq(Context)
      BY <3>1, ContextsGrow
    <3>3. /\ DOMAIN table' = DOMAIN table \union {sid}
          /\ table'[sid] = contexts'
          /\ \A s \in DOMAIN table \ {sid} : table'[s] = table[s]
      BY <2>2, <3>2, Persisted
    <3>4. Len(contexts') <= attempts' /\ attempts' <= MaxContexts /\ attempts' \in Nat
      <4>1. TypeOK'
        BY TypeStep
      <4> QED
        BY <1>2, <4>1 DEF TypeOK
    <3>5. Len(contexts') <= MaxContexts
      BY <1>1, <3>2, <3>4
    <3> QED
      BY <3>3, <3>5 DEF Bounded
  <2> QED
    BY <2>1, <2>2, TableSteps
<1> QED
  BY <1>2, <1>3 DEF Bounded

\* A scalar is a value of any depth, and a field that asks for its kind reads it back.
LEMMA ScalarFields ==
  ASSUME NEW class \in Classes, NEW f \in DOMAIN FieldHints[class],
         NEW kind \in EasilySerializable \union {"enum", "TaskCoordinates"}, NEW text \in STRING
  PROVE  /\ \A n \in 0..MaxDepth : <<kind, text>> \in Values[n]
         /\ FieldHints[class][f] = <<kind>> => ReadsBack(<<kind, text>>, FieldHints[class][f])
<1>1. <<kind, text>> \in Scalars
  BY DEF Scalars
<1>2. FieldHints[class][f] \in SessionHints
  BY Schema
<1> QED
  BY <1>1, <1>2, Parts, ScalarsReadBack

\* A context session with a number there is
LEMMA ContextReadsBack ==
  ASSUME NEW n \in 0..MaxContexts, NEW c \in Context
  PROVE  /\ ContextObject(n, c) \in Values[2]
         /\ ReadsBack(ContextObject(n, c), <<"class", "ContextSession">>)
<1> DEFINE class == "ContextSession"
           steps == [i \in 1..c.invoked |-> <<"TaskCoordinates", "STEP:a@0">>]
           flag == <<"bool", IF c.sanitized THEN "true" ELSE "false">>
           m == {<<"session_no", <<"int", Text(n)>>>>, <<"started_on", <<"datetime", "17.5">>>>,
                 <<"sanitized", flag>>, <<"invoked_steps", <<"list", steps>>>>}
<1>1. ContextObject(n, c) = <<"object", class, m>>
  <2> DEFINE fields == [session_no |-> <<"int", Text(n)>>, started_on |-> <<"datetime", "17.5">>,
                        sanitized |-> flag, invoked_steps |-> <<"list", steps>>]
  <2>1. ContextObject(n, c) = Object(class, fields)
    BY Zenon DEF ContextObject
  <2> HIDE DEF flag, steps
  <2>2. Object(class, fields) = <<"object", class, m>>
    BY DEF Object
  <2> QED
    BY <2>1, <2>2
<1>2. class \in Classes
  BY DEF Classes
<1>3. FieldHints[class] =
        [session_no |-> <<"int">>, sanitized |-> <<"bool">>, started_on |-> <<"datetime">>,
         invoked_steps |-> <<"list", <<"TaskCoordinates">>>>]
  BY DEF FieldHints, Classes
<1>4. /\ DOMAIN FieldHints[class] = {"session_no", "sanitized", "started_on", "invoked_steps"}
      /\ FieldHints[class]["session_no"] = <<"int">>
      /\ FieldHints[class]["sanitized"] = <<"bool">>
      /\ FieldHints[class]["started_on"] = <<"datetime">>
      /\ FieldHints[class]["invoked_steps"] = <<"list", <<"TaskCoordinates">>>>
  BY <1>3
<1>5. {"int", "bool", "datetime"} \subseteq EasilySerializable
  BY DEF EasilySerializable, Native
<1>6. /\ Text(n) \in STRING /\ "17.5" \in STRING /\ "true" \in STRING /\ "false" \in STRING
      /\ "STEP:a@0" \in STRING
      /\ {"session_no", "sanitized", "started_on", "invoked_steps"} \subseteq STRING
  <2>1. n \in 0..MaxRuntimes + MaxContexts
    BY SessionManagerAssumption
  <2> QED
    BY <2>1, SessionRecordsAssumption, StringsAssumption
<1>7. /\ 0 \in 0..(MaxDepth - 1) /\ 1 \in 0..(MaxDepth - 1) /\ 1 \in 0..MaxDepth /\ 0 \in 0..MaxDepth
      /\ 0 + 1 = 1 /\ 1 + 1 = 2
  BY ValuesStep
<1>8. /\ <<"int", Text(n)>> \in Values[1]
      /\ ReadsBack(<<"int", Text(n)>>, FieldHints[class]["session_no"])
  BY <1>2, <1>4, <1>5, <1>6, <1>7, ScalarFields
<1>9. /\ <<"datetime", "17.5">> \in Values[1]
      /\ ReadsBack(<<"datetime", "17.5">>, FieldHints[class]["started_on"])
  BY <1>2, <1>4, <1>5, <1>6, <1>7, ScalarFields
<1>10. /\ flag \in Values[1]
       /\ ReadsBack(flag, FieldHints[class]["sanitized"])
  <2>1. (IF c.sanitized THEN "true" ELSE "false") \in STRING
    BY <1>6
  <2> QED
    BY <1>2, <1>4, <1>5, <1>7, <2>1, ScalarFields
<1>11. /\ <<"list", steps>> \in Values[1]
       /\ ReadsBack(<<"list", steps>>, FieldHints[class]["invoked_steps"])
  <2> DEFINE hint == FieldHints[class]["invoked_steps"]
             step == <<"TaskCoordinates", "STEP:a@0">>
  <2>1. hint \in SessionHints /\ hint[1] = "list" /\ hint[2] = <<"TaskCoordinates">>
    BY <1>2, <1>4, Schema
  <2>2. step \in Scalars
    BY <1>6 DEF Scalars
  <2>3. ReadsBack(step, hint[2])
    <3>1. hint[2] \in SessionHints
      BY <2>1, Schema
    <3> HIDE DEF hint
    <3> QED
      BY <1>6, <2>1, <3>1, ScalarsReadBack
  <2>4. step \in Values[0]
    BY <2>2, ValuesStep
  <2> HIDE DEF hint, step
  <2>5. steps \in Seq(Values[0]) /\ \A i \in 1..Len(steps) : steps[i] = step
    <3>1. c.invoked \in Nat
      BY DEF Context
    <3>2. steps = [i \in 1..c.invoked |-> step]
      BY DEF step
    <3> HIDE DEF steps
    <3> QED
      BY <2>4, <3>1, <3>2
  <2> HIDE DEF steps
  <2>6. <<"list", steps>> \in Values[0 + 1]
    BY <1>7, <2>5, ListDocument
  <2>7. ReadsBack(<<"list", steps>>, hint)
    BY <1>7, <2>1, <2>3, <2>5, ListsReadBack
  <2> QED
    BY <1>7, <2>6, <2>7 DEF hint
<1> HIDE DEF class, flag, steps
<1>12. m \in SUBSET (STRING \X Values[1])
  BY <1>6, <1>8, <1>9, <1>10, <1>11
<1>13. ASSUME NEW f \in m
       PROVE  f[1] \in DOMAIN FieldHints[class] /\ ReadsBack(f[2], FieldHints[class][f[1]])
  BY <1>4, <1>8, <1>9, <1>10, <1>11
<1> HIDE DEF m
<1>14. <<"object", class, m>> \in Values[1 + 1]
  BY <1>2, <1>7, <1>12, ObjectDocument
<1>15. ReadsBack(<<"object", class, m>>, <<"class", class>>)
  BY <1>2, <1>7, <1>12, <1>13, ObjectsReadBack
<1> QED
  BY <1>1, <1>7, <1>14, <1>15 DEF class

\* The metadata of a process
LEMMA MetadataReadsBack ==
  /\ Metadata \in Values[3]
  /\ ReadsBack(Metadata, <<"class", "RuntimeSessionMetadata">>)
<1> DEFINE none == <<>>
           facets == <<"list", none>>
           m == {<<"mode", <<"enum", "APP">>>>, <<"started_on", <<"datetime", "17">>>>,
                 <<"active_facet_names", facets>>}
           runtime == <<"object", "RuntimeRecord", m>>
           d == {<<"hostname", <<"str", "host">>>>, <<"pid", <<"int", "1">>>>, <<"runtime", runtime>>}
<1>1. Metadata = <<"object", "RuntimeSessionMetadata", d>>
  <2>1. runtime =
          Object("RuntimeRecord",
                 [mode |-> <<"enum", "APP">>, started_on |-> <<"datetime", "17">>,
                  active_facet_names |-> <<"list", <<>>>>])
    BY DEF Object
  <2> HIDE DEF runtime
  <2>2. Metadata = Object("RuntimeSessionMetadata",
                     [hostname |-> <<"str", "host">>, pid |-> <<"int", "1">>, runtime |-> runtime])
    BY <2>1 DEF Metadata
  <2> QED
    BY <2>2 DEF Object
<1>2. "RuntimeRecord" \in Classes /\ "RuntimeSessionMetadata" \in Classes
  BY DEF Classes
<1> DEFINE hints == FieldHints["RuntimeRecord"]
           outer == FieldHints["RuntimeSessionMetadata"]
<1>3. /\ DOMAIN hints = {"mode", "active_facet_names", "started_on"}
      /\ hints["mode"] = <<"enum">>
      /\ hints["active_facet_names"] = <<"list", <<"str">>>>
      /\ hints["started_on"] = <<"datetime">>
  BY DEF FieldHints, Classes
<1>4. /\ DOMAIN outer = {"runtime", "hostname", "pid"}
      /\ outer["runtime"] = <<"class", "RuntimeRecord">>
      /\ outer["hostname"] = <<"str">>
      /\ outer["pid"] = <<"int">>
  BY DEF FieldHints, Classes
<1>5. {"str", "int", "datetime"} \subseteq EasilySerializable
  BY DEF EasilySerializable, Native
<1>6. {"APP", "17", "host", "1", "mode", "started_on", "active_facet_names", "hostname", "pid", "runtime"}
        \subseteq STRING
  BY StringsAssumption
<1>7. /\ 0 \in 0..(MaxDepth - 1) /\ 1 \in 0..(MaxDepth - 1) /\ 2 \in 0..(MaxDepth - 1)
      /\ 1 \in 0..MaxDepth /\ 2 \in 0..MaxDepth /\ 0 + 1 = 1 /\ 1 + 1 = 2 /\ 2 + 1 = 3
  BY ValuesStep
<1>8. /\ <<"enum", "APP">> \in Values[1] /\ ReadsBack(<<"enum", "APP">>, hints["mode"])
      /\ <<"datetime", "17">> \in Values[1] /\ ReadsBack(<<"datetime", "17">>, hints["started_on"])
  BY <1>2, <1>3, <1>5, <1>6, <1>7, ScalarFields
<1>9. /\ <<"str", "host">> \in Values[2] /\ ReadsBack(<<"str", "host">>, outer["hostname"])
      /\ <<"int", "1">> \in Values[2] /\ ReadsBack(<<"int", "1">>, outer["pid"])
  BY <1>2, <1>4, <1>5, <1>6, <1>7, ScalarFields
<1>10. facets \in Values[1] /\ ReadsBack(facets, hints["active_facet_names"])
  <2>1. none \in Seq(Values[0]) /\ Len(none) = 0
    OBVIOUS
  <2>2. hints["active_facet_names"] \in SessionHints /\ hints["active_facet_names"][1] = "list"
    BY <1>2, <1>3, Schema
  <2> HIDE DEF none, hints
  <2>3. facets \in Values[0 + 1]
    BY <1>7, <2>1, ListDocument
  <2>4. ReadsBack(facets, hints["active_facet_names"])
    <3> DEFINE hint == hints["active_facet_names"]
    <3>1. \A i \in 1..Len(none) : ReadsBack(none[i], hint[2])
      BY <2>1
    <3> HIDE DEF hint
    <3>2. ReadsBack(<<"list", none>>, hint)
      BY <1>7, <2>1, <2>2, <3>1, ListsReadBack DEF hint
    <3> QED
      BY <3>2 DEF hint
  <2> QED
    BY <1>7, <2>3, <2>4
<1> HIDE DEF none, facets, hints
<1>11. m \in SUBSET (STRING \X Values[1])
  BY <1>6, <1>8, <1>10
<1>12. ASSUME NEW f \in m
       PROVE  f[1] \in DOMAIN hints /\ ReadsBack(f[2], hints[f[1]])
  BY <1>3, <1>8, <1>10
<1> HIDE DEF m
<1>13. runtime \in Values[1 + 1] /\ ReadsBack(runtime, <<"class", "RuntimeRecord">>)
  BY <1>2, <1>7, <1>11, <1>12, ObjectDocument, ObjectsReadBack DEF hints
<1> HIDE DEF runtime, outer
<1>14. d \in SUBSET (STRING \X Values[2])
  BY <1>6, <1>7, <1>9, <1>13
<1>15. ASSUME NEW f \in d
       PROVE  f[1] \in DOMAIN outer /\ ReadsBack(f[2], outer[f[1]])
  BY <1>4, <1>9, <1>13
<1> HIDE DEF d
<1>16. /\ <<"object", "RuntimeSessionMetadata", d>> \in Values[2 + 1]
       /\ ReadsBack(<<"object", "RuntimeSessionMetadata", d>>, <<"class", "RuntimeSessionMetadata">>)
  BY <1>2, <1>7, <1>14, <1>15, ObjectDocument, ObjectsReadBack DEF outer
<1> QED
  BY <1>1, <1>7, <1>16

\* int() gives the keys of the context sessions back from their texts.
LEMMA KeysReadBack ==
  ASSUME NEW n \in 0..MaxContexts
  PROVE  /\ <<"int", Text(n)>> \in Scalars
         /\ KeyRead(<<"str", Text(n)>>, <<"int">>) = <<"int", Text(n)>>
<1>1. Text(n) \in STRING
  <2>1. n \in 0..MaxRuntimes + MaxContexts
    BY SessionManagerAssumption
  <2> QED
    BY <2>1, SessionRecordsAssumption
<1>2. <<"int", Text(n)>> \in Scalars
  BY <1>1 DEF Scalars, EasilySerializable, Native
<1> DEFINE text == Text(n)
           key == <<"str", text>>
<1>3. ~IsInstance(key, <<"int">>)
  BY DEF IsInstance
<1>4. text \in {Text(k) : k \in 0..MaxContexts}
  OBVIOUS
<1> DEFINE numerals == {Text(k) : k \in 0..MaxContexts}
<1>5. OfScalar(key, "int") = <<"int", text>>
  <2> HIDE DEF text
  <2>1. Constructed("int", key) = <<"int", text>>
    BY <1>4 DEF Constructed
  <2>2. OfScalar(key, "int") = Constructed("int", key)
    BY DEF OfScalar, Native
  <2> QED
    BY <2>1, <2>2
<1>6. <<"int">>[1] = "int"
  OBVIOUS
<1> QED
  BY <1>2, <1>3, <1>5, <1>6 DEF KeyRead

\* The entries of a process's context sessions: number |-> context session
Entries(cs) == {<<<<"int", Text(i - 1)>>, ContextObject(i - 1, cs[i])>> : i \in DOMAIN cs}

RuntimeFields(s, cs) ==
  {<<"sid", <<"uuid", Text(s)>>>>, <<"metadata", Metadata>>,
   <<"context_sessions", <<"dict", Entries(cs)>>>>}

LEMMA RuntimeObjectFields ==
  ASSUME NEW s, NEW cs
  PROVE  RuntimeObject(s, cs) = <<"object", "RuntimeSession", RuntimeFields(s, cs)>>
<1> DEFINE id == <<"uuid", Text(s)>>
           sessions == <<"dict", Entries(cs)>>
           fields == [sid |-> id, metadata |-> Metadata, context_sessions |-> sessions]
<1>1. RuntimeObject(s, cs) = Object("RuntimeSession", fields)
  BY Zenon DEF RuntimeObject, Entries
<1>2. RuntimeFields(s, cs) =
        {<<"sid", id>>, <<"metadata", Metadata>>, <<"context_sessions", sessions>>}
  BY Zenon DEF RuntimeFields
<1> HIDE DEF id, sessions
<1>3. Object("RuntimeSession", fields) =
        <<"object", "RuntimeSession",
          {<<"sid", id>>, <<"metadata", Metadata>>, <<"context_sessions", sessions>>}>>
  BY DEF Object
<1> QED
  BY <1>1, <1>2, <1>3

\* Every context session of a process comes back under its number.
LEMMA EntriesReadBack ==
  ASSUME NEW cs \in Seq(Context), Len(cs) <= MaxContexts
  PROVE  /\ <<"dict", Entries(cs)>> \in Values[3]
         /\ ReadsBack(<<"dict", Entries(cs)>>, <<"dict", <<"int">>, <<"class", "ContextSession">>>>)
<1> DEFINE hint == <<"dict", <<"int">>, <<"class", "ContextSession">>>>
           entry(i) == <<<<"int", Text(i - 1)>>, ContextObject(i - 1, cs[i])>>
<1>1. hint \in SessionHints
  <2>1. "RuntimeSession" \in Classes /\ "context_sessions" \in DOMAIN FieldHints["RuntimeSession"]
        /\ FieldHints["RuntimeSession"]["context_sessions"] = hint
    BY DEF FieldHints, Classes
  <2> HIDE DEF hint
  <2> QED
    BY <2>1, Schema
<1>2. /\ hint[1] = "dict" /\ hint[2] = <<"int">> /\ hint[3] = <<"class", "ContextSession">>
      /\ hint[2][1] \in EasilySerializable
  BY DEF EasilySerializable, Native
<1> HIDE DEF hint
<1>3. 2 \in 0..(MaxDepth - 1) /\ 2 + 1 = 3
  BY ValuesStep
<1>4. ASSUME NEW i \in DOMAIN cs
      PROVE  /\ entry(i)[1] \in Scalars /\ entry(i)[2] \in Values[2]
             /\ entry(i)[1][1] \in EasilySerializable
             /\ KeyRead(<<"str", entry(i)[1][2]>>, hint[2]) = entry(i)[1]
             /\ ReadsBack(entry(i)[2], hint[3])
  <2>1. i - 1 \in 0..MaxContexts /\ cs[i] \in Context
    BY SessionManagerAssumption
  <2> DEFINE k == i - 1
  <2>2. k \in 0..MaxContexts
    BY <2>1
  <2> HIDE DEF k
  <2>3. /\ <<"int", Text(k)>> \in Scalars
        /\ KeyRead(<<"str", Text(k)>>, hint[2]) = <<"int", Text(k)>>
    BY <1>2, <2>2, KeysReadBack
  <2>4. ContextObject(k, cs[i]) \in Values[2] /\ ReadsBack(ContextObject(k, cs[i]), hint[3])
    BY <1>2, <2>1, <2>2, ContextReadsBack
  <2> DEFINE p == <<<<"int", Text(k)>>, ContextObject(k, cs[i])>>
  <2>5. /\ p[1] = <<"int", Text(k)>> /\ p[1][1] = "int" /\ p[1][2] = Text(k)
        /\ p[2] = ContextObject(k, cs[i])
    OBVIOUS
  <2>6. entry(i) = p
    BY DEF k
  <2> HIDE DEF p, entry
  <2>7. "int" \in EasilySerializable
    BY DEF EasilySerializable, Native
  <2> QED
    BY <2>3, <2>4, <2>5, <2>6, <2>7
<1>5. Entries(cs) = {entry(i) : i \in DOMAIN cs}
  BY Zenon DEF Entries
<1>6. ASSUME NEW i \in DOMAIN cs PROVE entry(i) \in Scalars \X Values[2]
  BY <1>4
<1> HIDE DEF entry
<1>7. Entries(cs) \in SUBSET (Scalars \X Values[2])
  BY <1>5, <1>6
<1>8. ASSUME NEW p \in Entries(cs)
      PROVE  /\ p[1][1] \in EasilySerializable
             /\ KeyRead(<<"str", p[1][2]>>, hint[2]) = p[1]
             /\ ReadsBack(p[2], hint[3])
  <2>1. PICK i \in DOMAIN cs : p = entry(i)
    BY <1>5
  <2> QED
    BY <1>4, <2>1, Zenon
<1>9. <<"dict", Entries(cs)>> \in Values[2 + 1]
  BY <1>3, <1>7, <1>8, DictDocument
<1>10. ReadsBack(<<"dict", Entries(cs)>>, hint)
  BY <1>1, <1>2, <1>3, <1>7, <1>8, DictsReadBack
<1> QED
  BY <1>3, <1>9, <1>10 DEF hint

\* What a process persists, the next one reads back.
LEMMA RuntimeReadsBack ==
  ASSUME NEW s \in 0..MaxRuntimes, NEW cs \in Seq(Context), Len(cs) <= MaxContexts
  PROVE  ReadsBack(RuntimeObject(s, cs), <<"class", "RuntimeSession">>)
<1> DEFINE class == "RuntimeSession"
           m == RuntimeFields(s, cs)
           id == <<"uuid", Text(s)>>
           sessions == <<"dict", Entries(cs)>>
<1>1. class \in Classes
  BY DEF Classes
<1>2. /\ DOMAIN FieldHints[class] = {"sid", "metadata", "context_sessions"}
      /\ FieldHints[class]["sid"] = <<"uuid">>
      /\ FieldHints[class]["metadata"] = <<"class", "RuntimeSessionMetadata">>
      /\ FieldHints[class]["context_sessions"] = <<"dict", <<"int">>, <<"class", "ContextSession">>>>
  BY DEF FieldHints, Classes
<1>3. 3 \in 0..(MaxDepth - 1) /\ 3 \in 0..MaxDepth
  BY ValuesStep
<1>4. id \in Values[3] /\ ReadsBack(id, FieldHints[class]["sid"])
  <2>1. s \in 0..MaxRuntimes + MaxContexts
    BY SessionManagerAssumption
  <2>2. Text(s) \in STRING
    BY <2>1, SessionRecordsAssumption
  <2>3. "uuid" \in EasilySerializable
    BY DEF EasilySerializable
  <2> QED
    BY <1>1, <1>2, <1>3, <2>2, <2>3, ScalarFields
<1>5. sessions \in Values[3] /\ ReadsBack(sessions, FieldHints[class]["context_sessions"])
  BY <1>2, EntriesReadBack
<1>6. Metadata \in Values[3] /\ ReadsBack(Metadata, FieldHints[class]["metadata"])
  BY <1>2, MetadataReadsBack
<1>7. m = {<<"sid", id>>, <<"metadata", Metadata>>, <<"context_sessions", sessions>>}
  BY Zenon DEF RuntimeFields
<1>8. {"sid", "metadata", "context_sessions"} \subseteq STRING
  BY StringsAssumption
<1> HIDE DEF m, id, sessions, class
<1>9. m \in SUBSET (STRING \X Values[3])
  BY <1>4, <1>5, <1>6, <1>7, <1>8
<1>10. ASSUME NEW f \in m
       PROVE  f[1] \in DOMAIN FieldHints[class] /\ ReadsBack(f[2], FieldHints[class][f[1]])
  <2> DEFINE hints == FieldHints[class]
  <2>1. DOMAIN hints = {"sid", "metadata", "context_sessions"}
    BY <1>2
  <2> HIDE DEF hints
  <2>2. \/ f[1] = "sid" /\ f[2] = id
        \/ f[1] = "metadata" /\ f[2] = Metadata
        \/ f[1] = "context_sessions" /\ f[2] = sessions
    BY <1>7
  <2>3. ReadsBack(f[2], hints[f[1]])
    BY <1>4, <1>5, <1>6, <2>2, Zenon DEF hints
  <2> QED
    BY <2>1, <2>2, <2>3 DEF hints
<1>11. ReadsBack(<<"object", class, m>>, <<"class", class>>)
  BY <1>1, <1>3, <1>9, <1>10, ObjectsReadBack
<1> QED
  BY <1>11, RuntimeObjectFields DEF class, m

\* Its last context session is the one with the greatest number.
LEMMA LastContextFound ==
  ASSUME NEW s, NEW cs \in Seq(Context), Len(cs) <= MaxContexts
  PROVE  LastContextSession(RuntimeObject(s, cs)) =
           IF cs = <<>> THEN None ELSE ContextObject(Len(cs) - 1, Last(cs))
<1> DEFINE o == RuntimeObject(s, cs)
           m == RuntimeFields(s, cs)
           sessions == Entries(cs)
           IsLast(n) == \E p \in sessions : p[1] = <<"int", Text(n)>>
           nos == {n \in 0..MaxContexts : IsLast(n)}
           no == CHOOSE n \in nos : \A k \in nos : k <= n
           entry(i) == <<<<"int", Text(i - 1)>>, ContextObject(i - 1, cs[i])>>
           IsEntry(p) == p[1] = <<"int", Text(no)>>
<1>1. o[3] = m
  BY RuntimeObjectFields
<1>2. (CHOOSE f \in m : f[1] = "context_sessions")[2][2] = sessions
  <2> DEFINE x == <<"context_sessions", <<"dict", sessions>>>>
             id == <<"uuid", Text(s)>>
  <2>1. m = {<<"sid", id>>, <<"metadata", Metadata>>, x}
    BY Zenon DEF RuntimeFields
  <2>2. x[1] = "context_sessions" /\ x[2][2] = sessions
    OBVIOUS
  <2> HIDE DEF x, m, id
  <2>3. \A f \in m : f[1] = "context_sessions" <=> f = x
    BY <2>1, <2>2
  <2>4. x \in m
    BY <2>1
  <2>5. (CHOOSE f \in m : f[1] = "context_sessions") = x
    BY <2>3, <2>4
  <2> QED
    BY <2>2, <2>5
<1>3. LastContextSession(o) =
        IF nos = {} THEN None ELSE (CHOOSE p \in sessions : IsEntry(p))[2]
  <2> DEFINE found == (CHOOSE f \in o[3] : f[1] = "context_sessions")[2][2]
  <2>1. found = sessions
    BY <1>1, <1>2
  <2>2. LastContextSession(o) =
          LET IsLast1(n) == \E p \in found : p[1] = <<"int", Text(n)>>
              nos1 == {n \in 0..MaxContexts : IsLast1(n)}
          IN  IF nos1 = {} THEN None
              ELSE (CHOOSE p \in found :
                      p[1] = <<"int", Text(CHOOSE n \in nos1 : \A k \in nos1 : k <= n)>>)[2]
    BY Zenon DEF LastContextSession
  <2> HIDE DEF found, o
  <2> QED
    BY <2>1, <2>2, Zenon
<1>4. Len(cs) \in Nat /\ MaxContexts \in Nat /\ DOMAIN cs = 1..Len(cs)
  BY SessionManagerAssumption
<1>5. sessions = {entry(i) : i \in 1..Len(cs)}
  BY <1>4 DEF Entries
<1>6. \A i \in 1..Len(cs) : /\ entry(i)[1] = <<"int", Text(i - 1)>>
                            /\ entry(i)[2] = ContextObject(i - 1, cs[i])
  OBVIOUS
<1>7. ASSUME NEW n \in 0..MaxContexts, NEW i \in 1..Len(cs)
      PROVE  entry(i)[1] = <<"int", Text(n)>> <=> i = n + 1
  <2>1. i - 1 \in 0..MaxContexts
    BY <1>4
  <2>2. entry(i)[1] = <<"int", Text(n)>> <=> Text(i - 1) = Text(n)
    OBVIOUS
  <2>3. Text(i - 1) = Text(n) <=> i - 1 = n
    BY <2>1, SessionRecordsAssumption, Zenon
  <2> QED
    BY <2>2, <2>3
<1> HIDE DEF entry, sessions
<1>8. nos = 0..(Len(cs) - 1)
  <2>1. ASSUME NEW n \in 0..MaxContexts PROVE IsLast(n) <=> n + 1 \in 1..Len(cs)
    <3>1. IsLast(n) <=> \E i \in 1..Len(cs) : entry(i)[1] = <<"int", Text(n)>>
      BY <1>5
    <3> QED
      BY <1>7, <3>1
  <2> HIDE DEF IsLast
  <2> QED
    BY <1>4, <2>1
<1> HIDE DEF IsLast
<1>9. CASE cs = <<>>
  <2>1. Len(cs) = 0
    BY <1>9
  <2>2. nos = {}
    BY <1>8, <2>1
  <2> QED
    BY <1>3, <1>9, <2>2
<1>10. CASE cs # <<>>
  <2>1. Len(cs) >= 1
    BY <1>4, <1>10, EmptySeq
  <2>2. Len(cs) - 1 \in nos /\ \A k \in nos : k <= Len(cs) - 1
    BY <1>4, <1>8, <2>1
  <2>3. nos \subseteq Nat
    BY <1>8
  <2> DEFINE IsGreatest(n) == \A k \in nos : k <= n
             greatest == CHOOSE n \in nos : IsGreatest(n)
  <2>4. no = Len(cs) - 1
    <3> HIDE DEF nos
    <3>1. \A n \in nos : IsGreatest(n) <=> n = Len(cs) - 1
      BY <2>2, <2>3
    <3> HIDE DEF IsGreatest
    <3>2. greatest = Len(cs) - 1
      BY <2>2, <3>1
    <3> QED
      BY <3>2, Zenon DEF IsGreatest
  <2> HIDE DEF nos
  <2> HIDE DEF no
  <2>5. \A i \in 1..Len(cs) : IsEntry(entry(i)) <=> i = Len(cs)
    <3>1. no \in 0..MaxContexts /\ no + 1 = Len(cs)
      BY <1>4, <2>1, <2>4
    <3> QED
      BY <1>7, <3>1
  <2> DEFINE p == entry(Len(cs))
  <2>6. Len(cs) \in 1..Len(cs)
    BY <1>4, <2>1
  <2>7. p \in sessions /\ \A q \in sessions : IsEntry(q) <=> q = p
    <3> HIDE DEF IsEntry
    <3>1. p \in sessions /\ IsEntry(p)
      BY <1>5, <2>5, <2>6
    <3>2. ASSUME NEW q \in sessions, IsEntry(q) PROVE q = p
      <4>1. PICK i \in 1..Len(cs) : q = entry(i)
        BY <1>5
      <4> QED
        BY <2>5, <3>2, <4>1
    <3> QED
      BY <3>1, <3>2
  <2> HIDE DEF IsEntry
  <2>8. (CHOOSE q \in sessions : IsEntry(q)) = p
    BY <2>7
  <2>9. p[2] = ContextObject(Len(cs) - 1, cs[Len(cs)])
    BY <1>6, <2>6
  <2>10. nos # {}
    BY <2>2
  <2> QED
    BY <1>3, <1>10, <2>8, <2>9, <2>10 DEF Last
<1> QED
  BY <1>9, <1>10 DEF o

\* The global LastSession comes back as one, though a Global is asked for.
LEMMA LastSessionReads ==
  ASSUME TypeOK, Bounded
  PROVE  ReadsBack(LastSessionObject, <<"class", "Global">>)
<1> DEFINE id == IF lastSid = NoSid THEN None ELSE <<"uuid", Text(lastSid)>>
           class == "LastSession"
           m == {<<"sid", id>>}
<1>1. LastSessionObject = <<"object", class, m>>
  <2>1. LastSessionObject = Object(class, [sid |-> id])
    BY Zenon DEF LastSessionObject
  <2> HIDE DEF id
  <2> QED
    BY <2>1 DEF Object
<1>2. /\ class \in Classes /\ "Global" \in Classes
      /\ {"Global", class} \subseteq DOMAIN GlobalTypes
  BY DEF Classes, GlobalTypes
<1>3. DOMAIN FieldHints[class] = {"sid"} /\ FieldHints[class]["sid"] = <<"uuid">>
  BY DEF FieldHints, Classes
<1>4. 0 \in 0..(MaxDepth - 1) /\ 0 \in 0..MaxDepth
  BY ValuesStep
<1>5. id \in Values[0] /\ ReadsBack(id, FieldHints[class]["sid"])
  <2>1. CASE lastSid = NoSid
    <3>1. None \in Values[0]
      BY ValuesStep, StringsAssumption DEF None, Scalars, EasilySerializable, Native
    <3>2. FieldHints[class]["sid"] \in SessionHints
      BY <1>2, <1>3, Schema
    <3> QED
      BY <2>1, <3>1, <3>2, ScalarsReadBack
  <2>2. CASE lastSid # NoSid
    <3>1. lastSid \in 0..MaxRuntimes + MaxContexts
      BY SessionManagerAssumption DEF TypeOK, Bounded
    <3>2. Text(lastSid) \in STRING
      BY <3>1, SessionRecordsAssumption
    <3>3. "uuid" \in EasilySerializable
      BY DEF EasilySerializable
    <3>4. id = <<"uuid", Text(lastSid)>>
      BY <2>2
    <3> HIDE DEF id
    <3> QED
      BY <1>2, <1>3, <1>4, <3>2, <3>3, <3>4, ScalarFields
  <2> QED
    BY <2>1, <2>2
<1>6. "sid" \in STRING
  BY StringsAssumption
<1> HIDE DEF id
<1>7. m \in SUBSET (STRING \X Values[0])
  BY <1>5, <1>6
<1>8. ASSUME NEW f \in m
      PROVE  f[1] \in DOMAIN FieldHints[class] /\ ReadsBack(f[2], FieldHints[class][f[1]])
  BY <1>3, <1>5
<1> HIDE DEF m, class
<1>9. ReadsBack(<<"object", class, m>>, <<"class", "Global">>)
  BY <1>2, <1>4, <1>7, <1>8, ObjectsReadBack
<1> QED
  BY <1>1, <1>9

\* Whatever a process persists of its sessions, and whichever process it is that died, the
\* next one reads back as it was, and finds its last context session: serialize(), the JSON
\* file and deserialize() lose nothing of them (serialization.py, session_model.py).
THEOREM DocumentsReadBackHolds == Spec => []DocumentsReadBack
<1>1. ASSUME TypeOK, Bounded PROVE SessionsReadBack
  <2>1. ASSUME NEW s \in DOMAIN table
        PROVE  LET written == RuntimeObject(s, table[s])
                   read    == Got(Document(written), "RuntimeSession")
               IN  /\ read = written
                   /\ LastContextSession(read) =
                        IF table[s] = <<>> THEN None
                        ELSE ContextObject(Len(table[s]) - 1, Last(table[s]))
    <3>1. /\ s \in 0..MaxRuntimes /\ table[s] \in Seq(Context)
          /\ Len(table[s]) <= MaxContexts
      BY <1>1, SessionManagerAssumption DEF TypeOK, Bounded
    <3>2. ReadsBack(RuntimeObject(s, table[s]), <<"class", "RuntimeSession">>)
      BY <3>1, RuntimeReadsBack
    <3>3. Got(Document(RuntimeObject(s, table[s])), "RuntimeSession") = RuntimeObject(s, table[s])
      BY <3>2, Zenon DEF ReadsBack, Got
    <3> QED
      BY <3>1, <3>3, LastContextFound
  <2> QED
    BY <2>1, Zenon DEF SessionsReadBack
<1>2. ASSUME TypeOK, Bounded PROVE LastSessionReadBack
  BY <1>2, LastSessionReads, Zenon DEF LastSessionReadBack, Got, ReadsBack
<1>3. TypeOK /\ Bounded => DocumentsReadBack
  BY <1>1, <1>2 DEF DocumentsReadBack
<1>4. IInv /\ Bounded /\ [Next]_vars => IInv' /\ Bounded'
  BY NextInv, BoundedStep DEF IInv
<1>5. Init => IInv /\ Bounded
  BY InitInv, BoundedInit
<1>6. IInv => TypeOK
  BY DEF IInv
<1> QED
  BY <1>3, <1>4, <1>5, <1>6, PTL DEF Spec

=============================================================================
