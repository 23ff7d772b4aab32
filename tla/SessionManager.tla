--------------------------- MODULE SessionManager ---------------------------
(***************************************************************************)
(* PersistentSessionManager (thinking_executor/session.py) with the global *)
(* LastSession (globals_manager.py) and the one SessionCallback there is,  *)
(* ConsistentDataVersioningCallback (consistency.py).                      *)
(*                                                                         *)
(* A runtime session is a process, RUNTIME_SESSION its entry in the table; *)
(* a context session is one lifecycle of the context in it.  The process   *)
(* may be killed between any two writes to the TinyDB file.                *)
(***************************************************************************)
EXTENDS Naturals, Sequences

CONSTANTS
  MaxRuntimes,  \* bound: processes
  MaxContexts,  \* bound: attempts at a context session in one process
  MaxInvoked    \* bound: steps invoked in one context session

NoSid == 0

ASSUME SessionManagerAssumption == {MaxRuntimes, MaxContexts, MaxInvoked} \subseteq Nat

VARIABLES
  \* the TinyDB file
  lastSid,    \* LastSession.sid
  table,      \* sid |-> what was last persisted of its context sessions
  \* the process
  pc,         \* how far the lifecycle has got, see Stage
  sid,        \* RUNTIME_SESSION.sid, the number of the process
  contexts,   \* RUNTIME_SESSION.context_sessions
  attempts,   \* lifecycles begun in this process
  prevSid,    \* what globals.find(LastSession) returned
  prev,       \* previous_runtime_session's context sessions, <<>> for None
  \* History:
  leftover,   \* killed context sessions whose data was not rolled back since
  retried     \* whether a process tried again after on_new_runtime_session had failed

vars == <<lastSid, table, pc, sid, contexts, attempts, prevSid, prev, leftover, retried>>

file    == <<lastSid, table>>
process == <<sid, contexts, attempts, prevSid, prev>>
history == <<leftover, retried>>

(***************************************************************************)
(* "down"      there is no process                                         *)
(* "idle"      there is no context                                         *)
(* "injected"  inject_requirements is over                                 *)
(* "found"     the previous session has been looked up                     *)
(* "new"       on_new_runtime_session is due                               *)
(* "opening"   _open_context_session is due                                *)
(* "opened"    before_context_session is due                               *)
(* "running"   the body of the context's lifecycle runs                    *)
(***************************************************************************)
Stage == {"down", "idle", "injected", "found", "new", "opening", "opened", "running"}

Context == [sanitized : BOOLEAN, invoked : Nat]

Last(s) == s[Len(s)]

\* _persist(): upsert of the runtime session with this sid
Persist(cs) ==
  table' = [s \in DOMAIN table \union {sid} |-> IF s = sid THEN cs ELSE table[s]]

Open == pc \in {"opened", "running"}

-----------------------------------------------------------------------------
Init ==
  /\ lastSid = NoSid
  /\ table = [s \in {} |-> <<>>]
  /\ pc = "down"
  /\ sid = 0 /\ contexts = <<>> /\ attempts = 0
  /\ prevSid = NoSid /\ prev = <<>>
  /\ leftover = {} /\ retried = FALSE

StartProcess ==
  /\ pc = "down" /\ sid < MaxRuntimes
  /\ pc' = "idle"
  /\ sid' = sid + 1
  /\ contexts' = <<>>
  /\ attempts' = 0
  /\ UNCHANGED <<file, prevSid, prev, history>>

ExitProcess ==
  /\ pc = "idle"
  /\ pc' = "down"
  /\ UNCHANGED <<file, process, history>>

\* A context session that is killed never gets to deinitialize.
Kill ==
  /\ pc # "down"
  /\ pc' = "down"
  /\ leftover' = IF Open THEN leftover \union {<<sid, Len(contexts)>>} ELSE leftover
  /\ UNCHANGED <<file, process, retried>>

\* Mutant of Inject: every manager begins with an empty runtime session.
InjectFresh ==
  /\ pc = "idle" /\ attempts < MaxContexts
  /\ attempts' = attempts + 1
  /\ Persist(<<>>)
  /\ prevSid' = NoSid /\ prev' = <<>>
  /\ retried' = (retried \/ Len(contexts) < attempts)
  /\ pc' = "injected"
  /\ UNCHANGED <<lastSid, sid, contexts, leftover>>

\* inject_requirements of a new instance of the manager
Inject ==
  /\ pc = "idle" /\ attempts < MaxContexts
  /\ attempts' = attempts + 1
  /\ Persist(contexts)
  /\ prevSid' = NoSid /\ prev' = <<>>
  /\ retried' = (retried \/ Len(contexts) < attempts)
  /\ pc' = "injected"
  /\ UNCHANGED <<lastSid, sid, contexts, leftover>>

\* initialize: globals.find(LastSession), and the session it names
Find ==
  /\ pc = "injected"
  /\ prevSid' = lastSid
  /\ prev' = IF lastSid \in DOMAIN table THEN table[lastSid] ELSE <<>>
  /\ pc' = "found"
  /\ UNCHANGED <<file, sid, contexts, attempts, history>>

\* globals.save(LastSession(RUNTIME_SESSION.sid))
SaveLast ==
  /\ pc = "found"
  /\ lastSid' = sid
  /\ pc' = IF prevSid # sid THEN "new" ELSE "opening"
  /\ UNCHANGED <<table, process, history>>

\* Mutant of NothingToSanitize: the last context session is not asked.
NothingIsSanitized ==
  /\ pc = "new"
  /\ prevSid = NoSid \/ prev # <<>>
  /\ pc' = "opening"
  /\ UNCHANGED <<file, process, history>>

\* on_new_runtime_session finds nothing to do.
NothingToSanitize ==
  /\ pc = "new"
  /\ \/ prevSid = NoSid
     \/ prev # <<>> /\ Last(prev).sanitized
  /\ pc' = "opening"
  /\ UNCHANGED <<file, process, history>>

MustSanitize == pc = "new" /\ prevSid # NoSid /\ prev # <<>> /\ ~Last(prev).sanitized

\* It rolls back, and sets a flag of the previous session.  Its result would have the
\* manager persist that, but the composite of the callbacks drops the result.
Sanitize ==
  /\ MustSanitize
  /\ leftover' = {}
  /\ prev' = [prev EXCEPT ![Len(prev)].sanitized = TRUE]
  /\ pc' = "opening"
  /\ UNCHANGED <<file, sid, contexts, attempts, prevSid, retried>>

\* Mutant of SanitizeRaises: the flag is set, and persisted, before the rollback.
FlaggedAndRaises ==
  /\ MustSanitize
  /\ table' = [table EXCEPT ![prevSid][Len(prev)].sanitized = TRUE]
  /\ pc' = "idle"
  /\ UNCHANGED <<lastSid, process, history>>

\* rollback() raises: initialize() fails, and deinitialize() is not called.
SanitizeRaises ==
  /\ MustSanitize
  /\ pc' = "idle"
  /\ UNCHANGED <<file, process, history>>

\* last_context_session() is None: the callback raises an AttributeError.
NoLastContextRaises ==
  /\ pc = "new" /\ prevSid # NoSid /\ prev = <<>>
  /\ pc' = "idle"
  /\ UNCHANGED <<file, process, history>>

\* _open_context_session, up to its _persist
OpenContext ==
  /\ pc = "opening"
  /\ contexts' = Append(contexts, [sanitized |-> FALSE, invoked |-> 0])
  /\ Persist(contexts')
  /\ pc' = "opened"
  /\ UNCHANGED <<lastSid, sid, attempts, prevSid, prev, history>>

\* The write fails; the entry in memory stays.
OpenContextRaises ==
  /\ pc = "opening"
  /\ contexts' = Append(contexts, [sanitized |-> FALSE, invoked |-> 0])
  /\ pc' = "idle"
  /\ UNCHANGED <<file, sid, attempts, prevSid, prev, history>>

\* before_context_session, and whatever else has to be initialized after the manager
ContextStarted ==
  /\ pc = "opened"
  /\ pc' = "running"
  /\ UNCHANGED <<file, process, history>>

\* mark_invoked_step
MarkInvokedStep ==
  /\ pc = "running" /\ Last(contexts).invoked < MaxInvoked
  /\ contexts' = [contexts EXCEPT ![Len(contexts)].invoked = @ + 1]
  /\ Persist(contexts')
  /\ UNCHANGED <<lastSid, pc, sid, attempts, prevSid, prev, history>>

\* deinitialize, with or without an exception; the session is over even if the write fails.
CloseContext ==
  /\ Open
  /\ \E clean \in BOOLEAN :
       contexts' = [contexts EXCEPT ![Len(contexts)].sanitized = clean]
  /\ Persist(contexts') \/ UNCHANGED table
  /\ pc' = "idle"
  /\ UNCHANGED <<lastSid, sid, attempts, prevSid, prev, history>>

Next ==
  \/ StartProcess \/ ExitProcess \/ Kill
  \/ Inject \/ Find \/ SaveLast
  \/ NothingToSanitize \/ Sanitize \/ SanitizeRaises \/ NoLastContextRaises
  \/ OpenContext \/ OpenContextRaises \/ ContextStarted
  \/ MarkInvokedStep \/ CloseContext

Spec == Init /\ [][Next]_vars

-----------------------------------------------------------------------------
(***************************************************************************)
(* Properties                                                              *)
(***************************************************************************)
TypeOK ==
  /\ pc \in Stage
  /\ sid \in Nat /\ attempts \in Nat
  /\ lastSid \in 0..sid /\ prevSid \in 0..sid
  /\ DOMAIN table \subseteq 1..sid
  /\ \A s \in DOMAIN table : table[s] \in Seq(Context)
  /\ contexts \in Seq(Context) /\ prev \in Seq(Context)
  /\ leftover \subseteq (1..sid) \X (Nat \ {0})
  /\ retried \in BOOLEAN
  /\ Open => contexts # <<>>

\* What the next start goes by, should this process be killed now: while a context
\* session is open, LastSession names its process, and the process's entry in the
\* table ends with an unsanitized context session.
OpenIsMarked ==
  Open => /\ lastSid = sid
          /\ Len(table[sid]) = Len(contexts)
          /\ ~Last(table[sid]).sanitized

\* No entry of the table calls a context session sanitized that was killed and whose
\* data is still there.
NoFalseSanitized ==
  \A c \in leftover : ~table[c[1]][c[2]].sanitized

\* So the marks in the file are neither late nor early.
MarksAreTrue == OpenIsMarked /\ NoFalseSanitized

\* A context session runs only after what killed ones left was rolled back
\* (consistency.py:33), as long as no process tries again after a start that failed: it
\* would take itself for the previous session, and no rollback would ever be done.
SanitizedBeforeWork == pc = "running" /\ ~retried => leftover = {}

\* Persisted context sessions are never lost, and their invoked steps are never
\* forgotten, whatever process writes to the table.
HistoryKept ==
  [][\A s \in DOMAIN table :
       /\ s \in DOMAIN table'
       /\ Len(table'[s]) >= Len(table[s])
       /\ \A i \in DOMAIN table[s] : table'[s][i].invoked >= table[s][i].invoked]_vars

=============================================================================
