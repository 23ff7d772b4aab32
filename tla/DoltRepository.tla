---------------------------- MODULE DoltRepository ----------------------------
(***************************************************************************)
(* The repositories through which a program saves, reads and deletes       *)
(* entities (dolt/sqlalchemy/storage.py), on the branches that its STEPs   *)
(* have in VersionedData.  A call that finds no table rolls the session    *)
(* back, creates the tables of all the entity types known by then, commits *)
(* them, and is repeated (create_schema_if_needed) with its own arguments: *)
(* an iterator among them gives the second attempt only what the first has *)
(* not taken.                                                              *)
(*                                                                         *)
(* STEPs may run, fail, and be skipped in any order; the program imports   *)
(* its entity types when it likes.  A branch holds tables and rows.  The   *)
(* program gives save() entities of the repository's type, and keeps no    *)
(* entity from one STEP to another (SQLAlchemy's session would take it for *)
(* saved).                                                                 *)
(***************************************************************************)
EXTENDS FiniteSets

CONSTANTS
  Tables, Ids,   \* entity types, and ids of entities
  Steps,         \* STEPs, each with a branch of its own
  Main           \* the branch of no STEP

ASSUME RepositoryAssumption == Main \notin Steps

VARIABLES
  head, work, branch, access,   \* see VersionedData
  declared,   \* SqlAlchemyEntity.metadata: the entity types that have been imported
  done,       \* the STEPs on record
  step,       \* the STEP that runs, or Main
  \* History of the STEP that runs:
  pending,    \* what it has given to save(), and not deleted since
  gone,       \* what it has deleted, and not saved since
  dropped,    \* what it has given to save(), and the retry has not saved
  lost,       \* whether the creation of a schema has rolled back what it did before
  schema      \* the tables its branch began with, "complete", "none" or "partial" of the
              \* declared types; "partial" also once it has declared a type itself

data == <<head, work, branch, access>>
told == <<pending, gone, dropped, lost>>
rvars == <<data, declared, done, step, told, schema>>

D == INSTANCE VersionedData

Table(t)  == [table |-> t]
Row(t, i) == [table |-> t, id |-> i]
AllRows   == {Row(t, i) : t \in Tables, i \in Ids}
Schema(types) == {Table(t) : t \in types}

RowsOf(t, ids)  == {Row(t, i) : i \in ids}
Rows(items)     == items \intersect AllRows
TablesOf(items) == {t \in Tables : Table(t) \in items}

\* A STEP begins or ends, and has not called a repository.
NothingTold == pending' = {} /\ gone' = {} /\ dropped' = {} /\ lost' = FALSE

-----------------------------------------------------------------------------
RInit ==
  /\ D!Init
  /\ declared = {} /\ done = {} /\ step = Main
  /\ pending = {} /\ gone = {} /\ dropped = {} /\ lost = FALSE
  /\ schema = "complete"

\* The class of an entity is imported, which need not be at the start.
Declare(t) ==
  /\ t \notin declared
  /\ declared' = declared \union {t}
  /\ schema' = IF step = Main THEN schema ELSE "partial"
  /\ UNCHANGED <<data, done, step, told>>

HasTable(t) == Table(t) \in work[branch]

\* Mutant of Created: only the table that is missing is created.
CreatedOne(t) == [head EXCEPT ![branch] = @ \union {Table(t)}]

\* Mutant of Created: the session is not rolled back, so that DOLT_COMMIT takes all.
CreatedWithRows(t) == [head EXCEPT ![branch] = work[branch] \union Schema(declared)]

\* What DOLT_COMMIT with the message "DDL" leaves, after session.rollback() and create_all
Created(t) == [head EXCEPT ![branch] = @ \union Schema(declared)]

\* create_schema_if_needed around a method of the repository of t, which takes some rows
\* away and adds others
Call(t, deleted, saved) ==
  /\ t \in declared
  /\ IF HasTable(t)
     THEN /\ work' = [work EXCEPT ![branch] = (@ \ deleted) \union saved]
          /\ UNCHANGED <<head, lost>>
     ELSE /\ head' = Created(t)
          /\ work' = [head' EXCEPT ![branch] = (@ \ deleted) \union saved]
          /\ lost' = (lost \/ pending \union gone # {})
  /\ UNCHANGED <<branch, access, declared, done, step, schema>>

\* What still stands of what the STEP did before: nothing, if it was rolled back.
Kept(rows, t) == IF HasTable(t) THEN rows ELSE {}

\* collect() over the arguments a second time: an iterator does not give again what it gave
\* the attempt that found no table.
Again(t, ids, once, taken) == IF HasTable(t) THEN ids ELSE ids \ (once \intersect taken)

\* save(*entities), of which an iterator gives those in once; the attempt that finds no
\* table has taken some, up to the one whose merge asks the database, or the flush.
\* require_writing comes first: outside of STEPs there is neither a row nor a schema.
Save(t, ids, once, taken) ==
  LET again == RowsOf(t, Again(t, ids, once, taken)) IN
  /\ access = "RW"
  /\ Call(t, {}, again)
  /\ pending' = Kept(pending, t) \union RowsOf(t, ids)
  /\ gone' = Kept(gone, t) \ RowsOf(t, ids)
  /\ dropped' = (dropped \union RowsOf(t, ids)) \ again

\* find(), count(), exist()
Read(t) ==
  /\ Call(t, {}, {})
  /\ pending' = Kept(pending, t) /\ gone' = Kept(gone, t)
  /\ UNCHANGED dropped

\* delete().by_id, by_ids, where: nothing asks whether writing is allowed, nor whether
\* there is such a row.  All the ids are taken from their iterators before the query.
Delete(t, ids, once) ==
  /\ Call(t, RowsOf(t, Again(t, ids, once, ids)), {})
  /\ pending' = Kept(pending, t) \ RowsOf(t, ids)
  /\ gone' = IF step = Main THEN gone ELSE Kept(gone, t) \union RowsOf(t, ids)
  /\ UNCHANGED dropped

\* delete().all() calls its own object self, and asks that for a query, not the repository:
\* AttributeError, with or without the table, and nothing is deleted or created.
DeleteAll ==
  /\ declared # {}
  /\ UNCHANGED rvars

\* The tables are created, but the commit of them raises, and the program goes on.
SchemaFails(t) ==
  /\ t \in declared /\ ~HasTable(t)
  /\ work' = [head EXCEPT ![branch] = @ \union Schema(declared)]
  /\ lost' = (lost \/ pending \union gone # {})
  /\ pending' = {} /\ gone' = {}
  /\ UNCHANGED <<head, branch, access, declared, done, step, dropped, schema>>

-----------------------------------------------------------------------------
\* ConsistentDataVersioningCallback, see ConsistentExecution.  A STEP that is not on
\* record gets an empty branch; the current one is never deleted (NeverDropsCurrent).
BeginStep(s) ==
  /\ step = Main /\ s \notin done /\ s # branch
  /\ head' = [b \in DOMAIN head \union {s} |-> IF b = s THEN head[branch] ELSE head[b]]
  /\ work' = [b \in DOMAIN head \union {s} |-> IF b = s THEN head[branch] ELSE work[b]]
  /\ branch' = s
  /\ access' = "RW"
  /\ step' = s
  /\ NothingTold
  /\ schema' = IF declared \subseteq TablesOf(head[branch]) THEN "complete"
               ELSE IF TablesOf(head[branch]) = {} THEN "none" ELSE "partial"
  /\ UNCHANGED <<declared, done>>

StepOver == step' = Main /\ NothingTold /\ schema' = "complete"

EndStep ==
  /\ step # Main
  /\ D!CommitAndDisallow
  /\ done' = done \union {step}
  /\ StepOver
  /\ UNCHANGED declared

FailStep ==
  /\ step # Main
  /\ D!RollbackAndDisallow
  /\ StepOver
  /\ UNCHANGED <<declared, done>>

SkipStep(s) ==
  /\ step = Main /\ s \in done
  /\ D!Checkout(s)
  /\ UNCHANGED <<declared, done, step, told, schema>>

\* The session and the engine are closed, a lost connection does not matter; the program
\* starts again, and imports its types again.
Reconnect ==
  /\ D!Disconnect
  /\ declared' = {}
  /\ StepOver
  /\ UNCHANGED done

RNext ==
  \/ \E t \in Tables : Declare(t) \/ Read(t) \/ SchemaFails(t)
  \/ \E t \in Tables, ids \in SUBSET Ids \ {{}} : \E once \in SUBSET ids :
       \/ \E taken \in SUBSET ids \ {{}} : Save(t, ids, once, taken)
       \/ Delete(t, ids, once)
  \/ DeleteAll
  \/ \E s \in Steps : BeginStep(s) \/ SkipStep(s)
  \/ EndStep \/ FailStep \/ Reconnect

RSpec == RInit /\ [][RNext]_rvars

-----------------------------------------------------------------------------
(***************************************************************************)
(* Properties                                                              *)
(***************************************************************************)
Item == AllRows \union Schema(Tables)

RTypeOK ==
  /\ Main \in DOMAIN head /\ DOMAIN head \subseteq Steps \union {Main}
  /\ DOMAIN work = DOMAIN head
  /\ \A b \in DOMAIN head : head[b] \subseteq Item /\ work[b] \subseteq Item
  /\ branch \in DOMAIN head /\ step \in {Main, branch}
  /\ access = IF step = Main THEN "RO" ELSE "RW"
  /\ declared \subseteq Tables /\ done \subseteq DOMAIN head \ {Main}
  /\ pending \subseteq AllRows /\ gone \subseteq AllRows /\ dropped \subseteq AllRows
  /\ lost \in BOOLEAN /\ schema \in {"complete", "none", "partial"}

\* What a call saved is there for the STEP from then on, and what it deleted is not, also
\* if the call was the one that had to create the schema, until one creates a schema
\* again; of what was given to save() only what the retry has dropped is missing.
SavedIsThere ==
  step # Main =>
    /\ pending \ dropped \subseteq work[branch]
    /\ (gone \union dropped) \intersect work[branch] = {}

\* The rows that are committed change only when a STEP begins or ends, and then those of
\* its own branch: creating a schema, which commits all there is, commits no half of a
\* STEP, and what was deleted outside of STEPs comes back.
RowsChangeWithSteps ==
  [][\A b \in DOMAIN head :
       \/ Rows(head'[b]) = Rows(head[b])
       \/ step = b /\ step' = Main
       \/ step = Main /\ step' = b]_rvars

\* A STEP finds what it did undone only if a type came late, that is, some types had
\* tables on its branch and another had none, or it declared one itself.
LostOnlyToLateTables == lost => schema = "partial"

\* save() drops an entity only in a STEP that began without all the tables, or declared a
\* type: where the schema is complete, iterators are as good as lists.
DroppedOnlyByCreation == dropped # {} => schema # "complete"

\* Repositories keep what they are given, but for what a creation of tables undoes or drops.
SavedIsKept == SavedIsThere /\ LostOnlyToLateTables /\ DroppedOnlyByCreation

=============================================================================
