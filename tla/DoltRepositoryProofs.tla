------------------------- MODULE DoltRepositoryProofs -------------------------
(***************************************************************************)
(* Proofs about DoltRepository, for any entity types, ids and STEPs.       *)
(*                                                                         *)
(* That a STEP finds what it saved, and nothing of what it deleted, is not *)
(* inductive.  A call that creates a table rolls back to what is committed,*)
(* which must have no rows of that table (RowsHaveTables, HeadInWork) and  *)
(* none that an earlier call has dropped (DroppedNotCommitted).  That only *)
(* late tables undo anything needs to know that otherwise the branch of    *)
(* the STEP has the tables of all the types or of none (AllOrNone), and    *)
(* that it has some once there is something to undo (DoneHasTable).        *)
(***************************************************************************)
EXTENDS DoltRepository, TLAPS

\* Where there is a row, there is its table.
Sound(items) == \A t \in Tables, i \in Ids : Row(t, i) \in items => Table(t) \in items

RowsHaveTables == \A b \in DOMAIN head : Sound(head[b]) /\ Sound(work[b])

\* A table that is committed is there.
HeadInWork == \A b \in DOMAIN head : TablesOf(head[b]) \subseteq TablesOf(work[b])

\* What a retry has dropped is not committed either.
DroppedNotCommitted == step # Main => dropped \intersect head[branch] = {}

\* Unless a type came late, the tables are those of all the types, or there are none yet.
AllOrNone ==
  step # Main /\ schema # "partial" =>
    \/ declared \subseteq TablesOf(work[branch])
    \/ schema = "none" /\ TablesOf(work[branch]) = {}

\* Nothing is saved or deleted where there is no table.
DoneHasTable == step # Main /\ pending \union gone # {} => TablesOf(work[branch]) # {}

\* Between STEPs there is nothing to lose.
IdleBetweenSteps ==
  step = Main => pending = {} /\ gone = {} /\ dropped = {} /\ ~lost /\ schema = "complete"

RInv ==
  /\ RTypeOK
  /\ IdleBetweenSteps
  /\ RowsHaveTables
  /\ HeadInWork
  /\ DroppedNotCommitted
  /\ SavedIsThere
  /\ AllOrNone
  /\ DoneHasTable
  /\ LostOnlyToLateTables
  /\ DroppedOnlyByCreation

-----------------------------------------------------------------------------
(* Rows and tables. *)

\* A row is no table.
LEMMA RowsAreNoTables == AllRows \intersect Schema(Tables) = {}
<1>1. ASSUME NEW t \in Tables, NEW i \in Ids, NEW u \in Tables, Row(t, i) = Table(u)
      PROVE  FALSE
  <2>1. DOMAIN Row(t, i) = {"table", "id"} /\ DOMAIN Table(u) = {"table"}
    BY DEF Row, Table
  <2> QED
    BY <1>1, <2>1
<1> QED
  BY <1>1 DEF AllRows, Schema

\* Creating tables changes no rows.
LEMMA SchemaHasNoRows ==
  ASSUME NEW items, NEW types, types \subseteq Tables
  PROVE  Rows(items \union Schema(types)) = Rows(items)
<1>1. Schema(types) \subseteq Schema(Tables)
  BY DEF Schema
<1> QED
  BY <1>1, RowsAreNoTables DEF Rows

\* Deleting and saving rows changes no tables.
LEMMA RowsLeaveTables ==
  ASSUME NEW items, NEW deleted \in SUBSET AllRows, NEW saved \in SUBSET AllRows
  PROVE  TablesOf((items \ deleted) \union saved) = TablesOf(items)
<1>1. \A t \in Tables : Table(t) \in Schema(Tables)
  BY DEF Schema
<1>2. \A t \in Tables : Table(t) \notin deleted /\ Table(t) \notin saved
  BY <1>1, RowsAreNoTables
<1> QED
  BY <1>2 DEF TablesOf

\* Creating tables adds them.
LEMMA SchemaAddsTables ==
  ASSUME NEW items, NEW types \in SUBSET Tables
  PROVE  TablesOf(items \union Schema(types)) = TablesOf(items) \union types
<1>1. \A t, u \in Tables : Table(t) = Table(u) => t = u
  BY DEF Table
<1>2. \A t \in Tables : Table(t) \in Schema(types) <=> t \in types
  BY <1>1 DEF Schema
<1> QED
  BY <1>2 DEF TablesOf

\* Where rows have their tables, they still have them when rows of a table that is there
\* come or go, and when tables are created.
LEMMA RowsKeepTables ==
  ASSUME NEW items, Sound(items), NEW t \in Tables,
         NEW deleted \in SUBSET AllRows, NEW saved \in SUBSET RowsOf(t, Ids),
         NEW types \in SUBSET Tables
  PROVE  /\ Table(t) \in items => Sound((items \ deleted) \union saved)
         /\ Sound(items \union Schema(types))
<1>1. \A u \in Tables, i \in Ids : Row(u, i) \in RowsOf(t, Ids) => u = t
  <2>1. \A u \in Tables, i \in Ids, j \in Ids : Row(u, i) = Row(t, j) => u = t
    BY DEF Row
  <2> QED
    BY <2>1 DEF RowsOf
<1>2. \A u \in Tables : Table(u) \in Schema(Tables)
  BY DEF Schema
<1>3. \A u \in Tables : Table(u) \notin deleted
  BY <1>2, RowsAreNoTables
<1>4. Table(t) \in items => Sound((items \ deleted) \union saved)
  BY <1>1, <1>3 DEF Sound
<1>5. \A u \in Tables, i \in Ids : Row(u, i) \notin Schema(types)
  <2>1. \A u \in Tables, i \in Ids : Row(u, i) \in AllRows
    BY DEF AllRows
  <2>2. Schema(types) \subseteq Schema(Tables)
    BY DEF Schema
  <2> QED
    BY <2>1, <2>2, RowsAreNoTables
<1>6. Sound(items \union Schema(types))
  BY <1>5 DEF Sound
<1> QED
  BY <1>4, <1>6

-----------------------------------------------------------------------------
(* A call of a repository. *)

\* What a call does to the branch that is checked out: with the table there, rows come and
\* go; without it, what is not committed goes first, and all tables come.
LEMMA CallEffect ==
  ASSUME RInv, NEW t \in Tables, NEW deleted, NEW saved,
         Call(t, deleted, saved)
  PROVE  /\ t \in declared /\ UNCHANGED <<branch, access, declared, done, step, schema>>
         /\ DOMAIN head' = DOMAIN head /\ DOMAIN work' = DOMAIN head
         /\ \A b \in DOMAIN head : b # branch => head'[b] = head[b] /\ work'[b] \in {head[b], work[b]}
         /\ \/ /\ Table(t) \in work[branch] /\ head' = head /\ lost' = lost
               /\ work'[branch] = (work[branch] \ deleted) \union saved
            \/ /\ Table(t) \notin work[branch] /\ lost' = (lost \/ pending \union gone # {})
               /\ head'[branch] = head[branch] \union Schema(declared)
               /\ work'[branch] = ((head[branch] \union Schema(declared)) \ deleted) \union saved
<1>1. branch \in DOMAIN head /\ DOMAIN work = DOMAIN head
  BY DEF RInv, RTypeOK
<1>2. t \in declared /\ UNCHANGED <<branch, access, declared, done, step, schema>>
  BY DEF Call
<1>3. CASE Table(t) \in work[branch]
  <2>1. /\ work' = [work EXCEPT ![branch] = (@ \ deleted) \union saved]
        /\ head' = head /\ lost' = lost
    BY <1>3 DEF Call, HasTable
  <2> QED
    BY <1>1, <1>2, <1>3, <2>1
<1>4. CASE Table(t) \notin work[branch]
  <2>1. /\ head' = [head EXCEPT ![branch] = @ \union Schema(declared)]
        /\ work' = [head' EXCEPT ![branch] = (@ \ deleted) \union saved]
        /\ lost' = (lost \/ pending \union gone # {})
    BY <1>4 DEF Call, Created, HasTable
  <2>2. /\ DOMAIN head' = DOMAIN head /\ head'[branch] = head[branch] \union Schema(declared)
        /\ \A b \in DOMAIN head : b # branch => head'[b] = head[b]
    BY <1>1, <2>1
  <2>3. /\ DOMAIN work' = DOMAIN head' /\ work'[branch] = (head'[branch] \ deleted) \union saved
        /\ \A b \in DOMAIN head' : b # branch => work'[b] = head'[b]
    BY <1>1, <2>1, <2>2
  <2>4. \A b \in DOMAIN head : b # branch => head'[b] = head[b] /\ work'[b] = head[b]
    BY <2>2, <2>3
  <2> QED
    BY <1>2, <1>4, <2>1, <2>2, <2>3, <2>4
<1> QED
  BY <1>3, <1>4

\* A method of the repository of t: it asks for the rows in minus to be deleted and for
\* those in plus to be saved, and does so with deleted and saved of them, which are all,
\* if the table is there.
Method(t, minus, deleted, plus, saved) ==
  /\ Call(t, deleted, saved)
  /\ minus \subseteq RowsOf(t, Ids) /\ deleted \subseteq minus
  /\ plus \subseteq RowsOf(t, Ids) /\ saved \subseteq plus
  /\ HasTable(t) => deleted = minus /\ saved = plus
  /\ minus = {} \/ plus = {}
  /\ plus = {} \/ access = "RW"
  /\ pending' = (Kept(pending, t) \ minus) \union plus
  /\ gone' = IF step = Main THEN {} ELSE (Kept(gone, t) \ plus) \union minus
  /\ dropped' = (dropped \union plus) \ saved

\* What such a call does, case by case.
LEMMA MethodEffect ==
  ASSUME RInv, NEW t \in Tables, NEW minus, NEW deleted, NEW plus, NEW saved,
         Method(t, minus, deleted, plus, saved)
  PROVE  /\ t \in declared /\ UNCHANGED <<branch, access, declared, done, step, schema>>
         /\ DOMAIN head' = DOMAIN head /\ DOMAIN work' = DOMAIN head
         /\ \A b \in DOMAIN head : b # branch => head'[b] = head[b] /\ work'[b] \in {head[b], work[b]}
         /\ \/ /\ Table(t) \in work[branch] /\ head' = head /\ lost' = lost
               /\ work'[branch] = (work[branch] \ minus) \union plus
               /\ pending' = (pending \ minus) \union plus
               /\ gone' = IF step = Main THEN {} ELSE (gone \ plus) \union minus
               /\ dropped' = dropped \ plus
            \/ /\ Table(t) \notin work[branch] /\ lost' = (lost \/ pending \union gone # {})
               /\ head'[branch] = head[branch] \union Schema(declared)
               /\ work'[branch] = ((head[branch] \union Schema(declared)) \ deleted) \union saved
               /\ pending' = plus
               /\ gone' = IF step = Main THEN {} ELSE minus
               /\ dropped' = (dropped \union plus) \ saved
<1>1. Call(t, deleted, saved)
  BY DEF Method
<1>2. /\ t \in declared /\ UNCHANGED <<branch, access, declared, done, step, schema>>
      /\ DOMAIN head' = DOMAIN head /\ DOMAIN work' = DOMAIN head
      /\ \A b \in DOMAIN head : b # branch => head'[b] = head[b] /\ work'[b] \in {head[b], work[b]}
      /\ \/ /\ Table(t) \in work[branch] /\ head' = head /\ lost' = lost
            /\ work'[branch] = (work[branch] \ deleted) \union saved
         \/ /\ Table(t) \notin work[branch] /\ lost' = (lost \/ pending \union gone # {})
            /\ head'[branch] = head[branch] \union Schema(declared)
            /\ work'[branch] = ((head[branch] \union Schema(declared)) \ deleted) \union saved
  BY <1>1, CallEffect
<1>3. CASE HasTable(t)
  <2>1. /\ deleted = minus /\ saved = plus
        /\ pending' = (pending \ minus) \union plus
        /\ gone' = IF step = Main THEN {} ELSE (gone \ plus) \union minus
        /\ dropped' = (dropped \union plus) \ plus
    BY <1>3 DEF Method, Kept
  <2>2. (dropped \union plus) \ plus = dropped \ plus
    OBVIOUS
  <2> QED
    BY <1>2, <1>3, <2>1, <2>2 DEF HasTable
<1>4. CASE ~HasTable(t)
  <2>1. /\ pending' = ({} \ minus) \union plus
        /\ gone' = IF step = Main THEN {} ELSE ({} \ plus) \union minus
        /\ dropped' = (dropped \union plus) \ saved
    BY <1>4 DEF Method, Kept
  <2> QED
    BY <1>2, <1>4, <2>1 DEF HasTable
<1> QED
  BY <1>3, <1>4

\* ... and the invariant stands.  Where the table is not there, neither are its rows, not
\* even in what is committed, so that nothing is seen of the rows that were deleted, or of
\* those that the retry dropped.
LEMMA MethodKeeps ==
  ASSUME RInv, NEW t \in Tables, NEW minus, NEW deleted, NEW plus, NEW saved,
         Method(t, minus, deleted, plus, saved)
  PROVE  RInv'
<1> DEFINE created == head[branch] \union Schema(declared)
<1>1. /\ t \in declared /\ UNCHANGED <<branch, access, declared, done, step, schema>>
      /\ DOMAIN head' = DOMAIN head /\ DOMAIN work' = DOMAIN head
      /\ \A b \in DOMAIN head : b # branch => head'[b] = head[b] /\ work'[b] \in {head[b], work[b]}
  BY MethodEffect
<1>2. \/ /\ Table(t) \in work[branch] /\ head' = head /\ lost' = lost
         /\ work'[branch] = (work[branch] \ minus) \union plus
         /\ pending' = (pending \ minus) \union plus
         /\ gone' = IF step = Main THEN {} ELSE (gone \ plus) \union minus
         /\ dropped' = dropped \ plus
      \/ /\ Table(t) \notin work[branch] /\ lost' = (lost \/ pending \union gone # {})
         /\ head'[branch] = created
         /\ work'[branch] = (created \ deleted) \union saved
         /\ pending' = plus
         /\ gone' = IF step = Main THEN {} ELSE minus
         /\ dropped' = (dropped \union plus) \ saved
  BY MethodEffect
<1>3. /\ minus \subseteq RowsOf(t, Ids) /\ deleted \subseteq minus
      /\ plus \subseteq RowsOf(t, Ids) /\ saved \subseteq plus
      /\ minus = {} \/ plus = {}
      /\ plus = {} \/ access = "RW"
  BY DEF Method
<1>4. RowsOf(t, Ids) \subseteq AllRows
  BY DEF RowsOf, AllRows
<1>5. /\ minus \in SUBSET AllRows /\ deleted \in SUBSET AllRows
      /\ plus \in SUBSET AllRows /\ saved \in SUBSET AllRows
      /\ plus \in SUBSET RowsOf(t, Ids) /\ saved \in SUBSET RowsOf(t, Ids)
  BY <1>3, <1>4
<1>6. /\ branch \in DOMAIN head /\ declared \in SUBSET Tables
      /\ head[branch] \subseteq Item /\ work[branch] \subseteq Item
      /\ access = (IF step = Main THEN "RO" ELSE "RW") /\ step \in {Main, branch}
  BY DEF RInv, RTypeOK
<1>7. /\ Schema(declared) \subseteq Item /\ AllRows \subseteq Item
      /\ Table(t) \in Schema(declared) /\ created \subseteq Item /\ Table(t) \in created
  BY <1>1, <1>6 DEF Schema, Item
<1>8. Sound(created) /\ TablesOf(created) = TablesOf(head[branch]) \union declared
  <2>1. Sound(head[branch])
    BY <1>6 DEF RInv, RowsHaveTables
  <2> QED
    BY <1>5, <1>6, <2>1, SchemaAddsTables, RowsKeepTables
<1> HIDE DEF created
<1> DEFINE before == work[branch]
           after == (before \ minus) \union plus
           redone == (created \ deleted) \union saved
<1> HIDE DEF before
\* The rows that come and go
<1>a. /\ TablesOf(after) = TablesOf(before) /\ TablesOf(redone) = TablesOf(created)
      /\ Sound(before) /\ Table(t) \in before => Sound(after)
      /\ Sound(redone)
  <2>1. TablesOf(after) = TablesOf(before)
    BY <1>5, <1>6, RowsLeaveTables
  <2>2. TablesOf(redone) = TablesOf(created)
    BY <1>5, <1>6, RowsLeaveTables
  <2>3. ASSUME Sound(before), Table(t) \in before PROVE Sound(after)
    BY <1>5, <1>6, <2>3, RowsKeepTables
  <2>4. Sound(redone)
    BY <1>5, <1>6, <1>7, <1>8, RowsKeepTables
  <2> HIDE DEF after, redone
  <2> QED
    BY <2>1, <2>2, <2>3, <2>4
<1>b. IF Table(t) \in work[branch] THEN work'[branch] = after ELSE work'[branch] = redone
  BY <1>2 DEF before
<1> HIDE DEF after, redone
\* No row of a table that is about to be created is committed.
<1>9. ASSUME Table(t) \notin work[branch] PROVE RowsOf(t, Ids) \intersect created = {}
  <2>1. Table(t) \notin head[branch]
    BY <1>6, <1>9 DEF RInv, HeadInWork, TablesOf
  <2>2. RowsOf(t, Ids) \intersect head[branch] = {}
    BY <1>6, <2>1 DEF RInv, RowsHaveTables, Sound, RowsOf
  <2>3. RowsOf(t, Ids) \intersect Schema(declared) = {}
    BY <1>4, <1>6, RowsAreNoTables DEF Schema
  <2> QED
    BY <2>2, <2>3 DEF created
\* The tables of the branch after the call
<1>10. TablesOf(work'[branch]) = IF Table(t) \in work[branch] THEN TablesOf(work[branch])
                                 ELSE TablesOf(head[branch]) \union declared
  BY <1>8, <1>a, <1>b DEF before
<1>11. RTypeOK'
  <2>1. ASSUME NEW b \in DOMAIN head
        PROVE  head'[b] \subseteq Item /\ work'[b] \subseteq Item
    <3>1. head[b] \subseteq Item /\ work[b] \subseteq Item
      BY DEF RInv, RTypeOK
    <3> QED
      BY <1>1, <1>2, <1>5, <1>6, <1>7, <3>1
  <2>2. pending' \subseteq AllRows /\ gone' \subseteq AllRows /\ dropped' \subseteq AllRows
    <3>1. pending \subseteq AllRows /\ gone \subseteq AllRows /\ dropped \subseteq AllRows
      BY DEF RInv, RTypeOK
    <3> QED
      BY <1>2, <1>5, <3>1
  <2>3. lost' \in BOOLEAN
    BY <1>2 DEF RInv, RTypeOK
  <2> QED
    BY <1>1, <2>1, <2>2, <2>3 DEF RInv, RTypeOK
<1>12. IdleBetweenSteps'
  <2>1. CASE step = Main
    <3>1. plus = {} /\ pending = {} /\ gone = {} /\ dropped = {} /\ ~lost /\ schema = "complete"
      BY <1>3, <1>6, <2>1 DEF RInv, IdleBetweenSteps
    <3>2. pending' = {} /\ gone' = {} /\ dropped' = {}
      BY <1>2, <2>1, <3>1
    <3>3. ~lost'
      BY <1>2, <3>1
    <3> QED
      BY <1>1, <3>1, <3>2, <3>3 DEF IdleBetweenSteps
  <2>2. CASE step # Main
    BY <1>1, <2>2 DEF IdleBetweenSteps
  <2> QED
    BY <2>1, <2>2
<1>13. RowsHaveTables'
  <2>1. ASSUME NEW b \in DOMAIN head PROVE Sound(head'[b]) /\ Sound(work'[b])
    <3>1. Sound(head[b]) /\ Sound(work[b]) /\ Sound(work[branch])
      BY <1>6 DEF RInv, RowsHaveTables
    <3>2. Sound(head'[b])
      BY <1>1, <1>2, <1>8, <3>1
    <3>3. CASE b # branch
      BY <1>1, <3>1, <3>3
    <3>4. Sound(work'[branch])
      <4>1. CASE Table(t) \in work[branch]
        BY <1>a, <1>b, <3>1, <4>1 DEF before
      <4>2. CASE Table(t) \notin work[branch]
        BY <1>a, <1>b, <4>2
      <4> QED
        BY <4>1, <4>2
    <3> QED
      BY <3>2, <3>3, <3>4
  <2> QED
    BY <1>1, <2>1 DEF RowsHaveTables, Sound
<1>14. HeadInWork'
  <2>1. ASSUME NEW b \in DOMAIN head PROVE TablesOf(head'[b]) \subseteq TablesOf(work'[b])
    <3>1. TablesOf(head[b]) \subseteq TablesOf(work[b])
      BY DEF RInv, HeadInWork
    <3> QED
      BY <1>1, <1>2, <1>8, <1>10, <3>1
  <2> QED
    BY <1>1, <2>1 DEF HeadInWork, TablesOf
<1>15. DroppedNotCommitted'
  <2>1. CASE Table(t) \in work[branch]
    BY <1>1, <1>2, <2>1 DEF RInv, DroppedNotCommitted
  <2>2. CASE Table(t) \notin work[branch]
    <3>1. dropped \intersect Schema(declared) = {}
      BY <1>6, RowsAreNoTables DEF RInv, RTypeOK, Schema
    <3>2. step # Main => dropped \intersect created = {}
      BY <3>1 DEF RInv, DroppedNotCommitted, created
    <3>3. (dropped \union plus) \intersect created = {} \/ step = Main
      BY <1>3, <1>9, <2>2, <3>2
    <3> QED
      BY <1>1, <1>2, <2>2, <3>3 DEF DroppedNotCommitted
  <2> QED
    BY <2>1, <2>2
<1>16. SavedIsThere'
  <2> SUFFICES ASSUME step # Main
               PROVE  /\ pending' \ dropped' \subseteq work'[branch]
                      /\ (gone' \union dropped') \intersect work'[branch] = {}
    BY <1>1 DEF SavedIsThere
  <2>1. CASE Table(t) \in work[branch]
    <3>1. /\ pending \ dropped \subseteq work[branch]
          /\ (gone \union dropped) \intersect work[branch] = {}
      BY DEF RInv, SavedIsThere
    <3>2. /\ work'[branch] = (work[branch] \ minus) \union plus
          /\ pending' = (pending \ minus) \union plus
          /\ gone' = (gone \ plus) \union minus
          /\ dropped' = dropped \ plus
      BY <1>2, <2>1
    <3> QED
      BY <1>3, <3>1, <3>2
  <2>2. CASE Table(t) \notin work[branch]
    <3>1. /\ work'[branch] = (created \ deleted) \union saved
          /\ pending' = plus /\ gone' = minus /\ dropped' = (dropped \union plus) \ saved
      BY <1>2, <2>2
    <3>2. dropped \intersect Schema(declared) = {}
      BY <1>6, RowsAreNoTables DEF RInv, RTypeOK, Schema
    <3>3. dropped \intersect created = {}
      BY <3>2 DEF RInv, DroppedNotCommitted, created
    <3>4. minus \intersect created = {} /\ plus \intersect created = {}
      BY <1>3, <1>9, <2>2
    <3>5. minus \intersect saved = {}
      BY <1>3
    <3> QED
      BY <3>1, <3>3, <3>4, <3>5
  <2> QED
    BY <2>1, <2>2
<1>17. AllOrNone'
  BY <1>1, <1>10, <1>6 DEF RInv, AllOrNone
<1>18. t \in TablesOf(work'[branch])
  BY <1>1, <1>10 DEF TablesOf
<1>19. DoneHasTable'
  BY <1>1, <1>18 DEF DoneHasTable
\* Where the table is missing, something is undone only if a type came late.
<1>20. ASSUME Table(t) \notin work[branch], step # Main
       PROVE  schema # "complete" /\ (pending \union gone # {} => schema = "partial")
  <2>1. ~(declared \subseteq TablesOf(work[branch]))
    BY <1>1, <1>20 DEF TablesOf
  <2>2. schema \in {"complete", "none", "partial"}
    BY DEF RInv, RTypeOK
  <2> QED
    BY <1>20, <2>1, <2>2 DEF RInv, AllOrNone, DoneHasTable
<1>21. step = Main => ~lost' /\ dropped' = {}
  BY <1>1, <1>12 DEF IdleBetweenSteps
<1>22. LostOnlyToLateTables'
  BY <1>1, <1>2, <1>20, <1>21 DEF RInv, LostOnlyToLateTables
<1>23. DroppedOnlyByCreation'
  <2>1. CASE Table(t) \in work[branch]
    BY <1>1, <1>2, <2>1 DEF RInv, DroppedOnlyByCreation
  <2>2. CASE Table(t) \notin work[branch]
    BY <1>1, <1>20, <1>21, <2>2 DEF DroppedOnlyByCreation
  <2> QED
    BY <2>1, <2>2
<1> QED
  BY <1>11, <1>12, <1>13, <1>14, <1>15, <1>16, <1>17, <1>19, <1>22, <1>23 DEF RInv

\* The methods of a repository are of this kind.
LEMMA MethodsCall ==
  ASSUME RInv, NEW t \in Tables,
         \/ Read(t)
         \/ \E ids \in SUBSET Ids : \E once \in SUBSET ids, taken \in SUBSET ids :
              \/ Save(t, ids, once, taken)
              \/ Delete(t, ids, once)
  PROVE  \E minus, deleted, plus, saved : Method(t, minus, deleted, plus, saved)
<1>1. step = Main => pending = {} /\ gone = {} /\ access = "RO"
  BY DEF RInv, RTypeOK, IdleBetweenSteps
<1>2. \A ids \in SUBSET Ids : RowsOf(t, ids) \subseteq RowsOf(t, Ids)
  BY DEF RowsOf
<1>3. \A ids \in SUBSET Ids : \A once, taken :
        /\ RowsOf(t, Again(t, ids, once, taken)) \subseteq RowsOf(t, ids)
        /\ HasTable(t) => Again(t, ids, once, taken) = ids
  BY DEF Again, RowsOf
<1>4. CASE Read(t)
  <2>1. /\ Call(t, {}, {})
        /\ pending' = Kept(pending, t) /\ gone' = Kept(gone, t) /\ dropped' = dropped
    BY <1>4 DEF Read
  <2>2. Method(t, {}, {}, {}, {})
    BY <1>1, <2>1 DEF Method, Kept
  <2> QED
    BY <2>2
<1>5. ASSUME NEW ids \in SUBSET Ids, NEW once \in SUBSET ids, NEW taken \in SUBSET ids,
             Save(t, ids, once, taken)
      PROVE  \E minus, deleted, plus, saved : Method(t, minus, deleted, plus, saved)
  <2> DEFINE plus == RowsOf(t, ids)
             saved == RowsOf(t, Again(t, ids, once, taken))
  <2>1. /\ access = "RW" /\ Call(t, {}, saved)
        /\ pending' = Kept(pending, t) \union plus /\ gone' = Kept(gone, t) \ plus
        /\ dropped' = (dropped \union plus) \ saved
    BY <1>5 DEF Save
  <2>2. plus \subseteq RowsOf(t, Ids) /\ saved \subseteq plus /\ (HasTable(t) => saved = plus)
    BY <1>2, <1>3
  <2>3. step # Main
    BY <1>1, <2>1
  <2> HIDE DEF plus, saved
  <2>4. Method(t, {}, {}, plus, saved)
    BY <2>1, <2>2, <2>3 DEF Method
  <2> QED
    BY <2>4
<1>6. ASSUME NEW ids \in SUBSET Ids, NEW once \in SUBSET ids, Delete(t, ids, once)
      PROVE  \E minus, deleted, plus, saved : Method(t, minus, deleted, plus, saved)
  <2> DEFINE minus == RowsOf(t, ids)
             deleted == RowsOf(t, Again(t, ids, once, ids))
  <2>1. /\ Call(t, deleted, {})
        /\ pending' = Kept(pending, t) \ minus
        /\ gone' = IF step = Main THEN gone ELSE Kept(gone, t) \union minus
        /\ dropped' = dropped
    BY <1>6 DEF Delete
  <2>2. minus \subseteq RowsOf(t, Ids) /\ deleted \subseteq minus /\ (HasTable(t) => deleted = minus)
    BY <1>2, <1>3
  <2> HIDE DEF minus, deleted
  <2>3. Method(t, minus, deleted, {}, {})
    BY <1>1, <2>1, <2>2 DEF Method
  <2> QED
    BY <2>3
<1> QED
  BY <1>4, <1>5, <1>6

-----------------------------------------------------------------------------
(* The other steps. *)

\* A STEP that begins finds what its predecessor has committed, and schema says which
\* tables those are.
LEMMA BeginKeeps ==
  ASSUME RInv, NEW s \in Steps, BeginStep(s)
  PROVE  RInv'
<1> DEFINE old == head[branch]
<1>1. /\ step = Main /\ s # branch /\ branch' = s /\ step' = s /\ access' = "RW"
      /\ pending' = {} /\ gone' = {} /\ dropped' = {} /\ lost' = FALSE
      /\ UNCHANGED <<declared, done>>
      /\ schema' = IF declared \subseteq TablesOf(old) THEN "complete"
                   ELSE IF TablesOf(old) = {} THEN "none" ELSE "partial"
  BY DEF BeginStep, NothingTold
<1>2. /\ DOMAIN head' = DOMAIN head \union {s} /\ DOMAIN work' = DOMAIN head \union {s}
      /\ \A b \in DOMAIN head' : /\ head'[b] = IF b = s THEN old ELSE head[b]
                                 /\ work'[b] = IF b = s THEN old ELSE work[b]
  BY DEF BeginStep
<1>3. /\ Main \in DOMAIN head /\ DOMAIN head \subseteq Steps \union {Main} /\ s # Main
      /\ branch \in DOMAIN head
      /\ \A b \in DOMAIN head : head[b] \subseteq Item /\ work[b] \subseteq Item
      /\ declared \subseteq Tables /\ done \subseteq DOMAIN head \ {Main}
  BY RepositoryAssumption DEF RInv, RTypeOK
<1>4. /\ \A b \in DOMAIN head : /\ Sound(head[b]) /\ Sound(work[b])
                                /\ TablesOf(head[b]) \subseteq TablesOf(work[b])
      /\ Sound(old) /\ old \subseteq Item
  BY <1>3 DEF RInv, RowsHaveTables, HeadInWork
<1>5. work'[s] = old
  BY <1>2
<1> HIDE DEF old
<1>6. RTypeOK'
  BY <1>1, <1>2, <1>3, <1>4 DEF RTypeOK
<1>7. RowsHaveTables'
  <2>1. \A b \in DOMAIN head' : Sound(head'[b]) /\ Sound(work'[b])
    BY <1>2, <1>4
  <2> QED
    BY <2>1 DEF RowsHaveTables, Sound
<1>8. HeadInWork'
  <2>1. \A b \in DOMAIN head' : TablesOf(head'[b]) \subseteq TablesOf(work'[b])
    BY <1>2, <1>4
  <2> QED
    BY <2>1 DEF HeadInWork, TablesOf
<1>9. IdleBetweenSteps' /\ SavedIsThere' /\ DroppedNotCommitted' /\ DoneHasTable'
  BY <1>1, <1>3 DEF IdleBetweenSteps, SavedIsThere, DroppedNotCommitted, DoneHasTable
<1>10. LostOnlyToLateTables' /\ DroppedOnlyByCreation'
  BY <1>1 DEF LostOnlyToLateTables, DroppedOnlyByCreation
<1>11. AllOrNone'
  <2>1. TablesOf(work'[branch']) = TablesOf(old)
    BY <1>1, <1>5
  <2>2. \/ declared' \subseteq TablesOf(work'[branch'])
        \/ schema' = "none" /\ TablesOf(work'[branch']) = {}
        \/ schema' = "partial"
    BY <1>1, <2>1
  <2> QED
    BY <2>2 DEF AllOrNone, TablesOf
<1> QED
  BY <1>6, <1>7, <1>8, <1>9, <1>10, <1>11 DEF RInv

\* A STEP that is over leaves nothing to lose.
LEMMA OverKeeps ==
  ASSUME RInv, EndStep \/ FailStep \/ Reconnect
  PROVE  RInv'
<1>1. /\ step' = Main /\ schema' = "complete" /\ access' = "RO"
      /\ pending' = {} /\ gone' = {} /\ dropped' = {} /\ lost' = FALSE
      /\ declared' \subseteq declared
  BY DEF EndStep, FailStep, Reconnect, StepOver, NothingTold,
         D!CommitAndDisallow, D!RollbackAndDisallow, D!Disconnect
<1>2. /\ IdleBetweenSteps' /\ SavedIsThere' /\ AllOrNone' /\ DoneHasTable'
      /\ DroppedNotCommitted' /\ LostOnlyToLateTables' /\ DroppedOnlyByCreation'
  BY <1>1 DEF IdleBetweenSteps, SavedIsThere, AllOrNone, DoneHasTable, DroppedNotCommitted,
              LostOnlyToLateTables, DroppedOnlyByCreation
\* What is committed and what is there on a branch afterwards was one or the other before.
<1>3. /\ DOMAIN head' = DOMAIN head /\ DOMAIN work' = DOMAIN head
      /\ \A b \in DOMAIN head : \/ head'[b] = head[b] /\ work'[b] = work[b]
                                \/ head'[b] = work[b] /\ work'[b] = work[b]
                                \/ head'[b] = head[b] /\ work'[b] = head[b]
  <2> USE DEF RInv, RTypeOK
  <2>1. CASE EndStep
    BY <2>1 DEF EndStep, D!CommitAndDisallow
  <2>2. CASE FailStep
    BY <2>2 DEF FailStep, D!RollbackAndDisallow
  <2>3. CASE Reconnect
    BY <2>3 DEF Reconnect, D!Disconnect
  <2> QED
    BY <2>1, <2>2, <2>3
<1>4. RTypeOK'
  <2> USE DEF RInv, RTypeOK, StepOver
  <2>1. CASE EndStep
    BY <1>1, <2>1 DEF EndStep, D!CommitAndDisallow
  <2>2. CASE FailStep
    BY <1>1, <2>2 DEF FailStep, D!RollbackAndDisallow
  <2>3. CASE Reconnect
    BY <1>1, <2>3 DEF Reconnect, D!Disconnect
  <2> QED
    BY <2>1, <2>2, <2>3
<1>5. RowsHaveTables'
  <2>1. \A b \in DOMAIN head' : Sound(head'[b]) /\ Sound(work'[b])
    BY <1>3 DEF RInv, RowsHaveTables
  <2> QED
    BY <2>1 DEF RowsHaveTables, Sound
<1>6. HeadInWork'
  <2>1. \A b \in DOMAIN head' : TablesOf(head'[b]) \subseteq TablesOf(work'[b])
    BY <1>3 DEF RInv, HeadInWork
  <2> QED
    BY <2>1 DEF HeadInWork, TablesOf
<1> QED
  BY <1>2, <1>4, <1>5, <1>6 DEF RInv

\* The commit of a schema fails: what the STEP had done is undone, all the tables are there.
LEMMA SchemaFailsKeeps ==
  ASSUME RInv, NEW t \in Tables, SchemaFails(t)
  PROVE  RInv'
<1> DEFINE new == head[branch] \union Schema(declared)
<1>1. /\ t \in declared /\ Table(t) \notin work[branch]
      /\ UNCHANGED <<head, branch, access, declared, done, step, dropped, schema>>
      /\ pending' = {} /\ gone' = {} /\ lost' = (lost \/ pending \union gone # {})
      /\ work' = [head EXCEPT ![branch] = new]
  BY DEF SchemaFails, HasTable
<1>2. /\ branch \in DOMAIN head /\ DOMAIN work' = DOMAIN head /\ work'[branch] = new
      /\ \A b \in DOMAIN head : b # branch => work'[b] = head[b]
  BY <1>1 DEF RInv, RTypeOK
<1>3. new \subseteq Item /\ declared \in SUBSET Tables
  BY <1>1, <1>2 DEF RInv, RTypeOK, Schema, Item
<1>4. Sound(new) /\ TablesOf(new) = TablesOf(head[branch]) \union declared
  <2>1. Sound(head[branch])
    BY <1>2 DEF RInv, RowsHaveTables
  <2>2. {} \in SUBSET AllRows /\ {} \in SUBSET RowsOf(t, Ids)
    OBVIOUS
  <2> QED
    BY <1>3, <2>1, <2>2, SchemaAddsTables, RowsKeepTables
<1>5. step # Main => dropped \intersect new = {}
  <2>1. dropped \intersect Schema(declared) = {}
    BY <1>3, RowsAreNoTables DEF RInv, RTypeOK, Schema
  <2> QED
    BY <2>1 DEF RInv, DroppedNotCommitted
<1> HIDE DEF new
<1>6. RTypeOK'
  BY <1>1, <1>2, <1>3 DEF RInv, RTypeOK
<1>7. IdleBetweenSteps' /\ DroppedNotCommitted' /\ DoneHasTable'
  BY <1>1 DEF RInv, IdleBetweenSteps, DroppedNotCommitted, DoneHasTable
<1>8. SavedIsThere'
  BY <1>1, <1>2, <1>5 DEF SavedIsThere
<1>9. RowsHaveTables'
  <2>1. \A b \in DOMAIN head' : Sound(head'[b]) /\ Sound(work'[b])
    BY <1>1, <1>2, <1>4 DEF RInv, RowsHaveTables
  <2> QED
    BY <2>1 DEF RowsHaveTables, Sound
<1>10. HeadInWork'
  <2>1. \A b \in DOMAIN head' : TablesOf(head'[b]) \subseteq TablesOf(work'[b])
    BY <1>1, <1>2, <1>4
  <2> QED
    BY <2>1 DEF HeadInWork, TablesOf
<1>11. AllOrNone'
  <2>1. declared' \subseteq TablesOf(work'[branch'])
    BY <1>1, <1>2, <1>4
  <2> QED
    BY <2>1 DEF AllOrNone, TablesOf
<1>12. LostOnlyToLateTables' /\ DroppedOnlyByCreation'
  <2>1. ASSUME step # Main, pending \union gone # {} PROVE schema = "partial"
    <3>1. ~(declared \subseteq TablesOf(work[branch]))
      BY <1>1 DEF TablesOf
    <3> QED
      BY <2>1, <3>1 DEF RInv, AllOrNone, DoneHasTable
  <2>2. step = Main => pending \union gone = {}
    BY DEF RInv, IdleBetweenSteps
  <2> QED
    BY <1>1, <2>1, <2>2 DEF RInv, LostOnlyToLateTables, DroppedOnlyByCreation
<1> QED
  BY <1>6, <1>7, <1>8, <1>9, <1>10, <1>11, <1>12 DEF RInv

\* A type that is declared in a STEP is late; one that is declared between STEPs is not.
LEMMA DeclareKeeps ==
  ASSUME RInv, NEW t \in Tables, Declare(t)
  PROVE  RInv'
<1> USE DEF Declare, data, told, RInv
<1>1. RTypeOK'
  BY DEF RTypeOK
<1>2. IdleBetweenSteps' /\ SavedIsThere' /\ LostOnlyToLateTables' /\ DroppedOnlyByCreation'
  BY DEF IdleBetweenSteps, SavedIsThere, LostOnlyToLateTables, DroppedOnlyByCreation
<1>3. AllOrNone' /\ DoneHasTable' /\ DroppedNotCommitted'
  BY DEF AllOrNone, DoneHasTable, DroppedNotCommitted, TablesOf
<1>4. RowsHaveTables' /\ HeadInWork'
  BY DEF RowsHaveTables, HeadInWork, Sound, TablesOf
<1> QED
  BY <1>1, <1>2, <1>3, <1>4

LEMMA SkipKeeps ==
  ASSUME RInv, NEW s \in Steps, SkipStep(s)
  PROVE  RInv'
<1> USE DEF SkipStep, told, D!Checkout, D!HasBranch, RInv
<1>1. RTypeOK'
  BY DEF RTypeOK
<1>2. IdleBetweenSteps' /\ SavedIsThere' /\ LostOnlyToLateTables' /\ DroppedOnlyByCreation'
  BY DEF IdleBetweenSteps, SavedIsThere, LostOnlyToLateTables, DroppedOnlyByCreation
<1>3. AllOrNone' /\ DoneHasTable' /\ DroppedNotCommitted'
  BY DEF AllOrNone, DoneHasTable, DroppedNotCommitted
<1>4. RowsHaveTables' /\ HeadInWork'
  BY DEF RowsHaveTables, HeadInWork, Sound, TablesOf
<1> QED
  BY <1>1, <1>2, <1>3, <1>4

\* delete().all() changes nothing, as a stuttering step.
LEMMA StutterKeeps ==
  ASSUME RInv, UNCHANGED rvars
  PROVE  RInv'
<1> USE DEF rvars, data, told, RInv
<1>1. RTypeOK'
  BY DEF RTypeOK
<1>2. IdleBetweenSteps' /\ SavedIsThere' /\ LostOnlyToLateTables' /\ DroppedOnlyByCreation'
  BY DEF IdleBetweenSteps, SavedIsThere, LostOnlyToLateTables, DroppedOnlyByCreation
<1>3. AllOrNone' /\ DoneHasTable' /\ DroppedNotCommitted'
  BY DEF AllOrNone, DoneHasTable, DroppedNotCommitted, TablesOf
<1>4. RowsHaveTables' /\ HeadInWork'
  BY DEF RowsHaveTables, HeadInWork, Sound, TablesOf
<1> QED
  BY <1>1, <1>2, <1>3, <1>4

-----------------------------------------------------------------------------
(* The theorems. *)

\* What the repositories rely on holds in every state.
THEOREM RepositoryInvariant == RSpec => []RInv
<1>1. RInit => RInv
  <2> SUFFICES ASSUME RInit PROVE RInv
    OBVIOUS
  <2>1. /\ head = [b \in {Main} |-> {}] /\ work = head /\ branch = Main /\ access = "RO"
        /\ declared = {} /\ done = {} /\ step = Main /\ pending = {} /\ gone = {}
        /\ dropped = {} /\ lost = FALSE /\ schema = "complete"
    BY DEF RInit, D!Init
  <2>2. RTypeOK
    BY <2>1 DEF RTypeOK
  <2>3. IdleBetweenSteps /\ SavedIsThere /\ AllOrNone /\ DoneHasTable
    BY <2>1 DEF IdleBetweenSteps, SavedIsThere, AllOrNone, DoneHasTable
  <2>4. DroppedNotCommitted /\ LostOnlyToLateTables /\ DroppedOnlyByCreation
    BY <2>1 DEF DroppedNotCommitted, LostOnlyToLateTables, DroppedOnlyByCreation
  <2>5. RowsHaveTables /\ HeadInWork
    BY <2>1 DEF RowsHaveTables, HeadInWork, Sound
  <2> QED
    BY <2>2, <2>3, <2>4, <2>5 DEF RInv
<1>2. RInv /\ [RNext]_rvars => RInv'
  <2> SUFFICES ASSUME RInv, [RNext]_rvars PROVE RInv'
    OBVIOUS
  <2>1. ASSUME NEW t \in Tables,
               \/ Read(t)
               \/ \E ids \in SUBSET Ids : \E once \in SUBSET ids, taken \in SUBSET ids :
                    \/ Save(t, ids, once, taken)
                    \/ Delete(t, ids, once)
        PROVE  RInv'
    BY <2>1, MethodsCall, MethodKeeps
  <2>2. ASSUME NEW t \in Tables, Declare(t) \/ SchemaFails(t) PROVE RInv'
    BY <2>2, DeclareKeeps, SchemaFailsKeeps
  <2>3. ASSUME NEW s \in Steps, BeginStep(s) \/ SkipStep(s) PROVE RInv'
    BY <2>3, BeginKeeps, SkipKeeps
  <2>4. CASE EndStep \/ FailStep \/ Reconnect
    BY <2>4, OverKeeps
  <2>5. CASE DeleteAll \/ UNCHANGED rvars
    BY <2>5, StutterKeeps DEF DeleteAll
  <2>6. ASSUME NEW t \in Tables, NEW ids \in SUBSET Ids \ {{}}, NEW once \in SUBSET ids,
               \/ \E taken \in SUBSET ids \ {{}} : Save(t, ids, once, taken)
               \/ Delete(t, ids, once)
        PROVE  RInv'
    BY <2>1, <2>6
  <2> QED
    BY <2>1, <2>2, <2>3, <2>4, <2>5, <2>6 DEF RNext
<1> QED
  BY <1>1, <1>2, PTL DEF RSpec

\* The types of branches, tables and rows
THEOREM RepositoryTyped == RSpec => []RTypeOK
<1>1. RInv => RTypeOK
  BY DEF RInv
<1> QED
  BY <1>1, RepositoryInvariant, PTL

\* A STEP finds the rows it saved and none of those it deleted; only tables that come late
\* undo what it did, and only a retry that creates tables drops what an iterator gave.
THEOREM SavedIsKeptHolds == RSpec => []SavedIsKept
<1>1. RInv => SavedIsKept
  BY DEF RInv, SavedIsKept
<1> QED
  BY <1>1, RepositoryInvariant, PTL

\* The rows of a branch are committed by the end of its own STEP and nothing else.
THEOREM RowsChangeWithStepsHolds == RSpec => RowsChangeWithSteps
<1> DEFINE Fixed(b) == \/ Rows(head'[b]) = Rows(head[b])
                       \/ step = b /\ step' = Main
                       \/ step = Main /\ step' = b
<1>1. ASSUME RInv, [RNext]_rvars, NEW b \in DOMAIN head
      PROVE  Fixed(b)
  <2>1. ASSUME NEW t \in Tables,
               \/ Read(t)
               \/ \E ids \in SUBSET Ids : \E once \in SUBSET ids, taken \in SUBSET ids :
                    \/ Save(t, ids, once, taken)
                    \/ Delete(t, ids, once)
        PROVE  Fixed(b)
    <3>1. PICK deleted, saved : Call(t, deleted, saved)
      BY <1>1, <2>1, MethodsCall DEF Method
    <3>2. head'[b] = head[b] \/ head'[b] = head[b] \union Schema(declared)
      BY <1>1, <3>1, CallEffect
    <3>3. declared \subseteq Tables
      BY <1>1 DEF RInv, RTypeOK
    <3> QED
      BY <3>2, <3>3, SchemaHasNoRows
  <2>2. ASSUME NEW t \in Tables, Declare(t) \/ SchemaFails(t) PROVE Fixed(b)
    BY <2>2 DEF Declare, SchemaFails, data
  <2>3. ASSUME NEW s \in Steps, BeginStep(s) PROVE Fixed(b)
    <3>1. /\ step = Main /\ step' = s
          /\ head' = [x \in DOMAIN head \union {s} |-> IF x = s THEN head[branch] ELSE head[x]]
      BY <2>3 DEF BeginStep
    <3> QED
      BY <1>1, <3>1
  <2>4. ASSUME NEW s \in Steps, SkipStep(s) PROVE Fixed(b)
    BY <2>4 DEF SkipStep, D!Checkout
  <2>5. CASE EndStep
    <3>1. /\ head' = [head EXCEPT ![branch] = work[branch]]
          /\ step # Main /\ step' = Main
      BY <2>5 DEF EndStep, D!CommitAndDisallow, StepOver
    <3>2. branch = step
      BY <1>1, <3>1 DEF RInv, RTypeOK
    <3> QED
      BY <1>1, <3>1, <3>2
  <2>6. CASE FailStep \/ Reconnect
    BY <2>6 DEF FailStep, Reconnect, D!RollbackAndDisallow, D!Disconnect
  <2>7. CASE DeleteAll \/ UNCHANGED rvars
    BY <2>7 DEF DeleteAll, rvars, data
  <2>8. ASSUME NEW t \in Tables, NEW ids \in SUBSET Ids \ {{}}, NEW once \in SUBSET ids,
               \/ \E taken \in SUBSET ids \ {{}} : Save(t, ids, once, taken)
               \/ Delete(t, ids, once)
        PROVE  Fixed(b)
    BY <2>1, <2>8
  <2> QED
    BY <1>1, <2>1, <2>2, <2>3, <2>4, <2>5, <2>6, <2>7, <2>8 DEF RNext
<1>2. RInv /\ [RNext]_rvars => [\A b \in DOMAIN head : Fixed(b)]_rvars
  BY <1>1
<1> QED
  BY <1>2, RepositoryInvariant, PTL DEF RSpec, RowsChangeWithSteps

=============================================================================
