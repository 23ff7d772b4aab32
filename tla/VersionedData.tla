---------------------------- MODULE VersionedData ----------------------------
(***************************************************************************)
(* What a step does to the version-controlled database: VersioningManager  *)
(* (common/versioning.py) over SqlAlchemyDoltVersioning, and               *)
(* WritabilityManager (common/writability.py).  Every step gets a branch   *)
(* of its own, named after its coordinates.                                *)
(*                                                                         *)
(* Of Dolt, which is external, only what the code relies on is modelled: a *)
(* branch has a HEAD and, per connection, a working set.  The connection's *)
(* SQL transaction is never committed (versioning.py:66), so what was not  *)
(* DOLT_COMMITted is lost with the connection.  Dolt refuses to delete the *)
(* branch that is checked out.                                             *)
(***************************************************************************)
EXTENDS FiniteSets

CONSTANT Main       \* the branch of "no coordinates"

VARIABLES
  head,    \* branch |-> the data committed to it
  work,    \* branch |-> the data the connection sees on it
  branch,  \* active_branch()
  access   \* WritabilityManager._access

dataVars == <<head, work, branch, access>>

HasBranch(b) == b \in DOMAIN head

Init ==
  /\ head = [b \in {Main} |-> {}]
  /\ work = head
  /\ branch = Main
  /\ access = "RO"

\* The first half of ensure_empty_branch: CALL DOLT_BRANCH('-D', b), if there is one.
CanDelete(b) == b # branch

DeleteBranch(b) ==
  /\ CanDelete(b)
  /\ head' = [x \in DOMAIN head \ {b} |-> head[x]]
  /\ work' = [x \in DOMAIN work \ {b} |-> work[x]]
  /\ UNCHANGED <<branch, access>>

\* Mutant of NewBranch: every branch starts from main.
NewBranchFromMain(b) ==
  /\ ~HasBranch(b)
  /\ head' = [x \in DOMAIN head \union {b} |-> IF x = b THEN head[Main] ELSE head[x]]
  /\ work' = [x \in DOMAIN work \union {b} |-> IF x = b THEN head[Main] ELSE work[x]]
  /\ UNCHANGED <<branch, access>>

\* The second half: CALL DOLT_BRANCH(b, active_branch()), from the HEAD.
NewBranch(b) ==
  /\ ~HasBranch(b)
  /\ head' = [x \in DOMAIN head \union {b} |-> IF x = b THEN head[branch] ELSE head[x]]
  /\ work' = [x \in DOMAIN work \union {b} |-> IF x = b THEN head[branch] ELSE work[x]]
  /\ UNCHANGED <<branch, access>>

Checkout(b) ==
  /\ HasBranch(b)
  /\ branch' = b
  /\ UNCHANGED <<head, work, access>>

\* allow_writing asserts that writing was not allowed before.
CanAllow == access = "RO"

AllowWriting ==
  /\ CanAllow
  /\ access' = "RW"
  /\ UNCHANGED <<head, work, branch>>

\* DoltRepository.save, with the check of require_writing
Save(d) ==
  /\ access = "RW"
  /\ work' = [work EXCEPT ![branch] = @ \union {d}]
  /\ UNCHANGED <<head, branch, access>>

\* Mutant of CommitAndDisallow: nothing is committed.
OnlyDisallow ==
  /\ access' = "RO"
  /\ UNCHANGED <<head, work, branch>>

\* commit() and then disallow_writing(); an empty commit is allowed.
CommitAndDisallow ==
  /\ head' = [head EXCEPT ![branch] = work[branch]]
  /\ access' = "RO"
  /\ UNCHANGED <<work, branch>>

\* The commit took effect, but its caller sees an exception.
CommitOnly ==
  /\ head' = [head EXCEPT ![branch] = work[branch]]
  /\ UNCHANGED <<work, branch, access>>

\* rollback(), that is CALL DOLT_RESET('--hard'), and then disallow_writing()
RollbackAndDisallow ==
  /\ work' = [work EXCEPT ![branch] = head[branch]]
  /\ access' = "RO"
  /\ UNCHANGED <<head, branch>>

\* The connection is gone; the next one starts on main, with a manager of its own.
Disconnect ==
  /\ work' = head
  /\ branch' = Main
  /\ access' = "RO"
  /\ UNCHANGED head

=============================================================================
