---------------------------- MODULE MCDoltServices ----------------------------
(***************************************************************************)
(* DoltServices on one machine with two projects, each with a port and a   *)
(* connection store of its own; the workbench's ports are the same.  The   *)
(* first one starts three times, two of which may go wrong; the second one *)
(* runs once, beside it.                                                   *)
(***************************************************************************)
EXTENDS DoltServices

CONSTANTS p1, p2

MCPort == [p \in Projects |-> p]

\* The user's configuration has a name and an e-mail address, or neither.
MCOriginals == {Nothing, [name |-> "user", email |-> "mail"]}

MCStarts == [p \in Projects |-> IF p = p1 THEN 3 ELSE 1]

MCFaults == [p \in Projects |-> IF p = p1 THEN 2 ELSE 0]

=============================================================================
