---------------------------- MODULE TaskCoordinates ----------------------------
(***************************************************************************)
(* TaskCoordinates (thinking_executor/executor_model.py): how coordinates  *)
(* are written as text, into the table of records and as the name of a     *)
(* branch, how the text is read back, and the relations between tasks.     *)
(*                                                                         *)
(* A key is an int or a string.  The text of a key is a sequence of pieces:*)
(* a string that has a slash in it has several.                            *)
(***************************************************************************)
EXTENDS Naturals, Sequences, SequencesExt

CONSTANTS
  Number,   \* for each piece that int() takes, how str() shows that int
  Marked    \* the pieces with an @ in them

\* The key, and whether it is an int.
IntKey(piece) == [int |-> TRUE, pieces |-> <<piece>>]
StrKey(pieces) == [int |-> FALSE, pieces |-> pieces]

IsKey(key) ==
  key.int => Len(key.pieces) = 1 /\ key.pieces[1] \in {Number[p] : p \in DOMAIN Number}

ASSUME TaskCoordinatesAssumption ==
  /\ \A p \in DOMAIN Number : Number[p] \in DOMAIN Number /\ Number[Number[p]] = Number[p]
  /\ Marked \intersect DOMAIN Number = {}

-----------------------------------------------------------------------------
\* __str__: the type, the pieces of the path, the order.
Written(task) ==
  [type |-> task.type, order |-> task.order,
   path |-> FlattenSeq([i \in DOMAIN task.path |-> task.path[i].pieces])]

\* parse() takes what is after the first @ for the order.
Parses(text) == \A i \in DOMAIN text.path : text.path[i] \notin Marked

\* Mutant of KeyOf: numerals are not made ints again.
KeyOfText(piece) == StrKey(<<piece>>)

KeyOf(piece) == IF piece \in DOMAIN Number THEN IntKey(Number[piece]) ELSE StrKey(<<piece>>)

Parsed(text) == [text EXCEPT !.path = [i \in DOMAIN @ |-> KeyOf(@[i])]]

\* The keys that survive: ints, and strings that are neither numerals nor have a separator.
Plain(key) ==
  \/ key.int
  \/ Len(key.pieces) = 1 /\ key.pieces[1] \notin Marked \union DOMAIN Number

\* The pieces that are still written in the same way after they have been read.
KeepsText(piece) == piece \in DOMAIN Number => Number[piece] = piece

-----------------------------------------------------------------------------
Ancestor(task, depth) ==
  LET n == Len(task.path) - depth IN
  [path |-> SubSeq(task.path, 1, n), order |-> SubSeq(task.order, 1, n), type |-> "STAGE"]

Sibling(task, key, type) ==
  [path |-> Append(Front(task.path), key), type |-> type,
   order |-> Append(Front(task.order), Last(task.order) + 1)]

IsDescendantOf(task, ancestor) ==
  LET n == Len(ancestor.path) IN
  Len(task.path) >= n /\ SubSeq(task.path, 1, n) = ancestor.path
                      /\ SubSeq(task.order, 1, n) = ancestor.order

\* __add__
Child(task, key, order) ==
  [path |-> Append(task.path, key), order |-> Append(task.order, order), type |-> "STAGE"]

=============================================================================
