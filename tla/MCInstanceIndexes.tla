-------------------------- MODULE MCInstanceIndexes --------------------------
(***************************************************************************)
(* A and B implement I, C needs an I; the configurators' context knows A.  *)
(* Callables have an argument of each form, or two.                        *)
(***************************************************************************)
EXTENDS InstanceIndexes

CONSTANTS I, A, B, C

MCType == {I, A, B, C}

MCConcrete == {A, B, C}

MCSubclass == {<<t, t>> : t \in MCType} \union {<<A, I>>, <<B, I>>}

MCDeclared == [t \in MCType |-> IF t = C THEN {[type |-> I, kind |-> "simple"]} ELSE {}]

MCHint == [t \in MCType |-> None]

OfI == [list |-> FALSE, members |-> <<I>>]

ListOfI == [OfI EXCEPT !.list = TRUE]

\* I and A | B, with None, and with a generic before or after it; and lists of them
MCAnnotation ==
  [list : {FALSE}, members : {<<I>>, <<A, B>>, <<None>>, <<I, None>>, <<A, B, None>>, <<Other>>,
                              <<Other, None>>, <<None, Other>>, <<I, Other, None>>, <<I, None, Other>>}]
  \union [list : {TRUE}, members : {<<I>>, <<A, B>>, <<I, None>>, <<Other, None>>}]

MCCallables ==
  {[args |-> <<[hint |-> h, default |-> FALSE]>>, kwonly |-> {}] : h \in MCAnnotation \union {NoHint}}
  \union {[args |-> <<[hint |-> h, default |-> TRUE]>>, kwonly |-> {}] : h \in {ListOfI, NoHint}}
  \union {[args |-> <<[hint |-> OfI, default |-> FALSE], [hint |-> h, default |-> b]>>, kwonly |-> {}] :
     h \in {OfI, ListOfI, NoHint}, b \in BOOLEAN}
  \union {[args |-> <<>>, kwonly |-> {b}] : b \in BOOLEAN}

MCConfiguring == Index(Register(EmptyRegistry, {A}))

=============================================================================
