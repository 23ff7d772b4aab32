---------------------------- MODULE TypeIndexes ----------------------------
(***************************************************************************)
(* Type indexes beyond SimpleTypeIndex itself: the index without some      *)
(* types, and TypeIndexUnion (registry/delegating.py), through which a     *)
(* configurable context shows those of its configurators and its business  *)
(* types as one.                                                           *)
(***************************************************************************)
EXTENDS TypeRegistry, Sequences, FiniteSetsExt

\* The lookups of one index: what is not known has nothing.
Dependencies(x, t)          == IF t \in DOMAIN x THEN x[t].deps ELSE {}
ImplementationsOf(x, t)     == IF t \in DOMAIN x THEN x[t].impls ELSE {}
PrimaryImplementation(x, t) == IF t \in DOMAIN x THEN x[t].primary ELSE None

\* without(): a primary that is left out is not replaced.
Without(x, S) ==
  [t \in DOMAIN x \ S |->
     [x[t] EXCEPT !.deps = {d \in @ : d.type \notin S}, !.impls = @ \ S,
                  !.primary = IF @ \in S THEN None ELSE @]]

\* Mutant of FirstOf: the first index answers, if it has something to say or not.
FirstOfAll(answers, nothing) == Head(answers)

\* The indexes are asked in their order; the first one that answers with something wins.
FirstOf(answers, nothing) ==
  LET telling == {i \in DOMAIN answers : answers[i] # nothing}
  IN  IF telling = {} THEN nothing ELSE answers[Min(telling)]

\* dependencies, implementations, primary_implementation, known_types
UnionDependencies(xs, t)    == FirstOf([i \in DOMAIN xs |-> Dependencies(xs[i], t)], {})
UnionImplementations(xs, t) == FirstOf([i \in DOMAIN xs |-> ImplementationsOf(xs[i], t)], {})
UnionPrimary(xs, t)         == FirstOf([i \in DOMAIN xs |-> PrimaryImplementation(xs[i], t)], None)
UnionKnown(xs)              == UNION {DOMAIN xs[i] : i \in DOMAIN xs}

=============================================================================
