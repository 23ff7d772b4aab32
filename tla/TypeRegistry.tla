---------------------------- MODULE TypeRegistry ----------------------------
(***************************************************************************)
(* SimpleRegistry (registry/simple.py) as a value: what it knows of each   *)
(* registered type, and its operations as operators on that.               *)
(***************************************************************************)
EXTENDS Naturals, FiniteSets

CONSTANTS
  Type,      \* the types of the program
  Concrete,  \* those that are not interfaces
  Subclass,  \* pairs <<t, s>> for issubclass(t, s)
  Declared,  \* type |-> the dependencies that its inject_requirements declares
  Hint,      \* type |-> its @PrimaryImplementation, or None
  None

Kind == {"simple", "optional", "collective"}

Dependency == [type : Type, kind : Kind]

ASSUME TypesAssumption ==
  /\ IsFiniteSet(Type)
  /\ None \notin Type
  /\ Concrete \subseteq Type
  /\ Subclass \subseteq Type \X Type
  /\ \A t \in Type : <<t, t>> \in Subclass
  /\ \A t, s, u \in Type : <<t, s>> \in Subclass /\ <<s, u>> \in Subclass => <<t, u>> \in Subclass
  /\ Declared \in [Type -> SUBSET Dependency]
  /\ Hint \in [Type -> Type \union {None}]

\* MutableTypeDescriptor
Descriptor ==
  [deps : SUBSET Dependency, impls : SUBSET Concrete, forced : Type \union {None}]

IsRegistry(r) == DOMAIN r \subseteq Type /\ r \in [DOMAIN r -> Descriptor]

EmptyRegistry == [t \in {} |-> None]

\* the types that scan() goes on to from t
Required(t) == {d.type : d \in {e \in Declared[t] : e.kind # "optional"}}

\* scan(): a known type is not looked into again.
ClosedUnder(r, X) == \A x \in X : Required(x) \ DOMAIN r \subseteq X

\* the types that register() finds, starting from S: the least such set
Scanned(r, S) ==
  {t \in Type : \A X \in SUBSET (Type \ DOMAIN r) :
                  S \ DOMAIN r \subseteq X /\ ClosedUnder(r, X) => t \in X}

\* the concrete ones of the types K that implement t
Implementations(t, K) == {u \in K \intersect Concrete : <<u, t>> \in Subclass}

\* Mutant of Register: types that were known before do not learn of the new ones.
RegisterOneWay(r, S) ==
  LET new == Scanned(r, S)
      known == DOMAIN r \union new
  IN [t \in known |->
        IF t \in new
        THEN [deps |-> Declared[t], impls |-> Implementations(t, known), forced |-> None]
        ELSE r[t]]

Register(r, S) ==
  LET new == Scanned(r, S)
      known == DOMAIN r \union new
  IN [t \in known |->
        IF t \in new
        THEN [deps |-> Declared[t], impls |-> Implementations(t, known), forced |-> None]
        ELSE [deps |-> r[t].deps,
              impls |-> r[t].impls \union Implementations(t, new),
              forced |-> r[t].forced]]

\* Mutant of Remove: dependencies on the removed type stay.
RemoveKeepingEdges(r, x) ==
  [t \in DOMAIN r \ {x} |->
     [deps |-> r[t].deps,
      impls |-> r[t].impls \ {x},
      forced |-> IF r[t].forced = x THEN None ELSE r[t].forced]]

\* An unknown type may be removed, too: dependencies on it are.
Remove(r, x) ==
  [t \in DOMAIN r \ {x} |->
     [deps |-> {d \in r[t].deps : d.type # x},
      impls |-> r[t].impls \ {x},
      forced |-> IF r[t].forced = x THEN None ELSE r[t].forced]]

\* descriptor.forced_primary or _figure_out_primary(t)
Primary(r, t) ==
  LET impls == r[t].impls
  IN IF r[t].forced # None THEN r[t].forced
     ELSE IF Hint[t] \in impls THEN Hint[t]
     ELSE IF Cardinality(impls) = 1 THEN CHOOSE u \in impls : TRUE
     ELSE IF t \in Concrete THEN t ELSE None

\* type_index()
Index(r) ==
  [t \in DOMAIN r |-> [deps |-> r[t].deps, impls |-> r[t].impls, primary |-> Primary(r, t)]]

\* SimpleRegistry(dict): only the keys are looked at.
Clone(r) == Register(EmptyRegistry, DOMAIN r)

-----------------------------------------------------------------------------
(***************************************************************************)
(* A TypeIndex x (SimpleTypeIndex)                                         *)
(***************************************************************************)
\* choose_injected_types, of the three kinds; a simple dependency may choose None.
Chosen(x, d) ==
  IF d.type \notin DOMAIN x THEN (IF d.kind = "simple" THEN {None} ELSE {})
  ELSE CASE d.kind = "simple" -> {x[d.type].primary}
         [] d.kind = "optional" -> {x[d.type].primary} \ {None}
         [] d.kind = "collective" -> x[d.type].impls

\* prerequisites(t) does not raise.
Resolves(x, t) == \A d \in x[t].deps : None \notin Chosen(x, d)

Prerequisites(x, t) ==
  IF t \in Concrete THEN UNION {Chosen(x, d) : d \in x[t].deps} ELSE {}

-----------------------------------------------------------------------------
(***************************************************************************)
(* What makes a registry consistent                                        *)
(***************************************************************************)
\* Each known type knows exactly its known implementations.
ImplementationsExact(r) == \A t \in DOMAIN r : r[t].impls = Implementations(t, DOMAIN r)

\* Whatever has to be there for a known type to be injected is known.
DependenciesKnown(r) ==
  \A t \in DOMAIN r : \A d \in r[t].deps : d.kind # "optional" => d.type \in DOMAIN r

ForcedKnown(r) == \A t \in DOMAIN r : r[t].forced \in (DOMAIN r \intersect Concrete) \union {None}

Consistent(r) == ImplementationsExact(r) /\ DependenciesKnown(r) /\ ForcedKnown(r)

=============================================================================
