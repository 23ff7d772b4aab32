------------------------- MODULE TypeRegistryProofs -------------------------
(***************************************************************************)
(* Proofs about TypeRegistry and the two machines that are built on it,    *)
(* ConfigurableContext and InstanceIndexes, for all types, class           *)
(* hierarchies, dependencies and configurators, and for any number of      *)
(* lifecycles and any callables.                                           *)
(***************************************************************************)
EXTENDS ConfigurableContext, InstanceIndexes, FiniteSetTheorems, TLAPS

-----------------------------------------------------------------------------
(***************************************************************************)
(* Lemmas about the registry's operations                                  *)
(***************************************************************************)
\* What a type requires is a type.
LEMMA RequiredType ==
  ASSUME NEW t \in Type
  PROVE  Required(t) \subseteq Type
  BY TypesAssumption DEF Required, Dependency

\* The records that are descriptors.
LEMMA MakesDescriptor ==
  ASSUME NEW deps \in SUBSET Dependency, NEW impls \in SUBSET Concrete,
         NEW forced \in Type \union {None}
  PROVE  [deps |-> deps, impls |-> impls, forced |-> forced] \in Descriptor
  BY DEF Descriptor

\* And what is known of the fields of one.
LEMMA DescriptorFields ==
  ASSUME NEW x \in Descriptor
  PROVE  x.deps \in SUBSET Dependency /\ x.impls \in SUBSET Concrete /\ x.forced \in Type \union {None}
  BY DEF Descriptor

\* scan() finds what it was asked for and what that requires, among the unknown types, and
\* nothing else.
LEMMA ScannedLeast ==
  ASSUME NEW r, NEW S, S \subseteq Type
  PROVE  /\ Scanned(r, S) \subseteq Type \ DOMAIN r
         /\ S \ DOMAIN r \subseteq Scanned(r, S)
         /\ ClosedUnder(r, Scanned(r, S))
         /\ \A X \in SUBSET (Type \ DOMAIN r) :
              S \ DOMAIN r \subseteq X /\ ClosedUnder(r, X) => Scanned(r, S) \subseteq X
  <1> DEFINE Closed(X) == S \ DOMAIN r \subseteq X /\ ClosedUnder(r, X)
  <1>1. Closed(Type \ DOMAIN r)
    BY RequiredType DEF ClosedUnder
  <1>2. Scanned(r, S) \subseteq Type \ DOMAIN r
    BY <1>1 DEF Scanned
  <1>3. S \ DOMAIN r \subseteq Scanned(r, S)
    BY DEF Scanned
  <1>4. ASSUME NEW x \in Scanned(r, S), NEW y \in Required(x) \ DOMAIN r
        PROVE  y \in Scanned(r, S)
    <2>1. y \in Type
      BY <1>2, RequiredType
    <2>2. ASSUME NEW X \in SUBSET (Type \ DOMAIN r), Closed(X)
          PROVE  y \in X
      <3>1. x \in X
        BY <2>2 DEF Scanned
      <3> QED
        BY <3>1, <2>2 DEF ClosedUnder
    <2> QED
      BY <2>1, <2>2 DEF Scanned
  <1>5. ClosedUnder(r, Scanned(r, S))
    BY <1>4 DEF ClosedUnder
  <1>6. ASSUME NEW X \in SUBSET (Type \ DOMAIN r), Closed(X)
        PROVE  Scanned(r, S) \subseteq X
    BY <1>6 DEF Scanned
  <1> QED
    BY <1>2, <1>3, <1>5, <1>6

\* Registering keeps a registry typed and consistent, and loses nothing.
LEMMA RegisterConsistent ==
  ASSUME NEW r, IsRegistry(r), Consistent(r), NEW S, S \subseteq Type
  PROVE  /\ IsRegistry(Register(r, S)) /\ Consistent(Register(r, S))
         /\ DOMAIN Register(r, S) = DOMAIN r \union Scanned(r, S)
         /\ S \subseteq DOMAIN Register(r, S)
  <1> DEFINE new == Scanned(r, S)
             known == DOMAIN r \union new
             q == Register(r, S)
  <1>1. new \subseteq Type \ DOMAIN r /\ S \ DOMAIN r \subseteq new /\ ClosedUnder(r, new)
    BY ScannedLeast
  <1>2. DOMAIN q = known
    BY DEF Register
  <1>3. ASSUME NEW t \in new
        PROVE  /\ q[t] = [deps |-> Declared[t], impls |-> Implementations(t, known), forced |-> None]
               /\ q[t].deps = Declared[t]
    BY <1>3 DEF Register
  <1>4. ASSUME NEW t \in DOMAIN r
        PROVE  /\ r[t] \in Descriptor
               /\ q[t] = [deps |-> r[t].deps,
                          impls |-> r[t].impls \union Implementations(t, new),
                          forced |-> r[t].forced]
               /\ q[t].deps = r[t].deps
               /\ q[t].impls = r[t].impls \union Implementations(t, new)
               /\ q[t].forced = r[t].forced
    BY <1>1, <1>4 DEF Register, IsRegistry
  <1>f. q = [t \in known |-> q[t]]
    BY DEF Register
  <1>g. \A t, K : Implementations(t, K) \subseteq Concrete
    BY DEF Implementations
  <1> HIDE DEF new, known, q
  <1>5. ASSUME NEW t \in known
        PROVE  q[t] \in Descriptor
    <2>1. CASE t \in DOMAIN r
      <3>1. /\ r[t].deps \in SUBSET Dependency
            /\ r[t].impls \union Implementations(t, new) \in SUBSET Concrete
            /\ r[t].forced \in Type \union {None}
        BY <2>1, <1>4, <1>g, DescriptorFields
      <3>2. [deps |-> r[t].deps, impls |-> r[t].impls \union Implementations(t, new),
             forced |-> r[t].forced] \in Descriptor
        BY <3>1, MakesDescriptor
      <3> QED
        BY <3>2, <2>1, <1>4
    <2>2. CASE t \in new
      <3>1. Declared[t] \in SUBSET Dependency /\ Implementations(t, known) \in SUBSET Concrete
        BY <2>2, <1>1, <1>g, TypesAssumption
      <3> QED
        BY <3>1, <2>2, <1>3, MakesDescriptor
    <2> QED
      BY <2>1, <2>2 DEF known
  <1>6. IsRegistry(q)
    <2>1. known = DOMAIN r \union new /\ known \subseteq Type
      BY <1>1 DEF IsRegistry, known
    <2>2. \A t \in known : q[t] \in Descriptor
      BY <1>5
    <2> QED
      BY <2>1, <2>2, <1>2, <1>f DEF IsRegistry
  <1>7. ImplementationsExact(q)
    <2>1. ASSUME NEW t \in DOMAIN r
          PROVE  q[t].impls = Implementations(t, known)
      BY <2>1, <1>4 DEF Consistent, ImplementationsExact, Implementations, known
    <2> QED
      BY <2>1, <1>2, <1>3 DEF ImplementationsExact, known
  <1>8. DependenciesKnown(q)
    <2>1. ASSUME NEW t \in DOMAIN r, NEW d \in q[t].deps, d.kind # "optional"
          PROVE  d.type \in known
      <3>1. d \in r[t].deps
        BY <1>4
      <3> QED
        BY <3>1, <2>1 DEF Consistent, DependenciesKnown, known
    <2>2. ASSUME NEW t \in new, NEW d \in q[t].deps, d.kind # "optional"
          PROVE  d.type \in known
      <3>1. d \in Declared[t]
        BY <1>3
      <3>2. d.type \in Required(t)
        BY <3>1, <2>2 DEF Required
      <3> QED
        BY <3>2, <1>1 DEF ClosedUnder, known
    <2> QED
      BY <2>1, <2>2, <1>2 DEF DependenciesKnown, known
  <1>9. ForcedKnown(q)
    BY <1>2, <1>3, <1>4 DEF Consistent, ForcedKnown, known
  <1> QED
    BY <1>1, <1>2, <1>6, <1>7, <1>8, <1>9 DEF Consistent, new, known, q

\* So does removing.
LEMMA RemoveConsistent ==
  ASSUME NEW r, IsRegistry(r), Consistent(r), NEW x \in Type
  PROVE  IsRegistry(Remove(r, x)) /\ Consistent(Remove(r, x))
  <1> DEFINE q == Remove(r, x)
  <1> USE TypesAssumption
  <1>1. DOMAIN q = DOMAIN r \ {x}
    BY DEF Remove
  <1>2. ASSUME NEW t \in DOMAIN q
        PROVE  /\ r[t] \in Descriptor
               /\ q[t] = [deps |-> {d \in r[t].deps : d.type # x},
                          impls |-> r[t].impls \ {x},
                          forced |-> IF r[t].forced = x THEN None ELSE r[t].forced]
    BY <1>1, <1>2 DEF Remove, IsRegistry
  <1>3. IsRegistry(q)
    <2>1. q = [t \in DOMAIN r \ {x} |-> q[t]]
      BY DEF Remove
    <2>2. \A t \in DOMAIN q : q[t] \in Descriptor
      BY <1>2 DEF Descriptor
    <2> QED
      BY <2>1, <2>2, <1>1 DEF IsRegistry
  <1>4. ImplementationsExact(q)
    BY <1>1, <1>2 DEF Consistent, ImplementationsExact, Implementations
  <1>5. DependenciesKnown(q)
    BY <1>1, <1>2 DEF Consistent, DependenciesKnown
  <1>6. ForcedKnown(q)
    BY <1>1, <1>2 DEF Consistent, ForcedKnown
  <1> QED
    BY <1>3, <1>4, <1>5, <1>6 DEF Consistent

\* So does forcing a primary implementation that is known.
LEMMA ForceConsistent ==
  ASSUME NEW r, IsRegistry(r), Consistent(r),
         NEW t \in DOMAIN r, NEW u \in DOMAIN r \intersect Concrete
  PROVE  LET q == [r EXCEPT ![t].forced = u] IN IsRegistry(q) /\ Consistent(q)
  <1> DEFINE q == [r EXCEPT ![t].forced = u]
  <1> USE TypesAssumption
  <1>1. DOMAIN q = DOMAIN r
    OBVIOUS
  <1>2. \A s \in DOMAIN r : r[s] \in Descriptor
    BY DEF IsRegistry
  <1>3. ASSUME NEW s \in DOMAIN r
        PROVE  /\ q[s].deps = r[s].deps /\ q[s].impls = r[s].impls
               /\ q[s].forced = IF s = t THEN u ELSE r[s].forced
               /\ q[s] \in Descriptor
    BY <1>2, <1>3 DEF Descriptor
  <1>4. IsRegistry(q)
    <2>1. q = [s \in DOMAIN r |-> q[s]]
      BY <1>1
    <2> QED
      BY <2>1, <1>3 DEF IsRegistry
  <1>5. Consistent(q)
    BY <1>1, <1>3
      DEF Consistent, ImplementationsExact, DependenciesKnown, ForcedKnown
  <1> QED
    BY <1>4, <1>5

\* The registry of a context that nothing is registered with.
LEMMA EmptyConsistent == IsRegistry(EmptyRegistry) /\ Consistent(EmptyRegistry)
  BY DEF EmptyRegistry, IsRegistry, Consistent, ImplementationsExact, DependenciesKnown, ForcedKnown

\* What register() leaves of the descriptors that were there.
LEMMA RegisterKeeps ==
  ASSUME NEW r, IsRegistry(r), NEW S, S \subseteq Type, NEW t \in DOMAIN r
  PROVE  /\ t \in DOMAIN Register(r, S)
         /\ Register(r, S)[t].deps = r[t].deps
         /\ r[t].impls \subseteq Register(r, S)[t].impls
         /\ Register(r, S)[t].forced = r[t].forced
  <1>1. t \notin Scanned(r, S)
    BY ScannedLeast
  <1> QED
    BY <1>1 DEF Register

\* A registry is what is given for its types, its dependencies and its forced primaries, if
\* it is consistent.
LEMMA SameRegistry ==
  ASSUME NEW r, NEW q, IsRegistry(r), IsRegistry(q),
         ImplementationsExact(r), ImplementationsExact(q),
         DOMAIN r = DOMAIN q,
         \A t \in DOMAIN r : r[t].deps = q[t].deps /\ r[t].forced = q[t].forced
  PROVE  r = q
  <1>1. ASSUME NEW t \in DOMAIN r
        PROVE  r[t] = q[t]
    <2>1. r[t] \in Descriptor /\ q[t] \in Descriptor
      BY DEF IsRegistry
    <2>2. r[t].impls = q[t].impls
      BY DEF ImplementationsExact
    <2> QED
      BY <2>1, <2>2 DEF Descriptor
  <1> QED
    BY <1>1 DEF IsRegistry

\* A registry made from nothing takes every type's own declarations.
LEMMA RegisterFromNothing ==
  ASSUME NEW S, S \subseteq Type
  PROVE  \A t \in DOMAIN Register(EmptyRegistry, S) :
           /\ Register(EmptyRegistry, S)[t].deps = Declared[t]
           /\ Register(EmptyRegistry, S)[t].forced = None
  BY DEF Register, EmptyRegistry

\* Registering in two steps is registering at once.
LEMMA RegisterInSteps ==
  ASSUME NEW S, S \subseteq Type, NEW t \in Type
  PROVE  Register(Register(EmptyRegistry, S), {t}) = Register(EmptyRegistry, S \union {t})
  <1> DEFINE E == EmptyRegistry
             r == Register(E, S)
             q == Register(r, {t})
             p == Register(E, S \union {t})
             old == Scanned(E, S)
             more == Scanned(r, {t})
             all == Scanned(E, S \union {t})
  <1>1. DOMAIN E = {}
    BY DEF EmptyRegistry
  <1>2. /\ IsRegistry(r) /\ Consistent(r) /\ DOMAIN r = old
    <2>1. IsRegistry(E) /\ Consistent(E)
      BY EmptyConsistent
    <2> HIDE DEF E
    <2>2. /\ IsRegistry(Register(E, S)) /\ Consistent(Register(E, S))
          /\ DOMAIN Register(E, S) = DOMAIN E \union Scanned(E, S)
      BY <2>1, RegisterConsistent
    <2> QED
      BY <1>1, <2>2
  <1>3. /\ IsRegistry(q) /\ Consistent(q) /\ DOMAIN q = old \union more
    BY <1>2, RegisterConsistent
  <1>4. /\ IsRegistry(p) /\ Consistent(p) /\ DOMAIN p = all
    <2> DEFINE both == S \union {t}
    <2>1. both \subseteq Type
      OBVIOUS
    <2> HIDE DEF both
    <2>2. /\ IsRegistry(Register(E, both)) /\ Consistent(Register(E, both))
          /\ DOMAIN Register(E, both) = DOMAIN E \union Scanned(E, both)
      BY <2>1, EmptyConsistent, RegisterConsistent
    <2> QED
      BY <1>1, <2>2 DEF both
  <1>5. old \subseteq Type /\ S \subseteq old /\ ClosedUnder(E, old)
    BY <1>1, ScannedLeast
  <1>6. more \subseteq Type \ old /\ {t} \ old \subseteq more /\ ClosedUnder(r, more)
    BY <1>2, ScannedLeast
  <1>7. all \subseteq Type /\ S \union {t} \subseteq all /\ ClosedUnder(E, all)
    BY <1>1, ScannedLeast
  <1> HIDE DEF E, r, q, p, old, more, all
  <1>8. all \subseteq old \union more
    <2>1. S \union {t} \subseteq old \union more
      BY <1>5, <1>6
    <2>2. ClosedUnder(E, old \union more)
      BY <1>1, <1>2, <1>5, <1>6 DEF ClosedUnder
    <2> QED
      BY <2>1, <2>2, <1>1, <1>5, <1>6, ScannedLeast DEF all
  <1>9. old \subseteq all
    BY <1>1, <1>7, ScannedLeast DEF old
  <1>10. more \subseteq all
    <2>1. {t} \ DOMAIN r \subseteq all \ old
      BY <1>2, <1>7
    <2>2. ClosedUnder(r, all \ old)
      BY <1>1, <1>2, <1>7 DEF ClosedUnder
    <2>3. all \ old \in SUBSET (Type \ DOMAIN r)
      BY <1>2, <1>7
    <2>4. Scanned(r, {t}) \subseteq all \ old
      BY <2>1, <2>2, <2>3, ScannedLeast
    <2> QED
      BY <2>4 DEF more
  <1>11. DOMAIN q = DOMAIN p
    BY <1>3, <1>4, <1>8, <1>9, <1>10
  <1>12. ASSUME NEW u \in DOMAIN q
         PROVE  q[u].deps = p[u].deps /\ q[u].forced = p[u].forced
    <2>1. p[u].deps = Declared[u] /\ p[u].forced = None
      BY <1>11, RegisterFromNothing DEF p, E
    <2>2. CASE u \in old
      <3>1. r[u].deps = Declared[u] /\ r[u].forced = None
        BY <2>2, <1>2, RegisterFromNothing DEF r, E
      <3> QED
        BY <3>1, <2>1, <2>2, <1>2, RegisterKeeps DEF q
    <2>3. CASE u \in more
      BY <2>1, <2>3 DEF q, more, Register
    <2> QED
      BY <2>2, <2>3, <1>3
  <1>13. q = p
    BY <1>3, <1>4, <1>11, <1>12, SameRegistry DEF Consistent
  <1> QED
    BY <1>13 DEF q, p, r, E

\* The primary implementation is a known concrete type, or there is none.
LEMMA PrimaryKnown ==
  ASSUME NEW r, IsRegistry(r), Consistent(r), NEW t \in DOMAIN r
  PROVE  Primary(r, t) \in (DOMAIN r \intersect Concrete) \union {None}
  <1>1. r[t].impls \subseteq DOMAIN r \intersect Concrete
    BY DEF Consistent, ImplementationsExact, Implementations
  <1>2. CASE r[t].forced # None
    BY <1>2 DEF Primary, Consistent, ForcedKnown
  <1>3. CASE r[t].forced = None /\ Hint[t] \in r[t].impls
    BY <1>1, <1>3 DEF Primary
  <1>4. CASE r[t].forced = None /\ Hint[t] \notin r[t].impls /\ Cardinality(r[t].impls) = 1
    <2>1. Primary(r, t) = CHOOSE u \in r[t].impls : TRUE
      BY <1>4 DEF Primary
    <2>2. r[t].impls # {}
      BY <1>4, FS_EmptySet
    <2> QED
      BY <2>1, <2>2, <1>1
  <1>5. CASE r[t].forced = None /\ Hint[t] \notin r[t].impls /\ Cardinality(r[t].impls) # 1
    BY <1>5 DEF Primary
  <1> QED
    BY <1>2, <1>3, <1>4, <1>5

\* With no more than one implementation, there is a primary one if there is any.
LEMMA PrimaryOfOne ==
  ASSUME NEW r, IsRegistry(r), Consistent(r), NEW t \in DOMAIN r,
         r[t].impls # {}, ~(Cardinality(r[t].impls) > 1)
  PROVE  Primary(r, t) # None
  <1>1. r[t].impls \subseteq Concrete /\ None \notin Concrete
    BY TypesAssumption DEF Consistent, ImplementationsExact, Implementations
  <1>2. IsFiniteSet(r[t].impls)
    BY <1>1, TypesAssumption, FS_Subset
  <1>3. Cardinality(r[t].impls) \in Nat /\ Cardinality(r[t].impls) # 0
    BY <1>2, FS_CardinalityType, FS_EmptySet
  <1>4. Cardinality(r[t].impls) = 1
    BY <1>3
  <1>5. (CHOOSE u \in r[t].impls : TRUE) \in Concrete
    BY <1>1
  <1> QED
    BY <1>1, <1>4, <1>5 DEF Primary

\* The index of a consistent registry finds what order() asks it for.
LEMMA IndexKnows ==
  ASSUME NEW r, IsRegistry(r), Consistent(r), NEW t \in DOMAIN Index(r) \intersect Concrete,
         Resolves(Index(r), t)
  PROVE  Prerequisites(Index(r), t) \subseteq DOMAIN Index(r) \intersect Concrete
  <1> DEFINE x == Index(r)
  <1>1. DOMAIN x = DOMAIN r
    BY DEF Index
  <1>2. \A s \in DOMAIN r : /\ x[s].deps = r[s].deps
                             /\ x[s].impls = r[s].impls
                             /\ x[s].primary = Primary(r, s)
    BY DEF Index
  <1> HIDE DEF x
  <1>3. ASSUME NEW d \in x[t].deps
        PROVE  Chosen(x, d) \subseteq DOMAIN r \intersect Concrete
    <2>1. d \in Dependency
      BY <1>1, <1>2, DescriptorFields DEF IsRegistry, x
    <2>2. None \notin Chosen(x, d)
      BY DEF Resolves, x
    <2>3. CASE d.type \in DOMAIN r
      <3>1. x[d.type].primary \in (DOMAIN r \intersect Concrete) \union {None}
        BY <2>3, <1>2, PrimaryKnown
      <3>2. x[d.type].impls \subseteq DOMAIN r \intersect Concrete
        BY <2>3, <1>2 DEF Consistent, ImplementationsExact, Implementations
      <3>3. d.kind \in {"simple", "optional", "collective"}
        BY <2>1 DEF Dependency, Kind
      <3>4. CASE d.kind = "simple"
        BY <3>1, <3>4, <2>2, <2>3, <1>1 DEF Chosen
      <3>5. CASE d.kind = "optional"
        BY <3>1, <3>5, <2>2, <2>3, <1>1 DEF Chosen
      <3>6. CASE d.kind = "collective"
        BY <3>2, <3>6, <2>2, <2>3, <1>1 DEF Chosen
      <3> QED
        BY <3>3, <3>4, <3>5, <3>6
    <2>4. CASE d.type \notin DOMAIN r
      BY <2>2, <2>4, <1>1 DEF Chosen
    <2> QED
      BY <2>3, <2>4
  <1> QED
    BY <1>1, <1>3 DEF Prerequisites, x

-----------------------------------------------------------------------------
(***************************************************************************)
(* The inductive invariant                                                 *)
(***************************************************************************)
Confluent == ~removed => registry = Register(EmptyRegistry, asked)

\* What the configurators that ran have made of the clone lasts through the later phases.
ForcedSoFar ==
  pc # "open" =>
    \A c \in configurators \ todo :
      c.phase = "forcing" /\ Unopposed(c) =>
        c.base \in DOMAIN clone /\ clone[c.base].forced = c.impl

FallbacksSoFar ==
  pc # "open" =>
    \A c \in configurators \ todo :
      c.phase = "fallbacks" => c.base \in DOMAIN clone /\ clone[c.base].impls # {}

\* That a type is not ambiguous lasts because no more types are registered in the phase of
\* the defaults.
DefaultsSoFar ==
  pc # "open" =>
    \A c \in configurators \ todo :
      c.phase = "defaults" =>
        /\ c.base \in DOMAIN clone /\ ~Ambiguous(c.base)
        /\ \A d \in todo : d.phase = "defaults"

IndexOfClone ==
  IF pc = "running" THEN todo = {} /\ index = Index(clone) ELSE index = EmptyRegistry

IInv ==
  /\ TypeOK /\ RegistriesConsistent /\ Confluent
  /\ ForcedSoFar /\ FallbacksSoFar /\ DefaultsSoFar /\ IndexOfClone

\* A configurator names a registered implementation of its base.
LEMMA ConfiguratorFields ==
  ASSUME NEW c \in Configurator
  PROVE  /\ c.phase \in Phase /\ c.base \in Type /\ c.impl \in Concrete
         /\ c.impl \in Type /\ c.impl # None /\ <<c.impl, c.base>> \in Subclass
  <1>1. c \in ConfiguratorType
    BY ConfiguratorsAssumption
  <1>2. c.phase \in Phase /\ c.base \in Type /\ c.impl \in Concrete
    BY <1>1 DEF ConfiguratorType
  <1> QED
    BY <1>2, ConfiguratorsAssumption, TypesAssumption

\* A type is registered on demand: it is known then, and so are those that it implements.
LEMMA RegisterOne ==
  ASSUME NEW r, IsRegistry(r), Consistent(r), NEW b \in DOMAIN r, NEW u \in Concrete,
         <<u, b>> \in Subclass
  PROVE  /\ IsRegistry(Register(r, {u})) /\ Consistent(Register(r, {u}))
         /\ b \in DOMAIN Register(r, {u}) /\ u \in DOMAIN Register(r, {u})
         /\ u \in Register(r, {u})[b].impls
  <1>1. u \in Type
    BY TypesAssumption
  <1> DEFINE S == {u}
             q == Register(r, S)
  <1>2. S \subseteq Type
    BY <1>1
  <1> HIDE DEF S
  <1>3. /\ IsRegistry(q) /\ Consistent(q) /\ S \subseteq DOMAIN q
        /\ DOMAIN q = DOMAIN r \union Scanned(r, S)
    BY <1>2, RegisterConsistent
  <1>4. u \in DOMAIN q /\ b \in DOMAIN q
    BY <1>3 DEF S
  <1>5. u \in q[b].impls
    BY <1>3, <1>4 DEF Consistent, ImplementationsExact, Implementations
  <1> QED
    BY <1>3, <1>4, <1>5 DEF S

\* The initial states satisfy the inductive invariant.
LEMMA InitInvariant == Init => IInv
  <1> SUFFICES ASSUME Init
               PROVE  IInv
    OBVIOUS
  <1>1. TypeOK /\ RegistriesConsistent
    BY EmptyConsistent DEF Init, TypeOK, RegistriesConsistent
  <1>2. Confluent
    <2> DEFINE q == Register(EmptyRegistry, {})
    <2>1. DOMAIN EmptyRegistry = {}
      BY DEF EmptyRegistry
    <2>2. Scanned(EmptyRegistry, {}) \subseteq {}
      BY <2>1, ScannedLeast DEF ClosedUnder
    <2>3. IsRegistry(q) /\ Consistent(q) /\ DOMAIN q = {}
      BY <2>1, <2>2, EmptyConsistent, RegisterConsistent
    <2>4. q = EmptyRegistry
      BY <2>1, <2>3, EmptyConsistent, SameRegistry DEF Consistent
    <2> QED
      BY <2>4 DEF Init, Confluent
  <1>3. ForcedSoFar /\ FallbacksSoFar /\ DefaultsSoFar /\ IndexOfClone
    BY DEF Init, ForcedSoFar, FallbacksSoFar, DefaultsSoFar, IndexOfClone
  <1> QED
    BY <1>1, <1>2, <1>3 DEF IInv

\* One operation changes the context or the lifecycle, never both.
LEMMA ContextUnchanged ==
  ASSUME IInv, UNCHANGED context, IsRegistry(clone'), Consistent(clone'),
         todo' \subseteq configurators, pc' \in {"open", "configuring", "running"}
  PROVE  TypeOK' /\ RegistriesConsistent' /\ Confluent'
  BY DEF IInv, TypeOK, RegistriesConsistent, Confluent, context

\* What the context does to its registry is nothing to a lifecycle that has begun.
LEMMA LifecycleUnchanged ==
  ASSUME IInv, UNCHANGED lifecycle, UNCHANGED configurators
  PROVE  ForcedSoFar' /\ FallbacksSoFar' /\ DefaultsSoFar' /\ IndexOfClone'
  BY DEF IInv, lifecycle, ForcedSoFar, FallbacksSoFar, DefaultsSoFar, IndexOfClone,
         Unopposed, Ambiguous

\* Each operation preserves it: registering a type,
LEMMA RegisterTypeInvariant ==
  ASSUME IInv, NEW t \in Type, RegisterType(t)
  PROVE  IInv'
  <1> DEFINE S == {t}
  <1>1. S \subseteq Type
    OBVIOUS
  <1>2. registry' = Register(registry, S) /\ UNCHANGED <<configurators, removed, lifecycle>>
    BY DEF RegisterType
  <1>3. asked' \subseteq Type /\ (~removed => asked' = asked \union S)
    BY DEF RegisterType, IInv, TypeOK
  <1> HIDE DEF S
  <1>4. IsRegistry(registry') /\ Consistent(registry')
    BY <1>1, <1>2, RegisterConsistent DEF IInv, TypeOK, RegistriesConsistent
  <1>5. TypeOK'
    BY <1>2, <1>3, <1>4 DEF IInv, TypeOK, lifecycle
  <1>6. RegistriesConsistent'
    BY <1>2, <1>4 DEF IInv, RegistriesConsistent, lifecycle
  <1>7. Confluent'
    <2>1. SUFFICES ASSUME ~removed
                   PROVE  registry' = Register(EmptyRegistry, asked')
      BY <1>2 DEF Confluent
    <2>2. registry = Register(EmptyRegistry, asked) /\ asked \subseteq Type
      BY <2>1 DEF IInv, Confluent, TypeOK
    <2>3. Register(Register(EmptyRegistry, asked), {t}) = Register(EmptyRegistry, asked \union {t})
      BY <2>2, RegisterInSteps
    <2> QED
      BY <2>1, <2>2, <2>3, <1>2, <1>3 DEF S
  <1>8. ForcedSoFar' /\ FallbacksSoFar' /\ DefaultsSoFar' /\ IndexOfClone'
    BY <1>2, LifecycleUnchanged
  <1> QED
    BY <1>5, <1>6, <1>7, <1>8 DEF IInv

\* removing one,
LEMMA RemoveTypeInvariant ==
  ASSUME IInv, NEW t \in Type, RemoveType(t)
  PROVE  IInv'
  <1>1. UNCHANGED <<configurators, lifecycle>> /\ asked' = {} /\ removed' = TRUE
    BY DEF RemoveType
  <1>2. IsRegistry(registry') /\ Consistent(registry')
    BY RemoveConsistent DEF RemoveType, IInv, TypeOK, RegistriesConsistent
  <1>3. TypeOK' /\ RegistriesConsistent' /\ Confluent'
    BY <1>1, <1>2 DEF IInv, TypeOK, RegistriesConsistent, Confluent, lifecycle
  <1>4. ForcedSoFar' /\ FallbacksSoFar' /\ DefaultsSoFar' /\ IndexOfClone'
    BY <1>1, LifecycleUnchanged
  <1> QED
    BY <1>3, <1>4 DEF IInv

\* starting a lifecycle with a clone of the registry,
LEMMA StartInvariant ==
  ASSUME IInv, StartLifecycle
  PROVE  IInv'
  <1>1. UNCHANGED context /\ todo' = configurators /\ pc' = "configuring" /\ pc = "open"
        /\ UNCHANGED index
    BY DEF StartLifecycle
  <1>2. IsRegistry(clone') /\ Consistent(clone')
    <2> DEFINE S == DOMAIN registry
    <2>1. S \subseteq Type /\ clone' = Register(EmptyRegistry, S)
      BY DEF StartLifecycle, Clone, IInv, TypeOK, IsRegistry
    <2> HIDE DEF S
    <2> QED
      BY <2>1, EmptyConsistent, RegisterConsistent
  <1>3. TypeOK' /\ RegistriesConsistent' /\ Confluent'
    BY <1>1, <1>2, ContextUnchanged
  <1>4. configurators' \ todo' = {}
    BY <1>1 DEF context
  <1>5. ForcedSoFar' /\ FallbacksSoFar' /\ DefaultsSoFar'
    BY <1>4 DEF ForcedSoFar, FallbacksSoFar, DefaultsSoFar
  <1>6. IndexOfClone'
    BY <1>1 DEF IInv, IndexOfClone
  <1> QED
    BY <1>3, <1>5, <1>6 DEF IInv

\* It is the turn of a configurator when the earlier phases are through.
LEMMA TurnFields ==
  ASSUME IInv, NEW c \in Configurator, Turn(c)
  PROVE  /\ pc = "configuring" /\ c \in todo /\ c \in configurators
         /\ todo \subseteq Configurator /\ todo \subseteq configurators
         /\ c.phase = "defaults" => \A d \in todo : d.phase = "defaults"
  <1>1. pc = "configuring" /\ c \in todo /\ ~ \E d \in todo : Before(d.phase, c.phase)
    BY DEF Turn
  <1>2. todo \subseteq Configurator /\ todo \subseteq configurators
    BY DEF IInv, TypeOK
  <1>3. ASSUME c.phase = "defaults", NEW d \in todo
        PROVE  d.phase = "defaults"
    <2>1. d.phase \in {"fallbacks", "forcing", "defaults"}
      BY <1>2, ConfiguratorFields DEF Phase
    <2> QED
      BY <2>1, <1>1, <1>3 DEF Before
  <1> QED
    BY <1>1, <1>2, <1>3

\* a fallback, whatever configurators of its phase ran before,
LEMMA AddFallbackInvariant ==
  ASSUME IInv, NEW c \in Configurator, AddFallback(c)
  PROVE  IInv'
  <1>1. /\ Turn(c) /\ c.phase = "fallbacks" /\ c.base \in DOMAIN clone
        /\ clone' = IF clone[c.base].impls = {} THEN Register(clone, {c.impl}) ELSE clone
        /\ todo' = todo \ {c} /\ UNCHANGED <<context, pc, index>>
    BY DEF AddFallback
  <1>2. /\ pc = "configuring" /\ c \in todo
        /\ todo \subseteq Configurator /\ todo \subseteq configurators
    BY <1>1, TurnFields
  <1>3. IsRegistry(clone) /\ Consistent(clone)
    BY DEF IInv, TypeOK, RegistriesConsistent
  <1>4. /\ c.impl \in Type /\ c.impl \in Concrete /\ <<c.impl, c.base>> \in Subclass
    BY ConfiguratorFields
  <1>5. /\ IsRegistry(clone') /\ Consistent(clone')
        /\ c.base \in DOMAIN clone' /\ clone'[c.base].impls # {}
    <2>1. CASE clone[c.base].impls = {}
      BY <2>1, <1>1, <1>3, <1>4, RegisterOne
    <2>2. CASE clone[c.base].impls # {}
      BY <2>2, <1>1, <1>3
    <2> QED
      BY <2>1, <2>2
  <1>6. \A t \in DOMAIN clone : /\ t \in DOMAIN clone'
                                /\ clone[t].impls \subseteq clone'[t].impls
                                /\ clone'[t].forced = clone[t].forced
    <2> DEFINE S == {c.impl}
    <2>1. S \subseteq Type /\ (clone' = Register(clone, S) \/ clone' = clone)
      BY <1>1, <1>4
    <2> HIDE DEF S
    <2> QED
      BY <2>1, <1>3, RegisterKeeps
  <1>7. TypeOK' /\ RegistriesConsistent' /\ Confluent'
    BY <1>1, <1>2, <1>5, ContextUnchanged
  <1>8. configurators' \ todo' = (configurators \ todo) \union {c} /\ configurators' = configurators
    BY <1>1, <1>2 DEF context
  <1>9. ForcedSoFar'
    BY <1>1, <1>2, <1>6, <1>8 DEF IInv, ForcedSoFar, Unopposed
  <1>10. FallbacksSoFar'
    BY <1>1, <1>2, <1>5, <1>6, <1>8 DEF IInv, FallbacksSoFar
  <1>11. DefaultsSoFar'
    \* No default has been set before.
    BY <1>1, <1>2, <1>8 DEF IInv, DefaultsSoFar
  <1>12. IndexOfClone'
    BY <1>1, <1>2 DEF IInv, IndexOfClone
  <1> QED
    BY <1>7, <1>9, <1>10, <1>11, <1>12 DEF IInv

\* a forced primary,
LEMMA ForcePrimaryInvariant ==
  ASSUME IInv, NEW c \in Configurator, ForcePrimary(c)
  PROVE  IInv'
  <1> DEFINE with == IF c.impl \in clone[c.base].impls THEN clone ELSE Register(clone, {c.impl})
  <1>1. /\ Turn(c) /\ c.phase = "forcing" /\ c.base \in DOMAIN clone
        /\ clone' = [with EXCEPT ![c.base].forced = c.impl]
        /\ todo' = todo \ {c} /\ UNCHANGED <<context, pc, index>>
    BY DEF ForcePrimary
  <1>2. /\ pc = "configuring" /\ c \in todo
        /\ todo \subseteq Configurator /\ todo \subseteq configurators
    BY <1>1, TurnFields
  <1>3. IsRegistry(clone) /\ Consistent(clone)
    BY DEF IInv, TypeOK, RegistriesConsistent
  <1>4. /\ c.impl \in Type /\ c.impl \in Concrete /\ <<c.impl, c.base>> \in Subclass
    BY ConfiguratorFields
  <1>5. /\ IsRegistry(with) /\ Consistent(with)
        /\ c.base \in DOMAIN with /\ c.impl \in DOMAIN with
    <2>1. CASE c.impl \in clone[c.base].impls
      BY <2>1, <1>1, <1>3 DEF Consistent, ImplementationsExact, Implementations
    <2>2. CASE c.impl \notin clone[c.base].impls
      BY <2>2, <1>1, <1>3, <1>4, RegisterOne
    <2> QED
      BY <2>1, <2>2
  <1>6. \A t \in DOMAIN clone : /\ t \in DOMAIN with
                                /\ clone[t].impls \subseteq with[t].impls
                                /\ with[t].forced = clone[t].forced
    <2> DEFINE S == {c.impl}
    <2>1. S \subseteq Type /\ (with = Register(clone, S) \/ with = clone)
      BY <1>4
    <2> HIDE DEF S, with
    <2> QED
      BY <2>1, <1>3, RegisterKeeps
  <1> HIDE DEF with
  <1>7. IsRegistry(clone') /\ Consistent(clone')
    BY <1>1, <1>4, <1>5, ForceConsistent
  <1>8. /\ DOMAIN clone' = DOMAIN with
        /\ \A t \in DOMAIN with : /\ clone'[t].impls = with[t].impls
                                  /\ clone'[t].forced = IF t = c.base THEN c.impl
                                                        ELSE with[t].forced
    <2>1. \A t \in DOMAIN with : with[t] \in Descriptor
      BY <1>5 DEF IsRegistry
    <2> QED
      BY <2>1, <1>1 DEF Descriptor
  <1>9. TypeOK' /\ RegistriesConsistent' /\ Confluent'
    BY <1>1, <1>2, <1>7, ContextUnchanged
  <1>10. configurators' \ todo' = (configurators \ todo) \union {c} /\ configurators' = configurators
    BY <1>1, <1>2 DEF context
  <1>11. ForcedSoFar'
    <2> SUFFICES ASSUME NEW d \in (configurators \ todo) \union {c},
                        d.phase = "forcing", Unopposed(d)
                 PROVE  d.base \in DOMAIN clone' /\ clone'[d.base].forced = d.impl
      BY <1>10 DEF ForcedSoFar, Unopposed
    <2>1. CASE d.base = c.base
      BY <2>1, <1>1, <1>2, <1>5, <1>8 DEF Unopposed
    <2>2. CASE d.base # c.base
      <3>1. d.base \in DOMAIN clone /\ clone[d.base].forced = d.impl
        BY <2>2, <1>2 DEF IInv, ForcedSoFar
      <3> QED
        BY <3>1, <2>2, <1>6, <1>8
    <2> QED
      BY <2>1, <2>2
  <1>12. FallbacksSoFar'
    <2> SUFFICES ASSUME NEW d \in configurators \ todo, d.phase = "fallbacks"
                 PROVE  d.base \in DOMAIN clone' /\ clone'[d.base].impls # {}
      BY <1>1, <1>10 DEF FallbacksSoFar
    <2> QED
      BY <1>2, <1>6, <1>8 DEF IInv, FallbacksSoFar
  <1>13. DefaultsSoFar'
    \* No default has been set before.
    BY <1>1, <1>2, <1>10 DEF IInv, DefaultsSoFar
  <1>14. IndexOfClone'
    BY <1>1, <1>2 DEF IInv, IndexOfClone
  <1> QED
    BY <1>9, <1>11, <1>12, <1>13, <1>14 DEF IInv

\* a default,
LEMMA SetDefaultInvariant ==
  ASSUME IInv, NEW c \in Configurator, SetDefault(c)
  PROVE  IInv'
  <1>1. /\ Turn(c) /\ c.phase = "defaults" /\ c.base \in DOMAIN clone
        /\ Ambiguous(c.base) => c.impl \in clone[c.base].impls
        /\ clone' = IF Ambiguous(c.base) THEN [clone EXCEPT ![c.base].forced = c.impl] ELSE clone
        /\ todo' = todo \ {c} /\ UNCHANGED <<context, pc, index>>
    BY DEF SetDefault
  <1>2. /\ pc = "configuring" /\ c \in todo
        /\ todo \subseteq Configurator /\ todo \subseteq configurators
        /\ \A d \in todo : d.phase = "defaults"
    BY <1>1, TurnFields
  <1>3. IsRegistry(clone) /\ Consistent(clone)
    BY DEF IInv, TypeOK, RegistriesConsistent
  <1>4. c.impl # None /\ c.impl \in Concrete
    BY ConfiguratorFields
  <1>5. IsRegistry(clone') /\ Consistent(clone')
    <2>1. CASE Ambiguous(c.base)
      <3>1. c.impl \in DOMAIN clone
        BY <2>1, <1>1, <1>3 DEF Consistent, ImplementationsExact, Implementations
      <3> QED
        BY <3>1, <2>1, <1>1, <1>3, <1>4, ForceConsistent
    <2>2. CASE ~Ambiguous(c.base)
      BY <2>2, <1>1, <1>3
    <2> QED
      BY <2>1, <2>2
  <1>6. /\ DOMAIN clone' = DOMAIN clone
        /\ \A t \in DOMAIN clone : /\ clone'[t].impls = clone[t].impls
                                   /\ clone'[t].forced = IF t = c.base /\ Ambiguous(t) THEN c.impl
                                                         ELSE clone[t].forced
    <2>1. \A t \in DOMAIN clone : clone[t] \in Descriptor
      BY <1>3 DEF IsRegistry
    <2> QED
      BY <2>1, <1>1 DEF Descriptor
  <1>7. TypeOK' /\ RegistriesConsistent' /\ Confluent'
    BY <1>1, <1>2, <1>5, ContextUnchanged
  <1>8. configurators' \ todo' = (configurators \ todo) \union {c} /\ configurators' = configurators
    BY <1>1, <1>2 DEF context
  <1>9. ForcedSoFar'
    <2> SUFFICES ASSUME NEW d \in (configurators \ todo) \union {c},
                        d.phase = "forcing", Unopposed(d)
                 PROVE  d.base \in DOMAIN clone' /\ clone'[d.base].forced = d.impl
      BY <1>8 DEF ForcedSoFar, Unopposed
    <2>1. d \in configurators \ todo
      BY <1>1
    <2>2. d.base \in DOMAIN clone /\ clone[d.base].forced = d.impl
      BY <2>1, <1>2 DEF IInv, ForcedSoFar
    <2>3. d.impl # None
      BY <2>1, ConfiguratorFields DEF IInv, TypeOK
    <2>4. ~Ambiguous(d.base)
      BY <2>2, <2>3 DEF Ambiguous, Primary
    <2> QED
      BY <2>2, <2>4, <1>6
  <1>10. FallbacksSoFar'
    <2> SUFFICES ASSUME NEW d \in configurators \ todo, d.phase = "fallbacks"
                 PROVE  d.base \in DOMAIN clone' /\ clone'[d.base].impls # {}
      BY <1>1, <1>8 DEF FallbacksSoFar
    <2> QED
      BY <1>2, <1>6 DEF IInv, FallbacksSoFar
  <1>11. DefaultsSoFar'
    <2> SUFFICES ASSUME NEW d \in (configurators \ todo) \union {c}, d.phase = "defaults"
                 PROVE  d.base \in DOMAIN clone /\ ~Ambiguous(d.base)'
      BY <1>1, <1>2, <1>6, <1>8 DEF DefaultsSoFar
    <2>1. d.base \in DOMAIN clone /\ (d.base # c.base => ~Ambiguous(d.base))
      BY <1>1, <1>2 DEF IInv, DefaultsSoFar
    <2>2. CASE Ambiguous(d.base)
      \* It is a primary implementation that c gives to its base.
      <3>1. clone'[d.base].forced = c.impl
        BY <2>1, <2>2, <1>6
      <3> QED
        BY <3>1, <2>1, <1>4 DEF Ambiguous, Primary
    <2>3. CASE ~Ambiguous(d.base)
      BY <2>1, <2>3, <1>6 DEF Ambiguous, Primary
    <2> QED
      BY <2>1, <2>2, <2>3
  <1>12. IndexOfClone'
    BY <1>1, <1>2 DEF IInv, IndexOfClone
  <1> QED
    BY <1>7, <1>9, <1>10, <1>11, <1>12 DEF IInv

\* a configurator that raises, which ends the lifecycle,
LEMMA ConfiguratorRaisesInvariant ==
  ASSUME IInv, NEW c \in Configurator, ConfiguratorRaises(c)
  PROVE  IInv'
  <1>1. /\ pc = "configuring" /\ pc' = "open" /\ clone' = EmptyRegistry /\ todo' = {}
        /\ UNCHANGED context /\ UNCHANGED index
    BY TurnFields DEF ConfiguratorRaises
  <1>2. TypeOK' /\ RegistriesConsistent' /\ Confluent'
    BY <1>1, EmptyConsistent, ContextUnchanged
  <1>3. ForcedSoFar' /\ FallbacksSoFar' /\ DefaultsSoFar' /\ IndexOfClone'
    BY <1>1 DEF IInv, ForcedSoFar, FallbacksSoFar, DefaultsSoFar, IndexOfClone
  <1> QED
    BY <1>2, <1>3 DEF IInv

\* entering the business context,
LEMMA EnterBusinessInvariant ==
  ASSUME IInv, EnterBusiness
  PROVE  IInv'
  <1>1. /\ pc = "configuring" /\ todo = {} /\ pc' = "running" /\ index' = Index(clone)
        /\ UNCHANGED context /\ UNCHANGED <<clone, todo>>
    BY DEF EnterBusiness
  <1>2. TypeOK' /\ RegistriesConsistent' /\ Confluent'
    BY <1>1, ContextUnchanged DEF IInv, TypeOK, RegistriesConsistent
  <1>3. ForcedSoFar' /\ FallbacksSoFar' /\ DefaultsSoFar'
    BY <1>1 DEF IInv, ForcedSoFar, FallbacksSoFar, DefaultsSoFar, Unopposed, Ambiguous, context
  <1>4. IndexOfClone'
    BY <1>1 DEF IndexOfClone
  <1> QED
    BY <1>2, <1>3, <1>4 DEF IInv

\* and leaving it.
LEMMA EndLifecycleInvariant ==
  ASSUME IInv, EndLifecycle
  PROVE  IInv'
  <1>1. /\ pc = "running" /\ pc' = "open" /\ clone' = EmptyRegistry /\ index' = EmptyRegistry
        /\ UNCHANGED context /\ UNCHANGED todo
    BY DEF EndLifecycle
  <1>2. TypeOK' /\ RegistriesConsistent' /\ Confluent'
    BY <1>1, EmptyConsistent, ContextUnchanged DEF IInv, TypeOK
  <1>3. ForcedSoFar' /\ FallbacksSoFar' /\ DefaultsSoFar' /\ IndexOfClone'
    BY <1>1 DEF ForcedSoFar, FallbacksSoFar, DefaultsSoFar, IndexOfClone
  <1> QED
    BY <1>2, <1>3 DEF IInv

\* No operation at all.
LEMMA StutterInvariant ==
  ASSUME IInv, UNCHANGED vars
  PROVE  IInv'
  <1>1. UNCHANGED context /\ UNCHANGED lifecycle /\ UNCHANGED configurators
    BY DEF vars, context, lifecycle
  <1>2. TypeOK' /\ RegistriesConsistent' /\ Confluent'
    BY <1>1, ContextUnchanged DEF lifecycle, IInv, TypeOK, RegistriesConsistent
  <1>3. ForcedSoFar' /\ FallbacksSoFar' /\ DefaultsSoFar' /\ IndexOfClone'
    BY <1>1, LifecycleUnchanged
  <1> QED
    BY <1>2, <1>3 DEF IInv

\* Every step preserves the inductive invariant.
LEMMA NextInvariant == IInv /\ [Next]_vars => IInv'
  <1> SUFFICES ASSUME IInv, [Next]_vars
               PROVE  IInv'
    OBVIOUS
  <1>1. ASSUME NEW t \in Type, RegisterType(t) \/ RemoveType(t)
        PROVE  IInv'
    BY <1>1, RegisterTypeInvariant, RemoveTypeInvariant
  <1>2. CASE StartLifecycle
    BY <1>2, StartInvariant
  <1>3. ASSUME NEW c \in Configurator,
               AddFallback(c) \/ ForcePrimary(c) \/ SetDefault(c) \/ ConfiguratorRaises(c)
        PROVE  IInv'
    BY <1>3, AddFallbackInvariant, ForcePrimaryInvariant, SetDefaultInvariant,
       ConfiguratorRaisesInvariant
  <1>4. CASE EnterBusiness
    BY <1>4, EnterBusinessInvariant
  <1>5. CASE EndLifecycle
    BY <1>5, EndLifecycleInvariant
  <1>6. CASE UNCHANGED vars
    BY <1>6, StutterInvariant
  <1> QED
    BY <1>1, <1>2, <1>3, <1>4, <1>5, <1>6 DEF Next

\* Every reachable state satisfies the inductive invariant.
THEOREM Invariant == Spec => []IInv
  <1> QED
    BY InitInvariant, NextInvariant, PTL DEF Spec

-----------------------------------------------------------------------------
(***************************************************************************)
(* The properties of the runs, for any program                             *)
(***************************************************************************)
\* Only registries of the program's types are ever reached, with the descriptors that
\* registry/simple.py:49 declares.
THEOREM TypeCorrect == Spec => []TypeOK
  <1>1. IInv => TypeOK
    BY DEF IInv
  <1> QED
    BY <1>1, Invariant, PTL

\* Registering, removing, cloning, forcing (registry/simple.py:293-380): after each of them,
\* each known type knows exactly its known implementations, and what it needs is known.
THEOREM RegistriesConsistentHolds == Spec => []RegistriesConsistent
  <1>1. IInv => RegistriesConsistent
    BY DEF IInv
  <1> QED
    BY <1>1, Invariant, PTL

\* The order of the calls of register() does not matter (registry/simple.py:297).
THEOREM RegistrationConfluentHolds == Spec => []RegistrationConfluent
  <1>1. IInv => RegistrationConfluent
    BY DEF IInv, Confluent, RegistrationConfluent
  <1> QED
    BY <1>1, Invariant, PTL

\* The sort of order() never meets a type it does not know (registry/simple.py:157).
THEOREM PrerequisitesKnownHolds == Spec => []PrerequisitesKnown
  <1>1. ASSUME IInv
        PROVE  PrerequisitesKnown
    <2>1. CASE pc = "running"
      <3>1. index = Index(clone) /\ IsRegistry(clone) /\ Consistent(clone)
        BY <1>1, <2>1 DEF IInv, IndexOfClone, TypeOK, RegistriesConsistent
      <3> QED
        BY <3>1, IndexKnows DEF PrerequisitesKnown
    <2>2. CASE pc # "running"
      BY <1>1, <2>2 DEF IInv, IndexOfClone, EmptyRegistry, PrerequisitesKnown
    <2> QED
      BY <2>1, <2>2
  <1> QED
    BY <1>1, Invariant, PTL

\* What is forced without opposition is primary in the index of every lifecycle
\* (configurator.py:124, phase.py:51).
THEOREM ForcedWinsHolds == Spec => []ForcedWins
  <1>1. ASSUME IInv, pc = "running", NEW c \in configurators, c.phase = "forcing", Unopposed(c)
        PROVE  index[c.base].primary = c.impl
    <2>1. index = Index(clone) /\ todo = {}
      BY <1>1 DEF IInv, IndexOfClone
    <2>2. c.base \in DOMAIN clone /\ clone[c.base].forced = c.impl
      BY <1>1, <2>1 DEF IInv, ForcedSoFar
    <2>3. c.impl # None
      BY ConfiguratorFields, <1>1 DEF IInv, TypeOK
    <2> QED
      BY <2>1, <2>2, <2>3 DEF Index, Primary
  <1>2. IInv => ForcedWins
    BY <1>1 DEF ForcedWins
  <1> QED
    BY <1>2, Invariant, PTL

\* A fallback leaves no base without implementation, a default no base without primary
\* (configurator.py:76, configurator.py:99).
THEOREM ConfiguredResolvesHolds == Spec => []ConfiguredResolves
  <1>1. ASSUME IInv, pc = "running", NEW c \in configurators
        PROVE  /\ c.phase = "fallbacks" => index[c.base].impls # {}
               /\ c.phase = "defaults" /\ index[c.base].impls # {} => index[c.base].primary # None
    <2>1. index = Index(clone) /\ todo = {} /\ IsRegistry(clone) /\ Consistent(clone)
      BY <1>1 DEF IInv, IndexOfClone, TypeOK, RegistriesConsistent
    <2>2. ASSUME c.phase = "fallbacks"
          PROVE  index[c.base].impls # {}
      <3>1. c.base \in DOMAIN clone /\ clone[c.base].impls # {}
        BY <1>1, <2>1, <2>2 DEF IInv, FallbacksSoFar
      <3> QED
        BY <3>1, <2>1 DEF Index
    <2>3. ASSUME c.phase = "defaults", index[c.base].impls # {}
          PROVE  index[c.base].primary # None
      <3>1. c.base \in DOMAIN clone /\ ~Ambiguous(c.base)
        BY <1>1, <2>1, <2>3 DEF IInv, DefaultsSoFar
      <3>2. index[c.base].primary = Primary(clone, c.base) /\ clone[c.base].impls # {}
        BY <3>1, <2>1, <2>3 DEF Index
      <3> QED
        BY <3>1, <3>2, <2>1, PrimaryOfOne DEF Ambiguous
    <2> QED
      BY <2>2, <2>3
  <1>2. IInv => ConfiguredResolves
    BY <1>1 DEF ConfiguredResolves
  <1> QED
    BY <1>2, Invariant, PTL

-----------------------------------------------------------------------------
(***************************************************************************)
(* InstanceIndexes: what an index of a lifecycle answers.  Nothing is ever *)
(* forced there, so the primary implementation of a type implements it.    *)
(***************************************************************************)
Unforced(r) == \A t \in DOMAIN r : r[t].forced = None

Sound(r) == IsRegistry(r) /\ Consistent(r) /\ Unforced(r)

\* Registering, removing and cloning force nothing.
LEMMA SoundOperations ==
  ASSUME NEW r, Sound(r)
  PROVE  /\ \A t \in Type : Sound(Register(r, {t})) /\ Sound(Remove(r, t))
         /\ Sound(Clone(r))
<1>1. IsRegistry(r) /\ Consistent(r) /\ Unforced(r) /\ DOMAIN r \subseteq Type
  BY DEF Sound, IsRegistry
<1>2. ASSUME NEW q, Sound(q), NEW S, S \subseteq Type
      PROVE  Sound(Register(q, S))
  <2>1. IsRegistry(q) /\ Consistent(q) /\ Unforced(q)
    BY <1>2 DEF Sound
  <2>2. IsRegistry(Register(q, S)) /\ Consistent(Register(q, S))
    BY <1>2, <2>1, RegisterConsistent
  <2>3. Unforced(Register(q, S))
    BY <2>1 DEF Register, Unforced
  <2> QED
    BY <2>2, <2>3 DEF Sound
<1>3. Sound(EmptyRegistry)
  BY EmptyConsistent DEF Sound, Unforced, EmptyRegistry
<1>4. Sound(Clone(r))
  BY <1>1, <1>2, <1>3 DEF Clone
<1>5. ASSUME NEW t \in Type
      PROVE  Sound(Register(r, {t})) /\ Sound(Remove(r, t))
  <2>1. Unforced(Remove(r, t))
    BY <1>1 DEF Remove, Unforced
  <2> QED
    BY <1>1, <1>2, <2>1, RemoveConsistent DEF Sound
<1> QED
  BY <1>4, <1>5

\* What an index says of a type that it knows.
LEMMA IndexAnswers ==
  ASSUME NEW r, Sound(r)
  PROVE  /\ DOMAIN Index(r) = DOMAIN r /\ DOMAIN r \subseteq Type
         /\ \A t \in DOMAIN r :
              /\ Index(r)[t].deps = r[t].deps
              /\ Index(r)[t].impls = Implementations(t, DOMAIN r)
              /\ Index(r)[t].primary = Primary(r, t)
              /\ r[t].impls = Implementations(t, DOMAIN r) /\ r[t].forced = None
BY DEF Sound, Index, IsRegistry, Consistent, ImplementationsExact, Unforced

\* The primary implementation of a type is one of its implementations, if there is any.
LEMMA PrimaryImplements ==
  ASSUME NEW r, Sound(r), NEW t \in DOMAIN r
  PROVE  Primary(r, t) \in Implementations(t, DOMAIN r) \union {None}
<1>1. r[t].impls = Implementations(t, DOMAIN r) /\ r[t].forced = None /\ t \in Type
  BY IndexAnswers
<1>2. CASE Hint[t] \in r[t].impls
  BY <1>1, <1>2 DEF Primary
<1>3. CASE Hint[t] \notin r[t].impls /\ Cardinality(r[t].impls) = 1
  <2>1. r[t].impls # {}
    BY <1>3, FS_EmptySet
  <2> QED
    BY <1>1, <1>3, <2>1 DEF Primary
<1>4. CASE Hint[t] \notin r[t].impls /\ Cardinality(r[t].impls) # 1
  BY <1>1, <1>4, TypesAssumption DEF Primary, Implementations
<1> QED
  BY <1>2, <1>3, <1>4

\* An only implementation is the primary one.
LEMMA OnlyIsPrimary ==
  ASSUME NEW r, Sound(r), NEW t \in DOMAIN r, NEW u, r[t].impls = {u}
  PROVE  Primary(r, t) = u
<1>1. r[t].forced = None
  BY IndexAnswers
<1>2. Cardinality({u}) = 1
  BY FS_Singleton
<1>3. CASE Hint[t] \in {u}
  BY <1>1, <1>3 DEF Primary
<1>4. CASE Hint[t] \notin {u}
  BY <1>1, <1>2, <1>4 DEF Primary
<1> QED
  BY <1>3, <1>4

\* Whatever kind a dependency is of, an index chooses known implementations for it.
LEMMA ChosenImplement ==
  ASSUME NEW r, Sound(r), NEW d, d.kind \in Kind
  PROVE  /\ d.type \notin DOMAIN r =>
              Chosen(Index(r), d) = IF d.kind = "simple" THEN {None} ELSE {}
         /\ d.type \in DOMAIN r =>
              /\ Chosen(Index(r), d) \subseteq Implementations(d.type, DOMAIN r) \union {None}
              /\ d.kind = "simple" => Chosen(Index(r), d) = {Primary(r, d.type)}
              /\ d.kind = "optional" => Chosen(Index(r), d) = {Primary(r, d.type)} \ {None}
              /\ d.kind = "collective" => Chosen(Index(r), d) = Implementations(d.type, DOMAIN r)
<1> DEFINE x == Index(r)
<1>1. DOMAIN x = DOMAIN r
  BY IndexAnswers
<1>2. ASSUME d.type \in DOMAIN r
      PROVE  /\ x[d.type].impls = Implementations(d.type, DOMAIN r)
             /\ x[d.type].primary = Primary(r, d.type)
             /\ Primary(r, d.type) \in Implementations(d.type, DOMAIN r) \union {None}
  BY <1>2, IndexAnswers, PrimaryImplements
<1> HIDE DEF x
<1>3. Chosen(x, d) =
        IF d.type \notin DOMAIN x THEN (IF d.kind = "simple" THEN {None} ELSE {})
        ELSE IF d.kind = "simple" THEN {x[d.type].primary}
        ELSE IF d.kind = "optional" THEN {x[d.type].primary} \ {None}
        ELSE x[d.type].impls
  BY DEF Chosen, Kind
<1>4. d.type \notin DOMAIN r => Chosen(x, d) = IF d.kind = "simple" THEN {None} ELSE {}
  BY <1>1, <1>3
<1>5. ASSUME d.type \in DOMAIN r
      PROVE  /\ Chosen(x, d) \subseteq Implementations(d.type, DOMAIN r) \union {None}
             /\ d.kind = "simple" => Chosen(x, d) = {Primary(r, d.type)}
             /\ d.kind = "optional" => Chosen(x, d) = {Primary(r, d.type)} \ {None}
             /\ d.kind = "collective" => Chosen(x, d) = Implementations(d.type, DOMAIN r)
  BY <1>1, <1>2, <1>3, <1>5 DEF Kind
<1> QED
  BY <1>4, <1>5 DEF x

-----------------------------------------------------------------------------
(***************************************************************************)
(* The invariant of InstanceIndexes.  As long as no lifecycle is made while*)
(* another one has not ended, the one that is going on is the one that the *)
(* loopback is bound to; and a lifecycle that runs has an instance of each *)
(* concrete type that it knows.                                            *)
(***************************************************************************)
Going(l) == stage[l] \in {"bound", "running"}

IndexesOfRegistries == \A l \in Lifecycles : \E r : Sound(r) /\ indexes[l] = Index(r)

LiveWhileRunning ==
  \A l \in Lifecycles :
    live[l] = IF stage[l] = "running" THEN DOMAIN indexes[l] \intersect Concrete ELSE {}

OfLifecycles ==
  /\ indexes = [l \in Lifecycles |-> indexes[l]]
  /\ live \in [Lifecycles -> SUBSET Type]

BoundOnce ==
  /\ \A l \in Lifecycles : Going(l) => bound # None
  /\ ~overlap => \A l \in Lifecycles : Going(l) => bound = l

InstancesInv ==
  /\ ITypeOK /\ Sound(registered)
  /\ OfLifecycles /\ IndexesOfRegistries /\ LiveWhileRunning /\ BoundOnce
  /\ ServedByOwn /\ InvocationsFit

\* An index that is empty is one of a registry, too.
LEMMA EmptySound == Sound(EmptyRegistry) /\ Index(EmptyRegistry) = EmptyRegistry
<1>1. Sound(EmptyRegistry)
  BY EmptyConsistent DEF Sound, Unforced, EmptyRegistry
<1>2. Index(EmptyRegistry) = EmptyRegistry
  BY DEF Index, EmptyRegistry
<1> QED
  BY <1>1, <1>2

LEMMA InstancesInit == IInit => InstancesInv
<1> SUFFICES ASSUME IInit PROVE InstancesInv
  OBVIOUS
<1>1. ITypeOK /\ Sound(registered)
  BY EmptySound DEF IInit, ITypeOK, Sound, NoCall
<1>2. IndexesOfRegistries
  BY EmptySound DEF IInit, IndexesOfRegistries
<1>3. OfLifecycles /\ LiveWhileRunning /\ BoundOnce
  BY DEF IInit, OfLifecycles, LiveWhileRunning, BoundOnce, Going
<1>4. ServedByOwn /\ InvocationsFit
  BY DEF IInit, ServedByOwn, InvocationsFit, ArgumentsFit, InvalidForCause, NoCall
<1> QED
  BY <1>1, <1>2, <1>3, <1>4 DEF InstancesInv

\* Outside of an invocation there is nothing to say of one.
LEMMA NoInvocation ==
  ASSUME call = NoCall, UNCHANGED call
  PROVE  ServedByOwn' /\ InvocationsFit'
BY DEF ServedByOwn, InvocationsFit, ArgumentsFit, InvalidForCause, NoCall

\* The context's registry changes, which is nothing to the lifecycles.
LEMMA RegistryChanges ==
  ASSUME InstancesInv, call = NoCall, NEW t \in Type, IRegister(t) \/ IRemove(t)
  PROVE  InstancesInv'
<1>1. Sound(registered')
  BY SoundOperations DEF InstancesInv, IRegister, IRemove
<1>2. UNCHANGED <<stage, indexes, live, bound, call, overlap>>
  BY DEF IRegister, IRemove
<1>3. ITypeOK'
  BY <1>1, <1>2 DEF InstancesInv, ITypeOK, Sound
<1>4. OfLifecycles' /\ IndexesOfRegistries' /\ LiveWhileRunning' /\ BoundOnce'
  BY <1>2 DEF InstancesInv, OfLifecycles, IndexesOfRegistries, LiveWhileRunning, BoundOnce, Going
<1> QED
  BY <1>1, <1>2, <1>3, <1>4, NoInvocation DEF InstancesInv

\* A lifecycle is made: from now on its index is the one that is bound.
LEMMA Makes ==
  ASSUME InstancesInv, call = NoCall, NEW l \in Lifecycles, Make(l)
  PROVE  InstancesInv'
<1>1. PICK r : Sound(r) /\ indexes' = [indexes EXCEPT ![l] = Index(r)]
  BY SoundOperations DEF InstancesInv, Make
<1>2. /\ stage[l] = "new" /\ bound' = l /\ stage' = [stage EXCEPT ![l] = "bound"]
      /\ overlap' = (overlap \/ \E k \in Lifecycles : Going(k))
      /\ UNCHANGED <<registered, live, call>>
  BY DEF Make, Going
<1>3. ITypeOK'
  <2>1. \A k \in Lifecycles : live'[k] # {} => stage'[k] = "running"
    BY <1>2 DEF InstancesInv, ITypeOK
  <2>2. overlap' \in BOOLEAN
    BY <1>2, Zenon DEF InstancesInv, ITypeOK
  <2> QED
    BY <1>2, <2>1, <2>2 DEF InstancesInv, ITypeOK
<1>4. OfLifecycles' /\ IndexesOfRegistries'
  BY <1>1, <1>2 DEF InstancesInv, IndexesOfRegistries, OfLifecycles
<1>5. LiveWhileRunning'
  BY <1>1, <1>2 DEF InstancesInv, LiveWhileRunning, OfLifecycles, ITypeOK
<1>6. BoundOnce'
  <2>1. \A k \in Lifecycles : Going(k)' => k = l \/ Going(k)
    BY <1>2 DEF InstancesInv, ITypeOK, Going
  <2> QED
    BY <1>2, <2>1, IndexesAssumption DEF InstancesInv, BoundOnce
<1> QED
  BY <1>2, <1>3, <1>4, <1>5, <1>6, NoInvocation DEF InstancesInv

\* A lifecycle begins to run, cannot, or is over.
LEMMA Proceeds ==
  ASSUME InstancesInv, call = NoCall, NEW l \in Lifecycles,
         Enter(l) \/ EnterRaises(l) \/ Exit(l)
  PROVE  InstancesInv'
<1>1. /\ Going(l) /\ UNCHANGED <<registered, indexes, bound, call, overlap>>
      /\ \/ /\ stage' = [stage EXCEPT ![l] = "running"]
            /\ live' = [live EXCEPT ![l] = DOMAIN indexes[l] \intersect Concrete]
         \/ /\ stage' = [stage EXCEPT ![l] = "over"]
            /\ live' = [live EXCEPT ![l] = {}]
  <2>1. CASE EnterRaises(l)
    <3>1. live[l] = {}
      BY <2>1 DEF InstancesInv, LiveWhileRunning, EnterRaises
    <3>2. live' = [live EXCEPT ![l] = {}]
      BY <2>1, <3>1 DEF InstancesInv, OfLifecycles, EnterRaises
    <3> QED
      BY <2>1, <3>2 DEF EnterRaises, Going
  <2> QED
    BY <2>1 DEF Enter, Exit, Going
<1>2. ITypeOK'
  BY <1>1 DEF InstancesInv, ITypeOK, OfLifecycles
<1>3. OfLifecycles' /\ IndexesOfRegistries'
  BY <1>1, TypesAssumption DEF InstancesInv, OfLifecycles, IndexesOfRegistries
<1>4. LiveWhileRunning'
  BY <1>1 DEF InstancesInv, LiveWhileRunning, ITypeOK, OfLifecycles
<1>5. BoundOnce'
  <2>1. \A k \in Lifecycles : Going(k)' => Going(k)
    BY <1>1 DEF InstancesInv, ITypeOK, Going
  <2> QED
    BY <1>1, <2>1 DEF InstancesInv, BoundOnce
<1> QED
  BY <1>1, <1>2, <1>3, <1>4, <1>5, NoInvocation DEF InstancesInv

-----------------------------------------------------------------------------
(***************************************************************************)
(* Invocations.                                                            *)
(***************************************************************************)
\* A lifecycle has one instance of a type, so it has as many as there are types.
LEMMA OneInstanceEach ==
  ASSUME NEW l, NEW S, IsFiniteSet(S)
  PROVE  /\ \A u : S = {u} => Cardinality(Instances(l, S)) = 1
         /\ Cardinality(Instances(l, S)) = 1 => \E u : S = {u}
<1> DEFINE T == Instances(l, S)
           f == [t \in S |-> [of |-> l, type |-> t]]
<1>1. ASSUME NEW u, S = {u}
      PROVE  Cardinality(T) = 1
  <2>1. T = {[of |-> l, type |-> u]}
    BY <1>1 DEF Instances
  <2> QED
    BY <2>1, FS_Singleton
<1>2. ASSUME Cardinality(T) = 1
      PROVE  \E u : S = {u}
  <2>1. f \in Surjection(S, T)
    BY DEF Surjection, Instances
  <2>2. IsFiniteSet(T)
    BY <2>1, FS_Surjection
  <2>3. PICK o : T = {o}
    BY <1>2, <2>2, FS_Singleton
  <2>4. PICK u \in S : o = [of |-> l, type |-> u]
    BY <2>3 DEF Instances
  <2>5. ASSUME NEW t \in S PROVE t = u
    <3>1. [of |-> l, type |-> t] \in T
      BY DEF Instances
    <3>2. [of |-> l, type |-> t] = [of |-> l, type |-> u]
      BY <2>3, <2>4, <3>1
    <3> QED
      BY <3>2
  <2> QED
    BY <2>5
<1> QED
  BY <1>1, <1>2

\* An argument with an annotation, as the container reads it
LEMMA AnnotatedArgument ==
  ASSUME NEW s \in Callables, ~Refused(s), NEW i \in Annotated(s)
  PROVE  LET h == s.args[i].hint IN
         /\ h.list \in BOOLEAN /\ h.members \in Seq(Type \union {Other, None})
         /\ DependenciesOf(s)[i] = Unpacked(h)
         /\ Unpacked(h).kind \in Kind /\ Unpacked(h).kind = KindOf(h)
         /\ \A t \in Type : Flattened(h) = {t} => Unpacked(h).type = t
         /\ (\A t \in Type : Flattened(h) # {t}) => Unpacked(h).type = Other
         /\ KindOf(h) # "simple" => \E t : Flattened(h) = {t}
<1> DEFINE h == s.args[i].hint
<1>1. IsSignature(s)
  BY IndexesAssumption
<1>2. i \in DOMAIN s.args /\ h # NoHint /\ s.args[i] \in Argument
  BY <1>1 DEF Annotated, IsSignature
<1>3. h \in Annotation
  BY <1>2 DEF Argument
<1>4. h.list \in BOOLEAN /\ h.members \in Seq(Type \union {Other, None})
  BY <1>3 DEF Annotation
<1>5. IsFiniteSet(Flattened(h))
  <2>1. Flattened(h) \subseteq Type \union {Other}
    BY <1>4 DEF Flattened, Members
  <2>2. IsFiniteSet(Type \union {Other})
    BY TypesAssumption, FS_AddElement
  <2> QED
    BY <2>1, <2>2, FS_Subset
<1>6. DependenciesOf(s)[i] = Unpacked(h) /\ ~UnpackRaises(h)
  BY DEF DependenciesOf, Refused
<1> HIDE DEF h
<1>7. Unpacked(h).kind = KindOf(h) /\ KindOf(h) \in Kind
  BY DEF Unpacked, KindOf, Kind
<1>8. /\ \A t \in Type : Flattened(h) = {t} => Unpacked(h).type = t
      /\ (\A t \in Type : Flattened(h) # {t}) => Unpacked(h).type = Other
  BY DEF Unpacked
<1>9. KindOf(h) # "simple" => \E t : Flattened(h) = {t}
  BY <1>5, <1>6, FS_Singleton DEF UnpackRaises
<1> QED
  BY <1>4, <1>6, <1>7, <1>8, <1>9 DEF h

\* The types that implement what an annotation names, of those that an index knows
Implementing(h, x) ==
  {u \in DOMAIN x \intersect Concrete : \E t \in Flattened(h) : t \in DOMAIN x /\ <<u, t>> \in Subclass}

\* What ArgumentsFit says of one argument.
Fits(h, arg, l, x) ==
  LET known == Instances(l, Implementing(h, x))
  IN  /\ arg \subseteq known
      /\ h.list => arg = known
      /\ ~h.list /\ None \notin Members(h) => Cardinality(arg) = 1
      /\ ~h.list /\ None \in Members(h) => arg = {} \/ Cardinality(arg) = 1
      /\ ~h.list /\ Cardinality(known) = 1 => arg = known
      /\ ~h.list /\ Other \in Members(h) => h.members[1] = None

\* Of an annotation that names one thing, the implementations are those of that, if it is
\* known; if it is the only one, it is the primary one.
LEMMA ImplementingOne ==
  ASSUME NEW r, Sound(r), NEW h, NEW t, Flattened(h) = {t}
  PROVE  /\ Implementing(h, Index(r)) = IF t \in DOMAIN r THEN Implementations(t, DOMAIN r) ELSE {}
         /\ \A u : Implementing(h, Index(r)) = {u} =>
              t \in DOMAIN r /\ Primary(r, t) = u /\ u # None
<1>1. Implementing(h, Index(r)) = IF t \in DOMAIN r THEN Implementations(t, DOMAIN r) ELSE {}
  BY IndexAnswers DEF Implementing, Implementations
<1>2. ASSUME NEW u, Implementing(h, Index(r)) = {u}
      PROVE  t \in DOMAIN r /\ Primary(r, t) = u /\ u # None
  <2>1. t \in DOMAIN r /\ Implementations(t, DOMAIN r) = {u}
    BY <1>1, <1>2
  <2>2. r[t].impls = {u} /\ u \in Concrete
    BY <2>1, IndexAnswers DEF Implementations
  <2> QED
    BY <2>1, <2>2, OnlyIsPrimary, TypesAssumption
<1> QED
  BY <1>1, <1>2

\* A valid dependency is resolved to what fits the annotation; an invalid one is simple, and
\* there is no one implementation of what it names.
LEMMA ResolvedFits ==
  ASSUME NEW r, Sound(r), NEW l, NEW s \in Callables, ~Refused(s), NEW i \in Annotated(s)
  PROVE  LET h == s.args[i].hint
             chosen == Chosen(Index(r), DependenciesOf(s)[i])
         IN  /\ None \notin chosen => Fits(h, Instances(l, chosen), l, Index(r))
             /\ None \in chosen =>
                  /\ ~h.list /\ (None \in Members(h) => Other \in Members(h))
                  /\ Cardinality(Instances(l, Implementing(h, Index(r)))) = 1 =>
                       \A t \in Type : Flattened(h) # {t}
<1> DEFINE h == s.args[i].hint
           d == Unpacked(h)
           x == Index(r)
           C == Chosen(x, d)
           K == Implementing(h, x)
<1>1. /\ h.list \in BOOLEAN /\ h.members \in Seq(Type \union {Other, None})
      /\ DependenciesOf(s)[i] = d /\ d.kind \in Kind /\ d.kind = KindOf(h)
      /\ \A t \in Type : Flattened(h) = {t} => d.type = t
      /\ (\A t \in Type : Flattened(h) # {t}) => d.type = Other
      /\ KindOf(h) # "simple" => \E t : Flattened(h) = {t}
  BY AnnotatedArgument
<1>2. /\ DOMAIN x = DOMAIN r /\ DOMAIN r \subseteq Type /\ IsFiniteSet(DOMAIN r)
      /\ Other \notin DOMAIN r /\ Other # None /\ Other \notin Type
  BY IndexAnswers, IndexesAssumption, TypesAssumption, FS_Subset
<1>3. /\ d.type \notin DOMAIN r => C = IF d.kind = "simple" THEN {None} ELSE {}
      /\ d.type \in DOMAIN r =>
           /\ C \subseteq Implementations(d.type, DOMAIN r) \union {None}
           /\ d.kind = "simple" => C = {Primary(r, d.type)}
           /\ d.kind = "optional" => C = {Primary(r, d.type)} \ {None}
           /\ d.kind = "collective" => C = Implementations(d.type, DOMAIN r)
  BY <1>1, ChosenImplement
<1>4. IsFiniteSet(K)
  <2>1. K \subseteq DOMAIN r
    BY <1>2 DEF Implementing
  <2> QED
    BY <1>2, <2>1, FS_Subset
<1>5. \A t : Flattened(h) = {t} =>
        /\ K = IF t \in DOMAIN r THEN Implementations(t, DOMAIN r) ELSE {}
        /\ \A u : K = {u} => t \in DOMAIN r /\ Primary(r, t) = u /\ u # None
  BY ImplementingOne
<1>6. \A t \in DOMAIN r : None \notin Implementations(t, DOMAIN r)
  BY <1>2, TypesAssumption DEF Implementations
<1> SUFFICES /\ None \notin C => Fits(h, Instances(l, C), l, x)
             /\ None \in C =>
                  /\ ~h.list /\ (None \in Members(h) => Other \in Members(h))
                  /\ Cardinality(Instances(l, K)) = 1 => \A t \in Type : Flattened(h) # {t}
  BY <1>1
<1> HIDE DEF h, d, x, C, K
\* Whether the annotation names one type, or is a simple or another one on something else
<1>7. CASE \E t \in Type : Flattened(h) = {t}
  <2>1. PICK t \in Type : Flattened(h) = {t} /\ d.type = t
    BY <1>1, <1>7
  <2>2. K = (IF t \in DOMAIN r THEN Implementations(t, DOMAIN r) ELSE {})
    BY <1>5, <2>1
  <2>3. \A u : K = {u} => t \in DOMAIN r /\ Primary(r, t) = u /\ u # None
    BY <1>5, <2>1
  <2>4. /\ d.kind = "simple" => \E u : C = {u}
        /\ d.kind = "optional" => C = {} \/ \E u : C = {u}
        /\ d.kind # "simple" => None \notin C
    <3>1. CASE t \notin DOMAIN r
      BY <1>3, <2>1, <3>1
    <3>2. CASE t \in DOMAIN r
      <4>1. d.kind = "simple" => \E u : C = {u}
        BY <1>3, <2>1, <3>2
      <4>2. d.kind = "optional" => None \notin C /\ (C = {} \/ \E u : C = {u})
        BY <1>3, <2>1, <3>2
      <4>3. d.kind = "collective" => None \notin C
        BY <1>3, <1>6, <2>1, <3>2
      <4> QED
        BY <1>1, <4>1, <4>2, <4>3 DEF Kind
    <3> QED
      BY <3>1, <3>2
  <2>5. None \notin C => C \subseteq K
    BY <1>1, <1>3, <2>1, <2>2 DEF Kind
  <2>6. d.kind = "collective" => C = K
    BY <1>3, <2>1, <2>2
  <2>7. ASSUME NEW u, K = {u}, d.kind # "collective" PROVE C = {u} /\ None \notin C
    BY <1>1, <1>3, <2>1, <2>3, <2>7 DEF Kind
  <2>8. Other \notin Members(h) /\ (h.list <=> d.kind = "collective")
        /\ (d.kind = "simple" <=> ~h.list /\ None \notin Members(h))
    <3>1. Other \notin Members(h)
      BY <1>2, <2>1 DEF Flattened
    <3>2. AdmitsNone(h) <=> ~h.list /\ None \in Members(h)
      BY <3>1 DEF AdmitsNone, Members
    <3> QED
      BY <1>1, <3>1, <3>2 DEF KindOf
  <2>9. ASSUME None \notin C PROVE Fits(h, Instances(l, C), l, x)
    <3> DEFINE arg == Instances(l, C)
               known == Instances(l, K)
    <3>1. arg \subseteq known
      BY <2>5, <2>9 DEF Instances
    <3>2. h.list => arg = known
      BY <2>6, <2>8
    <3>3. ~h.list /\ None \notin Members(h) => Cardinality(arg) = 1
      <4>1. \A u : C = {u} => IsFiniteSet(C)
        BY FS_Singleton
      <4> QED
        BY <2>4, <2>8, <4>1, OneInstanceEach
    <3>4. ~h.list /\ None \in Members(h) => arg = {} \/ Cardinality(arg) = 1
      <4>1. \A u : C = {u} => IsFiniteSet(C)
        BY FS_Singleton
      <4>2. C = {} => arg = {}
        BY DEF Instances
      <4>3. ~h.list /\ None \in Members(h) => d.kind = "optional"
        BY <1>1, <2>8 DEF Kind
      <4> HIDE DEF arg
      <4>4. \A u : C = {u} => Cardinality(arg) = 1
        BY <4>1, OneInstanceEach DEF arg
      <4> QED
        BY <2>4, <4>2, <4>3, <4>4
    <3>5. ~h.list /\ Cardinality(known) = 1 => arg = known
      <4>1. Cardinality(known) = 1 => \E u : K = {u}
        BY <1>4, OneInstanceEach
      <4> QED
        BY <2>7, <2>8, <4>1
    <3> HIDE DEF arg, known
    <3> QED
      BY <2>8, <3>1, <3>2, <3>3, <3>4, <3>5 DEF Fits, arg, known, K
  <2>10. ASSUME None \in C
         PROVE  ~h.list /\ None \notin Members(h) /\ Cardinality(Instances(l, K)) # 1
    <3>1. d.kind = "simple"
      BY <2>4, <2>10
    <3>2. Cardinality(Instances(l, K)) = 1 => \E u : K = {u}
      BY <1>4, OneInstanceEach
    <3> QED
      BY <2>7, <2>8, <2>10, <3>1, <3>2
  <2> QED
    BY <2>9, <2>10
<1>8. CASE \A t \in Type : Flattened(h) # {t}
  <2>1. d.type = Other /\ C = (IF d.kind = "simple" THEN {None} ELSE {})
    BY <1>1, <1>2, <1>3, <1>8
  <2>2. ASSUME None \notin C PROVE Fits(h, Instances(l, C), l, x)
    <3>1. d.kind # "simple" /\ C = {}
      BY <2>1, <2>2
    <3>2. PICK t : Flattened(h) = {t} /\ t \notin Type
      BY <1>1, <1>8, <3>1
    <3>3. K = {}
      BY <1>2, <1>5, <3>2
    <3>4. Instances(l, C) = {} /\ Instances(l, K) = {} /\ Cardinality({}) = 0
      BY <3>1, <3>3, FS_EmptySet DEF Instances
    <3>5. ~h.list => AdmitsNone(h)
      BY <1>1, <3>1 DEF KindOf
    <3>6. ~h.list => None \in Members(h)
      BY <3>5 DEF AdmitsNone, Members
    <3>7. ASSUME ~h.list, Other \in Members(h) PROVE h.members[1] = None
      <4>1. \A j \in DOMAIN h.members : h.members[j] \in {Other, None}
        BY <1>2, <3>2, <3>7 DEF Flattened, Members
      <4>2. PICK k \in DOMAIN h.members :
              h.members[k] = None /\ \A j \in DOMAIN h.members : j < k => h.members[j] # Other
        BY <3>5, <3>7 DEF AdmitsNone
      <4>3. 1 \in DOMAIN h.members /\ (k = 1 \/ 1 < k)
        BY <1>1, <4>2
      <4> QED
        BY <4>1, <4>2, <4>3
    <3> QED
      BY <3>4, <3>6, <3>7 DEF Fits, K
  <2>3. ASSUME None \in C PROVE ~h.list /\ (None \in Members(h) => Other \in Members(h))
    <3>1. ~h.list /\ ~AdmitsNone(h)
      BY <1>1, <2>1, <2>3 DEF KindOf
    <3> QED
      BY <3>1 DEF AdmitsNone, Members
  <2> QED
    BY <1>8, <2>2, <2>3
<1> QED
  BY <1>7, <1>8

\* What is called is given instances of the lifecycle that is bound; a dependency is missing
\* only if that one is not running.
LEMMA Served ==
  ASSUME InstancesInv, NEW l \in Lifecycles, NEW s \in Callables, Invoke(l, s)
  PROVE  LET deps == DependenciesOf(s) IN
         /\ bound \in Lifecycles /\ (overlap \/ bound = l)
         /\ call'.outcome \in {"refused", "invalid", "missing", "call raises", "called"}
         /\ call'.outcome = "missing" => overlap
         /\ call'.outcome = "invalid" =>
              ~Refused(s) /\ \E i \in DOMAIN deps : Invalid(bound, deps[i])
         /\ call'.outcome = "called" =>
              /\ ~Refused(s) /\ DOMAIN call'.args = DOMAIN deps
              /\ \A i \in DOMAIN deps :
                   /\ call'.args[i] = Resolved(bound, deps[i])
                   /\ ~Invalid(bound, deps[i]) /\ ~Missing(bound, deps[i])
<1> DEFINE deps == DependenciesOf(s)
<1>1. PICK o \in Outcome(s) :
        call' = [callable |-> s, by |-> l, outcome |-> o,
                 args |-> IF o = "called" THEN [i \in DOMAIN deps |-> Resolved(bound, deps[i])]
                          ELSE <<>>]
  BY DEF Invoke
<1>2. bound \in Lifecycles /\ (overlap \/ bound = l)
  BY DEF Invoke, InstancesInv, ITypeOK, BoundOnce, Going
<1>3. call'.outcome = o
  BY <1>1
<1>4. o \in {"refused", "invalid", "missing", "call raises", "called"}
  BY <1>1 DEF Outcome
<1>5. ASSUME o = "missing" PROVE overlap
  <2>1. PICK i \in DOMAIN deps : ~Invalid(bound, deps[i]) /\ Missing(bound, deps[i])
    BY <1>1, <1>5 DEF Outcome
  <2>2. ~Refused(s) /\ i \in Annotated(s)
    BY <1>1, <1>5, <2>1 DEF Outcome, DependenciesOf
  <2>3. PICK r : Sound(r) /\ indexes[bound] = Index(r)
    BY <1>2 DEF InstancesInv, IndexesOfRegistries
  <2>4. deps[i].kind \in Kind
    BY <2>2, AnnotatedArgument
  <2>5. DOMAIN indexes[bound] = DOMAIN r
    BY <2>3, IndexAnswers
  <2>6. Chosen(indexes[bound], deps[i]) \subseteq DOMAIN r \intersect Concrete
    <3>1. None \notin Chosen(indexes[bound], deps[i])
      BY <2>1 DEF Invalid
    <3>2. CASE deps[i].type \in DOMAIN r
      BY <2>3, <2>4, <3>1, <3>2, ChosenImplement DEF Implementations
    <3>3. CASE deps[i].type \notin DOMAIN r
      BY <2>3, <2>4, <3>1, <3>3, ChosenImplement
    <3> QED
      BY <3>2, <3>3
  <2>7. stage[bound] # "running"
    BY <1>2, <2>1, <2>5, <2>6 DEF Missing, InstancesInv, LiveWhileRunning
  <2> QED
    BY <1>2, <2>7 DEF Invoke
<1>6. ASSUME o = "invalid" PROVE ~Refused(s) /\ \E i \in DOMAIN deps : Invalid(bound, deps[i])
  BY <1>1, <1>6 DEF Outcome
<1>7. ASSUME o = "called"
      PROVE  /\ ~Refused(s) /\ DOMAIN call'.args = DOMAIN deps
             /\ \A i \in DOMAIN deps :
                  /\ call'.args[i] = Resolved(bound, deps[i])
                  /\ ~Invalid(bound, deps[i]) /\ ~Missing(bound, deps[i])
  <2>1. call'.args = [i \in DOMAIN deps |-> Resolved(bound, deps[i])]
    BY <1>1, <1>7
  <2>2. ~Refused(s) /\ \A i \in DOMAIN deps : ~Invalid(bound, deps[i]) /\ ~Missing(bound, deps[i])
    BY <1>1, <1>7 DEF Outcome
  <2> QED
    BY <2>1, <2>2
<1> QED
  BY <1>2, <1>3, <1>4, <1>5, <1>6, <1>7

LEMMA Invokes ==
  ASSUME InstancesInv, NEW l \in Lifecycles, NEW s \in Callables, Invoke(l, s)
  PROVE  InstancesInv'
<1> DEFINE deps == DependenciesOf(s)
<1>1. UNCHANGED <<registered, stage, indexes, live, bound, overlap>>
  BY DEF Invoke
<1>2. call'.callable = s /\ call'.by = l
  BY DEF Invoke
<1>3. DOMAIN deps = Annotated(s)
  BY DEF DependenciesOf
<1>4. /\ bound \in Lifecycles /\ (overlap \/ bound = l)
      /\ call'.outcome \in {"refused", "invalid", "missing", "call raises", "called"}
      /\ call'.outcome = "missing" => overlap
      /\ call'.outcome = "invalid" =>
           ~Refused(s) /\ \E i \in DOMAIN deps : Invalid(bound, deps[i])
      /\ call'.outcome = "called" =>
           /\ ~Refused(s) /\ DOMAIN call'.args = DOMAIN deps
           /\ \A i \in DOMAIN deps :
                /\ call'.args[i] = Resolved(bound, deps[i])
                /\ ~Invalid(bound, deps[i]) /\ ~Missing(bound, deps[i])
  BY Served
<1> HIDE DEF deps
<1>5. ITypeOK'
  BY <1>1, <1>2, <1>4 DEF InstancesInv, ITypeOK
<1>6. ServedByOwn'
  <2>1. ASSUME call'.outcome = "called", NEW i \in DOMAIN call'.args, NEW o \in call'.args[i]
        PROVE  (overlap \/ o.of = l) /\ stage[o.of] = "running"
    <3>1. i \in DOMAIN deps /\ o \in Resolved(bound, deps[i]) /\ ~Missing(bound, deps[i])
      BY <1>4, <2>1
    <3>2. o.of = bound /\ live[bound] # {}
      BY <3>1 DEF Resolved, Instances, Missing
    <3> QED
      BY <1>4, <3>2 DEF InstancesInv, ITypeOK
  <2> QED
    BY <1>1, <1>2, <1>4, <2>1 DEF ServedByOwn
<1>7. ArgumentsFit'
  <2>1. ASSUME call'.outcome = "called", NEW i \in Annotated(s)
        PROVE  i \in DOMAIN call'.args
               /\ Fits(s.args[i].hint, call'.args[i], bound, indexes[bound])
    <3>1. ~Refused(s) /\ i \in DOMAIN deps /\ i \in DOMAIN call'.args
      BY <1>3, <1>4, <2>1
    <3>2. call'.args[i] = Resolved(bound, deps[i]) /\ ~Invalid(bound, deps[i])
      BY <1>4, <2>1, <3>1
    <3>3. PICK r : Sound(r) /\ indexes[bound] = Index(r)
      BY <1>4 DEF InstancesInv, IndexesOfRegistries
    <3>4. None \notin Chosen(Index(r), deps[i])
      BY <3>2, <3>3 DEF Invalid
    <3>5. Fits(s.args[i].hint, Instances(bound, Chosen(Index(r), deps[i])), bound, Index(r))
      BY <3>1, <3>3, <3>4, ResolvedFits DEF deps
    <3> QED
      BY <3>1, <3>2, <3>3, <3>5 DEF Resolved
  <2> QED
    BY <1>1, <1>2, <2>1 DEF ArgumentsFit, Fits, Known, Implementing
<1>8. InvalidForCause'
  <2>0. bound' = bound /\ indexes' = indexes /\ call'.callable = s
    BY <1>1, <1>2
  <2> SUFFICES ASSUME call'.outcome = "invalid"
               PROVE  \E i \in Annotated(s) :
                        LET h == s.args[i].hint
                        IN  /\ ~h.list /\ (None \in Members(h) => Other \in Members(h))
                            /\ Cardinality(Instances(bound, Implementing(h, indexes[bound]))) = 1 =>
                                 \A t \in Type : Flattened(h) # {t}
    BY <2>0, ZenonT(60) DEF InvalidForCause, Known, Implementing
  <2>1. PICK i \in DOMAIN deps : Invalid(bound, deps[i])
    BY <1>4
  <2>2. i \in Annotated(s) /\ ~Refused(s)
    BY <1>3, <1>4
  <2>3. PICK r : Sound(r) /\ indexes[bound] = Index(r)
    BY <1>4 DEF InstancesInv, IndexesOfRegistries
  <2>4. None \in Chosen(Index(r), deps[i])
    BY <2>1, <2>3 DEF Invalid
  <2>5. LET h == s.args[i].hint
        IN  /\ ~h.list /\ (None \in Members(h) => Other \in Members(h))
            /\ Cardinality(Instances(bound, Implementing(h, Index(r)))) = 1 =>
                 \A t \in Type : Flattened(h) # {t}
    BY <2>2, <2>3, <2>4, ResolvedFits DEF deps
  <2> QED
    BY <2>2, <2>3, <2>5
<1>9. /\ OfLifecycles' /\ IndexesOfRegistries' /\ LiveWhileRunning' /\ BoundOnce'
      /\ Sound(registered)'
  BY <1>1 DEF InstancesInv, OfLifecycles, IndexesOfRegistries, LiveWhileRunning, BoundOnce, Going
<1> QED
  BY <1>5, <1>6, <1>7, <1>8, <1>9 DEF InstancesInv, InvocationsFit

LEMMA InstancesNext == InstancesInv /\ [INext]_ivars => InstancesInv'
<1> SUFFICES ASSUME InstancesInv, [INext]_ivars PROVE InstancesInv'
  OBVIOUS
<1>1. ASSUME call = NoCall, NEW t \in Type, IRegister(t) \/ IRemove(t) PROVE InstancesInv'
  BY <1>1, RegistryChanges
<1>2. ASSUME call = NoCall, NEW l \in Lifecycles, Make(l) \/ Enter(l) \/ EnterRaises(l) \/ Exit(l)
      PROVE  InstancesInv'
  BY <1>2, Makes, Proceeds
<1>3. ASSUME NEW l \in Lifecycles, NEW s \in Callables, Invoke(l, s) PROVE InstancesInv'
  BY <1>3, Invokes
<1>4. CASE Return \/ UNCHANGED ivars
  <2>1. UNCHANGED <<registered, stage, indexes, live, bound, overlap>>
    BY <1>4 DEF Return, ivars
  <2>2. /\ OfLifecycles' /\ IndexesOfRegistries' /\ LiveWhileRunning' /\ BoundOnce'
        /\ Sound(registered)'
    BY <2>1
       DEF InstancesInv, OfLifecycles, IndexesOfRegistries, LiveWhileRunning, BoundOnce, Going
  <2>3. CASE Return
    <3>1. call' = NoCall
      BY <2>3 DEF Return
    <3>2. ITypeOK'
      BY <2>1, <3>1 DEF InstancesInv, ITypeOK, NoCall
    <3>3. ServedByOwn' /\ InvocationsFit'
      BY <3>1 DEF ServedByOwn, InvocationsFit, ArgumentsFit, InvalidForCause, NoCall
    <3> QED
      BY <2>2, <3>2, <3>3 DEF InstancesInv
  <2>4. CASE UNCHANGED call
    <3>1. ITypeOK'
      BY <2>1, <2>4 DEF InstancesInv, ITypeOK
    <3>2. ServedByOwn'
      BY <2>1, <2>4 DEF InstancesInv, ServedByOwn
    <3>3. InvocationsFit'
      <4>1. ArgumentsFit'
        <5>1. ArgumentsFit /\ call' = call /\ bound' = bound /\ indexes' = indexes
          BY <2>1, <2>4 DEF InstancesInv, InvocationsFit
        <5>2. call.outcome = "called" =>
                \A i \in Annotated(call.callable) :
                  i \in DOMAIN call.args
                  /\ Fits(call.callable.args[i].hint, call.args[i], bound, indexes[bound])
          BY <5>1 DEF ArgumentsFit, Fits, Known, Implementing
        <5>3. call'.outcome = "called" =>
                \A i \in Annotated(call'.callable) :
                  i \in DOMAIN call'.args
                  /\ Fits(call'.callable.args[i].hint, call'.args[i], bound', indexes'[bound'])
          BY <5>1, <5>2, Zenon
        <5> QED
          BY <5>3 DEF ArgumentsFit, Fits, Known, Implementing
      <4>2. InvalidForCause'
        <5>1. InvalidForCause /\ call' = call /\ bound' = bound /\ indexes' = indexes
          BY <2>1, <2>4 DEF InstancesInv, InvocationsFit
        <5> QED
          BY <5>1, ZenonT(60) DEF InvalidForCause, Known
      <4> QED
        BY <4>1, <4>2 DEF InvocationsFit
    <3> QED
      BY <2>2, <3>1, <3>2, <3>3 DEF InstancesInv
  <2> QED
    BY <1>4, <2>3, <2>4 DEF ivars
<1> QED
  BY <1>1, <1>2, <1>3, <1>4 DEF INext

-----------------------------------------------------------------------------
(***************************************************************************)
(* Indexes that are made of indexes.                                       *)
(***************************************************************************)
\* What is primary in an index without a type is primary, or nothing is, once the type is
\* removed from the registry.
LEMMA WithoutPrimary ==
  ASSUME NEW r, Sound(r), NEW t \in DOMAIN r, NEW u \in DOMAIN r, u # t, Primary(r, u) # t,
         Primary(r, u) # None
  PROVE  Primary(Remove(r, t), u) = Primary(r, u)
<1> DEFINE q == Remove(r, t)
<1>1. t \in Type /\ Sound(q) /\ DOMAIN q = DOMAIN r \ {t}
  BY IndexAnswers, SoundOperations DEF Remove
<1>2. /\ r[u].forced = None /\ q[u].forced = None /\ u \in DOMAIN q
      /\ r[u].impls = Implementations(u, DOMAIN r)
      /\ q[u].impls = Implementations(u, DOMAIN r) \ {t}
  BY <1>1, IndexAnswers DEF Implementations
<1> DEFINE R == r[u].impls
           Q == q[u].impls
<1>3. Q = R \ {t} /\ Primary(r, u) \in R
  BY <1>2, PrimaryImplements
<1>4. /\ Primary(r, u) = IF Hint[u] \in R THEN Hint[u]
                         ELSE IF Cardinality(R) = 1 THEN CHOOSE v \in R : TRUE
                         ELSE IF u \in Concrete THEN u ELSE None
      /\ Primary(q, u) = IF Hint[u] \in Q THEN Hint[u]
                         ELSE IF Cardinality(Q) = 1 THEN CHOOSE v \in Q : TRUE
                         ELSE IF u \in Concrete THEN u ELSE None
  BY <1>2 DEF Primary
<1>5. IsFiniteSet(R) /\ IsFiniteSet(Q)
  <2>1. R \subseteq Type /\ Q \subseteq Type
    BY <1>2, TypesAssumption DEF Implementations
  <2> QED
    BY <2>1, TypesAssumption, FS_Subset
<1> SUFFICES Primary(q, u) = Primary(r, u)
  OBVIOUS
<1> HIDE DEF q, R, Q
<1>6. CASE Hint[u] \in R
  BY <1>3, <1>4, <1>6
<1>7. CASE Hint[u] \notin R /\ Cardinality(R) = 1
  <2>1. PICK v : R = {v}
    BY <1>5, <1>7, FS_Singleton
  <2>2. Primary(r, u) = v /\ v # t /\ Q = R
    BY <1>3, <2>1
  <2> QED
    BY <1>4, <1>7, <2>2
<1>8. CASE Hint[u] \notin R /\ Cardinality(R) # 1
  <2>1. Primary(r, u) = u /\ u \in Concrete /\ Hint[u] \notin Q
    BY <1>3, <1>4, <1>8
  <2>2. u \in Q
    BY <1>3, <2>1
  <2>3. CASE Cardinality(Q) = 1
    <3>1. PICK v : Q = {v}
      BY <1>5, <2>3, FS_Singleton
    <3> QED
      BY <1>4, <2>1, <2>2, <2>3, <3>1
  <2>4. CASE Cardinality(Q) # 1
    BY <1>4, <2>1, <2>4
  <2> QED
    BY <2>3, <2>4
<1> QED
  BY <1>6, <1>7, <1>8

LEMMA WithoutIsRemoved == Sound(registered) => WithoutAgrees
<1> SUFFICES ASSUME Sound(registered), NEW t \in DOMAIN registered
             PROVE  LET w == Without(Index(registered), {t})
                        q == Index(Remove(registered, t))
                    IN  /\ DOMAIN w = DOMAIN q
                        /\ \A u \in DOMAIN w : /\ w[u].deps = q[u].deps /\ w[u].impls = q[u].impls
                                               /\ w[u].primary \in {None, q[u].primary}
  BY DEF WithoutAgrees
<1> DEFINE r == registered
           w == Without(Index(r), {t})
           q == Index(Remove(r, t))
<1>1. Sound(r) /\ Sound(Remove(r, t)) /\ DOMAIN Remove(r, t) = DOMAIN r \ {t}
  BY SoundOperations, IndexAnswers DEF Remove
<1>2. DOMAIN w = DOMAIN r \ {t} /\ DOMAIN q = DOMAIN r \ {t}
  BY <1>1, IndexAnswers DEF Without
<1>3. ASSUME NEW u \in DOMAIN r \ {t}
      PROVE  /\ w[u].deps = q[u].deps /\ w[u].impls = q[u].impls
             /\ w[u].primary \in {None, q[u].primary}
  <2>1. /\ w[u].deps = {d \in r[u].deps : d.type \notin {t}}
        /\ w[u].impls = r[u].impls \ {t}
        /\ w[u].primary = IF Primary(r, u) = t THEN None ELSE Primary(r, u)
    BY <1>3 DEF Without, Index
  <2>2. /\ q[u].deps = {d \in r[u].deps : d.type # t}
        /\ q[u].impls = r[u].impls \ {t}
        /\ q[u].primary = Primary(Remove(r, t), u)
    BY <1>1, <1>3 DEF Remove, Index
  <2>3. w[u].primary \in {None, q[u].primary}
    BY <1>1, <1>3, <2>1, <2>2, WithoutPrimary
  <2> QED
    BY <2>1, <2>2, <2>3
<1> HIDE DEF w, q
<1>4. DOMAIN w = DOMAIN q /\ \A u \in DOMAIN w : /\ w[u].deps = q[u].deps /\ w[u].impls = q[u].impls
                                                 /\ w[u].primary \in {None, q[u].primary}
  BY <1>2, <1>3
<1> QED
  BY <1>4 DEF w, q, r

\* If the first of two indexes has nothing to say, the second one answers.
LEMMA SecondAnswers ==
  ASSUME NEW answers, NEW nothing, DOMAIN answers = 1..2, answers[1] = nothing
  PROVE  FirstOf(answers, nothing) = answers[2]
<1> DEFINE telling == {i \in DOMAIN answers : answers[i] # nothing}
<1>1. CASE answers[2] = nothing
  <2>1. telling = {}
    BY <1>1
  <2> QED
    BY <1>1, <2>1 DEF FirstOf
<1>2. CASE answers[2] # nothing
  <2>1. telling = {2}
    BY <1>2
  <2>2. Min({2}) = 2
    BY DEF Min
  <2> QED
    BY <2>1, <2>2 DEF FirstOf
<1> QED
  BY <1>1, <1>2

LEMMA UnionIsIndex == Sound(registered) => UnionAgrees
<1> DEFINE business == Index(registered)
           both == <<Configuring, business>>
<1>1. DOMAIN both = 1..2 /\ both[1] = Configuring /\ both[2] = business
  OBVIOUS
<1>2. UnionKnown(both) = DOMAIN Configuring \union DOMAIN business
  BY <1>1 DEF UnionKnown
<1> HIDE DEF business, both
<1>3. ASSUME NEW t \in UnionKnown(both) \ DOMAIN Configuring
      PROVE  /\ UnionDependencies(both, t) = business[t].deps
             /\ UnionImplementations(both, t) = business[t].impls
             /\ UnionPrimary(both, t) = business[t].primary
  <2>1. t \in DOMAIN business
    BY <1>2, <1>3
  <2>2. UnionDependencies(both, t) = Dependencies(business, t)
    BY <1>1, <1>3, SecondAnswers DEF UnionDependencies, Dependencies
  <2>3. UnionImplementations(both, t) = ImplementationsOf(business, t)
    BY <1>1, <1>3, SecondAnswers DEF UnionImplementations, ImplementationsOf
  <2>4. UnionPrimary(both, t) = PrimaryImplementation(business, t)
    BY <1>1, <1>3, SecondAnswers DEF UnionPrimary, PrimaryImplementation
  <2> QED
    BY <2>1, <2>2, <2>3, <2>4 DEF Dependencies, ImplementationsOf, PrimaryImplementation
<1> QED
  BY <1>3 DEF UnionAgrees, business, both

-----------------------------------------------------------------------------
(***************************************************************************)
(* What the run of InstanceIndexes checks, for any types, lifecycles and   *)
(* callables                                                               *)
(***************************************************************************)
\* What the loopback serves from, and what it may have instances of, at any time.
THEOREM InstancesInvariant == ISpec => []InstancesInv
<1> QED
  BY InstancesInit, InstancesNext, PTL DEF ISpec

\* The types of registry, lifecycles and invocations
THEOREM InstancesTyped == ISpec => []ITypeOK
<1>1. InstancesInv => ITypeOK
  BY DEF InstancesInv
<1> QED
  BY <1>1, InstancesInvariant, PTL

\* Whoever is invoked is given living instances, and of his own lifecycle, as long as no
\* two lifecycles of a context or its clones overlap (context/simple.py:123).
THEOREM ServedByOwnHolds == ISpec => []ServedByOwn
<1>1. InstancesInv => ServedByOwn
  BY DEF InstancesInv
<1> QED
  BY <1>1, InstancesInvariant, PTL

\* What is invoked gets in each annotated argument what the annotation asks for, whatever its
\* shape, or the invocation is invalid because there is no such thing, however types were
\* registered, removed and cloned before (common/dependencies.py, invoker/contextful.py).
THEOREM InvocationsFitHolds == ISpec => []InvocationsFit
<1>1. InstancesInv => InvocationsFit
  BY DEF InstancesInv
<1> QED
  BY <1>1, InstancesInvariant, PTL

\* without() and TypeIndexUnion answer as the registries that they stand for
\* (registry/simple.py, registry/delegating.py).
THEOREM IndexesAgreeHold == ISpec => []IndexesAgree
<1>1. InstancesInv => IndexesAgree
  BY WithoutIsRemoved, UnionIsIndex DEF InstancesInv, IndexesAgree
<1> QED
  BY <1>1, InstancesInvariant, PTL

=============================================================================
