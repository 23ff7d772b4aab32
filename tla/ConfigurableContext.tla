------------------------- MODULE ConfigurableContext -------------------------
(***************************************************************************)
(* ConfigurableContext (context/configurable): types are registered with   *)
(* it and removed from it; each lifecycle clones its registry, has the     *)
(* configurators change the clone, phase by phase, and takes the index of  *)
(* what they have made of it.                                              *)
(*                                                                         *)
(* Only the business context changes; the configurators are given.         *)
(***************************************************************************)
EXTENDS TypeRegistry

CONSTANT Configurator  \* the configurators that may be there, see ConfiguratorType

Phase == {"fallbacks", "forcing", "defaults"}

\* A configurator maps one type to an implementation; one of several such
\* entries is as good as several configurators.
ConfiguratorType == [phase : Phase, base : Type, impl : Concrete]

ASSUME ConfiguratorsAssumption ==
  /\ Configurator \subseteq ConfiguratorType
  /\ \A c \in Configurator : <<c.impl, c.base>> \in Subclass

VARIABLES
  registry,       \* business_context.registry of the context
  configurators,  \* those that are registered with the context
  pc,             \* "open", or in a lifecycle: "configuring", "running"
  clone,          \* registry of the cloned business context
  todo,           \* configurators that have not run yet in this lifecycle
  index,          \* the index of the lifecycle that is running
  \* History:
  asked,          \* the types that were asked to be registered, until one was removed
  removed         \* whether any were removed

vars == <<registry, configurators, pc, clone, todo, index, asked, removed>>

context   == <<registry, configurators, asked, removed>>
lifecycle == <<pc, clone, todo, index>>

Init ==
  /\ registry = EmptyRegistry
  /\ configurators \in SUBSET Configurator
  /\ pc = "open"
  /\ clone = EmptyRegistry /\ todo = {} /\ index = EmptyRegistry
  /\ asked = {} /\ removed = FALSE

RegisterType(t) ==
  /\ registry' = Register(registry, {t})
  /\ asked' = IF removed THEN {} ELSE asked \union {t}
  /\ UNCHANGED <<configurators, removed, lifecycle>>

RemoveType(t) ==
  /\ registry' = Remove(registry, t)
  /\ asked' = {} /\ removed' = TRUE
  /\ UNCHANGED <<configurators, lifecycle>>

\* lifecycle(), and entering the configurators' context
StartLifecycle ==
  /\ pc = "open"
  /\ clone' = Clone(registry)
  /\ todo' = configurators
  /\ pc' = "configuring"
  /\ UNCHANGED <<context, index>>

\* The order of the phases, by their dependencies and then their names: AddingFallbackImpls,
\* ForcingPrimaries, SettingDefaultPrimaries.  Within a phase the names decide, which are
\* not modelled.
Before(p, q) ==
  \/ p = "fallbacks" /\ q # "fallbacks"
  \/ p = "forcing" /\ q = "defaults"

\* It is the turn of configurator c.
Turn(c) ==
  /\ pc = "configuring"
  /\ c \in todo
  /\ ~ \E d \in todo : Before(d.phase, c.phase)

\* FallbacksProvider.configure_context
AddFallback(c) ==
  /\ Turn(c) /\ c.phase = "fallbacks"
  /\ c.base \in DOMAIN clone
  /\ clone' = IF clone[c.base].impls = {} THEN Register(clone, {c.impl}) ELSE clone
  /\ todo' = todo \ {c}
  /\ UNCHANGED <<context, pc, index>>

\* Mutant of ForcePrimary: the implementation is not registered.
ForceUnregistered(c) ==
  /\ Turn(c) /\ c.phase = "forcing"
  /\ c.base \in DOMAIN clone
  /\ clone' = [clone EXCEPT ![c.base].forced = c.impl]
  /\ todo' = todo \ {c}
  /\ UNCHANGED <<context, pc, index>>

\* ForcedPrimaryImplementations.configure_context
ForcePrimary(c) ==
  /\ Turn(c) /\ c.phase = "forcing"
  /\ c.base \in DOMAIN clone
  /\ LET with == IF c.impl \in clone[c.base].impls THEN clone ELSE Register(clone, {c.impl})
     IN clone' = [with EXCEPT ![c.base].forced = c.impl]
  /\ todo' = todo \ {c}
  /\ UNCHANGED <<context, pc, index>>

\* Mutant of Ambiguous: two implementations are not many.
AmbiguousOfThree(t) ==
  t \in DOMAIN clone /\ Primary(clone, t) = None /\ Cardinality(clone[t].impls) > 2

\* There are several implementations, and none is primary.
Ambiguous(t) ==
  t \in DOMAIN clone /\ Primary(clone, t) = None /\ Cardinality(clone[t].impls) > 1

\* Mutant of SetDefault: the default wins over a forced primary.
OverwriteDefault(c) ==
  /\ Turn(c) /\ c.phase = "defaults"
  /\ c.base \in DOMAIN clone
  /\ clone' = IF Cardinality(clone[c.base].impls) > 1 /\ c.impl \in clone[c.base].impls
              THEN [clone EXCEPT ![c.base].forced = c.impl] ELSE clone
  /\ todo' = todo \ {c}
  /\ UNCHANGED <<context, pc, index>>

\* DefaultPrimaryImplementations.configure_context
SetDefault(c) ==
  /\ Turn(c) /\ c.phase = "defaults"
  /\ c.base \in DOMAIN clone
  /\ Ambiguous(c.base) => c.impl \in clone[c.base].impls
  /\ clone' = IF Ambiguous(c.base) THEN [clone EXCEPT ![c.base].forced = c.impl] ELSE clone
  /\ todo' = todo \ {c}
  /\ UNCHANGED <<context, pc, index>>

\* The base is not registered, or the default is not one of several implementations.
ConfiguratorRaises(c) ==
  /\ Turn(c)
  /\ \/ c.base \notin DOMAIN clone
     \/ c.phase = "defaults" /\ Ambiguous(c.base) /\ c.impl \notin clone[c.base].impls
  /\ pc' = "open"
  /\ clone' = EmptyRegistry /\ todo' = {}
  /\ UNCHANGED <<context, index>>

\* The business context is entered with the index of the clone.
EnterBusiness ==
  /\ pc = "configuring" /\ todo = {}
  /\ index' = Index(clone)
  /\ pc' = "running"
  /\ UNCHANGED <<context, clone, todo>>

EndLifecycle ==
  /\ pc = "running"
  /\ pc' = "open"
  /\ clone' = EmptyRegistry /\ index' = EmptyRegistry
  /\ UNCHANGED <<context, todo>>

Next ==
  \/ \E t \in Type : RegisterType(t) \/ RemoveType(t)
  \/ StartLifecycle
  \/ \E c \in Configurator :
       AddFallback(c) \/ ForcePrimary(c) \/ SetDefault(c) \/ ConfiguratorRaises(c)
  \/ EnterBusiness \/ EndLifecycle

Spec == Init /\ [][Next]_vars

-----------------------------------------------------------------------------
(***************************************************************************)
(* Properties                                                              *)
(***************************************************************************)
TypeOK ==
  /\ IsRegistry(registry) /\ IsRegistry(clone)
  /\ configurators \subseteq Configurator /\ todo \subseteq configurators
  /\ pc \in {"open", "configuring", "running"}
  /\ asked \subseteq Type /\ removed \in BOOLEAN

\* However registrations, removals and configurators follow each other, each known type
\* knows exactly its known implementations, and whatever it needs is known
\* (registry/simple.py:293-332).
RegistriesConsistent == Consistent(registry) /\ Consistent(clone)

\* The order in which types are registered does not matter: as long as none is removed,
\* the registry is what it would be, had all of them been registered at once
\* (registry/simple.py:297, where a known type is not scanned again).
RegistrationConfluent == ~removed => registry = Register(EmptyRegistry, asked)

\* order() finds each prerequisite of a concrete type among the concrete types of the
\* index (registry/simple.py:157), unless a dependency is not resolved at all.
PrerequisitesKnown ==
  \A t \in DOMAIN index \intersect Concrete :
    Resolves(index, t) => Prerequisites(index, t) \subseteq DOMAIN index \intersect Concrete

\* No other configurator forces something else.
Unopposed(c) ==
  \A d \in configurators : d.phase = "forcing" /\ d.base = c.base => d.impl = c.impl

\* What one configurator forces is the primary implementation, whatever the defaults and
\* the fallbacks say, and although its phase comes before that of the defaults
\* (phase.py:51, configurator.py:104).
ForcedWins ==
  pc = "running" =>
    \A c \in configurators : c.phase = "forcing" /\ Unopposed(c) => index[c.base].primary = c.impl

\* A type with a fallback has an implementation, and one with a default is not ambiguous:
\* with any implementation it has a primary one (configurator.py:76, configurator.py:99).
ConfiguredResolves ==
  pc = "running" =>
    \A c \in configurators :
      /\ c.phase = "fallbacks" => index[c.base].impls # {}
      /\ c.phase = "defaults" /\ index[c.base].impls # {} => index[c.base].primary # None

=============================================================================
