-------------------------- MODULE InstanceIndexes --------------------------
(***************************************************************************)
(* Lookups and invocations through the InstanceIndex (context/simple.py,   *)
(* invoker/contextful.py), over several lifecycles of one context, or of   *)
(* it and its clones.                                                      *)
(*                                                                         *)
(* A component does not get the index of its own lifecycle, but an         *)
(* instance of the context's loopback type, which serves from the index    *)
(* that was bound to the type most recently.  Clones share it.             *)
(*                                                                         *)
(* What goes wrong within one lifecycle is in ContextLifecycle.            *)
(***************************************************************************)
EXTENDS TypeIndexes, InjectionPoints

CONSTANTS
  Lifecycles,   \* SimpleInstanceIndex objects
  Callables,    \* signatures of what is invoked
  Configuring   \* index of the configurators' context, see UnionAgrees

ASSUME IndexesAssumption ==
  /\ \A s \in Callables : IsSignature(s)
  /\ DOMAIN Configuring \subseteq Type /\ None \notin Lifecycles
  /\ Other \notin Type \union {None}

VARIABLES
  registered, \* the context's registry
  stage,     \* lifecycle |-> "new", "bound", "running", "over"
  indexes,   \* lifecycle |-> its TypeIndex
  live,      \* lifecycle |-> _lifecycles, the types it has instances of
  bound,     \* __loopback_delegate__ of the loopback type
  call,      \* the invocation: the signature, who invokes, and what comes of it
  \* History:
  overlap    \* a lifecycle was made while another one had not ended

ivars == <<registered, stage, indexes, live, bound, call, overlap>>

Instance == [of : Lifecycles, type : Concrete]

Instances(l, types) == {[of |-> l, type |-> t] : t \in types}

NoCall == [callable |-> None, by |-> None, outcome |-> "none", args |-> <<>>]

-----------------------------------------------------------------------------
IInit ==
  /\ registered = EmptyRegistry
  /\ stage = [l \in Lifecycles |-> "new"]
  /\ indexes = [l \in Lifecycles |-> EmptyRegistry]
  /\ live = [l \in Lifecycles |-> {}]
  /\ bound = None /\ call = NoCall /\ overlap = FALSE

IRegister(t) ==
  /\ t \notin DOMAIN registered
  /\ registered' = Register(registered, {t})
  /\ UNCHANGED <<stage, indexes, live, bound, call, overlap>>

IRemove(t) ==
  /\ t \in DOMAIN registered
  /\ registered' = Remove(registered, t)
  /\ UNCHANGED <<stage, indexes, live, bound, call, overlap>>

\* Mutant of Make: the loopback is bound once.
MakeOnce(l) ==
  /\ stage[l] = "new"
  /\ \E r \in {registered, Clone(registered)} : indexes' = [indexes EXCEPT ![l] = Index(r)]
  /\ bound' = IF bound = None THEN l ELSE bound
  /\ overlap' = (overlap \/ \E k \in Lifecycles : stage[k] \in {"bound", "running"})
  /\ stage' = [stage EXCEPT ![l] = "bound"]
  /\ UNCHANGED <<registered, live, call>>

\* lifecycle() of the context or of a clone
Make(l) ==
  /\ stage[l] = "new"
  /\ \E r \in {registered, Clone(registered)} : indexes' = [indexes EXCEPT ![l] = Index(r)]
  /\ bound' = l
  /\ overlap' = (overlap \/ \E k \in Lifecycles : stage[k] \in {"bound", "running"})
  /\ stage' = [stage EXCEPT ![l] = "bound"]
  /\ UNCHANGED <<registered, live, call>>

Orderable(x) == \A t \in DOMAIN x \intersect Concrete : Resolves(x, t)

\* __enter__; order() raises if a dependency of any type is not resolved.
Enter(l) ==
  /\ stage[l] = "bound" /\ Orderable(indexes[l])
  /\ live' = [live EXCEPT ![l] = DOMAIN indexes[l] \intersect Concrete]
  /\ stage' = [stage EXCEPT ![l] = "running"]
  /\ UNCHANGED <<registered, indexes, bound, call, overlap>>

EnterRaises(l) ==
  /\ stage[l] = "bound" /\ ~Orderable(indexes[l])
  /\ stage' = [stage EXCEPT ![l] = "over"]
  /\ UNCHANGED <<registered, indexes, live, bound, call, overlap>>

\* __exit__
Exit(l) ==
  /\ stage[l] = "running"
  /\ live' = [live EXCEPT ![l] = {}]
  /\ stage' = [stage EXCEPT ![l] = "over"]
  /\ UNCHANGED <<registered, indexes, bound, call, overlap>>

-----------------------------------------------------------------------------
\* resolve_requirement: the dependency is not validated, ...
Invalid(l, d) == None \in Chosen(indexes[l], d)

\* ... or an index that is not running has no instance of the type, a KeyError, ...
Missing(l, d) == ~(Chosen(indexes[l], d) \subseteq live[l])

\* ... or this is injected: one instance for a simple dependency, at most one for an
\* optional one, and a list for a collective one.
Resolved(l, d) == Instances(l, Chosen(indexes[l], d))

\* Invoker.invoke, of an invoker that a component of lifecycle l has
Outcome(s) ==
  LET deps == DependenciesOf(s)
  IN  IF Refused(s) THEN {"refused"}
      ELSE IF \E i \in DOMAIN deps : Invalid(bound, deps[i]) \/ Missing(bound, deps[i])
      THEN {o \in {"invalid", "missing"} : \E i \in DOMAIN deps :
              IF o = "invalid" THEN Invalid(bound, deps[i])
              ELSE Missing(bound, deps[i]) /\ ~Invalid(bound, deps[i])}
      ELSE {IF CallRaises(s, DOMAIN deps) THEN "call raises" ELSE "called"}

Invoke(l, s) ==
  /\ stage[l] = "running"
  /\ \E o \in Outcome(s) :
       call' = [callable |-> s, by |-> l, outcome |-> o,
                args |-> IF o = "called"
                         THEN [i \in DOMAIN DependenciesOf(s) |-> Resolved(bound, DependenciesOf(s)[i])]
                         ELSE <<>>]
  /\ UNCHANGED <<registered, stage, indexes, live, bound, overlap>>

\* The invocation is over.
Return ==
  /\ call # NoCall
  /\ call' = NoCall
  /\ UNCHANGED <<registered, stage, indexes, live, bound, overlap>>

INext ==
  \/ call = NoCall /\ (\/ \E t \in Type : IRegister(t) \/ IRemove(t)
                       \/ \E l \in Lifecycles : Make(l) \/ Enter(l) \/ EnterRaises(l) \/ Exit(l)
                       \/ \E l \in Lifecycles, s \in Callables : Invoke(l, s))
  \/ Return

ISpec == IInit /\ [][INext]_ivars

-----------------------------------------------------------------------------
(***************************************************************************)
(* Properties                                                              *)
(***************************************************************************)
ITypeOK ==
  /\ IsRegistry(registered)
  /\ stage \in [Lifecycles -> {"new", "bound", "running", "over"}]
  /\ \A l \in Lifecycles : live[l] # {} => stage[l] = "running"
  /\ bound \in Lifecycles \union {None} /\ overlap \in BOOLEAN
  /\ call.by \in Lifecycles \union {None}
  /\ call.outcome \in {"none", "refused", "invalid", "missing", "call raises", "called"}

\* Whoever is invoked gets instances of his invoker's own lifecycle, and they are there,
\* unless the context's lifecycles overlap (context/simple.py:123); then they may be
\* missing or another one's, but none of a lifecycle that is over.
ServedByOwn ==
  /\ call.outcome = "missing" => overlap
  /\ call.outcome = "called" =>
       \A i \in DOMAIN call.args : \A o \in call.args[i] :
         /\ overlap \/ o.of = call.by
         /\ stage[o.of] = "running"

\* The instances that a lifecycle knows of what an annotation names: those that implement a
\* type among its members, if that is known itself.
Known(l, h) ==
  Instances(l, {u \in DOMAIN indexes[l] \intersect Concrete :
                  \E t \in Flattened(h) : t \in DOMAIN indexes[l] /\ <<u, t>> \in Subclass})

\* Whatever its annotations are, what is called gets what they ask for, in each argument that
\* has one: for list[...] all that is known, NoneType among the elements or not; for a union
\* without None exactly one; for one with None at most one, and that if there is no other.
\* Optional[list[X]] asks for nothing that there is: it is not called with None.
ArgumentsFit ==
  call.outcome = "called" =>
    \A i \in Annotated(call.callable) :
      LET h == call.callable.args[i].hint
          arg == call.args[i]
          known == Known(bound, h)
      IN  /\ i \in DOMAIN call.args /\ arg \subseteq known
          /\ h.list => arg = known
          /\ ~h.list /\ None \notin Members(h) => Cardinality(arg) = 1
          /\ ~h.list /\ None \in Members(h) => arg = {} \/ Cardinality(arg) = 1
          /\ ~h.list /\ Cardinality(known) = 1 => arg = known
          /\ ~h.list /\ Other \in Members(h) => h.members[1] = None

\* An invocation is invalid only for an annotation that is no list, has no None or has it with
\* a generic, and is of no one type, or of one that is not the only class that implements it.
InvalidForCause ==
  call.outcome = "invalid" =>
    \E i \in Annotated(call.callable) :
      LET h == call.callable.args[i].hint
      IN  /\ ~h.list /\ (None \in Members(h) => Other \in Members(h))
          /\ Cardinality(Known(bound, h)) = 1 => \A t \in Type : Flattened(h) # {t}

\* An invocation gives what the annotations ask for, or fails because there is no such thing.
InvocationsFit == ArgumentsFit /\ InvalidForCause

\* Leaving a type out of an index is having it removed from the registry, but for the
\* primary implementations: no new ones are found.
WithoutAgrees ==
  \A t \in DOMAIN registered :
    LET w == Without(Index(registered), {t})
        r == Index(Remove(registered, t))
    IN  /\ DOMAIN w = DOMAIN r
        /\ \A u \in DOMAIN w : /\ w[u].deps = r[u].deps /\ w[u].impls = r[u].impls
                               /\ w[u].primary \in {None, r[u].primary}

\* Of a type that the configurators' context does not know, the union answers what the
\* business context's index does.
UnionAgrees ==
  LET business == Index(registered)
      both == <<Configuring, business>>
  IN  \A t \in UnionKnown(both) \ DOMAIN Configuring :
        /\ UnionDependencies(both, t) = business[t].deps
        /\ UnionImplementations(both, t) = business[t].impls
        /\ UnionPrimary(both, t) = business[t].primary

\* Indexes that are made of indexes answer as those of the registries would.
IndexesAgree == WithoutAgrees /\ UnionAgrees

=============================================================================
