-------------------------- MODULE InjectionPoints --------------------------
(***************************************************************************)
(* What the arguments of a callable depend on, as the container reads it   *)
(* from a signature (common/dependencies.py).                              *)
(***************************************************************************)
EXTENDS TypeRegistry, Sequences

CONSTANTS
  NoHint,  \* an argument without annotation
  Other    \* a parameterized generic: what is no type that could be registered

\* A union of members in their order, of which None stands for NoneType and Other for at most
\* one generic, such as list[X]; or list[...] of a union.  X alone is a union of one.
Annotation ==
  {h \in [list : BOOLEAN, members : Seq(Type \union {Other, None})] :
     \A i, j \in DOMAIN h.members : h.members[i] = Other /\ h.members[j] = Other => i = j}

Argument == [hint : Annotation \union {NoHint}, default : BOOLEAN]

\* Positional arguments, and whether each keyword-only argument has a default value
IsSignature(s) ==
  /\ s.args \in Seq(Argument) /\ s.kwonly \subseteq BOOLEAN
  /\ \A i, j \in DOMAIN s.args : i < j /\ s.args[i].default => s.args[j].default

\* isinstance(None, t) asks the members in their order; a generic raises a TypeError, which
\* _nonthrowing_isinstance answers with False: so it does of Optional[list[X]].
AdmitsNone(h) ==
  /\ ~h.list
  /\ \E i \in DOMAIN h.members :
       h.members[i] = None /\ \A j \in DOMAIN h.members : j < i => h.members[j] # Other

\* unpack_dependency asks the kinds one by one: optional, collective, simple.
KindOf(h) ==
  IF AdmitsNone(h) THEN "optional" ELSE IF h.list THEN "collective" ELSE "simple"

Members(h) == {h.members[i] : i \in DOMAIN h.members}

\* flatten_types, of a union or of what a list is of
Flattened(h) == Members(h) \ {None}

\* Mutant of Unpacked: the NoneType of a list's elements is not left out.
UnpackedWithNone(h) ==
  [kind |-> KindOf(h),
   type |-> IF ~(h.list /\ None \in Members(h)) /\ \E t \in Type : Flattened(h) = {t}
            THEN CHOOSE t \in Type : Flattened(h) = {t} ELSE Other]

\* unpack_hint; a simple dependency on a union is one on no type that could be registered,
\* and so is an optional one on a generic.
Unpacked(h) ==
  [kind |-> KindOf(h),
   type |-> IF \E t \in Type : Flattened(h) = {t}
            THEN CHOOSE t \in Type : Flattened(h) = {t} ELSE Other]

\* WrongIterableSizeException
UnpackRaises(h) == KindOf(h) # "simple" /\ Cardinality(Flattened(h)) # 1

Annotated(s) == {i \in DOMAIN s.args : s.args[i].hint # NoHint}

\* get_any_function_dependencies raises: of the arguments without an annotation it
\* refuses those that have a default value.
Refused(s) ==
  \/ FALSE \in s.kwonly
  \/ \E i \in DOMAIN s.args \ Annotated(s) : s.args[i].default
  \/ \E i \in Annotated(s) : UnpackRaises(s.args[i].hint)

\* What it returns, if it does not: argument |-> dependency
DependenciesOf(s) == [i \in Annotated(s) |-> Unpacked(s.args[i].hint)]

\* callable( **kwargs), external, with the arguments whose positions are given
CallRaises(s, given) == \E i \in DOMAIN s.args \ given : ~s.args[i].default

=============================================================================
