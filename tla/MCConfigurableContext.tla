----------------------- MODULE MCConfigurableContext -----------------------
(***************************************************************************)
(* Two interfaces, I and J.  A implements I, and B both, which also is a   *)
(* subclass of A; C needs an I and may have a J, D needs a C and all Js.   *)
(***************************************************************************)
EXTENDS ConfigurableContext

CONSTANTS I, J, A, B, C, D

MCType == {I, J, A, B, C, D}

MCConcrete == {A, B, C, D}

MCSubclass == {<<t, t>> : t \in MCType} \union {<<A, I>>, <<B, A>>, <<B, I>>, <<B, J>>}

MCDeclared ==
  [t \in MCType |->
     CASE t = C -> {[type |-> I, kind |-> "simple"], [type |-> J, kind |-> "optional"]}
       [] t = D -> {[type |-> C, kind |-> "simple"], [type |-> J, kind |-> "collective"]}
       [] OTHER -> {}]

MCHint == [t \in MCType |-> IF t = A THEN B ELSE None]

MCConfigurator ==
  {[phase |-> "fallbacks", base |-> I, impl |-> A],
   [phase |-> "fallbacks", base |-> J, impl |-> B],
   [phase |-> "forcing",   base |-> I, impl |-> B],
   [phase |-> "defaults",  base |-> I, impl |-> A]}

=============================================================================
