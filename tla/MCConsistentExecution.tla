------------------------ MODULE MCConsistentExecution ------------------------
(***************************************************************************)
(* ConsistentExecution on small programs: the STAGE "prepare" of two       *)
(* STEPs, then a STEP; and one where the second of the two is a STAGE.     *)
(***************************************************************************)
EXTENDS ConsistentExecution, TLC

MCKeys == {"prepare", "load", "clean", "drop", "fill", "stats"}

MCStage(k) == [key |-> k, type |-> "STAGE"]
MCStep(k)  == [key |-> k, type |-> "STEP"]

MCDone(path, order) == [path |-> path, order |-> order, type |-> "STEP"]

MCProgram ==
  (<<>> :> <<MCStage("prepare"), MCStep("stats")>>)
  @@ (<<"prepare">> :> <<MCStep("load"), MCStep("clean")>>)

MCSteps ==
  <<MCDone(<<"prepare", "load">>, <<0, 0>>), MCDone(<<"prepare", "clean">>, <<0, 1>>),
    MCDone(<<"stats">>, <<1>>)>>

MCDeepProgram ==
  (<<>> :> <<MCStage("prepare"), MCStep("stats")>>)
  @@ (<<"prepare">> :> <<MCStep("load"), MCStage("clean")>>)
  @@ (<<"prepare", "clean">> :> <<MCStep("drop"), MCStep("fill")>>)

MCDeepSteps ==
  <<MCDone(<<"prepare", "load">>, <<0, 0>>),
    MCDone(<<"prepare", "clean", "drop">>, <<0, 1, 0>>),
    MCDone(<<"prepare", "clean", "fill">>, <<0, 1, 1>>),
    MCDone(<<"stats">>, <<1>>)>>
=============================================================================
