------------------------- MODULE MCRecordedExecution -------------------------
(* RecordedExecution on a small instance: the keys 1, "1", "01", "1/1" and "x@y", of *)
(* which the programs use "1" and "01" at the top.                                 *)
EXTENDS RecordedExecution

MCNumber == "1" :> "1" @@ "01" :> "1"
MCMarked == {"x@y"}

MCTopKeys == {StrKey(<<"1">>), StrKey(<<"01">>)}
MCKeys == MCTopKeys \union {IntKey("1"), StrKey(<<"1", "1">>), StrKey(<<"x@y">>)}
=============================================================================
