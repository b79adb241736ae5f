------------------------- MODULE MCChannelPrograms -------------------------
(* The README's pipeline with a successor for each times thread, on ideal  *)
(* queues.  Its consumer reads a third successor too, as the consumer of   *)
(* many_to_one.c reads several.                                            *)
EXTENDS ChannelPrograms

RoleOf ==
  [t \in Streams |-> CASE t \in {"suc5", "suc7", "suc1"} -> "successor"
                       [] t \in {"times5", "times7"} -> "times"
                       [] t = "merge" -> "merge"
                       [] t = "cons" -> "consumer"]

Factor ==
  [t \in Streams |-> CASE t = "times5" -> 5 [] t = "times7" -> 7 [] OTHER -> 1]

TwoSuccessors ==
  [t \in Streams |-> CASE t = "cons" -> <<"merge", "suc1">>
                       [] t = "merge" -> <<"times5", "times7">>
                       [] t = "times5" -> <<"suc5">>
                       [] t = "times7" -> <<"suc7">>
                       [] OTHER -> <<>>]

Edges ==
  UNION {{<<t, ProdList[t][k]>> : k \in 1 .. Len(ProdList[t])} : t \in Streams}
=============================================================================
