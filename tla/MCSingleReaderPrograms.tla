----------------------- MODULE MCSingleReaderPrograms -----------------------
(* A part of the README's pipeline: two successors merged for a consumer.  *)
EXTENDS SingleReaderPrograms

RoleOf ==
  [t \in Streams |-> CASE t \in {"suc5", "suc7"} -> "successor"
                       [] t = "merge" -> "merge"
                       [] t = "cons" -> "consumer"]

Factor == [t \in Streams |-> 1]

MergePart ==
  [t \in Streams |-> CASE t = "cons" -> <<"merge">>
                       [] t = "merge" -> <<"suc5", "suc7">>
                       [] OTHER -> <<>>]

(* More numbers than the successors can reach before the consumer stops.   *)
Numbers == 0 .. 12

Edges ==
  UNION {{<<t, ProdList[t][k]>> : k \in 1 .. Len(ProdList[t])} : t \in Streams}
=============================================================================
