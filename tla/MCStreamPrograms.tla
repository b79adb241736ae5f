-------------------------- MODULE MCStreamPrograms --------------------------
(* The programs of main.c and tests/one_to_many.c: which thread function   *)
(* runs on each stream, and the lists that the calls of stream_connect     *)
(* build.                                                                  *)
EXTENDS StreamPrograms

RoleOf ==
  [t \in Streams |->
     CASE t = "suc" -> "successor"
       [] t \in {"times5", "times7"} -> "times"
       [] t = "merge" -> "merge"
       [] OTHER -> "consumer"]

Factor ==
  [t \in Streams |-> CASE t = "times5" -> 5 [] t = "times7" -> 7 [] OTHER -> 1]

(* one_to_many.c                                                           *)
OneToMany ==
  [t \in Streams |-> IF RoleOf[t] = "consumer" THEN <<"suc">> ELSE <<>>]

(* main.c                                                                  *)
MainList ==
  [t \in Streams |-> CASE t = "cons" -> <<"merge">>
                       [] t = "merge" -> <<"times5", "times7">>
                       [] t \in {"times5", "times7"} -> <<"suc">>
                       [] OTHER -> <<>>]

Edges ==
  UNION {{<<t, ProdList[t][k]>> : k \in 1 .. Len(ProdList[t])} : t \in Streams}
=============================================================================
