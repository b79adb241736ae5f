--------------------------- MODULE StreamPrograms ---------------------------
(***************************************************************************)
(* The programs of hw3_pthreads on the stream library: each thread runs    *)
(* its thread function and calls get and put of streams.c.                 *)
(***************************************************************************)
EXTENDS Streams, Programs

vars == <<libVars, progVars>>

Init == LibInit /\ ProgInit

(* A thread function enters get or put ...                                 *)
Calls(t) ==
  /\ \/ Asks(t) /\ CallGet(t, NextProducer(t))
     \/ Sends(t) /\ CallPut(t)
  /\ UNCHANGED progVars

(* ... goes through its wait loops ...                                     *)
Waits(t) == InCall(t) /\ UNCHANGED progVars

Wakes(t) == SpuriousWakeup(t) /\ UNCHANGED progVars

(* ... and goes on when the call returns.                                  *)
Returns(t) ==
  \/ GetTake(t) /\ Got(t, src[t], ret'[t])
  \/ PutWrite(t, Token(t)) /\ Sent(t)

Thread(t) == Calls(t) \/ Waits(t) \/ Returns(t)

Next == \E t \in Streams : Thread(t) \/ Wakes(t)

Spec == Init /\ [][Next]_vars

(* Every thread that can run is eventually scheduled, and spurious wakeups *)
(* do not go on for ever.  Nothing more is asked: a mutex may be taken by  *)
(* others any number of times first, and a signal wakes whom it likes.     *)
FairSpec ==
  /\ Spec
  /\ \A t \in Streams : WF_vars(Thread(t))
  /\ <>[][\A t \in Streams : ~ Wakes(t)]_vars
=============================================================================
