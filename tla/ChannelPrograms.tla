-------------------------- MODULE ChannelPrograms --------------------------
(***************************************************************************)
(* The programs of hw3_pthreads on ideal queues: the abstract programs     *)
(* that the ones on the stream library implement when every stream has one *)
(* consumer.                                                               *)
(***************************************************************************)
EXTENDS Channels, Programs

ASSUME ChannelProgramsAssumption ==
  /\ \A t \in Streams : Role[t] # "consumer" => t \in Linked
  /\ \A t, u \in Streams :
       \A k \in 1 .. Len(ProdList[t]), m \in 1 .. Len(ProdList[u]) :
         ProdList[t][k] = ProdList[u][m] => t = u

cvars == <<channelVars, progVars>>

IdealInit == ChannelInit /\ ProgInit

Fetch(t) ==
  /\ Asks(t)
  /\ Receive(t, NextProducer(t))
  /\ Got(t, NextProducer(t), received'[t])

Pass(t) == Sends(t) /\ Sent(t) /\ Send(t, Token(t))

IdealThread(t) == Fetch(t) \/ Pass(t)

IdealNext == \E t \in Streams : IdealThread(t)

IdealSpec == IdealInit /\ [][IdealNext]_cvars

IdealFairness == \A t \in Streams : WF_cvars(IdealThread(t))

IdealFairSpec == IdealSpec /\ IdealFairness

IdealTypeOK ==
  /\ queue \in [Linked -> Seq(Values)]
  /\ ProgTypeOK
=============================================================================
