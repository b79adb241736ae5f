------------------------ MODULE SingleReaderPrograms ------------------------
(***************************************************************************)
(* The programs in which every stream has at most one consumer, on the     *)
(* stream library: they implement the same programs on ideal queues.       *)
(***************************************************************************)
EXTENDS SingleReader, StreamPrograms

(* Every thread that puts has a consumer (unlike in no_connections.c).     *)
ASSUME SingleReaderProgramsAssumption ==
  \A t \in Streams : Role[t] # "consumer" => t \in Read

Ideal == INSTANCE ChannelPrograms WITH queue <- QueueOf, received <- ret

(* A program on the library does, as far as its tokens go, what it would   *)
(* do on ideal queues ...                                                  *)
ImplementsIdeal == Ideal!IdealSpec

(* ... and, threads being scheduled fairly, a thread that could go on with *)
(* ideal queues does go on: no wakeup is lost between put and get, and the *)
(* reader that waits for a second token gets one.                          *)
ImplementsIdealFairness == Ideal!IdealFairness
=============================================================================
