------------------------------ MODULE Topology ------------------------------
(***************************************************************************)
(* The constants every module about hw3_pthreads shares: which streams a   *)
(* program has and how stream_connect joins them.  Every thread is handed  *)
(* exactly one stream_t, so a thread and its stream share one name: thread *)
(* t puts into stream t and gets from the streams it is connected to.      *)
(***************************************************************************)
EXTENDS Integers, FiniteSets

CONSTANTS
  Streams,       \* the streams, and the threads that run on them
  Connections,   \* the pairs <<in, out>> given to stream_connect
  Values,        \* the tokens
  BUFFER_SIZE,   \* slots of a stream's ring (5, streams.h:6)
  Null           \* an uninitialised pointer: not a token

(* init_stream's initial read count: "every consumer has read this slot".  *)
AllRead == 9999

Slots == 0 .. BUFFER_SIZE - 1

Consumers(s) == {c \in Streams : <<c, s>> \in Connections}

(* 9999 has to be at least the number of consumers of a stream, or a slot  *)
(* nothing was ever put into would look unread.                            *)
ASSUME TopologyAssumption ==
  /\ BUFFER_SIZE \in Nat \ {0}
  /\ Null \notin Values
  /\ Connections \subseteq Streams \X Streams
  /\ \A s \in Streams : Cardinality(Consumers(s)) \in 0 .. AllRead
=============================================================================
