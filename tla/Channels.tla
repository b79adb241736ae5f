------------------------------ MODULE Channels ------------------------------
(***************************************************************************)
(* What a stream with one consumer promises (abstract specification): a    *)
(* first-in first-out queue of at most BUFFER_SIZE tokens per stream.  put *)
(* appends a token to the queue of its stream, get removes the oldest one  *)
(* and returns it to its caller; nothing is lost, duplicated or reordered. *)
(***************************************************************************)
EXTENDS Topology, Sequences

VARIABLES
  queue,     \* queue[s]: the tokens put into s and not yet taken
  received   \* received[t]: what the last get of t returned

channelVars == <<queue, received>>

Linked == {s \in Streams : Consumers(s) # {}}

ChannelInit ==
  /\ queue = [s \in Linked |-> <<>>]
  /\ received = [t \in Streams |-> Null]

Send(s, token) ==
  /\ s \in Linked
  /\ Len(queue[s]) < BUFFER_SIZE
  /\ queue' = [queue EXCEPT ![s] = Append(@, token)]
  /\ UNCHANGED received

Receive(t, s) ==
  /\ <<t, s>> \in Connections
  /\ queue[s] # <<>>
  /\ received' = [received EXCEPT ![t] = Head(queue[s])]
  /\ queue' = [queue EXCEPT ![s] = Tail(@)]

ChannelNext ==
  \E s \in Linked :
    \/ \E token \in Values : Send(s, token)
    \/ \E t \in Streams : Receive(t, s)

ChannelSpec == ChannelInit /\ [][ChannelNext]_channelVars
=============================================================================
