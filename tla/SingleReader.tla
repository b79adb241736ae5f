---------------------------- MODULE SingleReader ----------------------------
(***************************************************************************)
(* Streams with at most one consumer each: every connection of the tests   *)
(* many_to_one and consume_non_threaded, and of the two-successor pipeline *)
(* of the README.  Here the ring, the read counts, the semaphore and the   *)
(* two wait loops of get together implement a FIFO queue per stream.       *)
(***************************************************************************)
EXTENDS Streams, Sequences

ASSUME SingleReaderAssumption ==
  /\ \A l, m \in Connections : l[2] = m[2] => l = m
  /\ \A s \in Streams : <<s, s>> \notin Connections

Read == {s \in Streams : Consumers(s) # {}}

ReaderOf == [s \in Read |-> CHOOSE c \in Streams : <<c, s>> \in Connections]

Cursor(s) == buffer_idx[ReaderOf[s]][s]

(* How far the put cursor of s is ahead of its consumer's: when the two    *)
(* are in the same slot the ring is full or empty, and the read count of   *)
(* that slot tells which.                                                  *)
Backlog(s) ==
  LET from == Cursor(s)
      to == put_idx[s]
  IN  IF from = to
      THEN IF from \in Unread(s) THEN BUFFER_SIZE ELSE 0
      ELSE IF from < to THEN to - from ELSE to - from + BUFFER_SIZE

(* The slot k places after the consumer's cursor.                          *)
SlotAfter(s, k) ==
  LET j == Cursor(s) + k
  IN  IF j < BUFFER_SIZE THEN j ELSE j - BUFFER_SIZE

Queue(s) == [k \in 1 .. Backlog(s) |-> buffer[s][SlotAfter(s, k - 1)]]

QueueOf == [s \in Read |-> Queue(s)]

Channel == INSTANCE Channels WITH queue <- QueueOf, received <- ret

(* A stream with one consumer is a FIFO queue of BUFFER_SIZE tokens: every *)
(* step of get and put, of any number of threads, is the abstract send, the*)
(* abstract receive or invisible to the caller.                            *)
FifoPerStream == Channel!ChannelSpec

(* The unread slots are the ones from the consumer's cursor up to the put  *)
(* cursor, with no hole: the order in which the ring is filled is the      *)
(* order in which it is read.                                              *)
UnreadIsTheBacklog ==
  \A s \in Read :
    Unread(s) = {SlotAfter(s, k) : k \in 0 .. Backlog(s) - 1}

(* put's wait loop ("wait if all consumers haven't seen this value") never *)
(* sleeps: the semaphore has already waited for the slot.  With a consumer *)
(* asleep on the same condition variable, a producer that slept there      *)
(* could swallow the signal meant for the other.                           *)
PutNeverWaitsTwice ==
  \A s \in Read : pc[s] \in {"room", "write"} => ~ StillUnread(s)
=============================================================================
