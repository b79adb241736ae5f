-------------------------- MODULE SingleReaderProof --------------------------
(***************************************************************************)
(* Proofs that a stream with one consumer is a FIFO queue, for every such  *)
(* topology, every BUFFER_SIZE and every number of threads that call get   *)
(* and put in whatever order; and that therefore the programs on the       *)
(* library implement the programs on ideal queues, so that what is proved  *)
(* of those holds of them.                                                 *)
(***************************************************************************)
EXTENDS SingleReaderPrograms, StreamsProof, ChannelProgramsProof

(* What else has to be known for UnreadIsTheBacklog to survive a step: the *)
(* read count of a slot is compared with 1, and whoever is inside get is   *)
(* the consumer whose cursor the backlog starts at.                        *)
OneConsumer == \A s \in Read : num_consumers[s] = 1

GetterIsConnected ==
  \A t \in Streams : pc[t] \in GetPC => <<t, src[t]>> \in Connections

(* The inductive invariant behind the FIFO order.                          *)
ReaderInv ==
  /\ LibInv
  /\ OneConsumer
  /\ GetterIsConnected
  /\ UnreadIsTheBacklog

(* A thread inside get is still in need of the token it called for, and a  *)
(* thread inside put still has the token to put: nobody else changes what  *)
(* a thread holds.                                                         *)
CallsMatchPrograms ==
  \A t \in Streams :
    /\ pc[t] \in GetPC => Asks(t) /\ src[t] = NextProducer(t)
    /\ pc[t] \in PutPC => Sends(t)

(* The inductive invariant behind ImplementsIdeal.                         *)
ThreadInv ==
  /\ ReaderInv
  /\ ProgTypeOK
  /\ DOMAIN held = Streams
  /\ CallsMatchPrograms

-----------------------------------------------------------------------------
(* The cursors wrap around at the end of the ring.                         *)
LEMMA WrapAround ==
  ASSUME NEW k \in Slots
  PROVE  /\ (k + 1) % BUFFER_SIZE = IF k + 1 = BUFFER_SIZE THEN 0 ELSE k + 1
         /\ k \in Int /\ 0 <= k /\ k < BUFFER_SIZE
         /\ BUFFER_SIZE \in Int /\ BUFFER_SIZE > 0
BY TopologyAssumption DEF Slots

(* A stream that is read has exactly one consumer, ReaderOf[s].            *)
LEMMA TheReader ==
  ASSUME NEW s \in Read
  PROVE  /\ ReaderOf[s] \in Streams
         /\ \A c \in Streams : <<c, s>> \in Connections <=> c = ReaderOf[s]
         /\ Cardinality(Consumers(s)) = 1
<1>1. PICK c \in Streams : <<c, s>> \in Connections
  BY DEF Read, Consumers
<1>2. ReaderOf[s] \in Streams /\ <<ReaderOf[s], s>> \in Connections
  BY <1>1 DEF ReaderOf
<1>3. \A d \in Streams : <<d, s>> \in Connections => d = ReaderOf[s]
  BY <1>2, SingleReaderAssumption, <<ReaderOf[s], s>>[2] = s
<1>4. Consumers(s) = {ReaderOf[s]}
  BY <1>2, <1>3 DEF Consumers
<1> QED
  BY <1>2, <1>3, <1>4, FS_Singleton

(* The consumer's cursor and the put cursor of a stream are slots, and the *)
(* backlog between them fits into the ring.                                *)
LEMMA BacklogBounds ==
  ASSUME LibTypeOK, NEW s \in Read
  PROVE  /\ s \in Streams
         /\ Cursor(s) \in Slots
         /\ put_idx[s] \in Slots
         /\ Backlog(s) \in 0 .. BUFFER_SIZE
         /\ Cursor(s) # put_idx[s] => Backlog(s) \in 1 .. BUFFER_SIZE - 1
<1>1. /\ s \in Streams
      /\ Cursor(s) \in Slots
      /\ put_idx[s] \in Slots
  BY TheReader DEF LibTypeOK, Read, Cursor
<1> QED
  BY <1>1, TopologyAssumption DEF Backlog, Slots

(* The two ends of the backlog: the consumer's slot is unread unless the   *)
(* ring is empty, and the slot of the next put only if the ring is full.   *)
LEMMA BacklogEnds ==
  ASSUME LibTypeOK, UnreadIsTheBacklog, NEW s \in Read
  PROVE  /\ Cursor(s) \in Unread(s) <=> Backlog(s) > 0
         /\ put_idx[s] \in Unread(s) <=> Backlog(s) = BUFFER_SIZE
         /\ Cursor(s) = put_idx[s] <=> Backlog(s) \in {0, BUFFER_SIZE}
<1> DEFINE B == BUFFER_SIZE
           from == Cursor(s)
           to == put_idx[s]
<1>1. /\ B \in Int /\ B > 0
      /\ from \in Int /\ 0 <= from /\ from < B
      /\ to \in Int /\ 0 <= to /\ to < B
      /\ Backlog(s) \in Int /\ 0 <= Backlog(s) /\ Backlog(s) <= B
  BY BacklogBounds, TopologyAssumption DEF Slots
<1>2. \A k \in 0 .. B - 1 :
        SlotAfter(s, k) = IF from + k < B THEN from + k ELSE from + k - B
  BY <1>1 DEF SlotAfter
<1>3. \A i : i \in Unread(s) <=> \E k \in 0 .. Backlog(s) - 1 : i = SlotAfter(s, k)
  BY DEF UnreadIsTheBacklog
<1>4. Backlog(s) = IF from = to THEN IF from \in Unread(s) THEN B ELSE 0
                   ELSE IF from < to THEN to - from ELSE to - from + B
  BY DEF Backlog
<1> HIDE DEF B, from, to
<1>5. from \in Unread(s) <=> Backlog(s) > 0
  <2>1. Backlog(s) > 0 => 0 \in 0 .. Backlog(s) - 1 /\ SlotAfter(s, 0) = from
    BY <1>1, <1>2
  <2> QED
    BY <1>1, <1>3, <2>1
<1>6. from = to <=> Backlog(s) \in {0, B}
  BY <1>1, <1>4
<1>7. to \in Unread(s) <=> Backlog(s) = B
  <2>1. ASSUME Backlog(s) = B PROVE to \in Unread(s)
    BY <1>1, <1>5, <1>6, <2>1
  <2>2. ASSUME to \in Unread(s), Backlog(s) # B PROVE FALSE
    <3>1. PICK k \in 0 .. Backlog(s) - 1 : to = SlotAfter(s, k)
      BY <1>3, <2>2
    <3>2. from # to
      BY <1>1, <1>5, <1>6, <2>2, <3>1
    <3> QED
      BY <1>1, <1>2, <1>4, <2>2, <3>1, <3>2
  <2> QED
    BY <2>1, <2>2
<1> QED
  BY <1>5, <1>6, <1>7 DEF from, to, B

(* put's second wait loop never has to wait: by the semaphore's count the  *)
(* ring of a producer that is past its sem_wait is not full.               *)
LEMMA NeverFullAfterSemWait == ReaderInv => PutNeverWaitsTwice
<1> SUFFICES ASSUME ReaderInv, NEW s \in Read, pc[s] \in {"room", "write"},
                    StillUnread(s)
             PROVE  FALSE
  BY DEF PutNeverWaitsTwice
<1>1. LibTypeOK /\ s \in Streams /\ num_consumers[s] = 1
  BY BacklogBounds DEF ReaderInv, LibInv, OneConsumer
<1>2. put_idx[s] \in Unread(s)
  BY <1>1 DEF StillUnread, Unread, LibTypeOK
<1>3. Backlog(s) = BUFFER_SIZE
  BY <1>1, <1>2, BacklogEnds DEF ReaderInv
<1>4. Unread(s) = Slots
  <2>1. Unread(s) = {SlotAfter(s, k) : k \in 0 .. BUFFER_SIZE - 1}
    BY <1>3 DEF ReaderInv, UnreadIsTheBacklog
  <2>2. ASSUME NEW i \in Slots
        PROVE  \E k \in 0 .. BUFFER_SIZE - 1 : i = SlotAfter(s, k)
    <3>1. Cursor(s) \in Slots
      BY <1>1, BacklogBounds
    <3>2. CASE i >= Cursor(s)
      BY <3>1, <3>2, TopologyAssumption, i - Cursor(s) \in 0 .. BUFFER_SIZE - 1
         DEF SlotAfter, Slots
    <3>3. CASE i < Cursor(s)
      BY <3>1, <3>3, TopologyAssumption,
         i - Cursor(s) + BUFFER_SIZE \in 0 .. BUFFER_SIZE - 1
         DEF SlotAfter, Slots
    <3> QED
      BY <3>1, <3>2, <3>3, TopologyAssumption DEF Slots
  <2> QED
    BY <2>1, <2>2 DEF Unread
<1>5. Cardinality(Unread(s)) = BUFFER_SIZE
  BY <1>4, FS_Interval, TopologyAssumption DEF Slots
<1>6. empty[s] + Cardinality(Unread(s)) + 1 = BUFFER_SIZE
  BY <1>1 DEF ReaderInv, LibInv, SemaphoreCountsFreeSlots, Claimed
<1> QED
  BY <1>1, <1>5, <1>6, TopologyAssumption DEF LibTypeOK

-----------------------------------------------------------------------------
(* A step that leaves the ring and the cursors of a stream alone leaves    *)
(* its backlog alone.                                                      *)
LEMMA SameBacklog ==
  ASSUME NEW s \in Read,
         buffer_read_count'[s] = buffer_read_count[s],
         num_consumers'[s] = num_consumers[s],
         put_idx'[s] = put_idx[s],
         buffer_idx'[ReaderOf[s]][s] = buffer_idx[ReaderOf[s]][s]
  PROVE  /\ Unread(s)' = Unread(s)
         /\ Cursor(s)' = Cursor(s)
         /\ Backlog(s)' = Backlog(s)
         /\ \A k : SlotAfter(s, k)' = SlotAfter(s, k)
<1>1. Unread(s)' = Unread(s)
  BY DEF Unread
<1>2. Cursor(s)' = Cursor(s)
  BY DEF Cursor
<1> QED
  BY <1>1, <1>2 DEF Backlog, SlotAfter

(* The last steps of get, of the one consumer of s: it takes the slot at   *)
(* the front of the backlog off it.                                        *)
LEMMA TakeShortensBacklog ==
  ASSUME ReaderInv, NEW t \in Streams, GetTake(t),
         NEW s \in Read, s = src[t]
  PROVE  /\ t = ReaderOf[s]
         /\ Backlog(s) > 0
         /\ Unread(s)' = Unread(s) \ {Cursor(s)}
         /\ Backlog(s)' = Backlog(s) - 1
         /\ \A k \in 0 .. BUFFER_SIZE - 2 :
              SlotAfter(s, k)' = SlotAfter(s, k + 1)
<1> DEFINE B == BUFFER_SIZE
           from == Cursor(s)
           to == put_idx[s]
<1>0. LibTypeOK /\ s \in Streams /\ pc[t] = "take"
  BY DEF ReaderInv, LibInv, GetTake, Read
<1>1. t = ReaderOf[s]
  BY <1>0, TheReader DEF ReaderInv, GetterIsConnected, GetPC
<1>2. from = GetSlot(t) /\ from \in Slots /\ to \in Slots
  BY <1>0, <1>1, BacklogBounds DEF Cursor, GetSlot
<1>3. num_consumers[s] = 1 /\ buffer_read_count[s] \in [Slots -> Nat]
  BY <1>0 DEF ReaderInv, OneConsumer, LibTypeOK
<1>4. buffer_read_count[s][from] = 0
  BY <1>0, <1>2, <1>3
     DEF ReaderInv, LibInv, StillTrueAfterTheLoop, NothingNew, GetSlot
<1>5. from \in Unread(s)
  BY <1>2, <1>3, <1>4 DEF Unread
<1>6. Backlog(s) > 0
  BY <1>0, <1>5, BacklogEnds DEF ReaderInv
<1>7. /\ buffer_read_count' = [buffer_read_count EXCEPT ![s][from] = @ + 1]
      /\ buffer_idx' = [buffer_idx EXCEPT ![t][s] = (@ + 1) % BUFFER_SIZE]
      /\ UNCHANGED <<put_idx, num_consumers>>
  BY <1>2 DEF GetTake
<1>8. Unread(s)' = Unread(s) \ {from}
  <2>1. \A m \in Slots : buffer_read_count'[s][m] =
          IF m = from THEN 1 ELSE buffer_read_count[s][m]
    BY <1>0, <1>2, <1>4, <1>7 DEF LibTypeOK
  <2> QED
    BY <1>2, <1>3, <1>7, <2>1 DEF Unread
<1>9. Cursor(s)' = IF from + 1 = B THEN 0 ELSE from + 1
  <2>1. Cursor(s)' = (from + 1) % BUFFER_SIZE
    BY <1>0, <1>1, <1>7 DEF Cursor, LibTypeOK
  <2> QED
    BY <1>2, <2>1, WrapAround
<1>10. Backlog(s) = IF from = to THEN B
                    ELSE IF from < to THEN to - from ELSE to - from + B
  BY <1>5 DEF Backlog
<1>11. Backlog(s)' = IF Cursor(s)' = to
                     THEN IF Cursor(s)' \in Unread(s) \ {from} THEN B ELSE 0
                     ELSE IF Cursor(s)' < to THEN to - Cursor(s)'
                          ELSE to - Cursor(s)' + B
  BY <1>7, <1>8 DEF Backlog
<1>12. to \in Unread(s) <=> Backlog(s) = B
  BY <1>0, BacklogEnds DEF ReaderInv
<1>13. \A k \in 0 .. B - 2 : SlotAfter(s, k)' = SlotAfter(s, k + 1)
  BY <1>2, <1>9, WrapAround DEF SlotAfter
<1>14. Backlog(s)' = Backlog(s) - 1
  <2>1. /\ from \in Int /\ 0 <= from /\ from < B
        /\ to \in Int /\ 0 <= to /\ to < B
        /\ B \in Int /\ B > 0
    BY <1>2, WrapAround
  <2> HIDE DEF from, to, B
  <2> QED
    BY <1>9, <1>10, <1>11, <1>12, <2>1
<1> QED
  BY <1>1, <1>6, <1>8, <1>13, <1>14

(* The last steps of put: the slot behind the backlog joins it.            *)
LEMMA WriteLengthensBacklog ==
  ASSUME ReaderInv, NEW s \in Read, NEW value \in Values,
         PutWrite(s, value)
  PROVE  /\ Backlog(s) < BUFFER_SIZE
         /\ Unread(s)' = Unread(s) \cup {put_idx[s]}
         /\ put_idx[s] = SlotAfter(s, Backlog(s))
         /\ Backlog(s)' = Backlog(s) + 1
         /\ \A k : SlotAfter(s, k)' = SlotAfter(s, k)
<1> DEFINE B == BUFFER_SIZE
           from == Cursor(s)
           to == put_idx[s]
<1>0. LibTypeOK /\ s \in Streams /\ pc[s] = "write"
  BY DEF ReaderInv, LibInv, PutWrite, Read
<1>1. from \in Slots /\ to \in Slots /\ Backlog(s) \in 0 .. B
  BY <1>0, BacklogBounds
<1>2. num_consumers[s] = 1 /\ buffer_read_count[s] \in [Slots -> Nat]
  BY <1>0 DEF ReaderInv, OneConsumer, LibTypeOK
<1>3. to \notin Unread(s)
  BY <1>0 DEF ReaderInv, LibInv, StillTrueAfterTheLoop, StillUnread, Unread
<1>4. /\ Backlog(s) < B
      /\ from \in Unread(s) <=> Backlog(s) > 0
      /\ from = to <=> Backlog(s) = 0
  BY <1>0, <1>1, <1>3, BacklogEnds, TopologyAssumption DEF ReaderInv
<1>5. /\ buffer_read_count' = [buffer_read_count EXCEPT ![s][to] = 0]
      /\ put_idx' = [put_idx EXCEPT ![s] = (@ + 1) % BUFFER_SIZE]
      /\ UNCHANGED <<buffer_idx, num_consumers>>
  BY DEF PutWrite, PutSlot
<1>6. Unread(s)' = Unread(s) \cup {to}
  <2>1. \A m \in Slots : buffer_read_count'[s][m] =
          IF m = to THEN 0 ELSE buffer_read_count[s][m]
    BY <1>0, <1>1, <1>5 DEF LibTypeOK
  <2> QED
    BY <1>1, <1>2, <1>5, <2>1 DEF Unread
<1>7. Cursor(s)' = from
  BY <1>5 DEF Cursor
<1>8. put_idx'[s] = IF to + 1 = B THEN 0 ELSE to + 1
  <2>1. put_idx'[s] = (to + 1) % BUFFER_SIZE
    BY <1>0, <1>5 DEF LibTypeOK
  <2> QED
    BY <1>1, <2>1, WrapAround
<1>9. /\ from \in Int /\ 0 <= from /\ from < B
      /\ to \in Int /\ 0 <= to /\ to < B
      /\ B \in Int /\ B > 0
  BY <1>1, WrapAround
<1>10. Backlog(s) = IF from = to THEN 0
                    ELSE IF from < to THEN to - from ELSE to - from + B
  BY <1>3 DEF Backlog
<1>11. Backlog(s)' = IF from = put_idx'[s]
                     THEN IF from \in Unread(s) \cup {to} THEN B ELSE 0
                     ELSE IF from < put_idx'[s] THEN put_idx'[s] - from
                          ELSE put_idx'[s] - from + B
  BY <1>6, <1>7 DEF Backlog
<1>12. to = SlotAfter(s, Backlog(s))
  BY <1>9, <1>10 DEF SlotAfter
<1>13. \A k : SlotAfter(s, k)' = SlotAfter(s, k)
  BY <1>7 DEF SlotAfter
<1>14. Backlog(s)' = Backlog(s) + 1
  <2> HIDE DEF from, to, B
  <2> QED
    BY <1>4, <1>8, <1>9, <1>10, <1>11
<1> QED
  BY <1>4, <1>6, <1>12, <1>13, <1>14

-----------------------------------------------------------------------------
(* The queue of a stream as a sequence: the slots of the backlog in order. *)
QueuesAreSeqs ==
  \A s \in Read :
    /\ Queue(s) \in Seq(Values \cup {Null})
    /\ Len(Queue(s)) = Backlog(s)
    /\ \A k \in 1 .. Backlog(s) :
         Queue(s)[k] = buffer[s][SlotAfter(s, k - 1)]

(* The refinement mapping yields a sequence whenever the ring has its type. *)
LEMMA QueueIsSeq == LibTypeOK => QueuesAreSeqs
<1> SUFFICES ASSUME LibTypeOK, NEW s \in Read
             PROVE  /\ Queue(s) \in Seq(Values \cup {Null})
                    /\ Len(Queue(s)) = Backlog(s)
                    /\ \A k \in 1 .. Backlog(s) :
                         Queue(s)[k] = buffer[s][SlotAfter(s, k - 1)]
  BY DEF QueuesAreSeqs
<1>1. s \in Streams /\ Cursor(s) \in Slots /\ Backlog(s) \in 0 .. BUFFER_SIZE
  BY BacklogBounds
<1>2. \A k \in 1 .. Backlog(s) : SlotAfter(s, k - 1) \in Slots
  BY <1>1, TopologyAssumption DEF SlotAfter, Slots
<1>3. Queue(s) \in [1 .. Backlog(s) -> Values \cup {Null}]
  BY <1>1, <1>2 DEF Queue, LibTypeOK
<1> QED
  BY <1>1, <1>3, TopologyAssumption DEF Queue

(* A step that leaves the ring and the cursors of a stream alone leaves    *)
(* its queue alone.                                                        *)
LEMMA SameQueue ==
  ASSUME NEW s \in Read,
         buffer'[s] = buffer[s],
         Backlog(s)' = Backlog(s),
         \A k : SlotAfter(s, k)' = SlotAfter(s, k)
  PROVE  Queue(s)' = Queue(s)
BY DEF Queue

(* get: the oldest token leaves the queue and is what the caller gets.     *)
LEMMA TakeIsReceive ==
  ASSUME ReaderInv, ReaderInv', NEW t \in Streams, GetTake(t),
         NEW s \in Read, s = src[t]
  PROVE  /\ Queue(s) # <<>>
         /\ Queue(s)' = Tail(Queue(s))
         /\ ret' = [ret EXCEPT ![t] = Head(Queue(s))]
<1>0. LibTypeOK /\ LibTypeOK' /\ s \in Read
  BY DEF ReaderInv, LibInv
<1>a. QueuesAreSeqs /\ QueuesAreSeqs'
  BY <1>0, QueueIsSeq, PTL
<1>1. /\ t = ReaderOf[s]
      /\ Backlog(s) > 0
      /\ Backlog(s)' = Backlog(s) - 1
      /\ \A k \in 0 .. BUFFER_SIZE - 2 : SlotAfter(s, k)' = SlotAfter(s, k + 1)
  BY TakeShortensBacklog
<1>2. buffer' = buffer /\ ret' = [ret EXCEPT ![t] = buffer[s][GetSlot(t)]]
  BY DEF GetTake
<1>3. Backlog(s) \in 0 .. BUFFER_SIZE /\ Cursor(s) \in Slots
  BY <1>0, BacklogBounds
<1>4. Head(Queue(s)) = buffer[s][GetSlot(t)]
  <2>1. SlotAfter(s, 0) = Cursor(s)
    BY <1>3, TopologyAssumption DEF SlotAfter, Slots
  <2>a. Cursor(s) = GetSlot(t)
    BY <1>1 DEF Cursor, GetSlot
  <2>2. Head(Queue(s)) = Queue(s)[1]
    BY <1>1, <1>3, <1>a, TopologyAssumption DEF QueuesAreSeqs
  <2>3. Queue(s)[1] = buffer[s][SlotAfter(s, 0)]
    BY <1>1, <1>3, <1>a, TopologyAssumption DEF QueuesAreSeqs
  <2> QED
    BY <2>1, <2>2, <2>3, <2>a
<1>5. /\ Queue(s) \in Seq(Values \cup {Null}) /\ Len(Queue(s)) = Backlog(s)
      /\ \A k \in 1 .. Backlog(s) :
           Queue(s)[k] = buffer[s][SlotAfter(s, k - 1)]
  BY <1>a DEF QueuesAreSeqs
<1>6. Queue(s) # <<>>
  BY <1>1, <1>3, <1>5, TopologyAssumption
<1>7. /\ Queue(s)' \in Seq(Values \cup {Null}) /\ Len(Queue(s)') = Backlog(s)'
      /\ \A k \in 1 .. Backlog(s)' :
           Queue(s)'[k] = buffer'[s][SlotAfter(s, k - 1)']
  BY <1>a DEF QueuesAreSeqs
<1>8. \A k \in 1 .. Backlog(s) - 1 : Queue(s)'[k] = Queue(s)[k + 1]
  <2> SUFFICES ASSUME NEW k \in 1 .. Backlog(s) - 1
               PROVE  Queue(s)'[k] = Queue(s)[k + 1]
    OBVIOUS
  <2>1. k - 1 \in 0 .. BUFFER_SIZE - 2 /\ k + 1 \in 1 .. Backlog(s)
        /\ k - 1 + 1 = k + 1 - 1
    BY <1>3, TopologyAssumption
  <2>2. SlotAfter(s, k - 1)' = SlotAfter(s, k + 1 - 1)
    BY <1>1, <2>1
  <2>3. k \in 1 .. Backlog(s)'
    BY <1>1
  <2> QED
    BY <1>2, <1>5, <1>7, <2>1, <2>2, <2>3
<1>9. Queue(s)' = Tail(Queue(s))
  <2>1. /\ Tail(Queue(s)) \in Seq(Values \cup {Null})
        /\ Len(Tail(Queue(s))) = Backlog(s) - 1
        /\ \A k \in 1 .. Backlog(s) - 1 : Tail(Queue(s))[k] = Queue(s)[k + 1]
    BY <1>5, <1>6, HeadTailProperties
  <2> QED
    BY <1>1, <1>7, <1>8, <2>1, SeqEqual
<1> QED
  BY <1>2, <1>4, <1>6, <1>9

(* put: the token becomes the youngest of the queue, which had room.       *)
LEMMA WriteIsSend ==
  ASSUME ReaderInv, ReaderInv', NEW s \in Read, NEW value \in Values,
         PutWrite(s, value)
  PROVE  /\ Len(Queue(s)) < BUFFER_SIZE
         /\ Queue(s)' = Append(Queue(s), value)
<1>0. LibTypeOK /\ LibTypeOK' /\ s \in Streams
  BY DEF ReaderInv, LibInv, Read
<1>a. QueuesAreSeqs /\ QueuesAreSeqs'
  BY <1>0, QueueIsSeq, PTL
<1>1. /\ Backlog(s) < BUFFER_SIZE
      /\ put_idx[s] = SlotAfter(s, Backlog(s))
      /\ Backlog(s)' = Backlog(s) + 1
      /\ \A k : SlotAfter(s, k)' = SlotAfter(s, k)
  BY WriteLengthensBacklog
<1>2. \A i \in Slots : buffer'[s][i] = IF i = put_idx[s] THEN value
                                      ELSE buffer[s][i]
  BY <1>0 DEF PutWrite, PutSlot, LibTypeOK
<1>3. Backlog(s) \in 0 .. BUFFER_SIZE /\ Cursor(s) \in Slots
      /\ put_idx[s] \in Slots
  BY <1>0, BacklogBounds
<1>4. /\ Queue(s) \in Seq(Values \cup {Null}) /\ Len(Queue(s)) = Backlog(s)
      /\ \A k \in 1 .. Backlog(s) :
           Queue(s)[k] = buffer[s][SlotAfter(s, k - 1)]
  BY <1>a DEF QueuesAreSeqs
<1>5. /\ Queue(s)' \in Seq(Values \cup {Null}) /\ Len(Queue(s)') = Backlog(s)'
      /\ \A k \in 1 .. Backlog(s)' :
           Queue(s)'[k] = buffer'[s][SlotAfter(s, k - 1)']
  BY <1>a DEF QueuesAreSeqs
<1>6. \A k \in 1 .. Backlog(s) : Queue(s)'[k] = Queue(s)[k]
  <2> SUFFICES ASSUME NEW k \in 1 .. Backlog(s)
               PROVE  Queue(s)'[k] = Queue(s)[k]
    OBVIOUS
  <2>1. SlotAfter(s, k - 1) # SlotAfter(s, Backlog(s))
        /\ SlotAfter(s, k - 1) \in Slots
    BY <1>1, <1>3, TopologyAssumption DEF SlotAfter, Slots
  <2>2. k \in 1 .. Backlog(s)'
    BY <1>1, <1>3, TopologyAssumption
  <2> QED
    BY <1>1, <1>2, <1>4, <1>5, <2>1, <2>2
<1>7. Queue(s)'[Backlog(s) + 1] = value
  <2>1. Backlog(s) + 1 \in 1 .. Backlog(s)' /\ Backlog(s) + 1 - 1 = Backlog(s)
    BY <1>1, <1>3, TopologyAssumption
  <2> QED
    BY <1>1, <1>2, <1>3, <1>5, <2>1
<1>8. Queue(s)' = Append(Queue(s), value)
  <2>1. value \in Values \cup {Null}
    OBVIOUS
  <2>2. /\ Append(Queue(s), value) \in Seq(Values \cup {Null})
        /\ Len(Append(Queue(s), value)) = Backlog(s) + 1
        /\ \A k \in 1 .. Backlog(s) : Append(Queue(s), value)[k] = Queue(s)[k]
        /\ Append(Queue(s), value)[Backlog(s) + 1] = value
    BY <1>4, <2>1, AppendProperties
  <2>3. \A k \in 1 .. Backlog(s) + 1 :
          Queue(s)'[k] = Append(Queue(s), value)[k]
    BY <1>3, <1>6, <1>7, <2>2, TopologyAssumption
  <2> QED
    BY <1>1, <1>5, <2>2, <2>3, SeqEqual
<1> QED
  BY <1>1, <1>4, <1>8

-----------------------------------------------------------------------------
(* The ring and the cursors: what only the last steps of get and put touch. *)
ringVars == <<buffer, buffer_read_count, put_idx, num_consumers, buffer_idx>>

(* The steps of the library that are neither of these two.                 *)
LEMMA QuietSteps ==
  ASSUME [LibNext]_libVars
  PROVE  \/ UNCHANGED <<ringVars, ret>>
         \/ \E t \in Streams : GetTake(t)
         \/ \E t \in Streams, value \in Values : PutWrite(t, value)
<1> USE DEF ringVars
<1>1. CASE UNCHANGED libVars
  BY <1>1 DEF libVars, streamVars, threadVars
<1>2. ASSUME NEW t \in Streams,
             CallPut(t) \/ SpuriousWakeup(t) \/ \E s \in Streams : CallGet(t, s)
      PROVE  UNCHANGED <<ringVars, ret>>
  BY <1>2 DEF CallGet, CallPut, SpuriousWakeup, streamVars, threadVars
<1>3. ASSUME NEW t \in Streams, InCall(t)
      PROVE  UNCHANGED <<ringVars, ret>>
  BY <1>3 DEF InCall, Acquire, GetAhead, GetFresh, SemWait, PutRoom, threadVars
<1> QED
  BY <1>1, <1>2, <1>3 DEF LibNext

(* The backlog after a step on one stream is as it was on the others.      *)
LEMMA OtherStreams ==
  ASSUME ReaderInv, NEW x \in Read,
         \/ UNCHANGED ringVars
         \/ \E t \in Streams : GetTake(t) /\ x # src[t]
         \/ \E t \in Streams, value \in Values : PutWrite(t, value) /\ x # t
  PROVE  /\ buffer'[x] = buffer[x]
         /\ Unread(x)' = Unread(x)
         /\ Backlog(x)' = Backlog(x)
         /\ \A k : SlotAfter(x, k)' = SlotAfter(x, k)
<1>1. x \in Streams /\ ReaderOf[x] \in Streams /\ LibTypeOK
  BY TheReader DEF Read, ReaderInv, LibInv
<1>2. /\ buffer'[x] = buffer[x]
      /\ buffer_read_count'[x] = buffer_read_count[x]
      /\ num_consumers'[x] = num_consumers[x]
      /\ put_idx'[x] = put_idx[x]
      /\ buffer_idx'[ReaderOf[x]][x] = buffer_idx[ReaderOf[x]][x]
  <2>1. CASE UNCHANGED ringVars
    BY <2>1 DEF ringVars
  <2>2. ASSUME NEW t \in Streams, GetTake(t), x # src[t] PROVE <1>2!:
    BY <1>1, <2>2 DEF GetTake, LibTypeOK
  <2>3. ASSUME NEW t \in Streams, NEW value \in Values, PutWrite(t, value),
               x # t
        PROVE  <1>2!:
    BY <1>1, <2>3 DEF PutWrite, LibTypeOK
  <2> QED
    BY <2>1, <2>2, <2>3
<1> QED
  BY <1>2, SameBacklog

(* At the start the ring has no backlog: 9999 makes every slot look read.  *)
LEMMA NoBacklogAtFirst ==
  ASSUME LibInit, NEW s \in Read
  PROVE  num_consumers[s] = 1 /\ Unread(s) = {} /\ Backlog(s) = 0
<1>1. s \in Streams /\ ReaderOf[s] \in Streams
  BY TheReader DEF Read
<1>2. num_consumers[s] = 1
  BY <1>1, TheReader DEF LibInit, Connected
<1>3. \A k \in Slots : buffer_read_count[s][k] = 9999
  BY <1>1 DEF LibInit, InitReadCount, AllRead
<1>4. Unread(s) = {}
  BY <1>2, <1>3 DEF Unread
<1>5. Cursor(s) = put_idx[s]
  BY <1>1 DEF LibInit, Cursor
<1> QED
  BY <1>2, <1>4, <1>5 DEF Backlog

(* ReaderInv holds at the start.                                           *)
LEMMA ReaderInit == LibInit => ReaderInv
<1> SUFFICES ASSUME LibInit PROVE ReaderInv
  OBVIOUS
<1>1. OneConsumer
  BY NoBacklogAtFirst DEF OneConsumer
<1>2. GetterIsConnected
  BY DEF LibInit, GetterIsConnected, GetPC
<1>3. UnreadIsTheBacklog
  BY NoBacklogAtFirst DEF UnreadIsTheBacklog
<1> QED
  BY <1>1, <1>2, <1>3, InitInv DEF ReaderInv

(* Only stream_connect changes num_consumers, and it has run before.       *)
LEMMA OneConsumerStep ==
  OneConsumer /\ [LibNext]_libVars => OneConsumer'
<1> SUFFICES ASSUME OneConsumer, [LibNext]_libVars PROVE OneConsumer'
  OBVIOUS
<1>1. UNCHANGED num_consumers
  BY QuietSteps DEF ringVars, GetTake, PutWrite
<1> QED
  BY <1>1 DEF OneConsumer

(* A get stays on the stream its caller named.                             *)
LEMMA GetterStep ==
  LibTypeOK /\ GetterIsConnected /\ [LibNext]_libVars => GetterIsConnected'
<1> SUFFICES ASSUME LibTypeOK, GetterIsConnected, [LibNext]_libVars
             PROVE  GetterIsConnected'
  OBVIOUS
<1> USE DEF GetterIsConnected, LibTypeOK, GetPC
<1>1. CASE UNCHANGED libVars
  BY <1>1 DEF libVars, threadVars
<1>2. ASSUME NEW t \in Streams, NEW s \in Streams, CallGet(t, s)
      PROVE  GetterIsConnected'
  BY <1>2 DEF CallGet
<1>3. ASSUME NEW t \in Streams, CallPut(t) \/ SpuriousWakeup(t) \/ Acquire(t)
      PROVE  GetterIsConnected'
  BY <1>3 DEF CallPut, SpuriousWakeup, Acquire, threadVars
<1>4. ASSUME NEW t \in Streams, GetAhead(t) PROVE GetterIsConnected'
  BY <1>4 DEF GetAhead
<1>5. ASSUME NEW t \in Streams, GetFresh(t) PROVE GetterIsConnected'
  BY <1>5 DEF GetFresh
<1>6. ASSUME NEW t \in Streams, SemWait(t) \/ PutRoom(t)
      PROVE  GetterIsConnected'
  BY <1>6 DEF SemWait, PutRoom
<1>7. ASSUME NEW t \in Streams,
             GetTake(t) \/ \E value \in Values : PutWrite(t, value)
      PROVE  GetterIsConnected'
  BY <1>7 DEF GetTake, PutWrite
<1> QED
  BY <1>1, <1>2, <1>3, <1>4, <1>5, <1>6, <1>7 DEF LibNext, InCall

(* get shortens the run of unread slots at its front, put lengthens it at  *)
(* its back, and nothing else touches it.                                  *)
LEMMA BacklogStep ==
  ReaderInv /\ [LibNext]_libVars => UnreadIsTheBacklog'
<1> SUFFICES ASSUME ReaderInv, [LibNext]_libVars, NEW x \in Read
             PROVE  Unread(x)' = {SlotAfter(x, k)' : k \in 0 .. Backlog(x)' - 1}
  BY DEF UnreadIsTheBacklog
<1>0. /\ LibTypeOK
      /\ Unread(x) = {SlotAfter(x, k) : k \in 0 .. Backlog(x) - 1}
      /\ x \in Streams
      /\ Backlog(x) \in 0 .. BUFFER_SIZE
      /\ Cursor(x) \in Slots
  BY BacklogBounds DEF ReaderInv, LibInv, UnreadIsTheBacklog
<1>1. CASE UNCHANGED ringVars
  BY <1>0, <1>1, OtherStreams
<1>2. ASSUME NEW t \in Streams, GetTake(t), x = src[t]
      PROVE  Unread(x)' = {SlotAfter(x, k)' : k \in 0 .. Backlog(x)' - 1}
  <2>1. /\ Backlog(x) > 0
        /\ Unread(x)' = Unread(x) \ {Cursor(x)}
        /\ Backlog(x)' = Backlog(x) - 1
        /\ \A k \in 0 .. BUFFER_SIZE - 2 :
             SlotAfter(x, k)' = SlotAfter(x, k + 1)
    BY <1>2, TakeShortensBacklog
  <2>2. Cursor(x) = SlotAfter(x, 0)
        /\ \A k \in 1 .. Backlog(x) - 1 : SlotAfter(x, k) # Cursor(x)
    BY <1>0, TopologyAssumption DEF SlotAfter, Slots
  <2>3. ASSUME NEW i \in Unread(x)'
        PROVE  \E k \in 0 .. Backlog(x)' - 1 : i = SlotAfter(x, k)'
    <3>1. PICK k \in 0 .. Backlog(x) - 1 : i = SlotAfter(x, k)
      BY <1>0, <2>1, <2>3
    <3>2. k # 0
      BY <2>1, <2>2, <2>3, <3>1
    <3>3. k - 1 \in 0 .. Backlog(x)' - 1 /\ k - 1 \in 0 .. BUFFER_SIZE - 2
          /\ k - 1 + 1 = k
      BY <1>0, <2>1, <3>1, <3>2, TopologyAssumption
    <3> QED
      BY <2>1, <3>1, <3>3
  <2>4. ASSUME NEW k \in 0 .. Backlog(x)' - 1
        PROVE  SlotAfter(x, k)' \in Unread(x)'
    <3>1. k + 1 \in 1 .. Backlog(x) - 1 /\ k \in 0 .. BUFFER_SIZE - 2
          /\ k + 1 \in 0 .. Backlog(x) - 1
      BY <1>0, <2>1, <2>4, TopologyAssumption
    <3> QED
      BY <1>0, <2>1, <2>2, <3>1
  <2> QED
    BY <2>3, <2>4
<1>3. ASSUME NEW t \in Streams, GetTake(t), x # src[t]
      PROVE  Unread(x)' = {SlotAfter(x, k)' : k \in 0 .. Backlog(x)' - 1}
  BY <1>0, <1>3, OtherStreams
<1>4. ASSUME NEW value \in Values, PutWrite(x, value)
      PROVE  Unread(x)' = {SlotAfter(x, k)' : k \in 0 .. Backlog(x)' - 1}
  <2>1. /\ Unread(x)' = Unread(x) \cup {put_idx[x]}
        /\ put_idx[x] = SlotAfter(x, Backlog(x))
        /\ Backlog(x)' = Backlog(x) + 1
        /\ \A k : SlotAfter(x, k)' = SlotAfter(x, k)
    BY <1>4, WriteLengthensBacklog
  <2>2. 0 .. Backlog(x)' - 1 = (0 .. Backlog(x) - 1) \cup {Backlog(x)}
    BY <1>0, <2>1, TopologyAssumption
  <2> QED
    BY <1>0, <2>1, <2>2
<1>5. ASSUME NEW t \in Streams, NEW value \in Values, PutWrite(t, value), x # t
      PROVE  Unread(x)' = {SlotAfter(x, k)' : k \in 0 .. Backlog(x)' - 1}
  BY <1>0, <1>5, OtherStreams
<1> QED
  BY <1>1, <1>2, <1>3, <1>4, <1>5, QuietSteps DEF ringVars

(* ReaderInv is inductive.                                                 *)
LEMMA ReaderStep == ReaderInv /\ [LibNext]_libVars => ReaderInv'
BY InvStep, OneConsumerStep, GetterStep, BacklogStep DEF ReaderInv, LibInv

(* ReaderInv is an invariant of every client of the library.               *)
THEOREM ReaderInvariant == LibSpec => []ReaderInv
BY ReaderInit, ReaderStep, PTL DEF LibSpec

(* The unread slots of a stream with one consumer are the ones between its *)
(* cursor and the put cursor, without a hole.                              *)
THEOREM BacklogCorrect == LibSpec => []UnreadIsTheBacklog
<1>1. ReaderInv => UnreadIsTheBacklog
  BY DEF ReaderInv
<1> QED
  BY <1>1, ReaderInvariant, PTL

(* put's wait loop never sleeps on a stream with one consumer.             *)
THEOREM PutWaitsOnce == LibSpec => []PutNeverWaitsTwice
BY NeverFullAfterSemWait, ReaderInvariant, PTL

-----------------------------------------------------------------------------
(* The empty ring is the empty queue.                                      *)
LEMMA QueueInit == LibInit => Channel!ChannelInit
<1> SUFFICES ASSUME LibInit PROVE Channel!ChannelInit
  OBVIOUS
<1>1. \A s \in Read : Queue(s) = <<>>
  BY NoBacklogAtFirst DEF Queue
<1>2. Channel!Linked = Read
  BY DEF Channel!Linked, Read, Channel!Consumers, Consumers
<1> QED
  BY <1>1, <1>2 DEF Channel!ChannelInit, QueueOf, LibInit

(* A step that leaves the rings alone leaves the queues alone, the rest of *)
(* get is the abstract receive and the rest of put the abstract send.      *)
LEMMA QuietQueues ==
  ASSUME ReaderInv, UNCHANGED <<ringVars, ret>>
  PROVE  UNCHANGED <<QueueOf, ret>>
<1>1. \A s \in Read : Queue(s)' = Queue(s)
  BY OtherStreams, SameQueue
<1> QED
  BY <1>1 DEF QueueOf

LEMMA TakeReceives ==
  ASSUME ReaderInv, ReaderInv', NEW t \in Streams, GetTake(t)
  PROVE  \E s \in Read : s = src[t] /\ Channel!Receive(t, s)
<1>1. PICK s \in Read : s = src[t] /\ <<t, s>> \in Connections
  BY DEF ReaderInv, LibInv, LibTypeOK, GetterIsConnected, GetTake, GetPC,
         Read, Consumers
<1>2. /\ Queue(s) # <<>>
      /\ Queue(s)' = Tail(Queue(s))
      /\ ret' = [ret EXCEPT ![t] = Head(Queue(s))]
  BY <1>1, TakeIsReceive
<1>3. \A x \in Read : x # s => Queue(x)' = Queue(x)
  BY <1>1, OtherStreams, SameQueue
<1>4. QueueOf' = [QueueOf EXCEPT ![s] = Tail(@)]
  BY <1>2, <1>3 DEF QueueOf
<1>5. Channel!Receive(t, s)
  BY <1>1, <1>2, <1>4 DEF Channel!Receive, QueueOf
<1> QED
  BY <1>1, <1>5

LEMMA WriteSends ==
  ASSUME ReaderInv, ReaderInv', NEW s \in Read, NEW value \in Values,
         PutWrite(s, value)
  PROVE  Channel!Send(s, value)
<1>0. Channel!Linked = Read
  BY DEF Channel!Linked, Read, Channel!Consumers, Consumers
<1>1. /\ Len(Queue(s)) < BUFFER_SIZE
      /\ Queue(s)' = Append(Queue(s), value)
  BY WriteIsSend
<1>2. \A x \in Read : x # s => Queue(x)' = Queue(x)
  BY OtherStreams, SameQueue DEF Read
<1>3. QueueOf' = [QueueOf EXCEPT ![s] = Append(@, value)]
  BY <1>1, <1>2 DEF QueueOf
<1> QED
  BY <1>0, <1>1, <1>3 DEF Channel!Send, QueueOf, PutWrite

(* Every step of get and put is an abstract send, an abstract receive or   *)
(* leaves the queues alone.                                                *)
LEMMA QueueStep ==
  ReaderInv /\ [LibNext]_libVars => [Channel!ChannelNext]_Channel!channelVars
<1> SUFFICES ASSUME ReaderInv, [LibNext]_libVars
             PROVE  [Channel!ChannelNext]_Channel!channelVars
  OBVIOUS
<1> USE DEF Channel!channelVars
<1>0. ReaderInv'
  BY ReaderStep
<1>a. Channel!Linked = Read
  BY DEF Channel!Linked, Read, Channel!Consumers, Consumers
<1>1. CASE UNCHANGED <<ringVars, ret>>
  BY <1>1, QuietQueues
<1>2. ASSUME NEW t \in Streams, GetTake(t)
      PROVE  Channel!ChannelNext
  <2>1. PICK s \in Read : Channel!Receive(t, s)
    BY <1>0, <1>2, TakeReceives
  <2> QED
    BY <1>a, <2>1 DEF Channel!ChannelNext
<1>3. ASSUME NEW s \in Read, NEW value \in Values, PutWrite(s, value)
      PROVE  Channel!ChannelNext
  <2>1. Channel!Send(s, value)
    BY <1>0, <1>3, WriteSends
  <2> QED
    BY <1>a, <2>1 DEF Channel!ChannelNext
<1>4. ASSUME NEW t \in Streams \ Read, NEW value \in Values, PutWrite(t, value)
      PROVE  UNCHANGED <<QueueOf, ret>>
  <2>1. \A x \in Read : Queue(x)' = Queue(x)
    BY <1>4, OtherStreams, SameQueue
  <2> QED
    BY <1>4, <2>1 DEF QueueOf, PutWrite
<1> QED
  BY <1>1, <1>2, <1>3, <1>4, QuietSteps

(* A stream with one consumer is a FIFO queue of BUFFER_SIZE tokens: every *)
(* behaviour of get and put implements Channels.                           *)
THEOREM FifoCorrect == LibSpec => FifoPerStream
BY QueueInit, QueueStep, ReaderInvariant, PTL
   DEF LibSpec, FifoPerStream, Channel!ChannelSpec

-----------------------------------------------------------------------------
(* The programs.                                                           *)

(* What a thread puts is a number.                                         *)
LEMMA TokenIsNumber ==
  ASSUME Values = Nat, ThreadInv, NEW t \in Streams, Sends(t)
  PROVE  Token(t) \in Nat
<1>1. /\ sent[t] \in Nat
      /\ held[t] \in [1 .. Len(ProdList[t]) -> Nat \cup {Null}]
  BY DEF ThreadInv, ProgTypeOK
<1>2. CASE Role[t] = "successor"
  BY <1>1, <1>2 DEF Token
<1>3. CASE Role[t] \in {"times", "merge"}
  <2>1. Wanted(t) = {}
    BY <1>3 DEF Sends
  <2>2. CASE Role[t] = "times"
    <3>1. Len(ProdList[t]) = 1
      BY <2>2, Lists
    <3>2. held[t][1] \in Nat
      BY <1>1, <2>1, <3>1 DEF Wanted
    <3> QED
      BY <2>2, <3>2 DEF Token, Smaller
  <2>3. CASE Role[t] = "merge"
    <3>1. Len(ProdList[t]) = 2
      BY <2>3, Lists
    <3>2. held[t][1] \in Nat /\ held[t][2] \in Nat
      BY <1>1, <2>1, <3>1 DEF Wanted
    <3> QED
      BY <2>3, <3>2 DEF Token, Smaller
  <2> QED
    BY <1>3, <2>2, <2>3
<1> QED
  BY <1>2, <1>3 DEF Sends

(* A step of a program is a step of the library under its most general     *)
(* client: what the thread function does in between changes no stream.     *)
LEMMA ProgramIsClient ==
  ASSUME Values = Nat, ThreadInv, [Next]_vars
  PROVE  [LibNext]_libVars
<1>1. CASE UNCHANGED vars
  BY <1>1 DEF vars
<1>2. ASSUME NEW t \in Streams, Calls(t)
      PROVE  LibNext
  <2>1. CASE CallGet(t, NextProducer(t))
    <3>1. PICK s : s = NextProducer(t)
      OBVIOUS
    <3>2. CallGet(t, s) /\ s \in Streams
      BY <2>1, <3>1, TopologyAssumption DEF CallGet
    <3> QED
      BY <3>2 DEF LibNext
  <2>2. CASE CallPut(t)
    BY <2>2 DEF LibNext
  <2> QED
    BY <1>2, <2>1, <2>2 DEF Calls
<1>3. ASSUME NEW t \in Streams, Waits(t) \/ Wakes(t)
      PROVE  LibNext
  BY <1>3 DEF Waits, Wakes, LibNext
<1>4. ASSUME NEW t \in Streams, Returns(t)
      PROVE  LibNext
  <2>1. CASE GetTake(t)
    BY <2>1 DEF LibNext
  <2>2. CASE PutWrite(t, Token(t))
    <3>1. PICK v : v = Token(t)
      OBVIOUS
    <3>2. Sends(t)
      BY <2>2 DEF ThreadInv, CallsMatchPrograms, PutWrite, PutPC
    <3>3. v \in Values /\ PutWrite(t, v)
      BY <2>2, <3>1, <3>2, TokenIsNumber
    <3> QED
      BY <3>3 DEF LibNext
  <2> QED
    BY <1>4, <2>1, <2>2 DEF Returns
<1> QED
  BY <1>1, <1>2, <1>3, <1>4 DEF Next, Thread

-----------------------------------------------------------------------------
(* What a thread asks for or sends depends on what it holds and printed.   *)
LEMMA SameNeeds ==
  ASSUME NEW u \in Streams, held'[u] = held[u], got'[u] = got[u]
  PROVE  /\ Asks(u)' <=> Asks(u)
         /\ Sends(u)' <=> Sends(u)
         /\ NextProducer(u)' = NextProducer(u)
<1>1. Wanted(u)' = Wanted(u)
  BY DEF Wanted
<1>2. Finished(u)' <=> Finished(u)
  BY DEF Finished
<1>3. NextProducer(u)' = NextProducer(u)
  BY <1>1 DEF NextProducer
<1> QED
  BY <1>1, <1>2, <1>3 DEF Asks, Sends

(* Entering a call, waiting and waking up keep what a call is for ...      *)
LEMMA QuietCalls ==
  ASSUME ThreadInv, NEW t \in Streams, Calls(t) \/ Waits(t) \/ Wakes(t)
  PROVE  CallsMatchPrograms'
<1>0. UNCHANGED <<held, sent, got>>
  BY DEF Calls, Waits, Wakes, progVars
<1>1. ASSUME NEW u \in Streams
      PROVE  /\ Asks(u)' <=> Asks(u)
             /\ Sends(u)' <=> Sends(u)
             /\ NextProducer(u)' = NextProducer(u)
  BY <1>0, SameNeeds
<1>2. /\ pc \in [Streams -> {"idle"} \cup GetPC \cup PutPC]
      /\ src \in [Streams -> Streams]
  BY DEF ThreadInv, ReaderInv, LibInv, LibTypeOK
<1>3. ASSUME NEW u \in Streams
      PROVE  /\ pc[u] \in GetPC => Asks(u) /\ src[u] = NextProducer(u)
             /\ pc[u] \in PutPC => Sends(u)
  BY DEF ThreadInv, CallsMatchPrograms
<1>4. ASSUME NEW u \in Streams
      PROVE  /\ pc'[u] \in GetPC => Asks(u) /\ src'[u] = NextProducer(u)
             /\ pc'[u] \in PutPC => Sends(u)
  <2>1. CASE Asks(t) /\ CallGet(t, NextProducer(t))
    BY <1>2, <1>3, <2>1 DEF CallGet, GetPC, PutPC
  <2>2. CASE Sends(t) /\ CallPut(t)
    BY <1>2, <1>3, <2>2 DEF CallPut, GetPC, PutPC
  <2>3. CASE InCall(t) \/ SpuriousWakeup(t)
    <3>1. /\ src' = src
          /\ \A x \in Streams : /\ pc'[x] \in GetPC => pc[x] \in GetPC
                                /\ pc'[x] \in PutPC => pc[x] \in PutPC
      BY <1>2, <2>3 DEF InCall, SpuriousWakeup, Acquire, GetAhead, GetFresh, SemWait,
                        PutRoom, threadVars, GetPC, PutPC
    <3> QED
      BY <1>3, <3>1
  <2> QED
    BY <2>1, <2>2, <2>3 DEF Calls, Waits, Wakes
<1> QED
  BY <1>1, <1>4 DEF CallsMatchPrograms

(* ... and a call that returns changes only what its own thread holds.     *)
LEMMA ReturningCalls ==
  ASSUME ThreadInv, NEW t \in Streams, Returns(t)
  PROVE  CallsMatchPrograms'
<1>1. /\ pc \in [Streams -> {"idle"} \cup GetPC \cup PutPC]
      /\ got \in [Running("consumer") -> Seq(Values)]
      /\ DOMAIN held = Streams
  BY DEF ThreadInv, ReaderInv, LibInv, LibTypeOK, ProgTypeOK
<1>2. pc' = [pc EXCEPT ![t] = "idle"] /\ src' = src
  BY DEF Returns, GetTake, PutWrite
<1>3. ASSUME NEW u \in Streams, u # t
      PROVE  held'[u] = held[u] /\ got'[u] = got[u]
  <2>1. CASE got' = got
    <3>1. held'[u] = held[u]
      BY <1>1, <1>3 DEF Returns, Got, TimesGot, MergeGot, ConsumerGot, Sent
    <3> QED
      BY <2>1, <3>1
  <2>2. CASE ConsumerGot(t, ret'[t])
    BY <1>1, <1>3, <2>2 DEF ConsumerGot
  <2> QED
    BY <2>1, <2>2 DEF Returns, Got, TimesGot, MergeGot, Sent
<1>4. ASSUME NEW u \in Streams
      PROVE  /\ pc'[u] \in GetPC => Asks(u)' /\ src'[u] = NextProducer(u)'
             /\ pc'[u] \in PutPC => Sends(u)'
  <2>1. CASE u = t
    BY <1>1, <1>2, <2>1 DEF GetPC, PutPC
  <2>2. CASE u # t
    <3>1. /\ Asks(u)' <=> Asks(u)
          /\ Sends(u)' <=> Sends(u)
          /\ NextProducer(u)' = NextProducer(u)
      BY <1>3, <2>2, SameNeeds
    <3>2. pc'[u] = pc[u]
      BY <1>1, <1>2, <2>2
    <3> QED
      BY <1>2, <3>1, <3>2 DEF ThreadInv, CallsMatchPrograms
  <2> QED
    BY <2>1, <2>2
<1> QED
  BY <1>4 DEF CallsMatchPrograms

(* A call that returns keeps the types of what the programs hold.          *)
LEMMA ReturningTypes ==
  ASSUME Values = Nat, ThreadInv, NEW t \in Streams, Returns(t)
  PROVE  ProgTypeOK' /\ (DOMAIN held = Streams)'
<1>1. /\ got \in [Running("consumer") -> Seq(Nat)]
      /\ sent \in [Streams -> Nat]
      /\ DOMAIN held = Streams
      /\ \A u \in Streams : held[u] \in [1 .. Len(ProdList[u]) -> Nat \cup {Null}]
  BY DEF ThreadInv, ProgTypeOK
<1>2. CASE GetTake(t) /\ Got(t, src[t], ret'[t])
  <2>1. PICK v : v = ret'[t]
    OBVIOUS
  <2>2. v \in Nat
    <3>1. LibTypeOK /\ pc[t] = "take"
      BY <1>2 DEF ThreadInv, ReaderInv, LibInv, GetTake
    <3>2. buffer[src[t]][GetSlot(t)] # Null
      BY <3>1 DEF ThreadInv, ReaderInv, LibInv, LibTypeOK, StillTrueAfterTheLoop,
                  NothingNew, GetSlot, UnreadSlotsHoldTokens, Unread
    <3>3. buffer[src[t]][GetSlot(t)] \in Nat \cup {Null}
      BY <3>1 DEF LibTypeOK, GetSlot
    <3>4. v = buffer[src[t]][GetSlot(t)]
      BY <1>2, <2>1, <3>1 DEF GetTake, LibTypeOK
    <3> QED
      BY <3>2, <3>3, <3>4
  <2>3. CASE TimesGot(t, v)
    <3>1. v * Multiplier[t] \in Nat
      BY <2>2, Lists
    <3> QED
      BY <1>1, <2>3, <3>1 DEF TimesGot, ProgTypeOK, Running
  <2>4. CASE MergeGot(t, src[t], v)
    <3>1. PICK k \in 1 .. 2 : held' = [held EXCEPT ![t][k] = v]
      BY <2>4 DEF MergeGot
    <3> QED
      BY <1>1, <2>2, <2>4, <3>1 DEF MergeGot, ProgTypeOK, Running
  <2>5. CASE ConsumerGot(t, v)
    <3>1. t \in Running("consumer")
      BY <2>5 DEF ConsumerGot, Running
    <3>2. Append(got[t], v) \in Seq(Nat)
      BY <1>1, <2>2, <3>1, AppendProperties
    <3>3. (got \in [Running("consumer") -> Seq(Values)])'
      BY <1>1, <2>5, <3>1, <3>2 DEF ConsumerGot, Running
    <3> QED
      BY <1>1, <2>5, <3>3 DEF ConsumerGot, ProgTypeOK
  <2> QED
    BY <1>2, <2>1, <2>3, <2>4, <2>5 DEF Got
<1>3. CASE PutWrite(t, Token(t)) /\ Sent(t)
  <2>1. sent' \in [Streams -> Nat] /\ got' = got
    BY <1>1, <1>3 DEF Sent
  <2>2. /\ DOMAIN held' = Streams
        /\ \A u \in Streams : held'[u] \in [1 .. Len(ProdList[u]) -> Nat \cup {Null}]
    BY <1>1, <1>3 DEF Sent
  <2> QED
    BY <1>1, <2>1, <2>2 DEF ProgTypeOK, Running
<1> QED
  BY <1>2, <1>3 DEF Returns

LEMMA ThreadStart ==
  ASSUME Init
  PROVE  ThreadInv
<1>1. ReaderInv
  BY ReaderInit DEF Init
<1>2. ProgTypeOK /\ DOMAIN held = Streams
  BY EmptySeq DEF Init, ProgInit, ProgTypeOK
<1>3. CallsMatchPrograms
  BY DEF Init, LibInit, CallsMatchPrograms, GetPC, PutPC
<1> QED
  BY <1>1, <1>2, <1>3 DEF ThreadInv

LEMMA ThreadStep ==
  ASSUME Values = Nat, ThreadInv, [Next]_vars
  PROVE  ThreadInv'
<1>1. ReaderInv'
  BY ProgramIsClient, ReaderStep DEF ThreadInv
<1>2. CASE UNCHANGED vars
  <2>1. UNCHANGED <<held, sent, got, pc, src>>
    BY <1>2 DEF vars, progVars, libVars, threadVars
  <2>2. ProgTypeOK' /\ (DOMAIN held = Streams)'
    BY <2>1 DEF ThreadInv, ProgTypeOK
  <2>3. CallsMatchPrograms'
    BY <2>1, SameNeeds DEF ThreadInv, CallsMatchPrograms
  <2> QED
    BY <1>1, <2>2, <2>3 DEF ThreadInv
<1>3. ASSUME NEW t \in Streams, Calls(t) \/ Waits(t) \/ Wakes(t)
      PROVE  ThreadInv'
  <2>1. UNCHANGED <<held, sent, got>>
    BY <1>3 DEF Calls, Waits, Wakes, progVars
  <2>2. ProgTypeOK' /\ (DOMAIN held = Streams)'
    BY <2>1 DEF ThreadInv, ProgTypeOK
  <2> QED
    BY <1>1, <1>3, <2>2, QuietCalls DEF ThreadInv
<1>4. ASSUME NEW t \in Streams, Returns(t)
      PROVE  ThreadInv'
  BY <1>1, <1>4, ReturningCalls, ReturningTypes DEF ThreadInv
<1> QED
  BY <1>2, <1>3, <1>4 DEF Next, Thread

(* The inductive invariant of the programs on the stream library.          *)
THEOREM ThreadInvariant ==
  ASSUME Values = Nat
  PROVE  Spec => []ThreadInv
<1>1. Init => ThreadInv
  BY ThreadStart
<1>2. ThreadInv /\ [Next]_vars => ThreadInv'
  BY ThreadStep
<1> QED
  BY <1>1, <1>2, PTL DEF Spec

-----------------------------------------------------------------------------
(* The thread functions are the same on the rings and on the queues.       *)
LEMMA SamePrograms ==
  /\ Ideal!Linked = Read
  /\ \A t : /\ Ideal!Asks(t) <=> Asks(t)
            /\ Ideal!Sends(t) <=> Sends(t)
            /\ Ideal!NextProducer(t) = NextProducer(t)
            /\ Ideal!Token(t) = Token(t)
<1>1. Ideal!Linked = Read
  BY DEF Ideal!Linked, Read, Ideal!Consumers, Consumers
<1>2. ASSUME NEW t
      PROVE  /\ Ideal!Asks(t) <=> Asks(t)
             /\ Ideal!Sends(t) <=> Sends(t)
             /\ Ideal!NextProducer(t) = NextProducer(t)
             /\ Ideal!Token(t) = Token(t)
  <2>1. /\ Ideal!Wanted(t) = Wanted(t)
        /\ Ideal!Finished(t) <=> Finished(t)
        /\ Ideal!Smaller(t) = Smaller(t)
    BY DEF Ideal!Wanted, Wanted, Ideal!Finished, Finished, Ideal!Smaller, Smaller
  <2>2. (Ideal!Asks(t) <=> Asks(t)) /\ (Ideal!Sends(t) <=> Sends(t))
    BY <2>1 DEF Ideal!Asks, Asks, Ideal!Sends, Sends
  <2>3. Ideal!NextProducer(t) = NextProducer(t)
    BY <2>1 DEF Ideal!NextProducer, NextProducer
  <2>4. Ideal!Token(t) = Token(t)
    BY <2>1 DEF Ideal!Token, Token
  <2> QED
    BY <2>2, <2>3, <2>4
<1> QED
  BY <1>1, <1>2

(* The rest of get, with what the thread function then does, is Fetch ...  *)
LEMMA TakeIsFetch ==
  ASSUME ThreadInv, ReaderInv', NEW t \in Streams, GetTake(t), Got(t, src[t], ret'[t])
  PROVE  Ideal!Fetch(t)
<1>1. PICK s \in Read : s = src[t] /\ Channel!Receive(t, s)
  BY TakeReceives DEF ThreadInv
<1>2. Asks(t) /\ s = NextProducer(t)
  BY <1>1 DEF ThreadInv, CallsMatchPrograms, GetTake, GetPC
<1>3. Ideal!Receive(t, s)
  BY <1>1 DEF Channel!Receive, Ideal!Receive
<1>4. Ideal!Got(t, s, ret'[t])
  BY <1>1 DEF Got, TimesGot, MergeGot, ConsumerGot, Ideal!Got, Ideal!TimesGot,
              Ideal!MergeGot, Ideal!ConsumerGot
<1> QED
  BY <1>2, <1>3, <1>4, SamePrograms DEF Ideal!Fetch

(* ... and the rest of put is Pass.                                        *)
LEMMA WriteIsPass ==
  ASSUME Values = Nat, ThreadInv, ReaderInv', NEW t \in Streams,
         PutWrite(t, Token(t)), Sent(t)
  PROVE  Ideal!Pass(t)
<1>1. PICK v : v = Token(t)
  OBVIOUS
<1>2. Sends(t)
  BY DEF ThreadInv, CallsMatchPrograms, PutWrite, PutPC
<1>3. v \in Values /\ PutWrite(t, v)
  BY <1>1, <1>2, TokenIsNumber
<1>4. t \in Read
  BY <1>2, SingleReaderProgramsAssumption DEF Sends
<1>5. Channel!Send(t, v)
  BY <1>3, <1>4, WriteSends DEF ThreadInv
<1>6. Ideal!Send(t, v)
  BY <1>5 DEF Channel!Send, Ideal!Send, Channel!Linked, Ideal!Linked,
              Channel!Consumers, Ideal!Consumers
<1>7. Ideal!Sent(t)
  BY DEF Sent, Ideal!Sent, Smaller, Ideal!Smaller
<1> QED
  BY <1>1, <1>2, <1>6, <1>7, SamePrograms DEF Ideal!Pass

LEMMA IdealStart ==
  ASSUME Init
  PROVE  Ideal!IdealInit
<1>1. Channel!ChannelInit
  BY QueueInit DEF Init
<1>2. Ideal!ChannelInit
  BY <1>1 DEF Channel!ChannelInit, Ideal!ChannelInit, Channel!Linked, Ideal!Linked,
              Channel!Consumers, Ideal!Consumers
<1>3. Ideal!ProgInit
  BY DEF Init, ProgInit, Ideal!ProgInit, Running, Ideal!Running
<1> QED
  BY <1>2, <1>3 DEF Ideal!IdealInit

(* Every step of a program on the library is a step of the same program on *)
(* ideal queues, or is not seen there.                                     *)
LEMMA IdealStep ==
  ASSUME Values = Nat, ThreadInv, [Next]_vars
  PROVE  [Ideal!IdealNext]_Ideal!cvars
<1>0. ReaderInv /\ ReaderInv'
  BY ThreadStep DEF ThreadInv
<1>1. CASE UNCHANGED <<ringVars, ret, progVars>>
  <2>1. UNCHANGED <<QueueOf, ret>>
    BY <1>0, <1>1, QuietQueues
  <2> QED
    BY <1>1, <2>1 DEF Ideal!cvars, Ideal!channelVars, Ideal!progVars, progVars
<1>2. CASE UNCHANGED vars
  BY <1>1, <1>2 DEF vars, libVars, streamVars, threadVars, ringVars
<1>3. ASSUME NEW t \in Streams, Calls(t) \/ Waits(t) \/ Wakes(t)
      PROVE  UNCHANGED <<ringVars, ret, progVars>>
  BY <1>3 DEF Calls, Waits, Wakes, CallGet, CallPut, InCall, SpuriousWakeup, Acquire,
              GetAhead, GetFresh, SemWait, PutRoom, ringVars, streamVars, threadVars
<1>4. ASSUME NEW t \in Streams, Returns(t)
      PROVE  Ideal!IdealNext
  <2>1. Ideal!Fetch(t) \/ Ideal!Pass(t)
    BY <1>0, <1>4, TakeIsFetch, WriteIsPass DEF Returns
  <2> QED
    BY <2>1 DEF Ideal!IdealNext, Ideal!IdealThread
<1> QED
  BY <1>1, <1>2, <1>3, <1>4 DEF Next, Thread

(* The programs on the stream library implement the programs on ideal      *)
(* queues, whatever the size of the ring and however the threads run.      *)
THEOREM IdealCorrect ==
  ASSUME Values = Nat
  PROVE  Spec => ImplementsIdeal
<1>1. Init => Ideal!IdealInit
  BY IdealStart
<1>2. ThreadInv /\ [Next]_vars => [Ideal!IdealNext]_Ideal!cvars
  BY IdealStep
<1> QED
  BY <1>1, <1>2, ThreadInvariant, PTL DEF Spec, ImplementsIdeal, Ideal!IdealSpec

-----------------------------------------------------------------------------
(* Let queue and received stand for what the rings hold and get returned.  *)
(* Then the steps above are steps of ChannelPrograms itself, and what is   *)
(* proved of its programs holds of the programs on the library.            *)
QueuesAreRings == queue = QueueOf /\ received = ret

LEMMA RingsAsQueues ==
  /\ Ideal!IdealInit /\ QueuesAreRings => IdealInit
  /\ [Ideal!IdealNext]_Ideal!cvars /\ QueuesAreRings /\ QueuesAreRings' =>
       [IdealNext]_cvars
<1>0. Ideal!Linked = Linked
  BY DEF Ideal!Linked, Linked, Ideal!Consumers, Consumers
<1>1. ASSUME Ideal!IdealInit, QueuesAreRings
      PROVE  IdealInit
  BY <1>0, <1>1 DEF Ideal!IdealInit, IdealInit, Ideal!ChannelInit, ChannelInit,
                    Ideal!ProgInit, ProgInit, Ideal!Running, Running, QueuesAreRings
<1>2. ASSUME QueuesAreRings, QueuesAreRings', NEW t \in Streams, Ideal!Fetch(t)
      PROVE  Fetch(t)
  <2>1. PICK p : p = NextProducer(t)
    OBVIOUS
  <2>2. Asks(t) /\ Ideal!Receive(t, p) /\ Ideal!Got(t, p, ret'[t])
    BY <1>2, <2>1, SamePrograms DEF Ideal!Fetch
  <2>3. Receive(t, p)
    BY <1>2, <2>2 DEF Ideal!Receive, Receive, QueuesAreRings
  <2>4. Got(t, p, received'[t])
    BY <1>2, <2>2 DEF Got, TimesGot, MergeGot, ConsumerGot, Ideal!Got, Ideal!TimesGot,
                      Ideal!MergeGot, Ideal!ConsumerGot, QueuesAreRings
  <2> QED
    BY <2>1, <2>2, <2>3, <2>4 DEF Fetch
<1>3. ASSUME QueuesAreRings, QueuesAreRings', NEW t \in Streams, Ideal!Pass(t)
      PROVE  Pass(t)
  <2>1. PICK v : v = Token(t)
    OBVIOUS
  <2>2. Sends(t) /\ Ideal!Sent(t) /\ Ideal!Send(t, v)
    BY <1>3, <2>1, SamePrograms DEF Ideal!Pass
  <2>3. Send(t, v)
    BY <1>0, <1>3, <2>2 DEF Ideal!Send, Send, QueuesAreRings
  <2>4. Sent(t)
    BY <2>2 DEF Sent, Ideal!Sent, Smaller, Ideal!Smaller
  <2> QED
    BY <2>1, <2>2, <2>3, <2>4 DEF Pass
<1>4. ASSUME QueuesAreRings, QueuesAreRings', UNCHANGED Ideal!cvars
      PROVE  UNCHANGED cvars
  BY <1>4 DEF Ideal!cvars, Ideal!channelVars, Ideal!progVars, cvars, channelVars,
              progVars, QueuesAreRings
<1> QED
  BY <1>1, <1>2, <1>3, <1>4 DEF Ideal!IdealNext, Ideal!IdealThread, IdealNext,
                                IdealThread

(* On the stream library, with one consumer per stream, every consumer     *)
(* prints every token once and in order, however the threads interleave.   *)
THEOREM LibraryPrintsInOrder ==
  ASSUME Values = Nat
  PROVE  Spec /\ []QueuesAreRings => []PrintsInOrder
<1>1. Init /\ QueuesAreRings => IdealInit
  BY IdealStart, RingsAsQueues
<1>2. ThreadInv /\ [Next]_vars /\ QueuesAreRings /\ QueuesAreRings' =>
        [IdealNext]_cvars
  BY IdealStep, RingsAsQueues
<1>3. Spec /\ []QueuesAreRings => IdealSpec
  BY <1>1, <1>2, ThreadInvariant, PTL DEF Spec, IdealSpec
<1> QED
  BY <1>3, PrintsCorrect, PTL
=============================================================================
