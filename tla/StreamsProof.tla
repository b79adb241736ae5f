---------------------------- MODULE StreamsProof ----------------------------
(***************************************************************************)
(* Proofs about the stream library, for every set of streams, every        *)
(* topology and every BUFFER_SIZE.                                         *)
(***************************************************************************)
EXTENDS Streams, FiniteSetTheorems, TLAPS

(* The read count 9999 of init_stream is a number.                         *)
LEMMA AllReadNat == AllRead \in Nat
BY DEF AllRead

(* The cursors of get and put stay inside the ring.                        *)
LEMMA NextSlot ==
  ASSUME NEW k \in Slots
  PROVE  (k + 1) % BUFFER_SIZE \in Slots
BY StreamsAssumption, TopologyAssumption DEF Slots

(* Every step of the library keeps the types.                              *)
LEMMA TypeStep == LibTypeOK /\ [LibNext]_libVars => LibTypeOK'
<1> SUFFICES ASSUME LibTypeOK, [LibNext]_libVars PROVE LibTypeOK'
  OBVIOUS
<1> USE DEF LibTypeOK, GetPC, PutPC
<1>1. CASE UNCHANGED libVars
  BY <1>1 DEF libVars, streamVars, threadVars
<1>2. ASSUME NEW t \in Streams, NEW s \in Streams, CallGet(t, s)
      PROVE  LibTypeOK'
  BY <1>2 DEF CallGet, streamVars
<1>3. ASSUME NEW t \in Streams, CallPut(t) PROVE LibTypeOK'
  BY <1>3 DEF CallPut, streamVars
<1>4. ASSUME NEW t \in Streams, Acquire(t) PROVE LibTypeOK'
  BY <1>4 DEF Acquire, Target, threadVars
<1>5. ASSUME NEW t \in Streams, GetAhead(t) PROVE LibTypeOK'
  <2>1. CASE CondWait(t, src[t]) /\ UNCHANGED pc
    BY <1>5, <2>1 DEF GetAhead, CondWait
  <2>2. CASE pc' = [pc EXCEPT ![t] = "fresh"] /\ UNCHANGED <<lock, notifier>>
    BY <1>5, <2>2 DEF GetAhead
  <2> QED
    BY <1>5, <2>1, <2>2 DEF GetAhead
<1>6. ASSUME NEW t \in Streams, GetFresh(t) PROVE LibTypeOK'
  <2>1. CASE CondWait(t, src[t]) /\ UNCHANGED pc
    BY <1>6, <2>1 DEF GetFresh, CondWait
  <2>2. CASE pc' = [pc EXCEPT ![t] = "take"] /\ UNCHANGED <<lock, notifier>>
    BY <1>6, <2>2 DEF GetFresh
  <2> QED
    BY <1>6, <2>1, <2>2 DEF GetFresh
<1>7. ASSUME NEW t \in Streams, SemWait(t) PROVE LibTypeOK'
  BY <1>7 DEF SemWait
<1>8. ASSUME NEW t \in Streams, PutRoom(t) PROVE LibTypeOK'
  <2>1. CASE CondWait(t, t) /\ UNCHANGED pc
    BY <1>8, <2>1 DEF PutRoom, CondWait
  <2>2. CASE pc' = [pc EXCEPT ![t] = "write"] /\ UNCHANGED <<lock, notifier>>
    BY <1>8, <2>2 DEF PutRoom
  <2> QED
    BY <1>8, <2>1, <2>2 DEF PutRoom
<1>9. ASSUME NEW t \in Streams, SpuriousWakeup(t) PROVE LibTypeOK'
  BY <1>9 DEF SpuriousWakeup, Target, threadVars
<1>10. ASSUME NEW t \in Streams, GetTake(t) PROVE LibTypeOK'
  <2>1. GetSlot(t) \in Slots /\ (GetSlot(t) + 1) % BUFFER_SIZE \in Slots
    BY NextSlot DEF GetSlot
  <2>2. notifier' \in [Streams -> SUBSET Streams]
    BY <1>10 DEF GetTake, LastGetter, Signalled
  <2> QED
    BY <1>10, <2>1, <2>2 DEF GetTake, LastGetter, GetSlot
<1>11. ASSUME NEW t \in Streams, NEW value \in Values, PutWrite(t, value)
       PROVE  LibTypeOK'
  <2>1. (put_idx[t] + 1) % BUFFER_SIZE \in Slots
    BY NextSlot
  <2>2. notifier' \in [Streams -> SUBSET Streams]
    BY <1>11 DEF PutWrite, PutSlot, PutSignals, Signalled
  <2> QED
    BY <1>11, <2>1, <2>2 DEF PutWrite, PutSlot, PutSignals
<1> QED
  BY <1>1, <1>2, <1>3, <1>4, <1>5, <1>6, <1>7, <1>8, <1>9, <1>10, <1>11
     DEF LibNext, InCall

(* init_stream and stream_connect establish the types.                     *)
LEMMA InitType == LibInit => LibTypeOK
<1> SUFFICES ASSUME LibInit PROVE LibTypeOK
  OBVIOUS
<1>1. 0 \in Slots
  BY StreamsAssumption, TopologyAssumption DEF Slots
<1>2. num_consumers \in [Streams -> 0 .. AllRead]
  BY StreamsAssumption, TopologyAssumption DEF LibInit, InitEmpty, InitReadCount, Connected
<1>3. buffer_read_count \in [Streams -> [Slots -> Nat]]
  BY DEF LibInit, InitEmpty, InitReadCount, Connected, AllRead
<1>4. pc \in [Streams -> {"idle"} \cup GetPC \cup PutPC]
  BY DEF LibInit, InitEmpty, InitReadCount, Connected
<1> QED
  BY <1>1, <1>2, <1>3, <1>4, StreamsAssumption, TopologyAssumption DEF LibInit, InitEmpty, InitReadCount, Connected, LibTypeOK

(* The library's state always has its types.                               *)
THEOREM TypeCorrect == LibSpec => []LibTypeOK
BY InitType, TypeStep, PTL DEF LibSpec

-----------------------------------------------------------------------------
(* The unread slots are finitely many, so they can be counted.             *)
LEMMA UnreadFinite ==
  ASSUME NEW s \in Streams
  PROVE  /\ IsFiniteSet(Unread(s))
         /\ Cardinality(Unread(s)) \in Nat
<1>1. IsFiniteSet(Slots)
  BY StreamsAssumption, TopologyAssumption, FS_Interval DEF Slots
<1>2. Unread(s) \subseteq Slots
  BY DEF Unread
<1> QED
  BY <1>1, <1>2, FS_Subset, FS_CardinalityType

(* A step that leaves the ring, the cursors and the semaphores alone and   *)
(* moves no thread into or out of a claimed slot keeps what LibInv says of *)
(* them.                                                                   *)
LEMMA ControlStep ==
  ASSUME LibInv, LibTypeOK',
         UNCHANGED <<empty, buffer, buffer_read_count, put_idx,
                     num_consumers, buffer_idx>>,
         \A x \in Streams : Claimed(x)' = Claimed(x),
         \A x \in Streams : pc'[x] \in {"take", "write"} /\ pc'[x] # pc[x] =>
           /\ pc'[x] = "take" => ~ NothingNew(x)'
           /\ pc'[x] = "write" => ~ StillUnread(x)',
         \A x \in Streams : pc'[x] = "take" => src'[x] = src[x]
  PROVE  /\ StillTrueAfterTheLoop'
         /\ UnreadSlotsHoldTokens'
         /\ SemaphoreCountsFreeSlots'
<1>1. StillTrueAfterTheLoop'
  BY DEF LibInv, StillTrueAfterTheLoop, NothingNew, StillUnread, GetSlot
<1>2. \A x \in Streams : Unread(x)' = Unread(x)
  BY DEF Unread
<1>3. UnreadSlotsHoldTokens'
  BY <1>2 DEF LibInv, UnreadSlotsHoldTokens
<1>4. SemaphoreCountsFreeSlots'
  BY <1>2 DEF LibInv, SemaphoreCountsFreeSlots
<1> QED
  BY <1>1, <1>3, <1>4

(* Entering get changes only where the thread is, so LibInv is kept.       *)
LEMMA CallGetInv ==
  ASSUME LibInv, LibTypeOK', NEW t \in Streams, NEW s \in Streams, CallGet(t, s)
  PROVE  LibInv'
<1> USE DEF LibInv, LibTypeOK, CallGet, streamVars
<1>1. LockDiscipline'
  BY DEF LockDiscipline, Target, GetPC
<1>2. \A x \in Streams : Claimed(x)' = Claimed(x)
  BY DEF Claimed
<1> QED
  BY <1>1, <1>2, ControlStep

(* Entering put changes only where the thread is, so LibInv is kept.       *)
LEMMA CallPutInv ==
  ASSUME LibInv, LibTypeOK', NEW t \in Streams, CallPut(t)
  PROVE  LibInv'
<1> USE DEF LibInv, LibTypeOK, CallPut, streamVars
<1>1. LockDiscipline'
  BY DEF LockDiscipline, Target, GetPC
<1>2. \A x \in Streams : Claimed(x)' = Claimed(x)
  BY DEF Claimed
<1> QED
  BY <1>1, <1>2, ControlStep

(* A thread that takes a free mutex, first or after a wait, claims no slot: *)
(* LibInv is kept.                                                         *)
LEMMA AcquireInv ==
  ASSUME LibInv, LibTypeOK', NEW t \in Streams, Acquire(t)
  PROVE  LibInv'
<1> USE DEF LibInv, LibTypeOK, Acquire, threadVars
<1>1. LockDiscipline'
  BY StreamsAssumption, TopologyAssumption DEF LockDiscipline, Target, GetPC
<1>2. \A x \in Streams : Claimed(x)' = Claimed(x)
  BY DEF Claimed
<1> QED
  BY <1>1, <1>2, ControlStep

(* A thread that pthread_cond_wait lets go without a signal still has to   *)
(* take the mutex: LibInv is kept.                                         *)
LEMMA SpuriousWakeupInv ==
  ASSUME LibInv, LibTypeOK', NEW t \in Streams, SpuriousWakeup(t)
  PROVE  LibInv'
<1> USE DEF LibInv, LibTypeOK, SpuriousWakeup, threadVars
<1>1. LockDiscipline'
  BY StreamsAssumption, TopologyAssumption DEF LockDiscipline, Target, GetPC
<1>2. \A x \in Streams : Claimed(x)' = Claimed(x)
  BY DEF Claimed
<1> QED
  BY <1>1, <1>2, ControlStep

(* The first wait loop of get reads the stream and perhaps gives the mutex *)
(* up: LibInv is kept.                                                     *)
LEMMA GetAheadInv ==
  ASSUME LibInv, LibTypeOK', NEW t \in Streams, GetAhead(t)
  PROVE  LibInv'
<1> USE DEF LibInv, LibTypeOK, GetAhead
<1>1. LockDiscipline'
  <2>1. CASE CondWait(t, src[t]) /\ UNCHANGED pc
    BY <2>1, StreamsAssumption, TopologyAssumption DEF LockDiscipline, Target, GetPC, CondWait
  <2>2. CASE pc' = [pc EXCEPT ![t] = "fresh"] /\ UNCHANGED <<lock, notifier>>
    BY <2>2 DEF LockDiscipline, Target, GetPC
  <2> QED
    BY <2>1, <2>2
<1>2. \A x \in Streams : Claimed(x)' = Claimed(x)
  BY DEF Claimed
<1> QED
  BY <1>1, <1>2, ControlStep

(* The second wait loop of get ends only at a slot that somebody still has *)
(* to read, which is what LibInv says of a thread about to take.           *)
LEMMA GetFreshInv ==
  ASSUME LibInv, LibTypeOK', NEW t \in Streams, GetFresh(t)
  PROVE  LibInv'
<1> USE DEF LibInv, LibTypeOK, GetFresh
<1>1. LockDiscipline'
  <2>1. CASE CondWait(t, src[t]) /\ UNCHANGED pc
    BY <2>1, StreamsAssumption, TopologyAssumption DEF LockDiscipline, Target, GetPC, CondWait
  <2>2. CASE pc' = [pc EXCEPT ![t] = "take"] /\ UNCHANGED <<lock, notifier>>
    BY <2>2 DEF LockDiscipline, Target, GetPC
  <2> QED
    BY <2>1, <2>2
<1>2. \A x \in Streams : Claimed(x)' = Claimed(x)
  BY DEF Claimed
<1>3. \A x \in Streams : pc'[x] \in {"take", "write"} /\ pc'[x] # pc[x] =>
        pc'[x] = "take" /\ ~ NothingNew(x)'
  BY DEF NothingNew, GetSlot
<1> QED
  BY <1>1, <1>2, <1>3, ControlStep

(* The wait loop of put ends only at a slot that nobody still has to read, *)
(* which is what LibInv says of a thread about to write.                   *)
LEMMA PutRoomInv ==
  ASSUME LibInv, LibTypeOK', NEW t \in Streams, PutRoom(t)
  PROVE  LibInv'
<1> USE DEF LibInv, LibTypeOK, PutRoom
<1>1. LockDiscipline'
  <2>1. CASE CondWait(t, t) /\ UNCHANGED pc
    BY <2>1, StreamsAssumption, TopologyAssumption DEF LockDiscipline, Target, GetPC, CondWait
  <2>2. CASE pc' = [pc EXCEPT ![t] = "write"] /\ UNCHANGED <<lock, notifier>>
    BY <2>2 DEF LockDiscipline, Target, GetPC
  <2> QED
    BY <2>1, <2>2
<1>2. \A x \in Streams : Claimed(x)' = Claimed(x)
  BY DEF Claimed
<1>3. \A x \in Streams : pc'[x] \in {"take", "write"} /\ pc'[x] # pc[x] =>
        pc'[x] = "write" /\ ~ StillUnread(x)'
  BY DEF StillUnread
<1> QED
  BY <1>1, <1>2, <1>3, ControlStep

(* sem_wait moves one slot from the semaphore to the claimed ones.         *)
LEMMA SemWaitInv ==
  ASSUME LibInv, LibTypeOK', NEW t \in Streams, SemWait(t)
  PROVE  LibInv'
<1> USE DEF LibInv, LibTypeOK, SemWait
<1>1. LockDiscipline'
  BY DEF LockDiscipline, Target, GetPC
<1>2. StillTrueAfterTheLoop'
  BY DEF StillTrueAfterTheLoop, NothingNew, StillUnread, GetSlot
<1>3. \A x \in Streams : Unread(x)' = Unread(x)
  BY DEF Unread
<1>4. UnreadSlotsHoldTokens'
  BY <1>3 DEF UnreadSlotsHoldTokens
<1>5. SemaphoreCountsFreeSlots'
  <2> SUFFICES ASSUME NEW x \in Streams, num_consumers[x] > 0
               PROVE  empty'[x] + Cardinality(Unread(x)) + Claimed(x)'
                        = BUFFER_SIZE
    BY <1>3 DEF SemaphoreCountsFreeSlots
  <2>1. empty[x] + Cardinality(Unread(x)) + Claimed(x) = BUFFER_SIZE
    BY DEF SemaphoreCountsFreeSlots
  <2>2. CASE x = t
    <3>1. Claimed(x) = 0 /\ Claimed(x)' = 1 /\ empty'[x] = empty[x] - 1
      BY <2>2 DEF Claimed
    <3> QED
      BY <2>1, <3>1, UnreadFinite
  <2>3. CASE x # t
    BY <2>1, <2>3 DEF Claimed
  <2> QED
    BY <2>2, <2>3
<1> QED
  BY <1>1, <1>2, <1>4, <1>5

(* get: the mutex keeps every other thread out of the stream, so only the  *)
(* slot read, and the semaphore if this was its last read, have changed.   *)
LEMMA GetTakeInv ==
  ASSUME LibInv, LibTypeOK', NEW t \in Streams, GetTake(t)
  PROVE  LibInv'
<1> USE DEF LibInv
<1>a. PICK s \in Streams, k \in Slots, n \in Nat :
        s = src[t] /\ k = GetSlot(t) /\ n = num_consumers[s]
  <2>1. src[t] \in Streams /\ GetSlot(t) \in Slots
    BY DEF LibTypeOK, GetSlot
  <2>2. num_consumers[src[t]] \in Nat
    BY <2>1, AllReadNat DEF LibTypeOK
  <2> QED
    BY <2>1, <2>2
<1>0. /\ s = src[t] /\ k = GetSlot(t) /\ n = num_consumers[s]
      /\ buffer_read_count[s][k] \in Nat
      /\ buffer_read_count[s][k] < n
      /\ pc[t] = "take"
      /\ lock[s] = t
  BY <1>a DEF GetTake, LastGetter, LibTypeOK, StillTrueAfterTheLoop, NothingNew, GetSlot
<1>1. LockDiscipline'
  <2>1. lock' = [lock EXCEPT ![s] = Nobody] /\ pc' = [pc EXCEPT ![t] = "idle"]
        /\ UNCHANGED src
    BY <1>a DEF GetTake, LastGetter
  <2>2. \A x \in Streams : notifier'[x] \subseteq notifier[x]
    BY DEF GetTake, LastGetter, Signalled, LibTypeOK
  <2> QED
    BY <1>0, <2>1, <2>2, StreamsAssumption, TopologyAssumption
       DEF LockDiscipline, Target, GetPC, LibTypeOK
<1>2. /\ buffer_read_count' = [buffer_read_count EXCEPT ![s][k] = @ + 1]
      /\ UNCHANGED <<buffer, put_idx, num_consumers, src>>
      /\ pc' = [pc EXCEPT ![t] = "idle"]
      /\ buffer_idx' = [buffer_idx EXCEPT ![t][s] = (@ + 1) % BUFFER_SIZE]
      /\ empty' = IF buffer_read_count[s][k] + 1 = n
                  THEN [empty EXCEPT ![s] = @ + 1]
                  ELSE empty
  BY <1>a DEF GetTake, LastGetter
<1>3. \A x \in Streams : x # s => Unread(x)' = Unread(x)
  BY <1>2 DEF Unread, LibTypeOK
<1>4. \A x \in Streams : Claimed(x)' = Claimed(x)
  BY <1>0, <1>2 DEF Claimed, LibTypeOK
<1>5. Unread(s)' = IF buffer_read_count[s][k] + 1 = n
                   THEN Unread(s) \ {k} ELSE Unread(s)
  <2>1. \A m \in Slots : m # k =>
          buffer_read_count'[s][m] = buffer_read_count[s][m]
    BY <1>0, <1>2 DEF LibTypeOK
  <2>2. buffer_read_count'[s][k] = buffer_read_count[s][k] + 1
    BY <1>0, <1>2 DEF LibTypeOK
  <2>3. num_consumers'[s] = n
    BY <1>0, <1>2
  <2> QED
    BY <1>0, <2>1, <2>2, <2>3 DEF Unread
<1>6. StillTrueAfterTheLoop'
  <2>1. ASSUME NEW x \in Streams, pc'[x] = "take" PROVE ~ NothingNew(x)'
    <3>1. x # t /\ pc[x] = "take" /\ src[x] # s
      BY <1>0, <1>2, <2>1 DEF LockDiscipline, Target, GetPC, LibTypeOK
    <3>2. buffer_idx'[x] = buffer_idx[x]
      BY <1>2, <3>1 DEF LibTypeOK
    <3>3. buffer_read_count'[src[x]] = buffer_read_count[src[x]]
      BY <1>2, <3>1 DEF LibTypeOK
    <3> QED
      BY <1>2, <3>1, <3>2, <3>3
         DEF StillTrueAfterTheLoop, NothingNew, GetSlot
  <2>2. ASSUME NEW x \in Streams, pc'[x] = "write" PROVE ~ StillUnread(x)'
    <3>1. pc[x] = "write"
      BY <1>2, <2>2 DEF LibTypeOK
    <3>2. lock[x] = x
      BY <3>1 DEF LockDiscipline, Target, GetPC
    <3>3. x # s
      BY <1>0, <3>1, <3>2
    <3>4. buffer_read_count'[x] = buffer_read_count[x]
      BY <1>2, <3>3 DEF LibTypeOK
    <3> QED
      BY <1>2, <3>1, <3>4 DEF StillTrueAfterTheLoop, StillUnread
  <2> QED
    BY <2>1, <2>2 DEF StillTrueAfterTheLoop
<1>7. UnreadSlotsHoldTokens'
  BY <1>2, <1>3, <1>5 DEF UnreadSlotsHoldTokens
<1>8. SemaphoreCountsFreeSlots'
  <2> SUFFICES ASSUME NEW x \in Streams, num_consumers[x] > 0
               PROVE  empty'[x] + Cardinality(Unread(x)') + Claimed(x)
                        = BUFFER_SIZE
    BY <1>2, <1>4 DEF SemaphoreCountsFreeSlots
  <2>1. empty[x] + Cardinality(Unread(x)) + Claimed(x) = BUFFER_SIZE
    BY DEF SemaphoreCountsFreeSlots
  <2>2. CASE x = s /\ buffer_read_count[s][k] + 1 = n
    <3>1. k \in Unread(s)
      BY <1>0 DEF Unread
    <3>2. Cardinality(Unread(s)') = Cardinality(Unread(s)) - 1
      <4>1. Unread(s)' = Unread(s) \ {k}
        BY <1>5, <2>2
      <4>2. Cardinality(Unread(s) \ {k}) = Cardinality(Unread(s)) - 1
        BY <3>1, UnreadFinite, FS_RemoveElement
      <4> QED
        BY <4>1, <4>2
    <3>3. empty'[s] = empty[s] + 1
      BY <1>0, <1>2, <2>2 DEF LibTypeOK
    <3>4. empty[s] \in Nat /\ Cardinality(Unread(s)) \in Nat
          /\ Claimed(s) \in Nat
      BY <1>0, UnreadFinite DEF LibTypeOK, Claimed
    <3> QED
      BY <2>1, <2>2, <3>2, <3>3, <3>4
  <2>3. CASE x = s /\ buffer_read_count[s][k] + 1 # n
    BY <1>2, <1>5, <2>1, <2>3
  <2>4. CASE x # s
    <3>1. empty'[x] = empty[x]
      BY <1>0, <1>2, <2>4 DEF LibTypeOK
    <3> QED
      BY <1>3, <2>1, <2>4, <3>1
  <2> QED
    BY <2>2, <2>3, <2>4
<1> QED
  BY <1>1, <1>6, <1>7, <1>8

(* put: the claimed slot, which no consumer still has to read, becomes an  *)
(* unread one (if there are consumers).                                    *)
LEMMA PutWriteInv ==
  ASSUME LibInv, LibTypeOK', NEW t \in Streams, NEW value \in Values,
         PutWrite(t, value)
  PROVE  LibInv'
<1> DEFINE k == put_idx[t]
<1> USE DEF LibInv
<1>0. /\ k \in Slots
      /\ num_consumers[t] \in Nat
      /\ ~ (buffer_read_count[t][k] < num_consumers[t])
      /\ pc[t] = "write"
      /\ lock[t] = t
  BY DEF PutWrite, PutSlot, PutSignals, LibTypeOK, StillTrueAfterTheLoop, StillUnread
<1>1. LockDiscipline'
  <2>1. lock' = [lock EXCEPT ![t] = Nobody] /\ pc' = [pc EXCEPT ![t] = "idle"]
        /\ UNCHANGED src
    BY DEF PutWrite, PutSlot, PutSignals
  <2>2. \A x \in Streams : notifier'[x] \subseteq notifier[x]
    BY DEF PutWrite, PutSlot, PutSignals, Signalled, LibTypeOK
  <2> QED
    BY <1>0, <2>1, <2>2, StreamsAssumption, TopologyAssumption
       DEF LockDiscipline, Target, GetPC, LibTypeOK
<1>2. /\ buffer_read_count' = [buffer_read_count EXCEPT ![t][k] = 0]
      /\ buffer' = [buffer EXCEPT ![t][k] = value]
      /\ put_idx' = [put_idx EXCEPT ![t] = (@ + 1) % BUFFER_SIZE]
      /\ UNCHANGED <<empty, num_consumers, buffer_idx, src>>
      /\ pc' = [pc EXCEPT ![t] = "idle"]
  BY DEF PutWrite, PutSlot, PutSignals
<1>3. \A x \in Streams : x # t => Unread(x)' = Unread(x)
  BY <1>2 DEF Unread, LibTypeOK
<1>4. num_consumers[t] > 0 => Unread(t)' = Unread(t) \cup {k}
  <2>1. \A m \in Slots : m # k =>
          buffer_read_count'[t][m] = buffer_read_count[t][m]
    BY <1>0, <1>2 DEF LibTypeOK
  <2>2. buffer_read_count'[t][k] = 0
    BY <1>0, <1>2 DEF LibTypeOK
  <2>3. num_consumers'[t] = num_consumers[t]
    BY <1>2
  <2> QED
    BY <1>0, <2>1, <2>2, <2>3 DEF Unread
<1>5. num_consumers[t] = 0 => Unread(t)' = {}
  BY <1>2 DEF Unread, LibTypeOK
<1>6. StillTrueAfterTheLoop'
  <2>1. ASSUME NEW x \in Streams, pc'[x] = "take" PROVE ~ NothingNew(x)'
    <3>1. pc[x] = "take" /\ src[x] # t /\ src[x] \in Streams
      BY <1>0, <1>2, <2>1 DEF LockDiscipline, Target, GetPC, LibTypeOK
    <3>2. buffer_read_count'[src[x]] = buffer_read_count[src[x]]
      BY <1>2, <3>1 DEF LibTypeOK
    <3> QED
      BY <1>2, <3>1, <3>2 DEF StillTrueAfterTheLoop, NothingNew, GetSlot
  <2>2. ASSUME NEW x \in Streams, pc'[x] = "write" PROVE ~ StillUnread(x)'
    <3>1. pc[x] = "write" /\ x # t
      BY <1>0, <1>2, <2>2 DEF LibTypeOK
    <3>2. buffer_read_count'[x] = buffer_read_count[x] /\ put_idx'[x] = put_idx[x]
      BY <1>2, <3>1 DEF LibTypeOK
    <3> QED
      BY <1>2, <3>1, <3>2 DEF StillTrueAfterTheLoop, StillUnread
  <2> QED
    BY <2>1, <2>2 DEF StillTrueAfterTheLoop
<1>7. UnreadSlotsHoldTokens'
  <2> SUFFICES ASSUME NEW x \in Streams, NEW m \in Unread(x)'
               PROVE  buffer'[x][m] # Null
    BY DEF UnreadSlotsHoldTokens
  <2>1. m \in Slots
    BY DEF Unread
  <2>2. CASE x = t /\ m = k
    <3>1. buffer'[t][k] = value
      BY <1>0, <1>2 DEF LibTypeOK
    <3> QED
      BY <2>2, <3>1, StreamsAssumption, TopologyAssumption
  <2>3. CASE ~ (x = t /\ m = k)
    <3>1. buffer'[x][m] = buffer[x][m]
      BY <1>0, <1>2, <2>1, <2>3 DEF LibTypeOK
    <3>2. m \in Unread(x)
      <4>1. num_consumers[x] \in Nat
        BY DEF LibTypeOK
      <4> QED
        BY <1>3, <1>4, <1>5, <2>3, <4>1
    <3> QED
      BY <3>1, <3>2 DEF UnreadSlotsHoldTokens
  <2> QED
    BY <2>2, <2>3
<1>8. SemaphoreCountsFreeSlots'
  <2> SUFFICES ASSUME NEW x \in Streams, num_consumers[x] > 0
               PROVE  empty[x] + Cardinality(Unread(x)') + Claimed(x)'
                        = BUFFER_SIZE
    BY <1>2 DEF SemaphoreCountsFreeSlots
  <2>1. empty[x] + Cardinality(Unread(x)) + Claimed(x) = BUFFER_SIZE
    BY DEF SemaphoreCountsFreeSlots
  <2>2. CASE x = t
    <3>1. k \notin Unread(t)
      BY <1>0 DEF Unread
    <3>2. Cardinality(Unread(t)') = Cardinality(Unread(t)) + 1
      BY <1>4, <2>2, <3>1, UnreadFinite, FS_AddElement
    <3>3. Claimed(t) = 1 /\ Claimed(t)' = 0
      BY <1>0, <1>2 DEF Claimed, LibTypeOK
    <3>4. empty[t] \in Nat /\ Cardinality(Unread(t)) \in Nat
      BY UnreadFinite DEF LibTypeOK
    <3> QED
      BY <2>1, <2>2, <3>2, <3>3, <3>4
  <2>3. CASE x # t
    <3>1. Claimed(x)' = Claimed(x)
      BY <1>2, <2>3 DEF Claimed, LibTypeOK
    <3> QED
      BY <1>3, <2>1, <2>3, <3>1
  <2> QED
    BY <2>2, <2>3
<1> QED
  BY <1>1, <1>6, <1>7, <1>8

-----------------------------------------------------------------------------
(* LibInv holds when init_stream and stream_connect have run: 9999 makes   *)
(* every slot look read by everyone, and the semaphore counts them all.    *)
LEMMA InitInv == LibInit => LibInv
<1> SUFFICES ASSUME LibInit PROVE LibInv
  OBVIOUS
<1>1. LibTypeOK
  BY InitType
<1>2. LockDiscipline /\ StillTrueAfterTheLoop
  BY DEF LibInit, InitEmpty, InitReadCount, Connected, LockDiscipline, StillTrueAfterTheLoop
<1>3. \A s \in Streams : Unread(s) = {}
  <2>1. \A s \in Streams, k \in Slots : buffer_read_count[s][k] = AllRead
    BY DEF LibInit, InitEmpty, InitReadCount, Connected
  <2>2. \A s \in Streams : num_consumers[s] \in 0 .. AllRead
    BY <1>1 DEF LibTypeOK
  <2> QED
    BY <2>1, <2>2, AllReadNat DEF Unread
<1>4. UnreadSlotsHoldTokens
  BY <1>3 DEF UnreadSlotsHoldTokens
<1>5. SemaphoreCountsFreeSlots
  <2>1. \A s \in Streams : Cardinality(Unread(s)) = 0
    BY <1>3, FS_EmptySet
  <2> QED
    BY <2>1, StreamsAssumption, TopologyAssumption DEF LibInit, InitEmpty, InitReadCount, Connected, SemaphoreCountsFreeSlots, Claimed
<1> QED
  BY <1>1, <1>2, <1>4, <1>5 DEF LibInv

(* LibInv is inductive: every step of get and put keeps it.                *)
LEMMA InvStep == LibInv /\ [LibNext]_libVars => LibInv'
<1> SUFFICES ASSUME LibInv, [LibNext]_libVars PROVE LibInv'
  OBVIOUS
<1>1. LibTypeOK'
  BY TypeStep DEF LibInv
<1>2. CASE UNCHANGED libVars
  <2>1. LockDiscipline'
    BY <1>2 DEF libVars, streamVars, threadVars, LibInv, LockDiscipline, Target
  <2>2. \A x \in Streams : Claimed(x)' = Claimed(x)
    BY <1>2 DEF libVars, threadVars, Claimed
  <2> QED
    BY <1>1, <1>2, <2>1, <2>2, ControlStep
       DEF libVars, streamVars, threadVars, LibInv
<1>3. CASE LibNext
  BY <1>1, <1>3, CallGetInv, CallPutInv, AcquireInv, SpuriousWakeupInv,
     GetAheadInv, GetFreshInv, PutRoomInv, SemWaitInv, GetTakeInv, PutWriteInv
     DEF LibNext, InCall
<1> QED
  BY <1>2, <1>3

(* The inductive invariant is an invariant.                                *)
THEOREM LibInvariant == LibSpec => []LibInv
BY InitInv, InvStep, PTL DEF LibSpec

(* The semaphore of put counts exactly the slots that put may overwrite,   *)
(* however many threads get and put, in whatever order they run.           *)
THEOREM SemaphoreCorrect == LibSpec => []SemaphoreCountsFreeSlots
<1>1. LibInv => SemaphoreCountsFreeSlots
  BY DEF LibInv
<1> QED
  BY <1>1, LibInvariant, PTL

(* What get returns is always a token that was put.                        *)
THEOREM TokensCorrect == LibSpec => []OnlyPutTokensAreTaken
<1>1. LibInv => OnlyPutTokensAreTaken
  BY DEF LibInv, LibTypeOK, StillTrueAfterTheLoop, NothingNew, GetSlot,
         UnreadSlotsHoldTokens, Unread, OnlyPutTokensAreTaken
<1> QED
  BY <1>1, LibInvariant, PTL
=============================================================================
