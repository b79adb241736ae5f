------------------------------ MODULE Streams ------------------------------
(***************************************************************************)
(* The stream library of hw3_pthreads (streams.c, streams.h): streams that *)
(* own a ring of BUFFER_SIZE slots, a mutex, one condition variable and a  *)
(* counting semaphore, and the operations get and put on them.             *)
(*                                                                         *)
(* This module lets every thread call get and put at any time (the most    *)
(* general client); StreamPrograms restricts the calls to those of a       *)
(* program.  The connections are made before the threads are created, as   *)
(* in main.c and in every test but disconnect_reconnect.c.                 *)
(*                                                                         *)
(* Names follow streams.h: lock, notifier, empty, buffer,                  *)
(* buffer_read_count, put_idx, num_consumers, and the cursor buffer_idx of *)
(* each producer_t.                                                        *)
(***************************************************************************)
EXTENDS Topology

CONSTANTS
  SpuriousWakeups,  \* may pthread_cond_wait return without a signal?
  Nobody            \* the owner of a free mutex

ASSUME StreamsAssumption ==
  /\ SpuriousWakeups \in BOOLEAN
  /\ Nobody \notin Streams

VARIABLES
  lock,               \* lock[s]: the thread holding the mutex of s
  notifier,           \* notifier[s]: the threads asleep on the condition of s
  empty,              \* empty[s]: the value of the semaphore of s
  buffer,             \* buffer[s][i]: the token in slot i of s
  buffer_read_count,  \* buffer_read_count[s][i]: reads of slot i since its put
  put_idx,            \* put_idx[s]: the slot the next put into s fills
  num_consumers,      \* num_consumers[s]: connections to s
  buffer_idx,         \* buffer_idx[c][s]: the slot c reads next in s
  pc,                 \* pc[t]: where in get or put thread t is
  src,                \* src[t]: the stream of t's current or last get
  ret                 \* ret[t]: what t's last get returned

streamVars == <<lock, notifier, empty, buffer, buffer_read_count, put_idx,
                num_consumers, buffer_idx>>
threadVars == <<pc, src, ret>>
libVars == <<streamVars, threadVars>>

(* "ahead" and "fresh" are the two wait loops of get and "take" the rest;  *)
(* "sem" is the sem_wait of put, "room" its wait loop and "write" the rest.*)
GetPC == {"ahead", "fresh", "take"}
PutPC == {"sem", "room", "write"}

(* The stream whose mutex thread t needs at its present place.             *)
Target(t) == IF pc[t] \in GetPC THEN src[t] ELSE t

(* The slot at which t's get, or t's put, is working.                      *)
GetSlot(t) == buffer_idx[t][src[t]]

(* init_stream: no slot has anything to read, and all are empty.           *)
(* Mutant: the read counts start at 0.                                     *)
InitReadCount_Zero == [i \in Slots |-> 0]
InitReadCount == [i \in Slots |-> AllRead]

InitEmpty == BUFFER_SIZE

(* stream_connect counts the consumers of out.                             *)
Connected(s) == Cardinality(Consumers(s))

LibInit ==
  /\ lock = [s \in Streams |-> Nobody]
  /\ notifier = [s \in Streams |-> {}]
  /\ empty = [s \in Streams |-> InitEmpty]
  /\ buffer = [s \in Streams |-> [i \in Slots |-> Null]]
  /\ buffer_read_count = [s \in Streams |-> InitReadCount]
  /\ put_idx = [s \in Streams |-> 0]
  /\ num_consumers = [s \in Streams |-> Connected(s)]
  /\ buffer_idx = [c \in Streams |-> [s \in Streams |-> 0]]
  /\ pc = [t \in Streams |-> "idle"]
  /\ src = [t \in Streams |-> t]
  /\ ret = [t \in Streams |-> Null]

-----------------------------------------------------------------------------
(* The pthread and semaphore primitives.                                   *)

(* pthread_mutex_lock, and the relocking at the end of pthread_cond_wait.  *)
Acquire(t) ==
  /\ pc[t] \in {"ahead", "fresh", "room"}
  /\ lock[Target(t)] = Nobody
  /\ t \notin notifier[Target(t)]
  /\ lock' = [lock EXCEPT ![Target(t)] = t]
  /\ UNCHANGED <<notifier, empty, buffer, buffer_read_count, put_idx,
                 num_consumers, buffer_idx, threadVars>>

(* pthread_cond_wait: release the mutex and fall asleep in one step.  The  *)
(* thread stays at its loop, whose condition it tests again once it is     *)
(* awake and holds the mutex.                                              *)
CondWait(t, s) ==
  /\ lock' = [lock EXCEPT ![s] = Nobody]
  /\ notifier' = [notifier EXCEPT ![s] = @ \cup {t}]

(* pthread_cond_signal wakes one sleeper, and POSIX leaves open which: the *)
(* sets of threads that may still be asleep after it.                      *)
Signalled(sleepers) ==
  IF sleepers = {} THEN {{}} ELSE {sleepers \ {t} : t \in sleepers}

(* A wakeup without a signal, which POSIX allows pthread_cond_wait.        *)
SpuriousWakeup(t) ==
  /\ SpuriousWakeups
  /\ t \in notifier[Target(t)]
  /\ notifier' = [notifier EXCEPT ![Target(t)] = @ \ {t}]
  /\ UNCHANGED <<lock, empty, buffer, buffer_read_count, put_idx,
                 num_consumers, buffer_idx, threadVars>>

-----------------------------------------------------------------------------
(* void *get(producer_t *producer)                                         *)

CallGet(t, s) ==
  /\ pc[t] = "idle"
  /\ <<t, s>> \in Connections
  /\ pc' = [pc EXCEPT ![t] = "ahead"]
  /\ src' = [src EXCEPT ![t] = s]
  /\ UNCHANGED <<streamVars, ret>>

(* "if we are ahead where the producer is writing, wait"                   *)
Ahead(t) ==
  (GetSlot(t) + 1) % BUFFER_SIZE = put_idx[src[t]] % BUFFER_SIZE

GetAhead(t) ==
  /\ pc[t] = "ahead"
  /\ lock[src[t]] = t
  /\ \/ /\ Ahead(t)
        /\ CondWait(t, src[t])
        /\ UNCHANGED pc
     \/ /\ ~ Ahead(t)
        /\ pc' = [pc EXCEPT ![t] = "fresh"]
        /\ UNCHANGED <<lock, notifier>>
  /\ UNCHANGED <<empty, buffer, buffer_read_count, put_idx, num_consumers,
                 buffer_idx, src, ret>>

(* "if there isn't anything new here, wait"                                *)
(* Mutant: off by one.                                                     *)
NothingNew_OffByOne(t) ==
  buffer_read_count[src[t]][GetSlot(t)] > num_consumers[src[t]]
NothingNew(t) ==
  buffer_read_count[src[t]][GetSlot(t)] >= num_consumers[src[t]]

GetFresh(t) ==
  /\ pc[t] = "fresh"
  /\ lock[src[t]] = t
  /\ \/ /\ NothingNew(t)
        /\ CondWait(t, src[t])
        /\ UNCHANGED pc
     \/ /\ ~ NothingNew(t)
        /\ pc' = [pc EXCEPT ![t] = "take"]
        /\ UNCHANGED <<lock, notifier>>
  /\ UNCHANGED <<empty, buffer, buffer_read_count, put_idx, num_consumers,
                 buffer_idx, src, ret>>

(* "if we are last getter, the spot is now empty"                          *)
(* Mutant: every getter gives the spot back.                               *)
LastGetter_Every(s, i) == TRUE
LastGetter(s, i) == buffer_read_count[s][i] + 1 = num_consumers[s]

(* The rest of get: fetch the token, count the read, give the slot back to *)
(* the producer when this was the last read of it, move on, signal, unlock.*)
GetTake(t) ==
  LET s == src[t]
      i == GetSlot(t)
  IN  /\ pc[t] = "take"
      /\ lock[s] = t
      /\ ret' = [ret EXCEPT ![t] = buffer[s][i]]
      /\ buffer_read_count' = [buffer_read_count EXCEPT ![s][i] = @ + 1]
      /\ empty' = IF LastGetter(s, i)
                  THEN [empty EXCEPT ![s] = @ + 1]
                  ELSE empty
      /\ buffer_idx' = [buffer_idx EXCEPT ![t][s] = (@ + 1) % BUFFER_SIZE]
      /\ \E w \in Signalled(notifier[s]) :
           notifier' = [notifier EXCEPT ![s] = w]
      /\ lock' = [lock EXCEPT ![s] = Nobody]
      /\ pc' = [pc EXCEPT ![t] = "idle"]
      /\ UNCHANGED <<buffer, put_idx, num_consumers, src>>

-----------------------------------------------------------------------------
(* void put(stream_t *stream, void *value)                                 *)

CallPut(t) ==
  /\ pc[t] = "idle"
  /\ pc' = [pc EXCEPT ![t] = "sem"]
  /\ UNCHANGED <<streamVars, src, ret>>

(* "wait until there are empty slots in the buffer"                        *)
(* Mutant: the semaphore is tested and not taken.                          *)
SemWait_NotTaken(t) ==
  /\ pc[t] = "sem"
  /\ empty[t] > 0
  /\ pc' = [pc EXCEPT ![t] = "room"]
  /\ UNCHANGED <<streamVars, src, ret>>
SemWait(t) ==
  /\ pc[t] = "sem"
  /\ empty[t] > 0
  /\ empty' = [empty EXCEPT ![t] = @ - 1]
  /\ pc' = [pc EXCEPT ![t] = "room"]
  /\ UNCHANGED <<lock, notifier, buffer, buffer_read_count, put_idx,
                 num_consumers, buffer_idx, src, ret>>

(* "wait if all consumers haven't seen this value"                         *)
StillUnread(t) == buffer_read_count[t][put_idx[t]] < num_consumers[t]

PutRoom(t) ==
  /\ pc[t] = "room"
  /\ lock[t] = t
  /\ \/ /\ StillUnread(t)
        /\ CondWait(t, t)
        /\ UNCHANGED pc
     \/ /\ ~ StillUnread(t)
        /\ pc' = [pc EXCEPT ![t] = "write"]
        /\ UNCHANGED <<lock, notifier>>
  /\ UNCHANGED <<empty, buffer, buffer_read_count, put_idx, num_consumers,
                 buffer_idx, src, ret>>

(* Mutant: put moves on before it stores.                                  *)
PutSlot_MovedOn(t) == (put_idx[t] + 1) % BUFFER_SIZE
PutSlot(t) == put_idx[t]

(* "notify the consumer that we've updated"                                *)
(* Mutant: it does not.                                                    *)
PutSignals_Nobody(t) == {notifier[t]}
PutSignals(t) == Signalled(notifier[t])

(* The rest of put: store the token, reset the read count, move on, signal,*)
(* unlock.                                                                 *)
PutWrite(t, value) ==
  LET i == PutSlot(t)
  IN  /\ pc[t] = "write"
      /\ lock[t] = t
      /\ buffer' = [buffer EXCEPT ![t][i] = value]
      /\ buffer_read_count' = [buffer_read_count EXCEPT ![t][i] = 0]
      /\ put_idx' = [put_idx EXCEPT ![t] = (@ + 1) % BUFFER_SIZE]
      /\ \E w \in PutSignals(t) :
           notifier' = [notifier EXCEPT ![t] = w]
      /\ lock' = [lock EXCEPT ![t] = Nobody]
      /\ pc' = [pc EXCEPT ![t] = "idle"]
      /\ UNCHANGED <<empty, num_consumers, buffer_idx, src, ret>>

-----------------------------------------------------------------------------
(* The steps a call takes inside the library, whoever made it.             *)
InCall(t) ==
  \/ Acquire(t)
  \/ GetAhead(t)
  \/ GetFresh(t)
  \/ SemWait(t)
  \/ PutRoom(t)

LibNext ==
  \E t \in Streams :
    \/ \E s \in Streams : CallGet(t, s)
    \/ CallPut(t)
    \/ InCall(t)
    \/ SpuriousWakeup(t)
    \/ GetTake(t)
    \/ \E value \in Values : PutWrite(t, value)

LibSpec == LibInit /\ [][LibNext]_libVars

-----------------------------------------------------------------------------
(* Type correctness of the streams' and the threads' state.                *)
LibTypeOK ==
  /\ lock \in [Streams -> Streams \cup {Nobody}]
  /\ notifier \in [Streams -> SUBSET Streams]
  /\ empty \in [Streams -> Nat]
  /\ buffer \in [Streams -> [Slots -> Values \cup {Null}]]
  /\ buffer_read_count \in [Streams -> [Slots -> Nat]]
  /\ put_idx \in [Streams -> Slots]
  /\ num_consumers \in [Streams -> 0 .. AllRead]
  /\ buffer_idx \in [Streams -> [Streams -> Slots]]
  /\ pc \in [Streams -> {"idle"} \cup GetPC \cup PutPC]
  /\ src \in [Streams -> Streams]
  /\ ret \in [Streams -> Values \cup {Null}]

(* The slots of s that hold a token some consumer still has to be counted  *)
(* for: the ones put must not overwrite and get may read.                  *)
Unread(s) == {k \in Slots : buffer_read_count[s][k] < num_consumers[s]}

(* Has the thread of s passed its sem_wait without having filled the slot? *)
Claimed(s) == IF pc[s] \in {"room", "write"} THEN 1 ELSE 0

(* The semaphore counts exactly the slots that may be overwritten: however *)
(* get and put of any number of threads interleave, the free slots it      *)
(* announces, the unread slots and the slot a put has claimed add up to    *)
(* the ring.  A post too few would starve the producer, one too many would *)
(* let it into the ring while every slot is unread.  (A stream without     *)
(* consumers is left out: nobody ever posts its semaphore.)                *)
SemaphoreCountsFreeSlots ==
  \A s \in Streams :
    num_consumers[s] > 0 =>
      empty[s] + Cardinality(Unread(s)) + Claimed(s) = BUFFER_SIZE

(* get never hands out a slot nothing was put into: the pointer it returns *)
(* and its caller dereferences is a token, although get looks only at the  *)
(* read count and never at the pointer.                                    *)
OnlyPutTokensAreTaken ==
  \A t \in Streams : pc[t] = "take" => buffer[src[t]][GetSlot(t)] # Null

(* What a thread knows at each place of get and put: the mutex belongs to  *)
(* a thread that is awake inside that stream's critical section, and what  *)
(* the wait loops tested still holds when the thread acts on it.           *)
LockDiscipline ==
  /\ \A s \in Streams : lock[s] # Nobody =>
       /\ pc[lock[s]] \in {"ahead", "fresh", "take", "room", "write"}
       /\ Target(lock[s]) = s
       /\ lock[s] \notin notifier[s]
  /\ \A t \in Streams : pc[t] \in {"take", "write"} => lock[Target(t)] = t

StillTrueAfterTheLoop ==
  /\ \A t \in Streams : pc[t] = "take" => ~ NothingNew(t)
  /\ \A t \in Streams : pc[t] = "write" => ~ StillUnread(t)

UnreadSlotsHoldTokens ==
  \A s \in Streams : \A k \in Unread(s) : buffer[s][k] # Null

(* The inductive invariant behind the two properties above.                *)
LibInv ==
  /\ LibTypeOK
  /\ LockDiscipline
  /\ StillTrueAfterTheLoop
  /\ UnreadSlotsHoldTokens
  /\ SemaphoreCountsFreeSlots
=============================================================================
