----------------------------- MODULE Reconnect -----------------------------
(***************************************************************************)
(* stream_connect and stream_disconnect of streams.c while the producer is *)
(* running, as in tests/disconnect_reconnect.c: one successor thread puts  *)
(* 1, 2, 3, ..., and the main thread calls consume_single, stream_connect  *)
(* and stream_disconnect on its consumers, in any order, one consumer away *)
(* at a time.                                                              *)
(*                                                                         *)
(* Neither function takes the mutex, so each is taken apart at its loads   *)
(* and stores of what get and put of the other thread change.  A consumer  *)
(* here has one producer: stream_disconnect leaves prod_head pointing at   *)
(* the freed producer_t, and the stream_connect that follows is given that *)
(* same memory again by malloc, so that prod_head is right after all.      *)
(***************************************************************************)
EXTENDS Streams

CONSTANTS
  Producer,  \* the stream of the successor thread
  MaxPuts    \* how many tokens it puts: a bound on the state space

VARIABLES
  away,     \* the consumers that are disconnected
  at,       \* where in stream_connect or stream_disconnect main is
  loaded,   \* the read count that stream_disconnect has loaded
  sent,     \* how many tokens the successor has put
  old       \* observer: old[c]: the tokens all had read when c connected

mainVars == <<away, at, loaded, old>>
vars == <<libVars, mainVars, sent>>

NotIn == [op |-> "none", who |-> Producer, i |-> 0]

Init ==
  /\ LibInit
  /\ away = {}
  /\ at = NotIn
  /\ loaded = 0
  /\ sent = 0
  /\ old = [c \in Consumers(Producer) |-> {}]

(* Main is between two calls.                                              *)
MainIdle == at = NotIn /\ \A c \in Consumers(Producer) : pc[c] = "idle"

-----------------------------------------------------------------------------
(* The successor.                                                          *)
Puts ==
  \/ /\ sent < MaxPuts
     /\ CallPut(Producer)
     /\ UNCHANGED <<mainVars, sent>>
  \/ PutWrite(Producer, sent + 1) /\ sent' = sent + 1 /\ UNCHANGED mainVars

(* void *consume_single(stream_t *stream)                                  *)
consume_single(c) ==
  /\ MainIdle /\ c \notin away
  /\ CallGet(c, Producer)
  /\ UNCHANGED <<mainVars, sent>>

Goes(t) ==
  /\ InCall(t) \/ SpuriousWakeup(t) \/ GetTake(t)
  /\ UNCHANGED <<mainVars, sent>>

-----------------------------------------------------------------------------
(* void stream_connect(stream_t *in, stream_t *out)                        *)

(* p->buffer_idx = out->put_idx                                            *)
ConnectCursor(c) ==
  /\ MainIdle /\ c \in away
  /\ buffer_idx' = [buffer_idx EXCEPT ![c][Producer] = put_idx[Producer]]
  /\ old' = [old EXCEPT ![c] = {buffer[Producer][k] :
                                  k \in Slots \ Unread(Producer)}]
  /\ at' = [op |-> "connect", who |-> c, i |-> 0]
  /\ UNCHANGED <<lock, notifier, empty, buffer, buffer_read_count, put_idx,
                 num_consumers, threadVars, away, loaded, sent>>

(* out->num_consumers++ and the two signals.  (Nobody waits for the        *)
(* consumer's own stream.)                                                 *)
ConnectCount ==
  /\ at.op = "connect"
  /\ num_consumers' = [num_consumers EXCEPT ![Producer] = @ + 1]
  /\ \E w \in Signalled(notifier[Producer]) :
       notifier' = [notifier EXCEPT ![Producer] = w]
  /\ away' = away \ {at.who}
  /\ at' = NotIn
  /\ UNCHANGED <<lock, empty, buffer, buffer_read_count, put_idx, buffer_idx,
                 threadVars, loaded, sent, old>>

-----------------------------------------------------------------------------
(* void stream_disconnect(stream_t *in, stream_t *out)                     *)

(* out->num_consumers--                                                    *)
DisconnectCount(c) ==
  /\ MainIdle /\ away = {}
  /\ num_consumers' = [num_consumers EXCEPT ![Producer] = @ - 1]
  /\ away' = {c}
  /\ at' = [op |-> "test", who |-> c, i |-> 0]
  /\ UNCHANGED <<lock, notifier, empty, buffer, buffer_read_count, put_idx,
                 buffer_idx, threadVars, loaded, sent, old>>

NextSlot ==
  IF at.i + 1 \in Slots THEN [at EXCEPT !.op = "test", !.i = @ + 1] ELSE NotIn

(* One round of the loop: the count is tested, ...                         *)
DisconnectTest ==
  /\ at.op = "test"
  /\ at' = IF buffer_read_count[Producer][at.i] > 0
           THEN [at EXCEPT !.op = "load"] ELSE NextSlot
  /\ UNCHANGED <<libVars, away, loaded, sent, old>>

(* ... loaded once more, ...                                               *)
DisconnectLoad ==
  /\ at.op = "load"
  /\ loaded' = buffer_read_count[Producer][at.i]
  /\ at' = [at EXCEPT !.op = "store"]
  /\ UNCHANGED <<libVars, away, sent, old>>

(* ... and stored less one.                                                *)
DisconnectStore ==
  /\ at.op = "store"
  /\ buffer_read_count' =
       [buffer_read_count EXCEPT ![Producer][at.i] = loaded - 1]
  /\ at' = NextSlot
  /\ UNCHANGED <<lock, notifier, empty, buffer, put_idx, num_consumers,
                 buffer_idx, threadVars, away, loaded, sent, old>>

-----------------------------------------------------------------------------
Next ==
  \/ Puts
  \/ \E t \in Streams : Goes(t)
  \/ \E c \in Consumers(Producer) :
       consume_single(c) \/ ConnectCursor(c) \/ DisconnectCount(c)
  \/ ConnectCount
  \/ DisconnectTest
  \/ DisconnectLoad
  \/ DisconnectStore

Spec == Init /\ [][Next]_vars

(* README.md: "The starting buffer_idx is set to the producers put_idx     *)
(* which is the next position the producer will write to.  This ensures    *)
(* that newly connected streams will only see fresh tokens": a consumer    *)
(* does not take a token that all who were connected had read when it      *)
(* connected.                                                              *)
OnlyFreshTokens ==
  \A c \in Consumers(Producer) :
    pc[c] = "take" => buffer[Producer][GetSlot(c)] \notin old[c]
=============================================================================
