------------------------------ MODULE Programs ------------------------------
(***************************************************************************)
(* The thread functions of streams.c - successor, times, merge, consumer - *)
(* as what each does between two calls of get and put.  The modules that   *)
(* EXTEND this one supply get and put: StreamPrograms those of the library *)
(* and ChannelPrograms ideal queues.  main.c, the README's two-successor   *)
(* pipeline and the tests are instances: Role says which function runs on  *)
(* a stream, and ProdList is the list stream_connect built for it.         *)
(***************************************************************************)
EXTENDS Topology, Sequences

CONSTANTS
  Role,        \* Role[t] \in {"successor", "times", "merge", "consumer"}
  ProdList,    \* ProdList[t]: the producers of t, from prod_head on
  Multiplier,  \* Multiplier[t]: what t multiplies by (1 if it is not times)
  ITEMS        \* rounds of consumer (10, streams.c:205)

Running(role) == {t \in Streams : Role[t] = role}

ASSUME ProgramsAssumption ==
  /\ ITEMS \in Nat
  /\ \A t \in Streams :
       /\ Multiplier[t] \in Nat \ {0}
       /\ ProdList[t] \in Seq(Streams)
       /\ \A k \in 1 .. Len(ProdList[t]) :
            /\ <<t, ProdList[t][k]>> \in Connections
            /\ \A m \in 1 .. k - 1 : ProdList[t][m] # ProdList[t][k]
       /\ \/ Role[t] = "successor" /\ ProdList[t] = <<>>
          \/ Role[t] = "times" /\ Len(ProdList[t]) = 1
          \/ Role[t] = "merge" /\ Len(ProdList[t]) = 2
          \/ Role[t] = "consumer"

(* The programs are those of main.c, the README and the tests: times reads *)
(* a successor, and merge reads successors and times threads.              *)
ASSUME PipelineAssumption ==
  \A t \in Streams :
    /\ Role[t] = "successor" => Multiplier[t] = 1
    /\ Role[t] = "times" => Role[ProdList[t][1]] = "successor"
    /\ Role[t] = "merge" =>
         \A k \in 1 .. 2 : Role[ProdList[t][k]] \in {"successor", "times"}

VARIABLES
  held,  \* held[t][k]: the token of t's k-th producer that t has to pass on
  sent,  \* sent[t]: how many tokens t has put
  got    \* got[c]: the tokens consumer c has printed, in order

progVars == <<held, sent, got>>

ProgInit ==
  /\ held = [t \in Streams |-> [k \in 1 .. Len(ProdList[t]) |-> Null]]
  /\ sent = [t \in Streams |-> 0]
  /\ got = [c \in Running("consumer") |-> <<>>]

-----------------------------------------------------------------------------
(* Asking for a token.  times and merge ask for what they hold nothing of  *)
(* (merge for a before b, and later for the one it has just sent); times   *)
(* never moves on from prod_head.  consumer goes ITEMS times round its     *)
(* list.                                                                   *)
Wanted(t) == {k \in DOMAIN held[t] : held[t][k] = Null}

Finished(c) == Len(got[c]) = ITEMS * Len(ProdList[c])

(* Mutant: times moves on from prod_head after its first token.            *)
Asks_TimesMovesOn(t) ==
  \/ Role[t] = "times" /\ Wanted(t) # {} /\ sent[t] = 0
  \/ Role[t] = "merge" /\ Wanted(t) # {}
  \/ Role[t] = "consumer" /\ ~ Finished(t)
Asks(t) ==
  \/ Role[t] \in {"times", "merge"} /\ Wanted(t) # {}
  \/ Role[t] = "consumer" /\ ~ Finished(t)

(* Mutant: consumer stays at the head of its list.                         *)
NextProducer_Head(t) ==
  IF Role[t] = "consumer"
  THEN ProdList[t][1]
  ELSE ProdList[t][CHOOSE k \in Wanted(t) : \A m \in Wanted(t) : k <= m]
NextProducer(t) ==
  IF Role[t] = "consumer"
  THEN ProdList[t][(Len(got[t]) % Len(ProdList[t])) + 1]
  ELSE ProdList[t][CHOOSE k \in Wanted(t) : \A m \in Wanted(t) : k <= m]

(* What a thread does with the token it gets from its producer p.          *)
TimesGot(t, token) ==
  /\ Role[t] = "times"
  /\ held' = [held EXCEPT ![t][1] = token * Multiplier[t]]
  /\ UNCHANGED <<sent, got>>

MergeGot(t, p, token) ==
  /\ Role[t] = "merge"
  /\ \E k \in 1 .. 2 :
       /\ ProdList[t][k] = p
       /\ held' = [held EXCEPT ![t][k] = token]
  /\ UNCHANGED <<sent, got>>

ConsumerGot(t, token) ==
  /\ Role[t] = "consumer"
  /\ got' = [got EXCEPT ![t] = Append(@, token)]
  /\ UNCHANGED <<held, sent>>

Got(t, p, token) ==
  TimesGot(t, token) \/ MergeGot(t, p, token) \/ ConsumerGot(t, token)

-----------------------------------------------------------------------------
(* Sending a token: successor the next number, times the product, merge    *)
(* the smaller of a and b (b when they are equal).                         *)
(* Mutant: times puts before it has got.                                   *)
Sends_TimesEarly(t) ==
  \/ Role[t] \in {"successor", "times"}
  \/ Role[t] = "merge" /\ Wanted(t) = {}
Sends(t) ==
  \/ Role[t] = "successor"
  \/ Role[t] \in {"times", "merge"} /\ Wanted(t) = {}

(* Mutant: the comparison is turned round.                                 *)
Smaller_Larger(t) ==
  IF Role[t] = "merge" /\ held[t][1] < held[t][2] THEN 2 ELSE 1
Smaller(t) ==
  IF Role[t] = "merge" /\ ~ (held[t][1] < held[t][2]) THEN 2 ELSE 1

Token(t) == IF Role[t] = "successor" THEN sent[t] + 1 ELSE held[t][Smaller(t)]

Sent(t) ==
  /\ sent' = [sent EXCEPT ![t] = @ + 1]
  /\ held' = IF Role[t] = "successor" THEN held
             ELSE [held EXCEPT ![t][Smaller(t)] = Null]
  /\ UNCHANGED got

(* main's pthread_join calls have all returned: the consumers have ended,  *)
(* main cancels the other threads and the process exits.                   *)
Joined == \A c \in Running("consumer") : Finished(c)

-----------------------------------------------------------------------------
ProgTypeOK ==
  /\ \A t \in Streams :
       held[t] \in [1 .. Len(ProdList[t]) -> Values \cup {Null}]
  /\ sent \in [Streams -> Nat]
  /\ got \in [Running("consumer") -> Seq(Values)]

(* v is the k-th token, counted from 1, of the increasing merge of the     *)
(* multiples of m and the multiples of n: fewer than k multiples are below *)
(* v, and at least k are at most v.                                        *)
KthMultiple(v, k, m, n) ==
  /\ v % m = 0 \/ v % n = 0
  /\ (v - 1) \div m + (v - 1) \div n < k
  /\ k <= v \div m + v \div n

(* v is the n-th token that the thread of p is to put.                     *)
IsToken(v, p, n) ==
  IF Role[p] = "merge"
  THEN KthMultiple(v, n, Multiplier[ProdList[p][1]], Multiplier[ProdList[p][2]])
  ELSE v = n * Multiplier[p]

(* Every consumer prints, from each of its producers, every token once and *)
(* in order: 1, 2, 3, ... from a successor, the multiples from a times,    *)
(* and from a merge the multiples of the two multipliers in increasing     *)
(* order, each as often as it is one.  (main.c: "5,7,10,14..."; streams.c: *)
(* "merge two streams containing tokens in increasing order"; README: "the *)
(* producer can ensure each thread has seen the value before writing over  *)
(* it with the next one".)                                                 *)
PrintsInOrder ==
  \A c \in Running("consumer") : \A m \in 1 .. Len(got[c]) :
    LET producers == Len(ProdList[c])
    IN  IsToken(got[c][m], ProdList[c][((m - 1) % producers) + 1],
                ((m - 1) \div producers) + 1)

(* Every consumer gets all its tokens and main returns.                    *)
ConsumersFinish == <>Joined
=============================================================================
