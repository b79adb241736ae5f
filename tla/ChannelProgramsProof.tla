------------------------ MODULE ChannelProgramsProof ------------------------
(***************************************************************************)
(* Proofs about the programs of hw3_pthreads on ideal queues: what every   *)
(* consumer prints, for any number of threads, any multipliers, any size   *)
(* of ring and any number of rounds.  Tokens are numbers (Values = Nat).   *)
(***************************************************************************)
EXTENDS ChannelPrograms, SequenceTheorems, TLAPS

(* Why the tokens stay in order.  Taken(p) tokens have left the queue of p *)
(* for its one reader, and Passed(t, k) of those that t got from its k-th  *)
(* producer it has put on.                                                 *)
Taken(p) == sent[p] - Len(queue[p])

Passed(t, k) ==
  Taken(ProdList[t][k]) - (IF held[t][k] = Null THEN 0 ELSE 1)

(* A queue holds the tokens that follow the ones taken from it.            *)
QueuesInOrder ==
  \A p \in Linked :
    /\ Taken(p) \in Nat
    /\ \A n \in 1 .. Len(queue[p]) : IsToken(queue[p][n], p, Taken(p) + n)

(* times has put all it got, but for the product it holds.                 *)
TimesInStep ==
  \A t \in Running("times") :
    /\ Passed(t, 1) = sent[t]
    /\ held[t][1] # Null => held[t][1] = Taken(ProdList[t][1]) * Multiplier[t]

(* merge has put all it got, but for the tokens it holds, and what it has  *)
(* put of one producer is no larger than what comes next from the other.   *)
MergeInStep ==
  \A t \in Running("merge") :
    LET factor(k) == Multiplier[ProdList[t][k]]
    IN  /\ Passed(t, 1) + Passed(t, 2) = sent[t]
        /\ \A k \in 1 .. 2 :
             /\ held[t][k] # Null =>
                  held[t][k] = Taken(ProdList[t][k]) * factor(k)
             /\ Passed(t, k) \in Nat
             /\ Passed(t, k) * factor(k) <= (Passed(t, 3 - k) + 1) * factor(3 - k)

(* consumer has been at each of its producers as often as at the others,   *)
(* and once more at those it has passed in this round.                     *)
RoundRobin ==
  \A c \in Running("consumer") :
    /\ Len(ProdList[c]) = 0 => Len(got[c]) = 0
    /\ \A k \in 1 .. Len(ProdList[c]) :
         Taken(ProdList[c][k]) =
           Len(got[c]) \div Len(ProdList[c])
             + (IF k <= Len(got[c]) % Len(ProdList[c]) THEN 1 ELSE 0)

(* The inductive invariant behind PrintsInOrder.                           *)
ProgramInv ==
  /\ IdealTypeOK
  /\ received \in [Streams -> Values \cup {Null}]
  /\ DOMAIN held = Streams
  /\ QueuesInOrder
  /\ TimesInStep
  /\ MergeInStep
  /\ RoundRobin
  /\ PrintsInOrder

-----------------------------------------------------------------------------
-----------------------------------------------------------------------------
(* Arithmetic of the merge and of consumer's rounds.                       *)

LEMMA DivBounds ==
  ASSUME NEW x \in Int, NEW m \in Nat \ {0}, NEW q \in Int
  PROVE  /\ q * m <= x => q <= x \div m
         /\ x < q * m => x \div m < q
OBVIOUS

LEMMA MultipleMod ==
  ASSUME NEW m \in Nat \ {0}, NEW q \in Int
  PROVE  (q * m) % m = 0
OBVIOUS

(* One more token moves consumer on by one place of its list, or to the    *)
(* head of the list and into the next round.                               *)
LEMMA NextRound ==
  ASSUME NEW x \in Nat, NEW m \in Nat \ {0}
  PROVE  IF (x % m) + 1 < m
         THEN (x + 1) \div m = x \div m /\ (x + 1) % m = (x % m) + 1
         ELSE (x + 1) \div m = x \div m + 1 /\ (x + 1) % m = 0 /\ x % m = m - 1
OBVIOUS

(* If a multiples of m and b multiples of n have been put, and neither of  *)
(* the last two is larger than what comes next from the other side, then   *)
(* the smaller of the next two multiples is the next token of the merge.   *)
LEMMA SmallerIsNext ==
  ASSUME NEW m \in Nat \ {0}, NEW n \in Nat \ {0}, NEW a \in Nat, NEW b \in Nat,
         b * n <= (a + 1) * m, (a + 1) * m <= (b + 1) * n
  PROVE  /\ KthMultiple((a + 1) * m, a + b + 1, m, n)
         /\ KthMultiple((a + 1) * m, a + b + 1, n, m)
<1> DEFINE v == (a + 1) * m
<1>0. v \in Nat /\ v - 1 \in Int /\ a + 1 \in Int /\ b + 1 \in Int
  OBVIOUS
<1>1. v % m = 0
  BY MultipleMod, <1>0
<1>2. v - 1 < (a + 1) * m /\ v - 1 < (b + 1) * n
  BY <1>0
<1>3. (v - 1) \div m < a + 1 /\ (v - 1) \div n < b + 1
  BY <1>0, <1>2, DivBounds
<1>4. a + 1 <= v \div m /\ b <= v \div n
  BY <1>0, DivBounds
<1>5. /\ (v - 1) \div m \in Int /\ (v - 1) \div n \in Int
      /\ v \div m \in Int /\ v \div n \in Int
  BY <1>0
<1> HIDE DEF v
<1>6. /\ (v - 1) \div m + (v - 1) \div n < a + b + 1
      /\ a + b + 1 <= v \div m + v \div n
  BY <1>3, <1>4, <1>5
<1>7. /\ (v - 1) \div n + (v - 1) \div m < a + b + 1
      /\ a + b + 1 <= v \div n + v \div m
  BY <1>3, <1>4, <1>5
<1>8. KthMultiple(v, a + b + 1, m, n) /\ KthMultiple(v, a + b + 1, n, m)
  BY <1>1, <1>6, <1>7 DEF KthMultiple
<1> QED
  BY <1>8 DEF v

-----------------------------------------------------------------------------
(* The lists that stream_connect built: every producer is connected, and   *)
(* has its one place in the list of its one reader.                        *)
LEMMA Lists ==
  ASSUME NEW t \in Streams
  PROVE  /\ Len(ProdList[t]) \in Nat
         /\ Multiplier[t] \in Nat \ {0}
         /\ Role[t] = "successor" => Len(ProdList[t]) = 0 /\ Multiplier[t] = 1
         /\ Role[t] = "times" => Len(ProdList[t]) = 1
         /\ Role[t] = "merge" => Len(ProdList[t]) = 2
         /\ Role[t] \in {"successor", "times", "merge", "consumer"}
         /\ Role[t] # "consumer" => t \in Linked
         /\ \A k \in 1 .. Len(ProdList[t]) :
              /\ ProdList[t][k] \in Linked
              /\ ProdList[t][k] \in Streams
              /\ <<t, ProdList[t][k]>> \in Connections
<1>1. /\ ProdList[t] \in Seq(Streams)
      /\ \A k \in 1 .. Len(ProdList[t]) : <<t, ProdList[t][k]>> \in Connections
  BY ProgramsAssumption
<1>2. \A k \in 1 .. Len(ProdList[t]) : ProdList[t][k] \in Streams
  BY <1>1
<1>3. \A k \in 1 .. Len(ProdList[t]) : ProdList[t][k] \in Linked
  BY <1>1, <1>2 DEF Linked, Consumers
<1>4. /\ Len(ProdList[t]) \in Nat
      /\ Multiplier[t] \in Nat \ {0}
      /\ Role[t] = "successor" => Len(ProdList[t]) = 0 /\ Multiplier[t] = 1
      /\ Role[t] = "times" => Len(ProdList[t]) = 1
      /\ Role[t] = "merge" => Len(ProdList[t]) = 2
      /\ Role[t] \in {"successor", "times", "merge", "consumer"}
  BY <1>1, ProgramsAssumption, PipelineAssumption
<1>5. Role[t] # "consumer" => t \in Linked
  BY ChannelProgramsAssumption
<1> QED
  BY <1>1, <1>2, <1>3, <1>4, <1>5

LEMMA OnePlace ==
  ASSUME NEW t \in Streams, NEW k \in 1 .. Len(ProdList[t]),
         NEW u \in Streams, NEW m \in 1 .. Len(ProdList[u]),
         ProdList[t][k] = ProdList[u][m]
  PROVE  t = u /\ k = m
<1>1. t = u
  BY ChannelProgramsAssumption
<1>2. /\ \A i \in 1 .. k - 1 : ProdList[t][i] # ProdList[t][k]
      /\ \A i \in 1 .. m - 1 : ProdList[t][i] # ProdList[t][m]
  BY <1>1, ProgramsAssumption
<1>3. m \notin 1 .. k - 1 /\ k \notin 1 .. m - 1
  BY <1>1, <1>2
<1> QED
  BY <1>1, <1>3, Lists

LEMMA MergeInputs ==
  ASSUME NEW t \in Streams, Role[t] = "merge", NEW k \in 1 .. 2
  PROVE  /\ k \in 1 .. Len(ProdList[t])
         /\ ProdList[t][k] \in Linked /\ ProdList[t][k] \in Streams
         /\ Multiplier[ProdList[t][k]] \in Nat \ {0}
         /\ Role[ProdList[t][k]] # "merge"
<1>1. k \in 1 .. Len(ProdList[t])
  BY Lists
<1>2. ProdList[t][k] \in Linked /\ ProdList[t][k] \in Streams
  BY <1>1, Lists
<1>3. Multiplier[ProdList[t][k]] \in Nat \ {0}
  BY <1>2, ProgramsAssumption
<1> QED
  BY <1>1, <1>2, <1>3, PipelineAssumption

(* The place in its list at which a thread asks for its next token.        *)
LEMMA NextPlace ==
  ASSUME ProgramInv, NEW t \in Streams, Asks(t)
  PROVE  \E k \in 1 .. Len(ProdList[t]) :
           /\ NextProducer(t) = ProdList[t][k]
           /\ Role[t] = "consumer" => k = (Len(got[t]) % Len(ProdList[t])) + 1
           /\ Role[t] # "consumer" => held[t][k] = Null
<1>1. CASE Role[t] = "consumer"
  <2>1. got[t] \in Seq(Values) /\ Len(got[t]) \in Nat
    BY <1>1 DEF ProgramInv, IdealTypeOK, ProgTypeOK, Running
  <2>2. Len(got[t]) # ITEMS * Len(ProdList[t])
    BY <1>1 DEF Asks, Finished
  <2>3. Len(ProdList[t]) \in Nat \ {0}
    <3>1. Len(ProdList[t]) = 0 => Len(got[t]) = 0
      BY <1>1 DEF ProgramInv, RoundRobin, Running
    <3>2. Len(ProdList[t]) \in Nat /\ ITEMS * 0 = 0
      BY Lists, ProgramsAssumption
    <3> QED
      BY <2>2, <3>1, <3>2
  <2>4. PICK x \in Nat, n \in Nat \ {0} :
          x = Len(got[t]) /\ n = Len(ProdList[t])
    BY <2>1, <2>3
  <2>5. PICK k \in 1 .. n : k = (x % n) + 1
    <3>1. x % n \in 0 .. n - 1
      OBVIOUS
    <3> QED
      BY <3>1
  <2>6. NextProducer(t) = ProdList[t][k]
    BY <1>1, <2>4, <2>5 DEF NextProducer
  <2> QED
    BY <1>1, <2>4, <2>5, <2>6
<1>2. CASE Role[t] \in {"times", "merge"}
  <2>1. DOMAIN held[t] = 1 .. Len(ProdList[t])
    BY DEF ProgramInv, IdealTypeOK, ProgTypeOK
  <2>2. Len(ProdList[t]) \in 1 .. 2
    BY <1>2, Lists
  <2>3. Wanted(t) # {} /\ Wanted(t) \subseteq 1 .. Len(ProdList[t])
    BY <1>2, <2>1 DEF Asks, Wanted
  <2>4. \E k \in Wanted(t) : \A m \in Wanted(t) : k <= m
    <3>1. \A k \in Wanted(t) : k \in {1, 2}
      <4>1. PICK n \in {1, 2} : n = Len(ProdList[t])
        BY <2>2
      <4>2. \A k \in 1 .. n : k \in {1, 2}
        OBVIOUS
      <4> QED
        BY <2>3, <4>1, <4>2
    <3>2. CASE 1 \in Wanted(t)
      BY <3>1, <3>2
    <3>3. CASE 1 \notin Wanted(t)
      BY <2>3, <3>1, <3>3
    <3> QED
      BY <3>2, <3>3
  <2>5. PICK k \in Wanted(t) :
          k = CHOOSE i \in Wanted(t) : \A m \in Wanted(t) : i <= m
    BY <2>4
  <2> QED
    BY <1>2, <2>3, <2>5 DEF NextProducer, Wanted
<1> QED
  BY <1>1, <1>2 DEF Asks

-----------------------------------------------------------------------------
(* What a step that gets changes: t takes the token v, the one that comes  *)
(* next, from its k-th producer p ...                                      *)
Fetched(t, k, p, v) ==
  /\ k \in 1 .. Len(ProdList[t]) /\ p = ProdList[t][k] /\ p \in Linked
  /\ v \in Nat /\ IsToken(v, p, Taken(p) + 1)
  /\ Len(queue[p]) > 0
  /\ received' = [received EXCEPT ![t] = v]
  /\ queue' = [queue EXCEPT ![p] = Tail(queue[p])]
  /\ Taken(p)' = Taken(p) + 1
  /\ \A x \in Linked : x # p => Taken(x)' = Taken(x)
  /\ sent' = sent

(* ... and keeps it as its role requires.                                  *)
Kept(t, k, v) ==
  \/ /\ Role[t] = "times" /\ k = 1 /\ held[t][k] = Null
     /\ held' = [held EXCEPT ![t][k] = v * Multiplier[t]]
     /\ got' = got
  \/ /\ Role[t] = "merge" /\ k \in 1 .. 2 /\ held[t][k] = Null
     /\ held' = [held EXCEPT ![t][k] = v]
     /\ got' = got
  \/ /\ Role[t] = "consumer"
     /\ k = (Len(got[t]) % Len(ProdList[t])) + 1
     /\ got' = [got EXCEPT ![t] = Append(got[t], v)]
     /\ held' = held

LEMMA FetchEffect ==
  ASSUME Values = Nat, ProgramInv, NEW t \in Streams, Fetch(t)
  PROVE  \E k \in Nat, p \in Streams, v \in Nat :
           Fetched(t, k, p, v) /\ Kept(t, k, v)
<1>1. PICK k \in 1 .. Len(ProdList[t]) :
        /\ NextProducer(t) = ProdList[t][k]
        /\ Role[t] = "consumer" => k = (Len(got[t]) % Len(ProdList[t])) + 1
        /\ Role[t] # "consumer" => held[t][k] = Null
  BY NextPlace DEF Fetch
<1>2. PICK p : p = ProdList[t][k]
  OBVIOUS
<1>3. k \in Nat /\ p \in Linked /\ p \in Streams
  <2>1. Len(ProdList[t]) \in Nat
    BY Lists
  <2>2. ProdList[t][k] \in Linked /\ ProdList[t][k] \in Streams
    BY Lists
  <2> QED
    BY <1>2, <2>1, <2>2
<1>4. /\ queue \in [Linked -> Seq(Nat)] /\ sent \in [Streams -> Nat]
      /\ Taken(p) \in Nat
      /\ \A n \in 1 .. Len(queue[p]) : IsToken(queue[p][n], p, Taken(p) + n)
  BY <1>3 DEF ProgramInv, IdealTypeOK, ProgTypeOK, QueuesInOrder
<1>5. /\ queue[p] # <<>>
      /\ received' = [received EXCEPT ![t] = Head(queue[p])]
      /\ queue' = [queue EXCEPT ![p] = Tail(queue[p])]
      /\ Got(t, p, received'[t])
  BY <1>1, <1>2 DEF Fetch, Receive
<1>6. PICK v : v = Head(queue[p])
  OBVIOUS
<1>7. /\ v \in Nat /\ v = queue[p][1] /\ Len(queue[p]) \in Nat \ {0}
      /\ Len(Tail(queue[p])) = Len(queue[p]) - 1
  <2>1. PICK q \in Seq(Nat) : q = queue[p]
    BY <1>3, <1>4
  <2>2. q # <<>> /\ v = Head(q)
    BY <1>5, <1>6, <2>1
  <2>3. v \in Nat /\ Len(q) \in Nat \ {0} /\ Len(Tail(q)) = Len(q) - 1
    BY <2>2, EmptySeq, HeadTailProperties
  <2>4. v = q[1]
    BY <2>2
  <2> QED
    BY <2>1, <2>3, <2>4
<1>8. IsToken(v, p, Taken(p) + 1)
  BY <1>4, <1>7
<1>9. received'[t] = v
  BY <1>5, <1>6 DEF ProgramInv
<1>10. sent' = sent
  BY <1>5 DEF Got, TimesGot, MergeGot, ConsumerGot
<1>11. /\ Taken(p)' = Taken(p) + 1
       /\ \A x \in Linked : x # p => Taken(x)' = Taken(x)
  <2>1. /\ queue'[p] = Tail(queue[p])
        /\ \A x \in Linked : x # p => queue'[x] = queue[x]
    BY <1>3, <1>4, <1>5
  <2> QED
    BY <1>3, <1>4, <1>7, <1>10, <2>1 DEF Taken
<1>12. Fetched(t, k, p, v)
  BY <1>2, <1>3, <1>5, <1>6, <1>7, <1>8, <1>10, <1>11 DEF Fetched
<1>13. Kept(t, k, v)
  <2>1. CASE Role[t] = "times"
    BY <1>1, <1>5, <1>9, <2>1, Lists DEF Got, TimesGot, MergeGot, ConsumerGot, Kept
  <2>2. CASE Role[t] = "merge"
    <3>1. PICK m \in 1 .. 2 :
            ProdList[t][m] = p /\ held' = [held EXCEPT ![t][m] = v] /\ got' = got
      BY <1>5, <1>9, <2>2 DEF Got, TimesGot, MergeGot, ConsumerGot
    <3>2. m = k
      BY <1>2, <2>2, <3>1, OnePlace, Lists
    <3> QED
      BY <1>1, <2>2, <3>1, <3>2 DEF Kept
  <2>3. CASE Role[t] = "consumer"
    BY <1>1, <1>5, <1>9, <2>3 DEF Got, TimesGot, MergeGot, ConsumerGot, Kept
  <2> QED
    BY <2>1, <2>2, <2>3 DEF Fetch, Asks
<1> QED
  BY <1>3, <1>7, <1>12, <1>13

(* Only the place at which t got its token has moved on.                   *)
LEMMA OtherPlaces ==
  ASSUME NEW t \in Streams, NEW k \in Nat, NEW p \in Streams, NEW v \in Nat,
         Fetched(t, k, p, v),
         NEW u \in Streams, NEW m \in 1 .. Len(ProdList[u]), u # t \/ m # k
  PROVE  Taken(ProdList[u][m])' = Taken(ProdList[u][m])
<1>1. PICK x : x = ProdList[u][m]
  OBVIOUS
<1>2. x \in Linked
  BY <1>1, Lists
<1>3. x # p
  BY <1>1, OnePlace DEF Fetched
<1>4. Taken(x)' = Taken(x)
  BY <1>2, <1>3 DEF Fetched
<1> QED
  BY <1>1, <1>4

LEMMA FetchType ==
  ASSUME Values = Nat, ProgramInv, NEW t \in Streams,
         NEW k \in Nat, NEW p \in Streams, NEW v \in Nat,
         Fetched(t, k, p, v), Kept(t, k, v)
  PROVE  /\ IdealTypeOK'
         /\ (received \in [Streams -> Values \cup {Null}])'
         /\ (DOMAIN held = Streams)'
<1>0. /\ IdealTypeOK /\ DOMAIN held = Streams
      /\ received \in [Streams -> Nat \cup {Null}]
  BY DEF ProgramInv
<1>1. (queue \in [Linked -> Seq(Values)])'
  <2>1. queue[p] \in Seq(Nat) /\ queue[p] # <<>> /\ p \in Linked
    BY <1>0 DEF IdealTypeOK, Fetched
  <2>2. Tail(queue[p]) \in Seq(Nat)
    BY <2>1, HeadTailProperties
  <2> QED
    BY <1>0, <2>1, <2>2 DEF IdealTypeOK, Fetched, Linked, Consumers
<1>2. (received \in [Streams -> Values \cup {Null}])'
  BY <1>0 DEF Fetched
<1>3. (sent \in [Streams -> Nat])'
  BY <1>0 DEF IdealTypeOK, ProgTypeOK, Fetched
<1>4. (got \in [Running("consumer") -> Seq(Values)])'
  <2>1. got \in [Running("consumer") -> Seq(Nat)]
    BY <1>0 DEF IdealTypeOK, ProgTypeOK
  <2>2. CASE got' = got
    BY <2>1, <2>2 DEF Running
  <2>3. CASE Role[t] = "consumer" /\ got' = [got EXCEPT ![t] = Append(got[t], v)]
    <3>1. t \in Running("consumer")
      BY <2>3 DEF Running
    <3>2. Append(got[t], v) \in Seq(Nat)
      BY <2>1, <3>1, AppendProperties
    <3> QED
      BY <2>1, <2>3, <3>1, <3>2 DEF Running
  <2> QED
    BY <2>2, <2>3 DEF Kept
<1>5. /\ (DOMAIN held = Streams)'
      /\ \A u \in Streams :
           held'[u] \in [1 .. Len(ProdList[u]) -> Values \cup {Null}]
  <2>1. /\ DOMAIN held = Streams
        /\ \A u \in Streams : held[u] \in [1 .. Len(ProdList[u]) -> Nat \cup {Null}]
    BY <1>0 DEF IdealTypeOK, ProgTypeOK
  <2>2. v * Multiplier[t] \in Nat
    BY Lists
  <2>3. CASE held' = held
    BY <2>1, <2>3
  <2>4. ASSUME NEW w \in Nat, held' = [held EXCEPT ![t][k] = w]
        PROVE  /\ (DOMAIN held = Streams)'
               /\ \A u \in Streams :
                    held'[u] \in [1 .. Len(ProdList[u]) -> Values \cup {Null}]
    BY <2>1, <2>4
  <2> QED
    BY <2>2, <2>3, <2>4 DEF Kept
<1> QED
  BY <1>1, <1>2, <1>3, <1>4, <1>5 DEF IdealTypeOK, ProgTypeOK

LEMMA FetchQueues ==
  ASSUME Values = Nat, ProgramInv, NEW t \in Streams,
         NEW k \in Nat, NEW p \in Streams, NEW v \in Nat,
         Fetched(t, k, p, v), Kept(t, k, v)
  PROVE  QueuesInOrder'
<1> SUFFICES ASSUME NEW x \in Linked
             PROVE  /\ Taken(x)' \in Nat
                    /\ \A n \in 1 .. Len(queue'[x]) :
                         IsToken(queue'[x][n], x, Taken(x)' + n)
  BY DEF QueuesInOrder, Linked, Consumers, IsToken, KthMultiple
<1>1. /\ Taken(x) \in Nat /\ queue \in [Linked -> Seq(Nat)]
      /\ \A n \in 1 .. Len(queue[x]) : IsToken(queue[x][n], x, Taken(x) + n)
  BY DEF ProgramInv, QueuesInOrder, IdealTypeOK
<1>2. CASE x = p
  <2>1. PICK q \in Seq(Nat), a \in Nat : q = queue[x] /\ a = Taken(x)
    BY <1>1
  <2>2. q # <<>> /\ queue'[x] = Tail(q) /\ Taken(x)' = a + 1
    BY <1>1, <1>2, <2>1 DEF Fetched
  <2>3. /\ Len(Tail(q)) = Len(q) - 1 /\ Len(q) \in Nat
        /\ \A n \in 1 .. Len(Tail(q)) : Tail(q)[n] = q[n + 1]
    BY <2>2, HeadTailProperties
  <2>4. ASSUME NEW n \in 1 .. Len(Tail(q))
        PROVE  IsToken(Tail(q)[n], x, (a + 1) + n)
    <3>1. n + 1 \in 1 .. Len(q) /\ a + (n + 1) = (a + 1) + n
      BY <2>3
    <3>2. IsToken(q[n + 1], x, a + (n + 1))
      BY <1>1, <2>1, <3>1
    <3> QED
      BY <2>3, <3>1, <3>2
  <2> QED
    BY <2>2, <2>4
<1>3. CASE x # p
  BY <1>1, <1>3 DEF Fetched
<1> QED
  BY <1>2, <1>3

LEMMA FetchTimes ==
  ASSUME Values = Nat, ProgramInv, NEW t \in Streams,
         NEW k \in Nat, NEW p \in Streams, NEW v \in Nat,
         Fetched(t, k, p, v), Kept(t, k, v)
  PROVE  TimesInStep'
<1> SUFFICES ASSUME NEW u \in Streams, Role[u] = "times"
             PROVE  /\ Passed(u, 1)' = sent'[u]
                    /\ held'[u][1] # Null =>
                         held'[u][1] = Taken(ProdList[u][1])' * Multiplier[u]
  BY DEF TimesInStep, Running
<1>1. /\ Passed(u, 1) = sent[u] /\ sent' = sent
      /\ held[u][1] # Null => held[u][1] = Taken(ProdList[u][1]) * Multiplier[u]
  BY DEF ProgramInv, TimesInStep, Running, Fetched
<1>2. /\ 1 \in 1 .. Len(ProdList[u]) /\ Multiplier[u] \in Nat
      /\ ProdList[u][1] \in Streams
      /\ DOMAIN held = Streams
      /\ held[u] \in [1 .. Len(ProdList[u]) -> Nat \cup {Null}]
  <2>1. Len(ProdList[u]) = 1 /\ Multiplier[u] \in Nat
    BY Lists
  <2>2. 1 \in 1 .. Len(ProdList[u])
    BY <2>1
  <2>3. ProdList[u][1] \in Streams
    BY <2>2, Lists
  <2> QED
    BY <2>1, <2>2, <2>3 DEF ProgramInv, IdealTypeOK, ProgTypeOK
<1>3. CASE u = t
  <2>1. k = 1 /\ p = ProdList[u][1] /\ held[u][1] = Null
        /\ held' = [held EXCEPT ![u][1] = v * Multiplier[u]]
    BY <1>3 DEF Fetched, Kept
  <2>2. PICK a \in Nat : a = Taken(p)
    BY DEF ProgramInv, QueuesInOrder, Fetched
  <2>3. Taken(p)' = a + 1 /\ sent[u] = a
    BY <1>1, <2>1, <2>2 DEF Fetched, Passed
  <2>4. v = a + 1
    BY <2>1, <2>2, PipelineAssumption DEF Fetched, IsToken
  <2>5. held'[u][1] = (a + 1) * Multiplier[u] /\ held'[u][1] # Null
    BY <1>2, <2>1, <2>4, TopologyAssumption
  <2> QED
    BY <1>1, <2>1, <2>3, <2>5 DEF Passed
<1>4. CASE u # t
  <2>1. Taken(ProdList[u][1])' = Taken(ProdList[u][1])
    BY <1>2, <1>4, OtherPlaces
  <2>2. held'[u] = held[u]
    BY <1>2, <1>4 DEF Kept
  <2> QED
    BY <1>1, <2>1, <2>2 DEF Passed
<1> QED
  BY <1>3, <1>4

LEMMA FetchMerge ==
  ASSUME Values = Nat, ProgramInv, NEW t \in Streams,
         NEW k \in Nat, NEW p \in Streams, NEW v \in Nat,
         Fetched(t, k, p, v), Kept(t, k, v)
  PROVE  MergeInStep'
<1> SUFFICES ASSUME NEW u \in Streams, Role[u] = "merge"
             PROVE  /\ Passed(u, 1)' + Passed(u, 2)' = sent'[u]
                    /\ \A i \in 1 .. 2 :
                         /\ held'[u][i] # Null =>
                              held'[u][i] = Taken(ProdList[u][i])'
                                              * Multiplier[ProdList[u][i]]
                         /\ Passed(u, i)' \in Nat
                         /\ Passed(u, i)' * Multiplier[ProdList[u][i]] <=
                              (Passed(u, 3 - i)' + 1) * Multiplier[ProdList[u][3 - i]]
  BY DEF MergeInStep, Running
<1>1. /\ Passed(u, 1) + Passed(u, 2) = sent[u] /\ sent' = sent
      /\ \A i \in 1 .. 2 :
           /\ held[u][i] # Null =>
                held[u][i] = Taken(ProdList[u][i]) * Multiplier[ProdList[u][i]]
           /\ Passed(u, i) \in Nat
           /\ Passed(u, i) * Multiplier[ProdList[u][i]] <=
                (Passed(u, 3 - i) + 1) * Multiplier[ProdList[u][3 - i]]
  BY DEF ProgramInv, MergeInStep, Running, Fetched
<1>2. ASSUME NEW i \in 1 .. 2
      PROVE  /\ Passed(u, i)' = Passed(u, i)
             /\ held'[u][i] # Null =>
                  held'[u][i] = Taken(ProdList[u][i])' * Multiplier[ProdList[u][i]]
  <2>1. /\ i \in 1 .. Len(ProdList[u]) /\ DOMAIN held = Streams
        /\ held[u] \in [1 .. Len(ProdList[u]) -> Nat \cup {Null}]
    BY MergeInputs DEF ProgramInv, IdealTypeOK, ProgTypeOK
  <2>2. CASE u = t /\ i = k
    <3>1. p = ProdList[u][i] /\ held[u][i] = Null
          /\ held' = [held EXCEPT ![u][i] = v]
      BY <2>2 DEF Fetched, Kept
    <3>2. PICK a \in Nat : a = Taken(p)
      BY DEF ProgramInv, QueuesInOrder, Fetched
    <3>3. Taken(p)' = a + 1 /\ Passed(u, i) = a
      BY <3>1, <3>2 DEF Fetched, Passed
    <3>4. v = (a + 1) * Multiplier[p]
      BY <3>1, <3>2, MergeInputs DEF Fetched, IsToken
    <3>5. held'[u][i] = v /\ held'[u][i] # Null
      BY <2>1, <3>1, TopologyAssumption
    <3> QED
      BY <3>1, <3>3, <3>4, <3>5 DEF Passed
  <2>3. CASE u # t \/ i # k
    <3>1. Taken(ProdList[u][i])' = Taken(ProdList[u][i])
      BY <2>1, <2>3, OtherPlaces
    <3>2. held'[u][i] = held[u][i]
      BY <2>1, <2>3 DEF Kept
    <3> QED
      BY <1>1, <3>1, <3>2 DEF Passed
  <2> QED
    BY <2>2, <2>3
<1>3. \A i \in 1 .. 2 : 3 - i \in 1 .. 2
  OBVIOUS
<1>4. \A i \in 1 .. 2 : Passed(u, i)' = Passed(u, i)
  BY <1>2
<1>5. Passed(u, 1)' + Passed(u, 2)' = sent'[u]
  BY <1>1, <1>4
<1>6. ASSUME NEW i \in 1 .. 2
      PROVE  /\ Passed(u, i)' \in Nat
             /\ Passed(u, i)' * Multiplier[ProdList[u][i]] <=
                  (Passed(u, 3 - i)' + 1) * Multiplier[ProdList[u][3 - i]]
  BY <1>1, <1>3, <1>4
<1> QED
  BY <1>2, <1>5, <1>6

LEMMA FetchRound ==
  ASSUME Values = Nat, ProgramInv, NEW t \in Streams,
         NEW k \in Nat, NEW p \in Streams, NEW v \in Nat,
         Fetched(t, k, p, v), Kept(t, k, v)
  PROVE  RoundRobin'
<1> SUFFICES ASSUME NEW c \in Streams, Role[c] = "consumer"
             PROVE  /\ Len(ProdList[c]) = 0 => Len(got'[c]) = 0
                    /\ \A m \in 1 .. Len(ProdList[c]) :
                         Taken(ProdList[c][m])' =
                           Len(got'[c]) \div Len(ProdList[c])
                             + (IF m <= Len(got'[c]) % Len(ProdList[c])
                                THEN 1 ELSE 0)
  BY DEF RoundRobin, Running
<1>1. /\ Len(ProdList[c]) = 0 => Len(got[c]) = 0
      /\ \A m \in 1 .. Len(ProdList[c]) :
           Taken(ProdList[c][m]) =
             Len(got[c]) \div Len(ProdList[c])
               + (IF m <= Len(got[c]) % Len(ProdList[c]) THEN 1 ELSE 0)
  BY DEF ProgramInv, RoundRobin, Running
<1>2. /\ c \in Running("consumer")
      /\ got \in [Running("consumer") -> Seq(Nat)] /\ got[c] \in Seq(Nat)
  BY DEF Running, ProgramInv, IdealTypeOK, ProgTypeOK
<1>3. CASE c # t
  <2>1. got'[c] = got[c]
    BY <1>2, <1>3 DEF Kept
  <2>2. \A m \in 1 .. Len(ProdList[c]) :
          Taken(ProdList[c][m])' = Taken(ProdList[c][m])
    BY <1>3, OtherPlaces
  <2> QED
    BY <1>1, <2>1, <2>2
<1>4. CASE c = t
  <2>1. /\ k = (Len(got[c]) % Len(ProdList[c])) + 1
        /\ got' = [got EXCEPT ![c] = Append(got[c], v)]
        /\ k \in 1 .. Len(ProdList[c]) /\ p = ProdList[c][k]
        /\ Taken(p)' = Taken(p) + 1
    BY <1>4 DEF Kept, Fetched
  <2>2. PICK x \in Nat, n \in Nat \ {0} : x = Len(got[c]) /\ n = Len(ProdList[c])
    <3>1. Len(ProdList[c]) \in Nat
      BY Lists
    <3>2. Len(ProdList[c]) # 0
      <4>1. PICK n : n = Len(ProdList[c])
        OBVIOUS
      <4>2. n \in Nat /\ k \in 1 .. n
        BY <2>1, <3>1, <4>1
      <4> QED
        BY <4>1, <4>2
    <3>3. Len(got[c]) \in Nat
      BY <1>2
    <3> QED
      BY <3>1, <3>2, <3>3
  <2>3. Len(got'[c]) = x + 1
    BY <1>2, <2>1, <2>2, AppendProperties
  <2>4. k = (x % n) + 1 /\ x % n \in 0 .. n - 1 /\ x \div n \in Int
    <3>1. k = (x % n) + 1
      BY <2>1, <2>2
    <3>2. x % n \in 0 .. n - 1 /\ x \div n \in Int
      OBVIOUS
    <3> QED
      BY <3>1, <3>2
  <2>5. ASSUME NEW m \in 1 .. n
        PROVE  Taken(ProdList[c][m])' =
                 (x + 1) \div n + (IF m <= (x + 1) % n THEN 1 ELSE 0)
    <3>1. Taken(ProdList[c][m]) = x \div n + (IF m <= x % n THEN 1 ELSE 0)
      BY <1>1, <2>2
    <3>2. Taken(ProdList[c][m])' =
            Taken(ProdList[c][m]) + (IF m = k THEN 1 ELSE 0)
      <4>1. CASE m = k
        BY <2>1, <4>1
      <4>2. CASE m # k
        <5>1. Taken(ProdList[c][m])' = Taken(ProdList[c][m])
          BY <2>2, <4>2, OtherPlaces
        <5>2. Taken(ProdList[c][m]) \in Int
          BY <2>4, <3>1
        <5> QED
          BY <4>2, <5>1, <5>2
      <4> QED
        BY <4>1, <4>2
    <3>3. x \div n + (IF m <= x % n THEN 1 ELSE 0) + (IF m = k THEN 1 ELSE 0)
            = (x + 1) \div n + (IF m <= (x + 1) % n THEN 1 ELSE 0)
      <4>1. CASE (x % n) + 1 < n
        <5>1. (x + 1) \div n = x \div n /\ (x + 1) % n = (x % n) + 1
          BY <4>1, NextRound
        <5> QED
          BY <2>4, <5>1
      <4>2. CASE ~ ((x % n) + 1 < n)
        <5>1. /\ (x + 1) \div n = x \div n + 1 /\ (x + 1) % n = 0
              /\ x % n = n - 1
          BY <4>2, NextRound
        <5> QED
          BY <2>4, <5>1
      <4> QED
        BY <4>1, <4>2
    <3> QED
      BY <3>1, <3>2, <3>3
  <2> QED
    BY <2>2, <2>3, <2>5
<1> QED
  BY <1>3, <1>4

LEMMA FetchPrints ==
  ASSUME Values = Nat, ProgramInv, NEW t \in Streams,
         NEW k \in Nat, NEW p \in Streams, NEW v \in Nat,
         Fetched(t, k, p, v), Kept(t, k, v)
  PROVE  PrintsInOrder'
<1> DEFINE Printed(c, n, m, token) ==
             IsToken(token, ProdList[c][((m - 1) % n) + 1], ((m - 1) \div n) + 1)
<1> SUFFICES ASSUME NEW c \in Streams, Role[c] = "consumer",
                    NEW m \in 1 .. Len(got'[c])
             PROVE  Printed(c, Len(ProdList[c]), m, got'[c][m])
  BY DEF PrintsInOrder, Running, IsToken, KthMultiple
<1>1. \A i \in 1 .. Len(got[c]) : Printed(c, Len(ProdList[c]), i, got[c][i])
  BY DEF ProgramInv, PrintsInOrder, Running
<1>2. /\ c \in Running("consumer")
      /\ got \in [Running("consumer") -> Seq(Nat)] /\ got[c] \in Seq(Nat)
  BY DEF Running, ProgramInv, IdealTypeOK, ProgTypeOK
<1>3. CASE c # t
  BY <1>1, <1>2, <1>3 DEF Kept
<1>4. CASE c = t
  <2>1. /\ k = (Len(got[c]) % Len(ProdList[c])) + 1
        /\ got' = [got EXCEPT ![c] = Append(got[c], v)]
        /\ k \in 1 .. Len(ProdList[c]) /\ p = ProdList[c][k]
        /\ IsToken(v, p, Taken(p) + 1)
    BY <1>4 DEF Kept, Fetched
  <2>2. PICK x, n : x = Len(got[c]) /\ n = Len(ProdList[c])
    OBVIOUS
  <2>3. x \in Nat /\ n \in Nat \ {0}
    <3>1. n \in Nat /\ k \in 1 .. n
      BY <2>1, <2>2, Lists
    <3> QED
      BY <1>2, <2>2, <3>1
  <2>4. /\ Len(got'[c]) = x + 1 /\ got'[c][x + 1] = v
        /\ \A i \in 1 .. x : got'[c][i] = got[c][i]
    BY <1>2, <2>1, <2>2, AppendProperties
  <2>5. CASE m <= x
    <3>1. m \in 1 .. x
      BY <2>3, <2>4, <2>5
    <3> QED
      BY <1>1, <2>2, <2>4, <3>1
  <2>6. CASE m = x + 1
    <3>1. Taken(p) = x \div n
      <4>1. Taken(p) = x \div n + (IF k <= x % n THEN 1 ELSE 0)
        BY <2>1, <2>2, <1>2 DEF ProgramInv, RoundRobin
      <4>2. k = (x % n) + 1
        BY <2>1, <2>2
      <4>3. x % n \in Int /\ x \div n \in Int
        BY <2>3
      <4> QED
        BY <4>1, <4>2, <4>3
    <3>2. m - 1 = x
      BY <2>3, <2>6
    <3>3. Printed(c, n, m, v)
      BY <2>1, <2>2, <3>1, <3>2
    <3> QED
      BY <2>2, <2>4, <2>6, <3>3
  <2>7. m <= x \/ m = x + 1
    BY <2>3, <2>4
  <2> QED
    BY <2>5, <2>6, <2>7
<1> QED
  BY <1>3, <1>4

(* A step that gets keeps the invariant.                                   *)
LEMMA FetchInv ==
  ASSUME Values = Nat, ProgramInv, NEW t \in Streams, Fetch(t)
  PROVE  ProgramInv'
<1>1. PICK k \in Nat, p \in Streams, v \in Nat :
        Fetched(t, k, p, v) /\ Kept(t, k, v)
  BY FetchEffect
<1> QED
  BY <1>1, FetchType, FetchQueues, FetchTimes, FetchMerge, FetchRound, FetchPrints
     DEF ProgramInv

-----------------------------------------------------------------------------
(* What a step that puts changes: the token v, the one that comes next, is *)
(* appended to t's queue ...                                               *)
PutOn(t, v) ==
  /\ t \in Linked /\ v \in Nat /\ IsToken(v, t, sent[t] + 1)
  /\ received' = received
  /\ queue' = [queue EXCEPT ![t] = Append(queue[t], v)]
  /\ \A x \in Linked : Taken(x)' = Taken(x)
  /\ sent' = [sent EXCEPT ![t] = sent[t] + 1]
  /\ got' = got

(* ... and is no longer held.                                              *)
Released(t) ==
  \/ Role[t] = "successor" /\ held' = held
  \/ /\ Role[t] = "times" /\ held[t][1] # Null
     /\ held' = [held EXCEPT ![t][1] = Null]
  \/ /\ Role[t] = "merge"
     /\ \E k \in 1 .. 2 :
          /\ held[t][k] # Null /\ held[t][3 - k] # Null
          /\ held[t][k] <= held[t][3 - k]
          /\ held' = [held EXCEPT ![t][k] = Null]

(* The smaller of the two tokens that merge holds is the next one.         *)
LEMMA MergeToken ==
  ASSUME Values = Nat, ProgramInv, NEW t \in Streams, Role[t] = "merge",
         NEW k \in 1 .. 2, held[t][k] # Null, held[t][3 - k] # Null,
         held[t][k] <= held[t][3 - k]
  PROVE  IsToken(held[t][k], t, sent[t] + 1)
<1>1. PICK m, n, a, b :
        /\ m = Multiplier[ProdList[t][k]] /\ n = Multiplier[ProdList[t][3 - k]]
        /\ a = Passed(t, k) /\ b = Passed(t, 3 - k)
  OBVIOUS
<1>2. 3 - k \in 1 .. 2 /\ 3 - (3 - k) = k
  OBVIOUS
<1>3. m \in Nat \ {0} /\ n \in Nat \ {0}
  BY <1>1, <1>2, MergeInputs
<1>4. /\ a \in Nat /\ b \in Nat
      /\ b * n <= (a + 1) * m
      /\ held[t][k] = Taken(ProdList[t][k]) * m
      /\ held[t][3 - k] = Taken(ProdList[t][3 - k]) * n
  BY <1>1, <1>2 DEF ProgramInv, MergeInStep, Running
<1>5. Passed(t, 1) + Passed(t, 2) = sent[t]
  BY DEF ProgramInv, MergeInStep, Running
<1>6. sent[t] = a + b
  <2>1. CASE k = 1
    BY <1>1, <1>5, <2>1
  <2>2. CASE k = 2
    BY <1>1, <1>4, <1>5, <2>2
  <2> QED
    BY <2>1, <2>2
<1>7. Taken(ProdList[t][k]) = a + 1 /\ Taken(ProdList[t][3 - k]) = b + 1
  <2>1. Taken(ProdList[t][k]) \in Nat /\ Taken(ProdList[t][3 - k]) \in Nat
    BY <1>2, MergeInputs DEF ProgramInv, QueuesInOrder
  <2> QED
    BY <1>1, <2>1 DEF Passed
<1>8. held[t][k] = (a + 1) * m /\ held[t][3 - k] = (b + 1) * n
  BY <1>4, <1>7
<1>9. (a + 1) * m <= (b + 1) * n
  BY <1>8
<1>10. /\ KthMultiple((a + 1) * m, a + b + 1, m, n)
       /\ KthMultiple((a + 1) * m, a + b + 1, n, m)
  BY <1>3, <1>4, <1>9, SmallerIsNext
<1>11. KthMultiple(held[t][k], sent[t] + 1, Multiplier[ProdList[t][1]],
                   Multiplier[ProdList[t][2]])
  <2>1. CASE k = 1
    BY <1>1, <1>6, <1>8, <1>10, <2>1
  <2>2. CASE k = 2
    BY <1>1, <1>6, <1>8, <1>10, <2>2
  <2> QED
    BY <2>1, <2>2
<1> QED
  BY <1>11 DEF IsToken

LEMMA PassEffect ==
  ASSUME Values = Nat, ProgramInv, NEW t \in Streams, Pass(t)
  PROVE  \E v \in Nat : PutOn(t, v) /\ Released(t)
<1>1. PICK v : v = Token(t)
  OBVIOUS
<1>2. /\ Sends(t) /\ Sent(t) /\ t \in Linked /\ received' = received
      /\ queue' = [queue EXCEPT ![t] = Append(queue[t], v)]
  BY <1>1 DEF Pass, Send
<1>3. /\ queue \in [Linked -> Seq(Nat)] /\ sent \in [Streams -> Nat]
      /\ DOMAIN held = Streams
      /\ held[t] \in [1 .. Len(ProdList[t]) -> Nat \cup {Null}]
      /\ Linked \subseteq Streams
  BY DEF ProgramInv, IdealTypeOK, ProgTypeOK, Linked
<1>4. /\ sent' = [sent EXCEPT ![t] = sent[t] + 1] /\ got' = got
      /\ held' = IF Role[t] = "successor" THEN held
                 ELSE [held EXCEPT ![t][Smaller(t)] = Null]
  BY <1>2 DEF Sent
<1>5. v \in Nat /\ IsToken(v, t, sent[t] + 1) /\ Released(t)
  <2>1. CASE Role[t] = "successor"
    <3>1. v = sent[t] + 1 /\ v \in Nat /\ Multiplier[t] = 1
      BY <1>1, <1>3, <2>1, Lists DEF Token
    <3> QED
      BY <1>4, <2>1, <3>1 DEF IsToken, Released
  <2>2. CASE Role[t] = "times"
    <3>1. Len(ProdList[t]) = 1
      BY <2>2, Lists
    <3>2. held[t][1] # Null /\ held[t][1] \in Nat
      BY <1>2, <1>3, <2>2, <3>1 DEF Sends, Wanted
    <3>3. v = held[t][1] /\ held' = [held EXCEPT ![t][1] = Null]
      BY <1>1, <1>4, <2>2 DEF Token, Smaller
    <3>4. held[t][1] = Taken(ProdList[t][1]) * Multiplier[t] /\ Passed(t, 1) = sent[t]
      BY <2>2, <3>2 DEF ProgramInv, TimesInStep, Running
    <3>5. Taken(ProdList[t][1]) = sent[t] + 1
      <4>1. ProdList[t][1] \in Linked
        <5>1. 1 \in 1 .. Len(ProdList[t])
          BY <3>1
        <5> QED
          BY <5>1, Lists
      <4>2. Taken(ProdList[t][1]) \in Nat
        BY <4>1 DEF ProgramInv, QueuesInOrder
      <4> QED
        BY <3>2, <3>4, <4>2 DEF Passed
    <3> QED
      BY <2>2, <3>2, <3>3, <3>4, <3>5 DEF IsToken, Released
  <2>3. CASE Role[t] = "merge"
    <3>1. Len(ProdList[t]) = 2
      BY <2>3, Lists
    <3>2. held[t][1] \in Nat /\ held[t][2] \in Nat
          /\ held[t][1] # Null /\ held[t][2] # Null
      BY <1>2, <1>3, <2>3, <3>1 DEF Sends, Wanted
    <3>3. PICK k \in 1 .. 2 : k = Smaller(t) /\ held[t][k] <= held[t][3 - k]
      BY <2>3, <3>2 DEF Smaller
    <3>4. v = held[t][k] /\ held' = [held EXCEPT ![t][k] = Null]
      BY <1>1, <1>4, <2>3, <3>3 DEF Token
    <3>5. held[t][k] # Null /\ held[t][3 - k] # Null /\ held[t][k] \in Nat
      BY <3>2
    <3>6. IsToken(v, t, sent[t] + 1)
      BY <2>3, <3>3, <3>4, <3>5, MergeToken
    <3> QED
      BY <2>3, <3>3, <3>4, <3>5, <3>6 DEF Released
  <2> QED
    BY <1>2, <2>1, <2>2, <2>3 DEF Sends
<1>6. \A x \in Linked : Taken(x)' = Taken(x)
  <2>1. Len(Append(queue[t], v)) = Len(queue[t]) + 1 /\ Len(queue[t]) \in Nat
    BY <1>2, <1>3, <1>5, AppendProperties
  <2> QED
    BY <1>2, <1>3, <1>4, <2>1 DEF Taken
<1> QED
  BY <1>2, <1>4, <1>5, <1>6 DEF PutOn

LEMMA PassType ==
  ASSUME Values = Nat, ProgramInv, NEW t \in Streams, NEW v \in Nat,
         PutOn(t, v), Released(t)
  PROVE  /\ IdealTypeOK'
         /\ (received \in [Streams -> Values \cup {Null}])'
         /\ (DOMAIN held = Streams)'
<1>0. IdealTypeOK /\ DOMAIN held = Streams
  BY DEF ProgramInv
<1>1. (queue \in [Linked -> Seq(Values)])'
  <2>1. queue[t] \in Seq(Nat) /\ t \in Linked
    BY <1>0 DEF IdealTypeOK, PutOn
  <2>2. Append(queue[t], v) \in Seq(Nat)
    BY <2>1, AppendProperties
  <2> QED
    BY <1>0, <2>1, <2>2 DEF IdealTypeOK, PutOn, Linked, Consumers
<1>2. (received \in [Streams -> Values \cup {Null}])'
  BY DEF ProgramInv, PutOn
<1>3. (sent \in [Streams -> Nat])' /\ (got \in [Running("consumer") -> Seq(Values)])'
  BY <1>0 DEF IdealTypeOK, ProgTypeOK, PutOn, Running
<1>4. /\ (DOMAIN held = Streams)'
      /\ \A u \in Streams :
           held'[u] \in [1 .. Len(ProdList[u]) -> Values \cup {Null}]
  <2>1. \A u \in Streams : held[u] \in [1 .. Len(ProdList[u]) -> Values \cup {Null}]
    BY <1>0 DEF IdealTypeOK, ProgTypeOK
  <2>2. CASE held' = held
    BY <1>0, <2>1, <2>2
  <2>3. ASSUME NEW k \in 1 .. 2, held' = [held EXCEPT ![t][k] = Null]
        PROVE  /\ (DOMAIN held = Streams)'
               /\ \A u \in Streams :
                    held'[u] \in [1 .. Len(ProdList[u]) -> Values \cup {Null}]
    BY <1>0, <2>1, <2>3
  <2> QED
    BY <2>2, <2>3 DEF Released
<1> QED
  BY <1>1, <1>2, <1>3, <1>4 DEF IdealTypeOK, ProgTypeOK

LEMMA PassQueues ==
  ASSUME Values = Nat, ProgramInv, NEW t \in Streams, NEW v \in Nat,
         PutOn(t, v), Released(t)
  PROVE  QueuesInOrder'
<1> SUFFICES ASSUME NEW x \in Linked
             PROVE  /\ Taken(x)' \in Nat
                    /\ \A n \in 1 .. Len(queue'[x]) :
                         IsToken(queue'[x][n], x, Taken(x)' + n)
  BY DEF QueuesInOrder, Linked, Consumers, IsToken, KthMultiple
<1>1. /\ Taken(x) \in Nat /\ Taken(x)' = Taken(x)
      /\ queue \in [Linked -> Seq(Nat)]
      /\ \A n \in 1 .. Len(queue[x]) : IsToken(queue[x][n], x, Taken(x) + n)
  BY DEF ProgramInv, QueuesInOrder, IdealTypeOK, PutOn
<1>2. CASE x = t
  <2>1. PICK q \in Seq(Nat), a \in Nat : q = queue[x] /\ a = Taken(x)
    BY <1>1
  <2>2. queue'[x] = Append(q, v)
    BY <1>1, <1>2, <2>1 DEF PutOn
  <2>3. /\ Len(Append(q, v)) = Len(q) + 1 /\ Len(q) \in Nat
        /\ \A n \in 1 .. Len(q) : Append(q, v)[n] = q[n]
        /\ Append(q, v)[Len(q) + 1] = v
    BY AppendProperties
  <2>4. IsToken(v, x, a + (Len(q) + 1))
    <3>1. sent[x] \in Nat
      BY <1>2 DEF ProgramInv, IdealTypeOK, ProgTypeOK
    <3>2. sent[x] + 1 = a + (Len(q) + 1)
      BY <2>1, <2>3, <3>1 DEF Taken
    <3> QED
      BY <1>2, <3>2 DEF PutOn
  <2>5. ASSUME NEW n \in 1 .. Len(Append(q, v))
        PROVE  IsToken(Append(q, v)[n], x, a + n)
    <3>1. CASE n \in 1 .. Len(q)
      BY <1>1, <2>1, <2>3, <3>1
    <3>2. CASE n = Len(q) + 1
      BY <2>3, <2>4, <3>2
    <3>3. n \in 1 .. Len(q) \/ n = Len(q) + 1
      BY <2>3
    <3> QED
      BY <3>1, <3>2, <3>3
  <2> QED
    BY <1>1, <2>1, <2>2, <2>5
<1>3. CASE x # t
  BY <1>1, <1>3 DEF PutOn
<1> QED
  BY <1>2, <1>3

LEMMA PassTimes ==
  ASSUME Values = Nat, ProgramInv, NEW t \in Streams, NEW v \in Nat,
         PutOn(t, v), Released(t)
  PROVE  TimesInStep'
<1> SUFFICES ASSUME NEW u \in Streams, Role[u] = "times"
             PROVE  /\ Passed(u, 1)' = sent'[u]
                    /\ held'[u][1] # Null =>
                         held'[u][1] = Taken(ProdList[u][1])' * Multiplier[u]
  BY DEF TimesInStep, Running
<1>1. /\ Passed(u, 1) = sent[u]
      /\ held[u][1] # Null => held[u][1] = Taken(ProdList[u][1]) * Multiplier[u]
  BY DEF ProgramInv, TimesInStep, Running
<1>2. 1 \in 1 .. Len(ProdList[u])
  <2>1. Len(ProdList[u]) = 1
    BY Lists
  <2> QED
    BY <2>1
<1>3. /\ DOMAIN held = Streams /\ sent \in [Streams -> Nat]
      /\ held[u] \in [1 .. Len(ProdList[u]) -> Nat \cup {Null}]
  BY DEF ProgramInv, IdealTypeOK, ProgTypeOK
<1>4. PICK a \in Nat : a = Taken(ProdList[u][1]) /\ a = Taken(ProdList[u][1])'
  <2>1. ProdList[u][1] \in Linked
    BY <1>2, Lists
  <2> QED
    BY <2>1 DEF ProgramInv, QueuesInOrder, PutOn
<1>5. CASE u = t
  <2>1. held[u][1] # Null /\ held' = [held EXCEPT ![u][1] = Null]
    BY <1>5 DEF Released
  <2>2. held'[u][1] = Null
    BY <1>2, <1>3, <2>1
  <2>3. sent'[u] = sent[u] + 1
    BY <1>3, <1>5 DEF PutOn
  <2> QED
    BY <1>1, <1>4, <2>1, <2>2, <2>3 DEF Passed
<1>6. CASE u # t
  <2>1. held'[u] = held[u] /\ sent'[u] = sent[u]
    BY <1>3, <1>6 DEF Released, PutOn
  <2> QED
    BY <1>1, <1>4, <2>1 DEF Passed
<1> QED
  BY <1>5, <1>6

LEMMA PassMerge ==
  ASSUME Values = Nat, ProgramInv, NEW t \in Streams, NEW v \in Nat,
         PutOn(t, v), Released(t)
  PROVE  MergeInStep'
<1> SUFFICES ASSUME NEW u \in Streams, Role[u] = "merge"
             PROVE  /\ Passed(u, 1)' + Passed(u, 2)' = sent'[u]
                    /\ \A i \in 1 .. 2 :
                         /\ held'[u][i] # Null =>
                              held'[u][i] = Taken(ProdList[u][i])'
                                              * Multiplier[ProdList[u][i]]
                         /\ Passed(u, i)' \in Nat
                         /\ Passed(u, i)' * Multiplier[ProdList[u][i]] <=
                              (Passed(u, 3 - i)' + 1) * Multiplier[ProdList[u][3 - i]]
  BY DEF MergeInStep, Running
<1>1. /\ Passed(u, 1) + Passed(u, 2) = sent[u]
      /\ \A i \in 1 .. 2 :
           /\ held[u][i] # Null =>
                held[u][i] = Taken(ProdList[u][i]) * Multiplier[ProdList[u][i]]
           /\ Passed(u, i) \in Nat
           /\ Passed(u, i) * Multiplier[ProdList[u][i]] <=
                (Passed(u, 3 - i) + 1) * Multiplier[ProdList[u][3 - i]]
  BY DEF ProgramInv, MergeInStep, Running
<1>2. /\ DOMAIN held = Streams /\ sent \in [Streams -> Nat]
      /\ held[u] \in [1 .. Len(ProdList[u]) -> Nat \cup {Null}]
  BY DEF ProgramInv, IdealTypeOK, ProgTypeOK
<1>3. \A i \in 1 .. 2 :
        /\ i \in 1 .. Len(ProdList[u])
        /\ Taken(ProdList[u][i])' = Taken(ProdList[u][i])
        /\ Taken(ProdList[u][i]) \in Nat
  BY MergeInputs DEF PutOn, ProgramInv, QueuesInOrder
<1>4. CASE u # t
  <2>1. held'[u] = held[u] /\ sent'[u] = sent[u]
    BY <1>2, <1>4 DEF Released, PutOn
  <2>2. \A i \in 1 .. 2 : Passed(u, i)' = Passed(u, i)
    BY <1>3, <2>1 DEF Passed
  <2>3. \A i \in 1 .. 2 : 3 - i \in 1 .. 2
    OBVIOUS
  <2> QED
    BY <1>1, <1>3, <2>1, <2>2, <2>3
<1>5. CASE u = t
  <2>1. PICK k \in 1 .. 2 :
          /\ held[u][k] # Null /\ held[u][3 - k] # Null
          /\ held[u][k] <= held[u][3 - k]
          /\ held' = [held EXCEPT ![u][k] = Null]
    BY <1>5 DEF Released
  <2>2. PICK j \in 1 .. 2 : j = 3 - k /\ 3 - j = k /\ j # k
    OBVIOUS
  <2>3. PICK m, n, a, b :
          /\ m = Multiplier[ProdList[u][k]] /\ n = Multiplier[ProdList[u][j]]
          /\ a = Passed(u, k) /\ b = Passed(u, j)
    OBVIOUS
  <2>4. m \in Nat \ {0} /\ n \in Nat \ {0} /\ a \in Nat /\ b \in Nat
    BY <1>1, <2>3, MergeInputs
  <2>5. held'[u][k] = Null /\ held'[u][j] = held[u][j] /\ held[u][j] # Null
    BY <1>2, <1>3, <2>1, <2>2
  <2>6. Passed(u, k)' = a + 1 /\ Passed(u, j)' = b
    BY <1>3, <2>1, <2>3, <2>5 DEF Passed
  <2>7. Taken(ProdList[u][k]) = a + 1 /\ Taken(ProdList[u][j]) = b + 1
    <3>1. Taken(ProdList[u][k]) \in Nat /\ Taken(ProdList[u][j]) \in Nat
      BY <1>3
    <3>2. a = Taken(ProdList[u][k]) - 1 /\ b = Taken(ProdList[u][j]) - 1
      BY <2>1, <2>3, <2>5 DEF Passed
    <3> QED
      BY <3>1, <3>2
  <2>8. b * n <= (a + 1) * m /\ (a + 1) * m <= (b + 1) * n
    <3>1. b * n <= (a + 1) * m
      BY <1>1, <2>2, <2>3
    <3>2. held[u][k] = (a + 1) * m /\ held[u][j] = (b + 1) * n
      BY <1>1, <2>1, <2>2, <2>3, <2>7
    <3> QED
      BY <2>1, <2>2, <3>1, <3>2
  <2>9. b * n <= ((a + 1) + 1) * m
    BY <2>4, <2>8
  <2>10. Passed(u, 1)' + Passed(u, 2)' = sent'[u]
    <3>1. a + b = sent[u] /\ sent'[u] = sent[u] + 1
      <4>1. CASE k = 1
        BY <1>1, <1>2, <1>5, <2>2, <2>3, <4>1 DEF PutOn
      <4>2. CASE k = 2
        BY <1>1, <1>2, <1>5, <2>2, <2>3, <2>4, <4>2 DEF PutOn
      <4> QED
        BY <4>1, <4>2
    <3>2. CASE k = 1
      BY <2>2, <2>4, <2>6, <3>1, <3>2
    <3>3. CASE k = 2
      BY <2>2, <2>4, <2>6, <3>1, <3>3
    <3> QED
      BY <3>2, <3>3
  <2>11. ASSUME NEW i \in 1 .. 2
         PROVE  /\ held'[u][i] # Null =>
                     held'[u][i] = Taken(ProdList[u][i])'
                                     * Multiplier[ProdList[u][i]]
                /\ Passed(u, i)' \in Nat
                /\ Passed(u, i)' * Multiplier[ProdList[u][i]] <=
                     (Passed(u, 3 - i)' + 1) * Multiplier[ProdList[u][3 - i]]
    <3>1. CASE i = k
      BY <2>2, <2>3, <2>4, <2>5, <2>6, <2>8, <3>1
    <3>2. CASE i = j
      <4>1. held'[u][i] = Taken(ProdList[u][i])' * Multiplier[ProdList[u][i]]
        BY <1>1, <1>3, <2>5, <3>2
      <4>2. Passed(u, i)' \in Nat
        BY <2>4, <2>6, <3>2
      <4>3. 3 - i = k
        BY <2>2, <3>2
      <4>4. Passed(u, i)' * Multiplier[ProdList[u][i]] <=
              (Passed(u, k)' + 1) * Multiplier[ProdList[u][k]]
        BY <2>3, <2>6, <2>9, <3>2
      <4> QED
        BY <4>1, <4>2, <4>3, <4>4
    <3>3. i = k \/ i = j
      BY <2>2
    <3> QED
      BY <3>1, <3>2, <3>3
  <2> QED
    BY <2>10, <2>11
<1> QED
  BY <1>4, <1>5

(* A step that puts keeps the invariant.                                   *)
LEMMA PassInv ==
  ASSUME Values = Nat, ProgramInv, NEW t \in Streams, Pass(t)
  PROVE  ProgramInv'
<1>1. PICK v \in Nat : PutOn(t, v) /\ Released(t)
  BY PassEffect
<1>2. RoundRobin'
  <2>1. \A c \in Streams : \A k \in 1 .. Len(ProdList[c]) :
          Taken(ProdList[c][k])' = Taken(ProdList[c][k])
    BY <1>1, Lists DEF PutOn
  <2>2. got' = got
    BY <1>1 DEF PutOn
  <2> QED
    BY <2>1, <2>2 DEF ProgramInv, RoundRobin, Running
<1>3. PrintsInOrder'
  BY <1>1 DEF PutOn, ProgramInv, PrintsInOrder, Running, IsToken, KthMultiple
<1> QED
  BY <1>1, <1>2, <1>3, PassType, PassQueues, PassTimes, PassMerge DEF ProgramInv

-----------------------------------------------------------------------------
(* At first nobody has put, got or printed anything.                       *)
LEMMA ProgramStart ==
  ASSUME Values = Nat, IdealInit
  PROVE  ProgramInv
<1>0. /\ queue = [s \in Linked |-> <<>>]
      /\ received = [t \in Streams |-> Null]
      /\ held = [t \in Streams |-> [k \in 1 .. Len(ProdList[t]) |-> Null]]
      /\ sent = [t \in Streams |-> 0]
      /\ got = [c \in Running("consumer") |-> <<>>]
  BY DEF IdealInit, ChannelInit, ProgInit
<1>1. IdealTypeOK
  BY <1>0, EmptySeq DEF IdealTypeOK, ProgTypeOK
<1>2. received \in [Streams -> Values \cup {Null}] /\ DOMAIN held = Streams
  BY <1>0
<1>3. \A p \in Linked : Taken(p) = 0 /\ Len(queue[p]) = 0
  BY <1>0 DEF Linked, Taken
<1>4. QueuesInOrder
  BY <1>3 DEF QueuesInOrder
<1>5. \A t \in Streams : sent[t] = 0
        /\ \A k \in 1 .. Len(ProdList[t]) : held[t][k] = Null /\ Passed(t, k) = 0
  <2> SUFFICES ASSUME NEW t \in Streams, NEW k \in 1 .. Len(ProdList[t])
               PROVE  held[t][k] = Null /\ Passed(t, k) = 0
    BY <1>0
  <2>1. held[t][k] = Null
    BY <1>0
  <2>2. ProdList[t][k] \in Linked
    BY Lists
  <2>3. Taken(ProdList[t][k]) = 0
    BY <1>3, <2>2
  <2> QED
    BY <2>1, <2>3 DEF Passed
<1>6. TimesInStep
  <2> SUFFICES ASSUME NEW t \in Streams, Role[t] = "times"
               PROVE  Passed(t, 1) = sent[t] /\ held[t][1] = Null
    BY DEF TimesInStep, Running
  <2>1. Len(ProdList[t]) = 1
    BY Lists
  <2>2. 1 \in 1 .. Len(ProdList[t])
    BY <2>1
  <2> QED
    BY <1>5, <2>2
<1>7. MergeInStep
  <2> SUFFICES ASSUME NEW t \in Streams, Role[t] = "merge"
               PROVE  /\ Passed(t, 1) + Passed(t, 2) = sent[t]
                      /\ \A k \in 1 .. 2 :
                           /\ held[t][k] = Null
                           /\ Passed(t, k) \in Nat
                           /\ Passed(t, k) * Multiplier[ProdList[t][k]] <=
                                (Passed(t, 3 - k) + 1) * Multiplier[ProdList[t][3 - k]]
    BY DEF MergeInStep, Running
  <2>1. \A k \in 1 .. 2 : held[t][k] = Null /\ Passed(t, k) = 0
    BY <1>5, MergeInputs
  <2>2. \A k \in 1 .. 2 : Multiplier[ProdList[t][k]] \in Nat
    BY MergeInputs
  <2>3. ASSUME NEW k \in 1 .. 2
        PROVE  Passed(t, k) * Multiplier[ProdList[t][k]] <=
                 (Passed(t, 3 - k) + 1) * Multiplier[ProdList[t][3 - k]]
    <3>1. PICK j \in 1 .. 2 : j = 3 - k
      OBVIOUS
    <3>2. PICK m \in Nat, n \in Nat :
            m = Multiplier[ProdList[t][k]] /\ n = Multiplier[ProdList[t][j]]
      BY <2>2
    <3>3. 0 * m <= (0 + 1) * n
      OBVIOUS
    <3> QED
      BY <2>1, <3>1, <3>2, <3>3
  <2>4. Passed(t, 1) + Passed(t, 2) = sent[t]
    BY <1>5, <2>1
  <2> QED
    BY <2>1, <2>3, <2>4
<1>8. RoundRobin
  <2> SUFFICES ASSUME NEW c \in Streams, Role[c] = "consumer",
                      NEW k \in 1 .. Len(ProdList[c])
               PROVE  Taken(ProdList[c][k]) =
                        0 \div Len(ProdList[c])
                          + (IF k <= 0 % Len(ProdList[c]) THEN 1 ELSE 0)
    <3>1. \A c \in Running("consumer") : Len(got[c]) = 0
      BY <1>0
    <3> QED
      BY <3>1 DEF RoundRobin, Running
  <2>1. PICK n \in Nat : n = Len(ProdList[c])
    BY Lists
  <2>2. k \in 1 .. n
    BY <2>1
  <2>3. 0 \div n = 0 /\ 0 % n = 0 /\ ~ (k <= 0)
    BY <2>2
  <2>4. Taken(ProdList[c][k]) = 0
    BY <1>3, Lists
  <2>5. 0 \div n + (IF k <= 0 % n THEN 1 ELSE 0) = 0
    BY <2>3
  <2> QED
    BY <2>1, <2>4, <2>5
<1>9. PrintsInOrder
  BY <1>0 DEF PrintsInOrder
<1> QED
  BY <1>1, <1>2, <1>4, <1>6, <1>7, <1>8, <1>9 DEF ProgramInv

LEMMA ProgramStep ==
  ASSUME Values = Nat, ProgramInv, [IdealNext]_cvars
  PROVE  ProgramInv'
<1>1. CASE UNCHANGED cvars
  <2>1. UNCHANGED <<queue, received, held, sent, got>>
    BY <1>1 DEF cvars, channelVars, progVars
  <2>2. /\ IdealTypeOK' /\ (received \in [Streams -> Values \cup {Null}])'
        /\ (DOMAIN held = Streams)' /\ PrintsInOrder'
    BY <2>1 DEF ProgramInv, IdealTypeOK, ProgTypeOK, PrintsInOrder
  <2>3. /\ \A p : Taken(p)' = Taken(p)
        /\ \A t, k : Passed(t, k)' = Passed(t, k)
    BY <2>1 DEF Taken, Passed
  <2>4. QueuesInOrder' /\ RoundRobin'
    BY <2>1, <2>3 DEF ProgramInv, QueuesInOrder, RoundRobin
  <2>5. TimesInStep' /\ MergeInStep'
    BY <2>1, <2>3 DEF ProgramInv, TimesInStep, MergeInStep
  <2> QED
    BY <2>2, <2>4, <2>5 DEF ProgramInv
<1>2. CASE IdealNext
  BY <1>2, FetchInv, PassInv DEF IdealNext, IdealThread
<1> QED
  BY <1>1, <1>2

(* The inductive invariant of the programs on ideal queues.                *)
THEOREM ProgramInvariant ==
  ASSUME Values = Nat
  PROVE  IdealSpec => []ProgramInv
<1>1. IdealInit => ProgramInv
  BY ProgramStart
<1>2. ProgramInv /\ [IdealNext]_cvars => ProgramInv'
  BY ProgramStep
<1> QED
  BY <1>1, <1>2, PTL DEF IdealSpec

(* Queues hold tokens, and threads hold, count and print numbers.          *)
THEOREM IdealTypeCorrect ==
  ASSUME Values = Nat
  PROVE  IdealSpec => []IdealTypeOK
<1>1. ProgramInv => IdealTypeOK
  BY DEF ProgramInv
<1> QED
  BY <1>1, ProgramInvariant, PTL

(* On FIFO queues every consumer prints from each of its producers every   *)
(* token once and in order, merged streams in increasing order, for any    *)
(* such pipeline, any multipliers and any number of rounds.                *)
THEOREM PrintsCorrect ==
  ASSUME Values = Nat
  PROVE  IdealSpec => []PrintsInOrder
<1>1. ProgramInv => PrintsInOrder
  BY DEF ProgramInv
<1> QED
  BY <1>1, ProgramInvariant, PTL
=============================================================================
