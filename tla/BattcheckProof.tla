--------------------------- MODULE BattcheckProof ---------------------------
(***************************************************************************)
(* Proofs about the battery monitor, for any number of devices and of      *)
(* batteries among them, any capacities and any levels and states polled.  *)
(***************************************************************************)
EXTENDS Battcheck, SequenceTheorems, TLAPS

(* What holds of every battery, listed or not: a level above the warning   *)
(* has been noticed, a level below it told once, and the percentage is     *)
(* that of the polled level.                                               *)
LevelTold(b) ==
  LET last == battery[b].last_remaining_capacity
  IN  /\ last > Bif[b].warning => b \in risen
      /\ lows[b] = IF last <= Bif[b].warning /\ b \in risen THEN 1 ELSE 0

Rounded(b) ==
  LET last == battery[b].last_remaining_capacity
      off == 2 * (battery[b].percent * Bif[b].full - 100 * last)
  IN  last >= 0 => off <= Bif[b].full /\ off >= - Bif[b].full

AllAllocated == \A k \in 1 .. Len(list) : list[k] \in heap

(* Who may be about: the thread only between kthread_run and the end of    *)
(* kthread_stop, a reader only from the moment /proc/battcheck exists to   *)
(* the moment remove_proc_entry returns; the structs are there meanwhile.  *)
WhoIsAbout ==
  /\ thread # "none" => loader \in {"in", "stop"}
  /\ proc => loader \in {"run", "in", "stop"}
  /\ reader > 0 => loader \in {"run", "in", "stop", "free"}
  /\ loader \in {"walk", "run", "in", "stop"} \/ reader > 0 => AllAllocated
  /\ reader <= Len(list)
  /\ thread \in {"poll", "report"} => at <= Len(list)

Structs ==
  [state : States \cup {AllBits, {}}, remaining_capacity : Int,
   last_state : States \cup {AllBits, {}}, last_remaining_capacity : Int,
   percent : Int]

BattTypeOK ==
  /\ loader \in {"out", "walk", "run", "in", "stop", "free"}
  /\ walked \in 0 .. Len(DeviceList)
  /\ list \in Seq(Batteries) /\ Len(list) <= walked
  /\ heap \subseteq Batteries
  /\ battery \in [Batteries -> Structs]
  /\ proc \in BOOLEAN
  /\ reader \in Nat
  /\ thread \in {"none", "check", "poll", "report", "delay", "sleep"}
  /\ at \in 1 .. Len(DeviceList) + 1
  /\ delay \in {1, 2}
  /\ stop \in BOOLEAN
  /\ lows \in [Batteries -> Nat] /\ risen \subseteq Batteries

(* The inductive invariant behind the invariants of Battcheck.             *)
BattInv ==
  /\ BattTypeOK
  /\ WhoIsAbout
  /\ \A b \in Batteries : LevelTold(b) /\ Rounded(b)

-----------------------------------------------------------------------------
(* What integer division gives.                                            *)
LEMMA Division ==
  ASSUME NEW a \in Nat, NEW d \in Nat \ {0}
  PROVE  /\ a \div d \in Nat
         /\ d * (a \div d) <= a
         /\ a < d * (a \div d) + d
BY SMT

(* CDiv is an integer.                                                     *)
LEMMA CDivInt ==
  ASSUME NEW a \in Int, NEW d \in Nat \ {0}
  PROVE  CDiv(a, d) \in Int
<1>1. CASE a >= 0
  BY <1>1, Division DEF CDiv
<1>2. CASE a < 0
  <2>1. (- a) \in Nat
    BY <1>2
  <2>2. (- a) \div d \in Nat
    BY <2>1, Division
  <2> QED
    BY <1>2, <2>2 DEF CDiv
<1> QED
  BY <1>1, <1>2

(* The percentage is rounded to the nearest integer.                       *)
LEMMA PercentIs ==
  ASSUME NEW b \in Batteries, battery \in [Batteries -> Structs]
  PROVE  /\ Percent(b) \in Int
         /\ battery[b].remaining_capacity >= 0 =>
              LET off == 2 * (Percent(b) * Bif[b].full
                              - 100 * battery[b].remaining_capacity)
              IN  off <= Bif[b].full /\ off >= - Bif[b].full
<1> DEFINE r == battery[b].remaining_capacity
           f == Bif[b].full
           q == (r * 200 + f) \div (f * 2)
<1>1. r \in Int /\ f \in Nat \ {0}
  BY BattcheckAssumption DEF Structs
<1>2. Percent(b) = CDiv(r * 200 + f, f * 2)
  BY DEF Percent
<1> HIDE DEF r, f
<1>3. r * 200 + f \in Int /\ f * 2 \in Nat \ {0}
  BY <1>1
<1>4. Percent(b) \in Int
  BY <1>2, <1>3, CDivInt
<1>5. ASSUME r >= 0
      PROVE  /\ 2 * (Percent(b) * f - 100 * r) <= f
             /\ 2 * (Percent(b) * f - 100 * r) >= - f
  <2>1. r * 200 + f \in Nat
    BY <1>1, <1>5
  <2>2. Percent(b) = q
    BY <1>2, <2>1 DEF CDiv
  <2>3. q \in Nat /\ (f * 2) * q <= r * 200 + f /\ r * 200 + f < (f * 2) * q + f * 2
    BY <1>3, <2>1, Division
  <2> HIDE DEF q
  <2>4. (f * 2) * q = 2 * (q * f)
    BY <1>1, <2>3
  <2>5. PICK m \in Int : m = q * f
    BY <1>1, <2>3
  <2> QED
    BY <1>1, <2>2, <2>3, <2>4, <2>5
<1> QED
  BY <1>4, <1>5 DEF r, f

-----------------------------------------------------------------------------
(* What is known of each battery when nothing of it is written.            *)
BatteriesTrue == \A b \in Batteries : LevelTold(b) /\ Rounded(b)

(* A step that polls nothing and reports nothing.                          *)
LEMMA SameBatteries ==
  ASSUME BatteriesTrue, UNCHANGED <<battery, noteVars>>
  PROVE  BatteriesTrue'
BY DEF BatteriesTrue, LevelTold, Rounded, noteVars

(* Nothing is loaded.                                                      *)
LEMMA BattInit == Init => BattInv
<1> SUFFICES ASSUME Init PROVE BattInv
  OBVIOUS
<1>1. Zeroed \in Structs
  BY DEF Zeroed, Structs
<1>2. list = <<>> /\ list \in Seq(Batteries) /\ Len(list) = 0
  BY DEF Init
<1>3. Len(DeviceList) \in Nat
  BY BattcheckAssumption, LenProperties
<1>4. BattTypeOK
  <2>1. battery \in [Batteries -> Structs]
    BY <1>1 DEF Init
  <2>2. lows \in [Batteries -> Nat] /\ risen \subseteq Batteries
    BY DEF Init
  <2>3. at \in 1 .. Len(DeviceList) + 1 /\ walked \in 0 .. Len(DeviceList)
    BY <1>3 DEF Init
  <2>4. list \in Seq(Batteries) /\ Len(list) <= walked
    BY <1>2, SMT DEF Init
  <2>5. proc \in BOOLEAN /\ stop \in BOOLEAN
    BY DEF Init
  <2>6. /\ loader \in {"out", "walk", "run", "in", "stop", "free"}
        /\ thread \in {"none", "check", "poll", "report", "delay", "sleep"}
        /\ heap \subseteq Batteries /\ reader \in Nat /\ delay \in {1, 2}
    BY DEF Init
  <2> QED
    BY <2>1, <2>2, <2>3, <2>4, <2>5, <2>6 DEF BattTypeOK
<1>5. WhoIsAbout
  BY <1>2 DEF Init, WhoIsAbout, AllAllocated
<1>6. BatteriesTrue
  BY <1>1, BattcheckAssumption
     DEF Init, BatteriesTrue, LevelTold, Rounded, Zeroed
<1> QED
  BY <1>4, <1>5, <1>6 DEF BattInv, BatteriesTrue

(* insmod: the batteries are listed as they are allocated, before anybody  *)
(* else is about.                                                          *)
LEMMA LoadInv ==
  ASSUME BattInv,
         init_battcheck \/ LoadFails \/ find_batteries \/ create_proc
           \/ kthread_run
  PROVE  BattInv'
<1>0. Len(DeviceList) \in Nat /\ Len(list) \in Nat /\ list \in Seq(Batteries)
  BY BattcheckAssumption, LenProperties DEF BattInv, BattTypeOK
<1>1. BatteriesTrue'
  <2>1. UNCHANGED <<battery, noteVars>>
    BY DEF init_battcheck, LoadFails, find_batteries, create_proc, kthread_run,
           pollVars, noteVars
  <2> QED
    BY <2>1, SameBatteries DEF BattInv, BatteriesTrue
<1>2. CASE init_battcheck
  <2>1. list' = <<>> /\ list' \in Seq(Batteries) /\ Len(list') = 0
    BY <1>2 DEF init_battcheck
  <2>2. BattTypeOK'
    BY <1>0, <1>2, <2>1
       DEF BattInv, BattTypeOK, init_battcheck, pollVars, noteVars
  <2>3. WhoIsAbout'
    BY <1>2, <2>1 DEF BattInv, BattTypeOK, WhoIsAbout, AllAllocated,
                      init_battcheck
  <2> QED
    BY <1>1, <2>2, <2>3 DEF BattInv, BatteriesTrue
<1>3. CASE LoadFails
  <2>1. BattTypeOK'
    BY <1>3 DEF BattInv, BattTypeOK, LoadFails, pollVars, noteVars
  <2>2. WhoIsAbout'
    BY <1>3 DEF BattInv, WhoIsAbout, AllAllocated, LoadFails
  <2> QED
    BY <1>1, <2>1, <2>2 DEF BattInv, BatteriesTrue
<1>4. CASE find_batteries
  <2>1. /\ loader = "walk" /\ walked < Len(DeviceList)
        /\ walked' = walked + 1
        /\ UNCHANGED <<loader, proc, stop, reader, thread, at, delay, battery,
                       noteVars>>
    BY <1>4 DEF find_batteries, pollVars
  <2>2. /\ thread = "none" /\ reader = 0 /\ ~ proc /\ AllAllocated
    BY <2>1 DEF BattInv, BattTypeOK, WhoIsAbout
  <2>3. /\ list' \in Seq(Batteries) /\ Len(list') <= walked'
        /\ heap' \subseteq Batteries /\ AllAllocated'
    <3>1. CASE UNCHANGED <<list, heap>>
      BY <1>0, <2>1, <2>2, <3>1 DEF BattInv, BattTypeOK, AllAllocated
    <3>2. ASSUME NEW d \in Batteries, heap' = heap \cup {d},
                 list' = Append(list, d)
          PROVE  <2>3!:
      <4>1. /\ list' \in Seq(Batteries) /\ Len(list') = Len(list) + 1
            /\ \A k \in 1 .. Len(list) : list'[k] = list[k]
            /\ list'[Len(list) + 1] = d
        BY <1>0, <3>2, AppendProperties
      <4>2. AllAllocated'
        BY <1>0, <2>2, <3>2, <4>1 DEF AllAllocated
      <4> QED
        BY <1>0, <2>1, <3>2, <4>1, <4>2 DEF BattInv, BattTypeOK
    <3> QED
      BY <1>4, <3>1, <3>2 DEF find_batteries, Present
  <2>4. BattTypeOK'
    BY <1>0, <2>1, <2>3 DEF BattInv, BattTypeOK, noteVars
  <2>5. WhoIsAbout'
    <3>1. Len(list') \in Nat
      BY <2>3, LenProperties
    <3> QED
      BY <2>1, <2>2, <2>3, <3>1 DEF BattInv, WhoIsAbout
  <2> QED
    BY <1>1, <2>4, <2>5 DEF BattInv, BatteriesTrue
<1>5. CASE create_proc
  <2>1. BattTypeOK'
    BY <1>5 DEF BattInv, BattTypeOK, create_proc, pollVars, noteVars
  <2>2. WhoIsAbout'
    BY <1>5 DEF BattInv, WhoIsAbout, AllAllocated, create_proc
  <2> QED
    BY <1>1, <2>1, <2>2 DEF BattInv, BatteriesTrue
<1>6. CASE kthread_run
  <2>1. BattTypeOK'
    BY <1>6 DEF BattInv, BattTypeOK, kthread_run, pollVars, noteVars
  <2>2. WhoIsAbout'
    BY <1>6 DEF BattInv, WhoIsAbout, AllAllocated, kthread_run
  <2> QED
    BY <1>1, <2>1, <2>2 DEF BattInv, BatteriesTrue
<1> QED
  BY <1>2, <1>3, <1>4, <1>5, <1>6

(* rmmod: the batteries are freed when neither the thread nor a reader is  *)
(* about.                                                                  *)
LEMMA UnloadInv ==
  ASSUME BattInv, kthread_stop \/ remove_proc \/ free_batteries
  PROVE  BattInv'
<1>0. Len(list) \in Nat /\ list \in Seq(Batteries)
  BY LenProperties DEF BattInv, BattTypeOK
<1>1. CASE kthread_stop
  <2>1. BattTypeOK'
    BY <1>1 DEF BattInv, BattTypeOK, kthread_stop, pollVars, noteVars
  <2>2. WhoIsAbout'
    BY <1>1 DEF BattInv, WhoIsAbout, AllAllocated, kthread_stop
  <2>3. BatteriesTrue'
    BY <1>1, SameBatteries DEF BattInv, BatteriesTrue, kthread_stop, pollVars
  <2> QED
    BY <2>1, <2>2, <2>3 DEF BattInv, BatteriesTrue
<1>2. CASE remove_proc
  <2>1. BattTypeOK'
    BY <1>2 DEF BattInv, BattTypeOK, remove_proc, pollVars, noteVars
  <2>2. WhoIsAbout'
    BY <1>2 DEF BattInv, WhoIsAbout, AllAllocated, remove_proc, Stopped
  <2>3. BatteriesTrue'
    BY <1>2, SameBatteries DEF BattInv, BatteriesTrue, remove_proc, pollVars
  <2> QED
    BY <2>1, <2>2, <2>3 DEF BattInv, BatteriesTrue
<1>3. CASE free_batteries
  <2>1. /\ loader = "free" /\ reader = 0 /\ thread = "none"
        /\ UNCHANGED <<walked, proc, stop, reader, thread, at, delay>>
    BY <1>3 DEF BattInv, BattTypeOK, WhoIsAbout, free_batteries
  <2>2. CASE list = <<>>
    <3>1. loader' = "out" /\ UNCHANGED <<list, heap, battery, noteVars>>
      BY <1>3, <2>2 DEF free_batteries
    <3>2. BattTypeOK'
      BY <2>1, <3>1 DEF BattInv, BattTypeOK, noteVars
    <3>3. WhoIsAbout'
      BY <2>1, <3>1 DEF BattInv, WhoIsAbout
    <3> QED
      BY <3>1, <3>2, <3>3, SameBatteries DEF BattInv, BatteriesTrue
  <2>3. CASE list # <<>>
    <3>1. PICK b \in Batteries :
            /\ heap' = heap \ {b}
            /\ list' = Tail(list)
            /\ battery' = [battery EXCEPT ![b] = Zeroed]
            /\ lows' = [lows EXCEPT ![b] = 0]
            /\ risen' = risen \ {b}
            /\ UNCHANGED loader
      BY <1>0, <1>3, <2>3, HeadTailProperties DEF free_batteries
    <3>2. list' \in Seq(Batteries) /\ Len(list') = Len(list) - 1
      BY <1>0, <2>3, <3>1, HeadTailProperties
    <3>3. Len(list') \in Nat
      BY <3>2, LenProperties
    <3>4. Zeroed \in Structs
      BY DEF Zeroed, Structs
    <3>5. BattTypeOK'
      BY <1>0, <2>1, <3>1, <3>2, <3>4 DEF BattInv, BattTypeOK
    <3>6. WhoIsAbout'
      BY <2>1, <3>1, <3>3 DEF BattInv, WhoIsAbout
    <3>7. ASSUME NEW c \in Batteries PROVE LevelTold(c)' /\ Rounded(c)'
      <4>1. CASE c = b
        <5>1. battery'[c] = Zeroed /\ lows'[c] = 0 /\ c \notin risen'
          BY <3>1, <4>1 DEF BattInv, BattTypeOK
        <5> QED
          BY <5>1, BattcheckAssumption DEF LevelTold, Rounded, Zeroed
      <4>2. CASE c # b
        <5>1. battery'[c] = battery[c] /\ lows'[c] = lows[c]
              /\ (c \in risen' <=> c \in risen)
          BY <3>1, <4>2 DEF BattInv, BattTypeOK
        <5>2. LevelTold(c) /\ Rounded(c)
          BY DEF BattInv
        <5> QED
          BY <5>1, <5>2 DEF LevelTold, Rounded
      <4> QED
        BY <4>1, <4>2
    <3> QED
      BY <3>5, <3>6, <3>7 DEF BattInv
  <2> QED
    BY <2>2, <2>3
<1> QED
  BY <1>1, <1>2, <1>3

-----------------------------------------------------------------------------
(* The head of the loop, the sleep and the timeout: only the position and  *)
(* the thread change, and the thread is started by nobody but kthread_run. *)
LEMMA LoopInv ==
  ASSUME BattInv, thread_check \/ fall_asleep \/ timeout
  PROVE  BattInv'
<1>0. Len(DeviceList) \in Nat /\ Len(list) \in Nat /\ list \in Seq(Batteries)
  BY BattcheckAssumption, LenProperties DEF BattInv, BattTypeOK
<1>1. UNCHANGED <<loadVars, reader, battery, noteVars>> /\ thread # "none"
  BY DEF thread_check, fall_asleep, timeout, pollVars
<1>2. BatteriesTrue'
  BY <1>1, SameBatteries DEF BattInv, BatteriesTrue
<1>3. BattTypeOK'
  <2>1. at' \in 1 .. Len(DeviceList) + 1 /\ delay' \in {1, 2}
    BY <1>0 DEF BattInv, BattTypeOK, thread_check, fall_asleep, timeout
  <2>2. thread' \in {"none", "check", "poll", "report", "delay", "sleep"}
    BY DEF thread_check, fall_asleep, timeout
  <2> QED
    BY <1>1, <2>1, <2>2 DEF BattInv, BattTypeOK, loadVars, noteVars
<1>4. WhoIsAbout'
  <2>1. thread' \in {"poll", "report"} => at' <= Len(list)
    <3>1. CASE thread_check
      <4>1. list # <<>> => Len(list) >= 1
        BY <1>0, EmptySeq
      <4> QED
        BY <1>0, <3>1, <4>1 DEF thread_check
    <3> QED
      BY <3>1 DEF fall_asleep, timeout
  <2> QED
    BY <1>1, <2>1 DEF BattInv, WhoIsAbout, AllAllocated, loadVars
<1> QED
  BY <1>2, <1>3, <1>4 DEF BattInv, BatteriesTrue

(* The struct the thread stands on is a listed, allocated battery's.       *)
LEMMA Standing ==
  ASSUME BattInv, thread \in {"poll", "report"}
  PROVE  /\ list[at] \in Batteries
         /\ at <= Len(list) /\ at + 1 \in 1 .. Len(DeviceList) + 1
<1>1. Len(DeviceList) \in Nat /\ Len(list) \in Nat /\ list \in Seq(Batteries)
  BY BattcheckAssumption, LenProperties DEF BattInv, BattTypeOK
<1>2. at \in 1 .. Len(list)
  BY <1>1 DEF BattInv, BattTypeOK, WhoIsAbout
<1>3. list[at] \in Batteries
  BY <1>1, <1>2, ElementOfSeq
<1> QED
  BY <1>1, <1>2, <1>3 DEF BattInv, BattTypeOK

(* A poll, successful or not, stores what it has got and no conclusion.    *)
LEMMA PollInv ==
  ASSUME BattInv, poll
  PROVE  BattInv'
<1> DEFINE b == list[at]
<1>0. thread = "poll" /\ b \in Batteries
  BY Standing DEF poll
<1>1. PICK n \in {0, 1, 3}, s \in States \cup {AllBits}, c \in Levels \cup {-1} :
        battery' = [battery EXCEPT
          ![b].state = IF n >= 1 THEN s ELSE @,
          ![b].remaining_capacity = IF n >= 3 THEN c ELSE @]
  BY DEF poll
<1>2. /\ thread' = "report" /\ UNCHANGED <<loadVars, reader, at, delay, noteVars>>
  BY DEF poll
<1>3. battery \in [Batteries -> Structs]
  BY DEF BattInv, BattTypeOK
<1> HIDE DEF b
<1>4. c \in Int
  BY BattcheckAssumption
<1> DEFINE s2 == IF n >= 1 THEN s ELSE battery[b].state
           c2 == IF n >= 3 THEN c ELSE battery[b].remaining_capacity
<1>5. battery[b] \in Structs
  BY <1>0, <1>3
<1>6. s2 \in States \cup {AllBits, {}} /\ c2 \in Int
  BY <1>4, <1>5 DEF Structs
<1>7. battery' = [battery EXCEPT ![b] =
                    [[battery[b] EXCEPT !.state = s2] EXCEPT
                       !.remaining_capacity = c2]]
  BY <1>0, <1>1, <1>3
<1> HIDE DEF s2, c2
<1>8. [[battery[b] EXCEPT !.state = s2] EXCEPT !.remaining_capacity = c2]
        \in Structs
  BY <1>5, <1>6 DEF Structs
<1>9. battery' \in [Batteries -> Structs]
  BY <1>0, <1>3, <1>7, <1>8
<1>10. \A d \in Batteries :
         /\ battery'[d].last_remaining_capacity
              = battery[d].last_remaining_capacity
         /\ battery'[d].percent = battery[d].percent
  BY <1>0, <1>3, <1>5, <1>7 DEF Structs
<1>11. BatteriesTrue'
  BY <1>2, <1>10 DEF BattInv, BatteriesTrue, LevelTold, Rounded, noteVars
<1>12. BattTypeOK'
  BY <1>2, <1>9 DEF BattInv, BattTypeOK, loadVars, noteVars
<1>13. WhoIsAbout'
  BY <1>0, <1>2 DEF BattInv, WhoIsAbout, AllAllocated, loadVars
<1> QED
  BY <1>11, <1>12, <1>13 DEF BattInv, BatteriesTrue

(* A report: the percentage is that of the level just polled, which is     *)
(* also the level the next report compares with.  A level that falls below *)
(* the warning is told, and counted, once.                                 *)
LEMMA ReportInv ==
  ASSUME BattInv, report
  PROVE  BattInv'
<1> DEFINE b == list[at]
<1>0. /\ thread = "report" /\ b \in Batteries
      /\ at <= Len(list) /\ at + 1 \in 1 .. Len(DeviceList) + 1
  BY Standing DEF report
<1>1. /\ battery' = [battery EXCEPT
           ![b].percent = Percent(b),
           ![b].last_state = battery[b].state,
           ![b].last_remaining_capacity = battery[b].remaining_capacity]
      /\ "low" \in reports' <=> BecameLow(b)
      /\ IF battery[b].remaining_capacity > Bif[b].warning
         THEN risen' = risen \cup {b} /\ lows' = [lows EXCEPT ![b] = 0]
         ELSE /\ lows' = IF "low" \in reports'
                         THEN [lows EXCEPT ![b] = @ + 1]
                         ELSE lows
              /\ UNCHANGED risen
      /\ delay' \in {2, delay}
      /\ at' = at + 1
      /\ thread' = IF at < Len(list) THEN "poll" ELSE "delay"
      /\ UNCHANGED <<loadVars, reader>>
  BY DEF report
<1>2. /\ battery \in [Batteries -> Structs] /\ lows \in [Batteries -> Nat]
      /\ risen \subseteq Batteries
  BY DEF BattInv, BattTypeOK
<1> HIDE DEF b
<1>3. battery[b] \in Structs
  BY <1>0, <1>2
<1> DEFINE p == Percent(b)
           s == battery[b].state
           c == battery[b].remaining_capacity
<1>4. p \in Int /\ s \in States \cup {AllBits, {}} /\ c \in Int
  BY <1>0, <1>2, <1>3, PercentIs DEF Structs
<1>5. c >= 0 => /\ 2 * (p * Bif[b].full - 100 * c) <= Bif[b].full
                /\ 2 * (p * Bif[b].full - 100 * c) >= - Bif[b].full
  BY <1>0, <1>2, PercentIs
<1>6. battery' = [battery EXCEPT ![b] =
                    [[[battery[b] EXCEPT !.percent = p] EXCEPT
                        !.last_state = s] EXCEPT
                        !.last_remaining_capacity = c]]
  BY <1>0, <1>1, <1>2
<1>7. BecameLow(b) <=> /\ c <= Bif[b].warning
                       /\ battery[b].last_remaining_capacity > Bif[b].warning
  BY DEF BecameLow
<1>8. /\ c > Bif[b].warning =>
           risen' = risen \cup {b} /\ lows' = [lows EXCEPT ![b] = 0]
      /\ ~ (c > Bif[b].warning) =>
           /\ lows' = IF BecameLow(b) THEN [lows EXCEPT ![b] = lows[b] + 1]
                                      ELSE lows
           /\ risen' = risen
  BY <1>0, <1>1, <1>2
<1> HIDE DEF p, s, c
<1>9. /\ battery' \in [Batteries -> Structs]
      /\ battery'[b].percent = p
      /\ battery'[b].last_remaining_capacity = c
      /\ \A d \in Batteries \ {b} : battery'[d] = battery[d]
  <2> DEFINE new == [[[battery[b] EXCEPT !.percent = p] EXCEPT
                        !.last_state = s] EXCEPT
                        !.last_remaining_capacity = c]
  <2>1. new \in Structs /\ new.percent = p /\ new.last_remaining_capacity = c
    BY <1>3, <1>4 DEF Structs
  <2>2. battery' = [battery EXCEPT ![b] = new]
    BY <1>6
  <2> HIDE DEF new
  <2> QED
    BY <1>0, <1>2, <2>1, <2>2
<1>10. /\ lows' \in [Batteries -> Nat] /\ risen' \subseteq Batteries
       /\ \A d \in Batteries \ {b} :
            lows'[d] = lows[d] /\ (d \in risen' <=> d \in risen)
  BY <1>0, <1>2, <1>8
<1>11. BatteriesTrue'
  <2> SUFFICES ASSUME NEW d \in Batteries PROVE LevelTold(d)' /\ Rounded(d)'
    BY DEF BatteriesTrue
  <2>0. LevelTold(d) /\ Rounded(d)
    BY DEF BattInv
  <2>1. CASE d # b
    BY <1>9, <1>10, <2>0, <2>1 DEF LevelTold, Rounded
  <2>2. CASE d = b
    <3>1. Rounded(d)'
      BY <1>5, <1>9, <2>2 DEF Rounded
    <3> DEFINE l == battery[b].last_remaining_capacity
               w == Bif[b].warning
    <3>2. l \in Int /\ w \in Nat
      BY <1>0, <1>3, BattcheckAssumption DEF Structs
    <3>3. /\ l > w => b \in risen
          /\ lows[b] = IF l <= w /\ b \in risen THEN 1 ELSE 0
      BY <2>0, <2>2 DEF LevelTold
    <3>4. BecameLow(b) <=> c <= w /\ l > w
      BY <1>7
    <3>5. SUFFICES /\ c > w => b \in risen'
                   /\ lows'[b] = IF c <= w /\ b \in risen' THEN 1 ELSE 0
      BY <1>9, <2>2, <3>1 DEF LevelTold
    <3> HIDE DEF l, w
    <3>6. CASE c > w
      <4>1. b \in risen' /\ lows'[b] = 0
        BY <1>0, <1>2, <1>8, <3>6 DEF w
      <4> QED
        BY <1>4, <3>2, <3>6, <4>1
    <3>7. CASE ~ (c > w) /\ l > w
      <4>1. lows'[b] = lows[b] + 1 /\ risen' = risen
        BY <1>0, <1>2, <1>4, <1>8, <3>2, <3>4, <3>7 DEF w
      <4> QED
        BY <1>4, <3>2, <3>3, <3>7, <4>1
    <3>8. CASE ~ (c > w) /\ ~ (l > w)
      <4>1. lows' = lows /\ risen' = risen
        BY <1>8, <3>4, <3>8 DEF w
      <4> QED
        BY <1>4, <3>2, <3>3, <3>8, <4>1
    <3> QED
      BY <3>6, <3>7, <3>8
  <2> QED
    BY <2>1, <2>2
<1>12. BattTypeOK'
  <2>1. /\ thread' \in {"none", "check", "poll", "report", "delay", "sleep"}
        /\ delay' \in {1, 2}
    BY <1>1 DEF BattInv, BattTypeOK
  <2>2. at' \in 1 .. Len(DeviceList) + 1
    BY <1>0, <1>1
  <2> QED
    BY <1>1, <1>9, <1>10, <2>1, <2>2 DEF BattInv, BattTypeOK, loadVars
<1>13. WhoIsAbout'
  <2>1. Len(list) \in Nat /\ at \in Int
    BY LenProperties DEF BattInv, BattTypeOK
  <2>2. thread' \in {"poll", "report"} => at' <= Len(list)
    BY <1>1, <2>1
  <2> QED
    BY <1>0, <1>1, <2>2 DEF BattInv, WhoIsAbout, AllAllocated, loadVars
<1> QED
  BY <1>11, <1>12, <1>13 DEF BattInv, BatteriesTrue

(* A reader of /proc/battcheck.                                            *)
LEMMA ReadInv ==
  ASSUME BattInv, open_proc \/ read_proc
  PROVE  BattInv'
<1>0. Len(list) \in Nat /\ list \in Seq(Batteries) /\ reader \in Nat
  BY LenProperties DEF BattInv, BattTypeOK
<1>1. UNCHANGED <<loadVars, thread, at, delay, pollVars>>
  BY DEF open_proc, read_proc
<1>2. BatteriesTrue'
  BY <1>1, SameBatteries DEF BattInv, BatteriesTrue, pollVars
<1>3. reader' \in Nat /\ reader' <= Len(list)
  <2>1. list # <<>> => Len(list) >= 1
    BY <1>0, EmptySeq
  <2> QED
    BY <1>0, <2>1 DEF open_proc, read_proc
<1>4. BattTypeOK'
  BY <1>1, <1>3 DEF BattInv, BattTypeOK, loadVars, pollVars, noteVars
<1>5. WhoIsAbout'
  <2>1. reader' > 0 => loader \in {"run", "in", "stop", "free"} /\ AllAllocated
    BY DEF BattInv, WhoIsAbout, open_proc, read_proc
  <2>2. AllAllocated' <=> AllAllocated
    BY <1>1 DEF AllAllocated, loadVars
  <2> QED
    BY <1>1, <1>3, <2>1, <2>2 DEF BattInv, WhoIsAbout, loadVars
<1> QED
  BY <1>2, <1>4, <1>5 DEF BattInv, BatteriesTrue

-----------------------------------------------------------------------------
(* Every step keeps the invariant.                                         *)
LEMMA BattStep == BattInv /\ [Next]_vars => BattInv'
<1> SUFFICES ASSUME BattInv, [Next]_vars PROVE BattInv'
  OBVIOUS
<1>1. CASE UNCHANGED vars
  <2>1. UNCHANGED <<battery, noteVars>>
    BY <1>1 DEF vars, pollVars
  <2>2. BatteriesTrue'
    BY <2>1, SameBatteries DEF BattInv, BatteriesTrue
  <2>3. BattTypeOK' /\ WhoIsAbout'
    BY <1>1 DEF vars, loadVars, pollVars, noteVars, BattInv, BattTypeOK,
                WhoIsAbout, AllAllocated
  <2> QED
    BY <2>2, <2>3 DEF BattInv, BatteriesTrue
<1> QED
  BY <1>1, LoadInv, UnloadInv, LoopInv, PollInv, ReportInv, ReadInv
     DEF Next, exit_battcheck, check_thread

(* The invariant behind the four results below.                            *)
THEOREM BattInvariant == Spec => []BattInv
BY BattInit, BattStep, PTL DEF Spec

(* The monitor's variables keep their types: the list holds batteries      *)
(* only, and neither its thread nor a reader leaves it.                    *)
THEOREM TypeCorrect == Spec => []TypeOK
<1>1. BattInv => TypeOK
  <2> SUFFICES ASSUME BattInv PROVE TypeOK
    OBVIOUS
  <2>1. Len(DeviceList) \in Nat /\ Len(list) \in Nat
    BY BattcheckAssumption, LenProperties DEF BattInv, BattTypeOK
  <2>2. reader \in 0 .. Len(DeviceList)
    BY <2>1 DEF BattInv, BattTypeOK, WhoIsAbout
  <2>3. \A b \in Batteries : battery[b].percent \in Int
    BY DEF BattInv, BattTypeOK, Structs
  <2> QED
    BY <2>2, <2>3 DEF BattInv, BattTypeOK, TypeOK
<1> QED
  BY <1>1, BattInvariant, PTL

(* rmmod frees no battery that the thread or a reader stands on.           *)
THEOREM UseAfterFreeCorrect == Spec => []NoUseAfterFree
<1>1. BattInv => NoUseAfterFree
  <2> SUFFICES ASSUME BattInv PROVE NoUseAfterFree
    OBVIOUS
  <2>1. Len(list) \in Nat /\ reader \in Nat /\ at \in Nat \ {0}
    BY BattcheckAssumption, LenProperties DEF BattInv, BattTypeOK
  <2>2. thread \in {"poll", "report"} => at <= Len(list) /\ list[at] \in heap
    BY <2>1 DEF BattInv, BattTypeOK, WhoIsAbout, AllAllocated
  <2>3. reader > 0 => reader <= Len(list) /\ list[reader] \in heap
    BY <2>1 DEF BattInv, WhoIsAbout, AllAllocated
  <2> QED
    BY <2>2, <2>3 DEF NoUseAfterFree
<1> QED
  BY <1>1, BattInvariant, PTL

(* A listed battery is one of the batteries.                               *)
LEMMA Listed ==
  ASSUME BattInv, NEW k \in 1 .. Len(list)
  PROVE  list[k] \in Batteries
BY ElementOfSeq DEF BattInv, BattTypeOK

(* A battery that has become low is reported once, whatever polls fail.    *)
THEOREM LowCorrect == Spec => []LowToldOnce
<1>1. BattInv => LowToldOnce
  BY Listed DEF BattInv, LevelTold, LowToldOnce
<1> QED
  BY <1>1, BattInvariant, PTL

(* The integer arithmetic of the percentage rounds to the nearest, for any *)
(* capacities and levels.                                                  *)
THEOREM PercentCorrect == Spec => []PercentRounds
<1>1. BattInv => PercentRounds
  BY Listed DEF BattInv, Rounded, PercentRounds
<1> QED
  BY <1>1, BattInvariant, PTL
=============================================================================
