----------------------------- MODULE Battcheck -----------------------------
(***************************************************************************)
(* The battery monitor of hw2_battcheck: a kernel thread polls every       *)
(* battery of a list and reports what has changed, /proc/battcheck is read *)
(* at any time, and the module is loaded and unloaded around both.         *)
(*                                                                         *)
(* insmod and rmmod, the thread (check_thread) and a reader of             *)
(* /proc/battcheck (read_proc) run concurrently.  ACPI, kthread_stop, the  *)
(* timer and /proc are external.  The state word of _BST is the set of its *)
(* bits; -1, which stands for "no integer", has all bits set.              *)
(***************************************************************************)
EXTENDS Integers, Sequences, FiniteSets

CONSTANTS
  DeviceList,  \* the devices under \_SB_, in the order of the walk
  Bif,         \* Bif[b]: what _BIF says of battery b (full, warning, low)
  States,      \* the state words _BST may return
  Levels       \* the remaining capacities _BST may return

Devices == {DeviceList[k] : k \in 1 .. Len(DeviceList)}
Batteries == DOMAIN Bif

(* _BIF gives every battery its capacities (a battery without one would    *)
(* make check_thread divide by 0), and they are integers.                  *)
ASSUME BattcheckAssumption ==
  /\ DeviceList \in Seq(Devices)
  /\ Batteries \subseteq Devices
  /\ Levels \subseteq Nat
  /\ \A b \in Batteries :
       /\ Bif[b].full \in Nat \ {0}
       /\ Bif[b].warning \in Nat
       /\ Bif[b].low \in Nat

AllBits == {"discharging", "charging", "critical", "reserved"}

VARIABLES
  loader,   \* where insmod or rmmod is
  walked,   \* devices find_batteries has seen
  list,     \* acpi_battery_list
  heap,     \* the batteries whose struct is allocated and not freed
  battery,  \* battery[b]: the struct
  proc,     \* does /proc/battcheck exist?
  reader,   \* the position of read_proc in the list; 0: not reading
  thread,   \* where check_thread is
  at,       \* its position in the list
  delay,    \* the divisor of its timeout
  stop,     \* has kthread_stop been called?
  reports,  \* what the thread has just reported of the battery at hand
  lows,     \* lows[b]: reports of a low battery since its level was higher
  risen     \* the batteries whose level has been above the warning

loadVars == <<loader, walked, list, heap, proc, stop>>
noteVars == <<lows, risen>>
pollVars == <<battery, reports, noteVars>>
vars == <<loadVars, reader, thread, at, delay, pollVars>>

Zeroed == [state |-> {}, remaining_capacity |-> 0, last_state |-> {},
           last_remaining_capacity |-> 0, percent |-> 0]

Init ==
  /\ loader = "out"
  /\ walked = 0
  /\ list = <<>>
  /\ heap = {}
  /\ battery = [b \in Batteries |-> Zeroed]
  /\ proc = FALSE
  /\ reader = 0
  /\ thread = "none"
  /\ at = 1
  /\ delay = 1
  /\ stop = FALSE
  /\ reports = {}
  /\ lows = [b \in Batteries |-> 0]
  /\ risen = {}

-----------------------------------------------------------------------------
(* init_battcheck and find_batteries.                                      *)

init_battcheck ==
  /\ loader = "out"
  /\ loader' = "walk"
  /\ walked' = 0
  /\ list' = <<>>
  /\ UNCHANGED <<heap, proc, stop, reader, thread, at, delay, pollVars>>

(* The system bus, the status of a device or memory for a battery cannot   *)
(* be had: insmod fails and the batteries found so far are forgotten.      *)
LoadFails ==
  /\ loader = "walk"
  /\ walked < Len(DeviceList)
  /\ loader' = "out"
  /\ UNCHANGED <<walked, list, heap, proc, stop, reader, thread, at, delay,
                 pollVars>>

(* "we only want to check batteries that are present"                      *)
(* Mutant: every device is taken for a battery.                            *)
Present_Any(d) == TRUE
Present(d) == d \in Batteries

find_batteries ==
  LET d == DeviceList[walked + 1]
  IN  /\ loader = "walk"
      /\ walked < Len(DeviceList)
      /\ walked' = walked + 1
      /\ \/ ~ Present(d) /\ UNCHANGED <<list, heap, pollVars>>
         \/ /\ Present(d)
            /\ heap' = heap \cup {d}
            /\ list' = Append(list, d)
            /\ UNCHANGED pollVars
      /\ UNCHANGED <<loader, proc, stop, reader, thread, at, delay>>

create_proc ==
  /\ loader = "walk"
  /\ walked = Len(DeviceList)
  /\ proc' = TRUE
  /\ loader' = "run"
  /\ UNCHANGED <<walked, list, heap, stop, reader, thread, at, delay, pollVars>>

kthread_run ==
  /\ loader = "run"
  /\ thread' = "check"
  /\ stop' = FALSE
  /\ loader' = "in"
  /\ UNCHANGED <<walked, list, heap, proc, reader, at, delay, pollVars>>

-----------------------------------------------------------------------------
(* exit_battcheck: stop the thread, remove the entry, free the batteries.  *)

(* kthread_stop: tell the thread, wake it if it sleeps, wait for its end.  *)
kthread_stop ==
  /\ loader = "in"
  /\ loader' = "stop"
  /\ stop' = TRUE
  /\ thread' = IF thread = "sleep" THEN "check" ELSE thread
  /\ UNCHANGED <<walked, list, heap, proc, reader, at, delay, pollVars>>

(* Mutant: it does not wait.                                               *)
Stopped_NotWaited == TRUE
Stopped == thread = "none"

(* remove_proc_entry: no new reader, and wait for the one there is.        *)
remove_proc ==
  /\ loader = "stop"
  /\ Stopped
  /\ proc' = FALSE
  /\ loader' = "free"
  /\ UNCHANGED <<walked, list, heap, stop, reader, thread, at, delay, pollVars>>

free_batteries ==
  /\ loader = "free"
  /\ reader = 0
  /\ IF list = <<>>
     THEN loader' = "out" /\ UNCHANGED <<list, heap, battery, noteVars>>
     ELSE LET b == Head(list)
          IN  /\ heap' = heap \ {b}
              /\ list' = Tail(list)
              /\ battery' = [battery EXCEPT ![b] = Zeroed]
              /\ lows' = [lows EXCEPT ![b] = 0]
              /\ risen' = risen \ {b}
              /\ UNCHANGED loader
  /\ UNCHANGED <<walked, proc, stop, reader, thread, at, delay, reports>>

-----------------------------------------------------------------------------
(* check_thread.                                                           *)

(* The head of its loop.                                                   *)
thread_check ==
  /\ thread = "check"
  /\ at' = 1
  /\ delay' = 1
  /\ thread' = IF stop THEN "none"
               ELSE IF list = <<>> THEN "delay" ELSE "poll"
  /\ reports' = {}
  /\ UNCHANGED <<loadVars, reader, battery, noteVars>>

(* get_battery_control_method(_BST): the elements extract_package has come *)
(* to before it fails (the state is the first, the capacity the third) are *)
(* stored, -1 where one is no integer; the result is ignored.              *)
poll ==
  LET b == list[at]
  IN  /\ thread = "poll"
      /\ \E n \in {0, 1, 3}, s \in States \cup {AllBits}, c \in Levels \cup {-1} :
           battery' = [battery EXCEPT
             ![b].state = IF n >= 1 THEN s ELSE @,
             ![b].remaining_capacity = IF n >= 3 THEN c ELSE @]
      /\ thread' = "report"
      /\ reports' = {}
      /\ UNCHANGED <<loadVars, reader, at, delay, noteVars>>

(* Division as in C.                                                       *)
CDiv(a, d) == IF a >= 0 THEN a \div d ELSE - ((- a) \div d)

(* "calculate percent remaining (using only integer math)"                 *)
(* Mutant: rounded down.                                                   *)
Percent_Down(b) == CDiv(battery[b].remaining_capacity * 100, Bif[b].full)
Percent(b) ==
  CDiv(battery[b].remaining_capacity * 200 + Bif[b].full, Bif[b].full * 2)

Began(b, bit) ==
  bit \in battery[b].state /\ battery[b].state # battery[b].last_state

ReachedFull(b) ==
  /\ "charging" \in battery[b].last_state \ battery[b].state
  /\ battery[b].remaining_capacity >= Bif[b].full

(* Mutant: a level that stays at the warning is low again.                 *)
BecameLow_AtTheMark(b) ==
  /\ battery[b].remaining_capacity <= Bif[b].warning
  /\ battery[b].last_remaining_capacity >= Bif[b].warning
BecameLow(b) ==
  /\ battery[b].remaining_capacity <= Bif[b].warning
  /\ battery[b].last_remaining_capacity > Bif[b].warning

Critical(b) == battery[b].remaining_capacity <= Bif[b].low

report ==
  LET b == list[at]
  IN  /\ thread = "report"
      /\ reports' =
           {r \in {"discharge", "charge", "full", "low", "critical"} :
              \/ r = "discharge" /\ Began(b, "discharging")
              \/ r = "charge" /\ Began(b, "charging")
              \/ r = "full" /\ ReachedFull(b)
              \/ r = "low" /\ BecameLow(b)
              \/ r = "critical" /\ Critical(b)}
      /\ IF battery[b].remaining_capacity > Bif[b].warning
         THEN risen' = risen \cup {b} /\ lows' = [lows EXCEPT ![b] = 0]
         ELSE /\ lows' = IF "low" \in reports'
                         THEN [lows EXCEPT ![b] = @ + 1]
                         ELSE lows
              /\ UNCHANGED risen
      /\ delay' = IF Critical(b) THEN 2 ELSE delay
      /\ battery' = [battery EXCEPT
           ![b].percent = Percent(b),
           ![b].last_state = battery[b].state,
           ![b].last_remaining_capacity = battery[b].remaining_capacity]
      /\ at' = at + 1
      /\ thread' = IF at < Len(list) THEN "poll" ELSE "delay"
      /\ UNCHANGED <<loadVars, reader>>

(* set_current_state and schedule_timeout: a wakeup that came earlier is   *)
(* gone.                                                                   *)
fall_asleep ==
  /\ thread = "delay"
  /\ thread' = "sleep"
  /\ reports' = {}
  /\ UNCHANGED <<loadVars, reader, at, delay, battery, noteVars>>

(* The timeout of HZ/delay.                                                *)
(* Mutant: schedule() in the place of schedule_timeout().                  *)
timeout_Never == FALSE /\ UNCHANGED vars
timeout ==
  /\ thread = "sleep"
  /\ thread' = "check"
  /\ UNCHANGED <<loadVars, reader, at, delay, pollVars>>

-----------------------------------------------------------------------------
(* read_proc: the percentages of the batteries, one after the other.       *)

open_proc ==
  /\ proc
  /\ reader = 0
  /\ list # <<>>
  /\ reader' = 1
  /\ UNCHANGED <<loadVars, thread, at, delay, pollVars>>

read_proc ==
  /\ reader > 0
  /\ reader' = IF reader < Len(list) THEN reader + 1 ELSE 0
  /\ UNCHANGED <<loadVars, thread, at, delay, pollVars>>

-----------------------------------------------------------------------------
check_thread ==
  thread_check \/ poll \/ report \/ fall_asleep \/ timeout

exit_battcheck == remove_proc \/ free_batteries

Next ==
  \/ init_battcheck
  \/ LoadFails
  \/ find_batteries
  \/ create_proc
  \/ kthread_run
  \/ kthread_stop
  \/ exit_battcheck
  \/ check_thread
  \/ open_proc
  \/ read_proc

(* The thread runs, its timer expires, rmmod goes on when what it waits    *)
(* for has happened, and a reader that has begun ends.                     *)
Spec ==
  /\ Init
  /\ [][Next]_vars
  /\ WF_vars(check_thread)
  /\ WF_vars(exit_battcheck)
  /\ WF_vars(read_proc)

-----------------------------------------------------------------------------
TypeOK ==
  /\ loader \in {"out", "walk", "run", "in", "stop", "free"}
  /\ list \in Seq(Batteries) /\ heap \subseteq Batteries
  /\ reader \in 0 .. Len(DeviceList)
  /\ thread \in {"none", "check", "poll", "report", "delay", "sleep"}
  /\ at \in 1 .. Len(DeviceList) + 1
  /\ delay \in {1, 2}
  /\ \A b \in Batteries : battery[b].percent \in Int

(* Neither the thread nor a reader of /proc/battcheck ever stands on a     *)
(* battery that rmmod has freed: it stops the one and waits for the other  *)
(* before it frees the list.                                               *)
NoUseAfterFree ==
  /\ thread \in {"poll", "report"} => at <= Len(list) /\ list[at] \in heap
  /\ reader > 0 => reader <= Len(list) /\ list[reader] \in heap

(* However polls fail, a battery whose level was above the warning and is  *)
(* not any more has been reported as low exactly once, and one that never  *)
(* was above it never ("when the battery level has become low (only one    *)
(* report)").  The warning level itself is low, as the code has it         *)
(* (battcheck.c:290; the comment at 287 says "less than"), and so is the   *)
(* -1 that a package without the value leaves: it counts as a level here.  *)
LowToldOnce ==
  \A k \in 1 .. Len(list) :
    LET b == list[k]
        low == battery[b].last_remaining_capacity <= Bif[b].warning
    IN  lows[b] = IF low /\ b \in risen THEN 1 ELSE 0

(* What /proc/battcheck shows is the polled level in percent, rounded to   *)
(* the nearest integer, unless the level is the -1 of a missing value.     *)
PercentRounds ==
  \A k \in 1 .. Len(list) :
    LET b == list[k]
        off == 2 * (battery[b].percent * Bif[b].full
                    - 100 * battery[b].last_remaining_capacity)
    IN  battery[b].last_remaining_capacity >= 0 =>
          off <= Bif[b].full /\ off >= - Bif[b].full

(* rmmod ends, although kthread_stop may come when the thread has looked   *)
(* for it already and is about to sleep.                                   *)
UnloadEnds == loader = "stop" ~> loader = "out"
=============================================================================
