--------------------------- MODULE AllocatorCalls ---------------------------
(***************************************************************************)
(* The allocator as its caller sees it: a call names its function and      *)
(* argument, takes effect at one moment, for exactly that argument, and    *)
(* the next call comes when it has returned.                               *)
(***************************************************************************)
EXTENDS Allocator

VARIABLE pending   \* the function that was called, and its argument

None == <<"none", 0>>

Ask(function, x) ==
  /\ pool # -1
  /\ pending = None
  /\ pending' = <<function, x>>
  /\ UNCHANGED allocVars

Answer(function, x) == pending = <<function, x>> /\ pending' = None

CallsInit == AllocInit /\ pending = None

CallsNext ==
  \/ /\ Stop \/ \E size \in PoolSizes : Start(size)
     /\ pending = None /\ UNCHANGED pending
  \/ \E size \in Requests :
       Ask("alloc", size) \/ (Hand(size) /\ Answer("alloc", size))
  \/ \E idx \in Indexes :
       \/ Ask("free", idx) \/ (TakeBack(idx) /\ Answer("free", idx))
       \/ Ask("size", idx) \/ (Query(idx) /\ Answer("size", idx))

callsVars == <<allocVars, pending>>

CallsSpec == CallsInit /\ [][CallsNext]_callsVars
=============================================================================
