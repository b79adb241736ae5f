-------------------------------- MODULE Vmm --------------------------------
(***************************************************************************)
(* The kernel module of hw5_vmm (vmm.c) on top of an allocator that keeps  *)
(* the promises of buddy.h, as Buddy does, and the functions through which *)
(* processes use it (vmm_test.c: get_mem, free_mem, write_mem, read_mem).  *)
(* Every ioctl runs without a lock, and current_idx and read_size are      *)
(* global: a process selects the page with one ioctl and reads or writes   *)
(* it with another.  IOCTL_WRITE and IOCTL_READ move one byte per step.    *)
(* (The calls of the allocator are taken to be atomic here.)               *)
(*                                                                         *)
(* get_mem hands on what IOCTL_ALLOC returned, and the test program uses   *)
(* it as a page without a look at it: -1 is the page of a refused request. *)
(*                                                                         *)
(* The k-th byte that write_mem sends to the page at idx is the pair       *)
(* <<idx, k>>, so that a byte tells where it should be.                    *)
(***************************************************************************)
EXTENDS Allocator, Sequences

CONSTANTS
  Procs,      \* the processes that have opened /dev/vmm
  POOL_SIZE,  \* the module parameter pool_size
  Careful     \* do the processes write no more than they have asked for?

ASSUME VmmAssumption ==
  /\ POOL_SIZE \in PoolSizes
  /\ Careful \in BOOLEAN

VARIABLES
  registered,   \* is the character device registered?
  memory,       \* buddy_pool, and the bytes before and behind it
  current_idx,  \* "currently selected page"
  read_size,    \* "how many bytes to read when read ioctl is called"
  own,          \* own[p]: what get_mem has returned to p
  want,         \* want[idx]: the bytes asked for the page at idx, or 0
  text,         \* text[idx]: the bytes written to the page at idx
  pc,           \* pc[p]: which ioctl p calls next or is in
  call,         \* call[p]: the arguments of p's write_mem or read_mem
  size,         \* size[p]: the page size its IOCTL_WRITE has found
  buf           \* buf[p]: the bytes moved by its IOCTL_WRITE or IOCTL_READ

procVars == <<pc, call, size, buf>>
vars == <<allocVars, registered, memory, current_idx, read_size, own, want,
          text, procVars>>

(* The pool, the byte before it and as many bytes behind it as an index    *)
(* and a length can add up to.                                             *)
Area == -1 .. 2 * POOL_SIZE
Places == -1 .. POOL_SIZE
Unwritten == <<-2, 0>>
NoCall == [page |-> 0, from |-> 0, len |-> 0]

Init ==
  /\ AllocInit
  /\ registered = FALSE
  /\ memory = [k \in Area |-> Unwritten]
  /\ current_idx = 0
  /\ read_size = 0
  /\ own = [p \in Procs |-> {}]
  /\ want = [k \in Places |-> 0]
  /\ text = want
  /\ pc = [p \in Procs |-> "idle"]
  /\ call = [p \in Procs |-> NoCall]
  /\ size = [p \in Procs |-> 0]
  /\ buf = [p \in Procs |-> <<>>]

-----------------------------------------------------------------------------
(* init_mod: the device stays registered when the pool cannot be had, and  *)
(* register_chrdev then refuses it at every later attempt.                 *)
init_mod ==
  \/ /\ ~ registered
     /\ registered' = TRUE
     /\ Start(POOL_SIZE)
     /\ UNCHANGED <<memory, current_idx, read_size, own, want, text, procVars>>
  \/ /\ registered
     /\ pool = -1
     /\ UNCHANGED vars

(* exit_mod, with no process in an ioctl.  current_idx and read_size are   *)
(* fresh when the module is loaded again.                                  *)
(* Mutant: the pool is not given up.                                       *)
Killed_Not == UNCHANGED allocVars
Killed == Stop
exit_mod ==
  /\ \A p \in Procs : pc[p] = "idle"
  /\ pool # -1
  /\ Killed
  /\ registered' = FALSE
  /\ memory' = [k \in Area |-> Unwritten]
  /\ current_idx' = 0
  /\ read_size' = 0
  /\ own' = [p \in Procs |-> {}]
  /\ want' = [k \in Places |-> 0]
  /\ text' = want'
  /\ UNCHANGED procVars

(* get_mem: IOCTL_ALLOC.  What it returns is not looked at.                *)
get_mem(p, n) ==
  /\ pc[p] = "idle"
  /\ Hand(n)
  /\ own' = [own EXCEPT ![p] = @ \cup {result'}]
  /\ want' = [want EXCEPT ![result'] = n]
  /\ text' = [text EXCEPT ![result'] = 0]
  /\ UNCHANGED <<registered, memory, current_idx, read_size, procVars>>

(* free_mem: IOCTL_FREE.  The -1 of a refused request may be another       *)
(* process's too, so what is known of it is kept.                          *)
free_mem(p, idx) ==
  /\ pc[p] = "idle"
  /\ idx \in own[p]
  /\ TakeBack(idx)
  /\ own' = [own EXCEPT ![p] = @ \ {idx}]
  /\ want' = [want EXCEPT ![idx] = IF idx = -1 THEN @ ELSE 0]
  /\ text' = [text EXCEPT ![idx] = IF idx = -1 THEN @ ELSE 0]
  /\ UNCHANGED <<registered, memory, current_idx, read_size, procVars>>

-----------------------------------------------------------------------------
(* The ioctl returns and its locals are gone.                              *)
Return(p) ==
  /\ pc' = [pc EXCEPT ![p] = "idle"]
  /\ call' = [call EXCEPT ![p] = NoCall]
  /\ size' = [size EXCEPT ![p] = 0]
  /\ buf' = [buf EXCEPT ![p] = <<>>]

(* write_mem: IOCTL_SET_IDX ("set the page we want to write to"), then     *)
(* IOCTL_WRITE ("execute the write").                                      *)
write_mem(p, idx, len) ==
  /\ pc[p] = "idle"
  /\ idx \in own[p]
  /\ Careful => len <= want[idx]
  /\ current_idx' = idx
  /\ call' = [call EXCEPT ![p] = [page |-> idx, from |-> 0, len |-> len]]
  /\ pc' = [pc EXCEPT ![p] = "write"]
  /\ UNCHANGED <<allocVars, registered, memory, read_size, own, want, text, size,
                 buf>>

ioctl_write(p) ==
  /\ pc[p] = "write"
  /\ Query(current_idx)
  /\ size' = [size EXCEPT ![p] = result']
  /\ pc' = [pc EXCEPT ![p] = "writing"]
  /\ UNCHANGED <<registered, memory, current_idx, read_size, own, want, text,
                 call, buf>>

(* The loop of IOCTL_WRITE: stop at the null terminator, refuse when "we   *)
(* are about to write outside the page", or store the byte.                *)
(* Mutant: a size of -1 is not refused, as if it were compared unsigned.   *)
Outside_Unsigned(p) == size[p] >= 0 /\ Len(buf[p]) > size[p]
Outside(p) == Len(buf[p]) > size[p]

(* "write the byte into the pool"                                          *)
(* Mutant: the count of the bytes is left out.                             *)
Place_First(p) == current_idx
Place(p) == current_idx + Len(buf[p])

write_byte(p) ==
  LET bytes == Len(buf[p])
      ch == <<call[p].page, bytes>>
  IN  /\ pc[p] = "writing"
      /\ \/ /\ bytes = call[p].len \/ Outside(p)
            /\ Return(p)
            /\ text' = IF bytes < call[p].len \/ text[call[p].page] > bytes
                       THEN text
                       ELSE [text EXCEPT ![call[p].page] = bytes]
            /\ UNCHANGED memory
         \/ /\ bytes < call[p].len
            /\ ~ Outside(p)
            /\ memory' = [memory EXCEPT ![Place(p)] = ch]
            /\ buf' = [buf EXCEPT ![p] = Append(@, ch)]
            /\ UNCHANGED <<pc, text, call, size>>
      /\ UNCHANGED <<allocVars, registered, current_idx, read_size, own, want>>

-----------------------------------------------------------------------------
(* read_mem: IOCTL_SET_IDX, IOCTL_SET_READ_SIZE, IOCTL_READ.               *)
(* Mutant: the start of the page is selected.                              *)
Selected_Start(idx, from) == idx
Selected(idx, from) == idx + from

read_mem(p, idx, from, len) ==
  /\ pc[p] = "idle"
  /\ idx \in own[p]
  /\ current_idx' = Selected(idx, from)
  /\ call' = [call EXCEPT ![p] = [page |-> idx, from |-> from, len |-> len]]
  /\ pc' = [pc EXCEPT ![p] = "set_read_size"]
  /\ UNCHANGED <<allocVars, registered, memory, read_size, own, want, text, size,
                 buf>>

ioctl_set_read_size(p) ==
  /\ pc[p] = "set_read_size"
  /\ read_size' = call[p].len
  /\ pc' = [pc EXCEPT ![p] = "read"]
  /\ UNCHANGED <<allocVars, registered, memory, current_idx, own, want, text,
                 call, size, buf>>

(* "return error if trying to read more than the page size"                *)
ioctl_read(p) ==
  /\ pc[p] = "read"
  /\ Query(current_idx)
  /\ IF read_size > result'
     THEN Return(p)
     ELSE pc' = [pc EXCEPT ![p] = "reading"] /\ UNCHANGED <<call, size, buf>>
  /\ UNCHANGED <<registered, memory, current_idx, read_size, own, want, text>>

read_byte(p) ==
  /\ pc[p] = "reading"
  /\ \/ /\ Len(buf[p]) < read_size
        /\ buf' = [buf EXCEPT ![p] =
                     Append(@, memory[current_idx + Len(buf[p])])]
        /\ UNCHANGED <<pc, call, size>>
     \/ /\ Len(buf[p]) >= read_size
        /\ Return(p)
  /\ UNCHANGED <<allocVars, registered, memory, current_idx, read_size, own, want,
                 text>>

Next ==
  \/ init_mod
  \/ exit_mod
  \/ \E p \in Procs :
       \/ \E n \in Requests : get_mem(p, n)
       \/ \E idx \in own[p] :
            \/ free_mem(p, idx)
            \/ \E n \in Requests : write_mem(p, idx, n)
            \/ \E n \in Requests, from \in 0 .. want[idx] - 1 :
                 read_mem(p, idx, from, n)
       \/ ioctl_write(p)
       \/ write_byte(p)
       \/ ioctl_set_read_size(p)
       \/ ioctl_read(p)
       \/ read_byte(p)

Spec == Init /\ [][Next]_vars

-----------------------------------------------------------------------------
TypeOK ==
  /\ pool \in {-1, POOL_SIZE}
  /\ pool # -1 => registered
  /\ pages \subseteq [idx : 0 .. POOL_SIZE - 1, size : 1 .. POOL_SIZE]
  /\ result \in Int
  /\ registered \in BOOLEAN
  /\ current_idx \in Nat \cup {-1}
  /\ read_size \in Nat
  /\ own \in [Procs -> SUBSET Places]
  /\ want \in [Places -> Nat]
  /\ text \in [Places -> Nat]
  /\ pc \in [Procs -> {"idle", "write", "writing", "set_read_size", "read",
                       "reading"}]

(* No ioctl writes before or behind the pool: although -1, the answer to a *)
(* request that was refused, is selected and written to like a page, the   *)
(* page size that buddy_size returns for it makes the test of vmm.c:75     *)
(* refuse the first byte.                                                  *)
InsideThePool ==
  \A k \in Area \ (0 .. POOL_SIZE - 1) : memory[k] = Unwritten

(* What was written to a page stays there until the page is freed: no      *)
(* other page's write reaches it.  (vmm.c:74: "if we are about to write    *)
(* outside the page error out".)                                           *)
PagesIntact ==
  \A idx \in UNION {own[p] : p \in Procs} :
    \A k \in 0 .. text[idx] - 1 : memory[idx + k] = <<idx, k>>

(* read_mem returns the bytes that were written to the page it names, from *)
(* the place it names (vmm_test.c: "set the page we want to read from").   *)
PageReadsBack ==
  \A p \in Procs : pc[p] = "reading" =>
    \A k \in 1 .. Len(buf[p]) :
      LET at == call[p].from + k - 1
      IN  at < text[call[p].page] => buf[p][k] = <<call[p].page, at>>
=============================================================================
