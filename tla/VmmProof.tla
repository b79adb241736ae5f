------------------------------ MODULE VmmProof ------------------------------
(***************************************************************************)
(* What is proved of /dev/vmm, for every pool size and every allocator     *)
(* that keeps the promises of buddy.h: its types for any processes, and    *)
(* that the pages of one process keep what it writes.                      *)
(***************************************************************************)
EXTENDS Vmm, SequenceTheorems, TLAPS

PCs == {"idle", "write", "writing", "set_read_size", "read", "reading"}
Calls == [page : Places, from : Nat, len : Nat]

(* TypeOK in its parts.                                                    *)
PageSet == [idx : 0 .. POOL_SIZE - 1, size : 1 .. POOL_SIZE]
AllocTypes == pool \in {-1, POOL_SIZE} /\ pages \subseteq PageSet /\ result \in Int
OtherTypes ==
  /\ current_idx \in Nat \cup {-1}
  /\ read_size \in Nat
  /\ own \in [Procs -> SUBSET Places]
  /\ want \in [Places -> Nat]
  /\ text \in [Places -> Nat]
  /\ pc \in [Procs -> PCs]

Registered == registered \in BOOLEAN /\ (pool # -1 => registered)

LEMMA TypeParts == TypeOK <=> AllocTypes /\ Registered /\ OtherTypes
BY DEF TypeOK, AllocTypes, Registered, OtherTypes, PageSet, PCs

(* The inductive type invariant: also of what the ioctls hold in locals.   *)
(* What a read collects has no type when several processes share           *)
(* read_size, for it may lie behind the pool.                              *)
TypeInv ==
  /\ AllocTypes
  /\ Registered
  /\ OtherTypes
  /\ call \in [Procs -> Calls]
  /\ size \in [Procs -> Int]
  /\ DOMAIN buf = Procs
  /\ \A p \in Procs : pc[p] # "reading" => buf[p] \in Seq(Int \X Int)

LEMMA PoolSize == POOL_SIZE \in Nat
BY PagesAssumption, VmmAssumption

LEMMA NoCallType == NoCall \in Calls
BY PoolSize DEF NoCall, Calls, Places

LEMMA TypeInit == Init => TypeInv
<1> SUFFICES ASSUME Init PROVE TypeInv
  OBVIOUS
<1>1. POOL_SIZE \in Nat /\ NoCall \in Calls
  BY PoolSize, NoCallType
<1>2. Registered
  BY DEF Init, AllocInit, Registered
<1>3. want \in [Places -> Nat] /\ text \in [Places -> Nat]
  BY <1>1 DEF Init
<1>4. /\ pool \in {-1, POOL_SIZE}
      /\ pages \subseteq PageSet
      /\ result \in Int
  BY DEF Init, AllocInit
<1>5. current_idx \in Nat \cup {-1} /\ read_size \in Nat
  BY DEF Init
<1>6. /\ own \in [Procs -> SUBSET Places]
      /\ pc \in [Procs -> PCs]
  BY DEF Init, PCs
<1>7. AllocTypes /\ OtherTypes
  BY <1>3, <1>4, <1>5, <1>6 DEF AllocTypes, OtherTypes
<1>8. \A p \in Procs : buf[p] \in Seq(Int \X Int)
  BY EmptySeq DEF Init
<1> QED
  BY <1>1, <1>2, <1>7, <1>8 DEF Init, TypeInv

(* The ioctl returns.                                                      *)
LEMMA TypeReturn ==
  ASSUME TypeInv, NEW p \in Procs, Return(p)
  PROVE  /\ pc' \in [Procs -> PCs]
         /\ call' \in [Procs -> Calls]
         /\ size' \in [Procs -> Int]
         /\ DOMAIN buf' = Procs
         /\ \A q \in Procs : pc'[q] # "reading" => buf'[q] \in Seq(Int \X Int)
<1>1. <<>> \in Seq(Int \X Int) /\ NoCall \in Calls
  BY EmptySeq, NoCallType
<1>2. pc' \in [Procs -> PCs]
  BY DEF TypeInv, AllocTypes, OtherTypes, Return, PCs
<1>3. call' \in [Procs -> Calls]
  BY <1>1 DEF TypeInv, Return
<1>4. size' \in [Procs -> Int]
  BY DEF TypeInv, Return
<1>5. ASSUME NEW q \in Procs, pc'[q] # "reading"
      PROVE  buf'[q] \in Seq(Int \X Int)
  BY <1>1, <1>5 DEF TypeInv, AllocTypes, OtherTypes, Return
<1> QED
  BY <1>2, <1>3, <1>4, <1>5 DEF TypeInv, Return

(* What the allocator's calls do to the pages.                             *)
LEMMA TypeHand ==
  ASSUME TypeInv, NEW n \in Requests, Hand(n)
  PROVE  /\ AllocTypes'
         /\ result' \in Places
<1>1. n \in Nat \ {0} /\ POOL_SIZE \in Nat
  BY PagesAssumption, PoolSize
<1>2. CASE UNCHANGED pages /\ result' = -1
  BY <1>1, <1>2 DEF TypeInv, AllocTypes, Hand, Places
<1>3. CASE \E idx \in 0 .. pool - 1, len \in n .. pool :
             pages' = pages \cup {Page(idx, len)} /\ result' = idx
  <2>1. PICK idx \in 0 .. pool - 1, len \in n .. pool :
               pages' = pages \cup {Page(idx, len)} /\ result' = idx
    BY <1>3
  <2>2. pool = POOL_SIZE
    BY <1>1, <2>1 DEF TypeInv, AllocTypes
  <2>3. Page(idx, len) \in PageSet
    BY <1>1, <2>2 DEF Page, PageSet
  <2>4. idx \in Places
    BY <1>1, <2>2 DEF Places
  <2> QED
    BY <2>1, <2>2, <2>3, <2>4 DEF TypeInv, AllocTypes, Hand
<1> QED
  BY <1>2, <1>3 DEF Hand

LEMMA TypeTakeBack ==
  ASSUME TypeInv, NEW idx, TakeBack(idx)
  PROVE  AllocTypes'
BY DEF TypeInv, AllocTypes, TakeBack

LEMMA TypeQuery ==
  ASSUME TypeInv, Query(current_idx)
  PROVE  AllocTypes'
<1>0. current_idx \in Int
  BY DEF TypeInv, OtherTypes
<1> SUFFICES result' \in Int
  BY DEF TypeInv, AllocTypes, Query
<1>1. CASE result' = -1
  BY <1>1
<1>2. ASSUME NEW page \in pages, result' = page.idx + page.size - current_idx
      PROVE  result' \in Int
  <2>1. page.idx \in 0 .. POOL_SIZE - 1 /\ page.size \in 1 .. POOL_SIZE
    BY DEF TypeInv, AllocTypes, PageSet
  <2> QED
    BY <1>0, <1>2, <2>1, PoolSize
<1> QED
  BY <1>1, <1>2 DEF Query

(* The device is registered as long as there is a pool.                    *)
LEMMA RegisteredNext == TypeInv /\ [Next]_vars => Registered'
<1> SUFFICES ASSUME TypeInv, [Next]_vars PROVE Registered'
  OBVIOUS
<1>1. CASE pool' = pool /\ registered' = registered
  BY <1>1 DEF TypeInv, Registered
<1>2. CASE init_mod /\ ~ UNCHANGED vars
  BY <1>2 DEF init_mod, Registered
<1>3. CASE exit_mod
  BY <1>3 DEF exit_mod, Killed, Stop, Registered
<1>4. CASE UNCHANGED vars
  BY <1>1, <1>4 DEF vars, allocVars
<1>5. ASSUME NEW p \in Procs, NEW n, NEW idx,
             get_mem(p, n) \/ free_mem(p, idx) \/ write_mem(p, idx, n)
      PROVE  Registered'
  BY <1>1, <1>5 DEF get_mem, free_mem, write_mem, Hand, TakeBack, allocVars
<1>6. ASSUME NEW p \in Procs, NEW n, NEW idx, NEW from, read_mem(p, idx, from, n)
      PROVE  Registered'
  BY <1>1, <1>6 DEF read_mem, allocVars
<1>7. ASSUME NEW p \in Procs, ioctl_write(p) \/ ioctl_set_read_size(p) \/ ioctl_read(p)
      PROVE  Registered'
  BY <1>1, <1>7 DEF ioctl_write, ioctl_set_read_size, ioctl_read, Query, allocVars
<1>8. ASSUME NEW p \in Procs, write_byte(p) \/ read_byte(p)
      PROVE  Registered'
  BY <1>1, <1>8 DEF write_byte, read_byte, allocVars
<1> QED
  BY <1>2, <1>3, <1>4, <1>5, <1>6, <1>7, <1>8 DEF Next

LEMMA TypeNext == TypeInv /\ [Next]_vars => TypeInv'
<1> SUFFICES ASSUME TypeInv, [Next]_vars PROVE TypeInv'
  OBVIOUS
<1>0. POOL_SIZE \in Nat /\ Registered'
  BY PoolSize, RegisteredNext
<1>1. CASE UNCHANGED vars
  BY <1>0, <1>1 DEF TypeInv, AllocTypes, OtherTypes, vars, allocVars, procVars
<1>2. CASE init_mod
  <2>1. CASE UNCHANGED vars
    BY <2>1, <1>1
  <2>2. CASE ~ UNCHANGED vars
    <3>1. AllocTypes'
      BY <1>2, <2>2 DEF init_mod, Start, TypeInv, AllocTypes
    <3>2. UNCHANGED <<memory, current_idx, read_size, own, want, text, procVars>>
      BY <1>2, <2>2 DEF init_mod
    <3> QED
      BY <1>0, <3>1, <3>2 DEF TypeInv, OtherTypes, procVars
  <2> QED
    BY <2>1, <2>2
<1>3. CASE exit_mod
  <2>1. AllocTypes'
    BY <1>3 DEF exit_mod, Killed, Stop, TypeInv, AllocTypes
  <2>2. OtherTypes'
    BY <1>3 DEF exit_mod, TypeInv, OtherTypes, procVars
  <2> QED
    BY <1>0, <1>3, <2>1, <2>2 DEF exit_mod, TypeInv, procVars
<1>4. ASSUME NEW p \in Procs, NEW n \in Requests, get_mem(p, n)
      PROVE  TypeInv'
  <2>1. AllocTypes' /\ result' \in Places /\ n \in Nat
    BY <1>4, TypeHand, PagesAssumption DEF get_mem
  <2>2. own' \in [Procs -> SUBSET Places]
    BY <1>4, <2>1 DEF get_mem, TypeInv, OtherTypes
  <2>3. want' \in [Places -> Nat] /\ text' \in [Places -> Nat]
    BY <1>4, <2>1 DEF get_mem, TypeInv, OtherTypes
  <2> QED
    BY <1>0, <1>4, <2>1, <2>2, <2>3 DEF get_mem, TypeInv, OtherTypes, procVars
<1>5. ASSUME NEW p \in Procs, NEW idx \in own[p], free_mem(p, idx)
      PROVE  TypeInv'
  <2>1. AllocTypes'
    BY <1>5, TypeTakeBack DEF free_mem
  <2>2. idx \in Places
    BY DEF TypeInv, OtherTypes
  <2>3. want' \in [Places -> Nat] /\ text' \in [Places -> Nat]
    BY <1>5, <2>2 DEF free_mem, TypeInv, OtherTypes
  <2> QED
    BY <1>0, <1>5, <2>1, <2>3 DEF free_mem, TypeInv, OtherTypes, procVars
<1>6. ASSUME NEW p \in Procs, NEW idx \in own[p], NEW n \in Requests,
             write_mem(p, idx, n)
      PROVE  TypeInv'
  <2>1. idx \in Places /\ n \in Nat
    BY PagesAssumption DEF TypeInv, AllocTypes, OtherTypes
  <2>2. call' \in [Procs -> Calls] /\ pc' \in [Procs -> PCs]
    BY <1>6, <2>1 DEF write_mem, TypeInv, AllocTypes, OtherTypes, Calls, PCs
  <2>3. current_idx' \in Nat \cup {-1}
    BY <1>0, <1>6, <2>1 DEF write_mem, Places
  <2> QED
    BY <1>0, <1>6, <2>2, <2>3
       DEF write_mem, TypeInv, AllocTypes, OtherTypes, PCs, allocVars
<1>7. ASSUME NEW p \in Procs, NEW idx \in own[p], NEW n \in Requests,
             NEW from \in 0 .. want[idx] - 1, read_mem(p, idx, from, n)
      PROVE  TypeInv'
  <2>1. idx \in Places /\ n \in Nat /\ want[idx] \in Nat
    BY PagesAssumption DEF TypeInv, AllocTypes, OtherTypes
  <2>2. from \in Nat /\ idx + from \in Nat \cup {-1}
    BY <1>0, <2>1 DEF Places
  <2>3. call' \in [Procs -> Calls] /\ pc' \in [Procs -> PCs]
    BY <1>7, <2>1, <2>2 DEF read_mem, TypeInv, AllocTypes, OtherTypes, Calls, PCs
  <2>4. current_idx' \in Nat \cup {-1}
    BY <1>7, <2>2 DEF read_mem, Selected
  <2> QED
    BY <1>0, <1>7, <2>3, <2>4 DEF read_mem, TypeInv, AllocTypes, OtherTypes, PCs, allocVars
<1>8. ASSUME NEW p \in Procs, ioctl_write(p)
      PROVE  TypeInv'
  <2>1. AllocTypes'
    BY <1>8, TypeQuery DEF ioctl_write
  <2> QED
    BY <1>0, <1>8, <2>1 DEF ioctl_write, TypeInv, AllocTypes, OtherTypes, PCs
<1>9. ASSUME NEW p \in Procs, write_byte(p)
      PROVE  TypeInv'
  <2> DEFINE bytes == Len(buf[p])
  <2>1. buf[p] \in Seq(Int \X Int) /\ bytes \in Nat
    BY <1>9 DEF write_byte, TypeInv, AllocTypes, OtherTypes
  <2>2. call[p] \in Calls
    BY DEF TypeInv
  <2>3. CASE Return(p)
    <3>1. text' \in [Places -> Nat]
      BY <1>9, <2>1, <2>2, <2>3 DEF write_byte, TypeInv, AllocTypes, OtherTypes, Calls
    <3> QED
      BY <1>0, <1>9, <2>3, <3>1, TypeReturn
         DEF write_byte, TypeInv, AllocTypes, OtherTypes, PCs, allocVars
  <2>4. CASE ~ Return(p)
    <3>1. <<call[p].page, bytes>> \in Int \X Int
      BY <1>0, <2>1, <2>2 DEF Calls, Places
    <3>2. Append(buf[p], <<call[p].page, bytes>>) \in Seq(Int \X Int)
      BY <2>1, <3>1, AppendProperties
    <3> QED
      BY <1>0, <1>9, <2>4, <3>2 DEF write_byte, TypeInv, AllocTypes, OtherTypes, allocVars
  <2> QED
    BY <2>3, <2>4
<1>10. ASSUME NEW p \in Procs, ioctl_set_read_size(p)
       PROVE  TypeInv'
  BY <1>0, <1>10 DEF ioctl_set_read_size, TypeInv, AllocTypes, OtherTypes, PCs, Calls, allocVars
<1>11. ASSUME NEW p \in Procs, ioctl_read(p)
       PROVE  TypeInv'
  <2>1. AllocTypes'
    BY <1>11, TypeQuery DEF ioctl_read
  <2>2. CASE Return(p)
    BY <1>0, <1>11, <2>1, <2>2, TypeReturn DEF ioctl_read, TypeInv, OtherTypes, PCs
  <2>3. CASE ~ Return(p)
    BY <1>0, <1>11, <2>1, <2>3 DEF ioctl_read, TypeInv, OtherTypes, PCs
  <2> QED
    BY <2>2, <2>3
<1>12. ASSUME NEW p \in Procs, read_byte(p)
       PROVE  TypeInv'
  <2>1. CASE Return(p)
    BY <1>0, <1>12, <2>1, TypeReturn DEF read_byte, TypeInv, AllocTypes, OtherTypes, PCs, allocVars
  <2>2. CASE ~ Return(p)
    BY <1>0, <1>12, <2>2 DEF read_byte, TypeInv, AllocTypes, OtherTypes, allocVars
  <2> QED
    BY <2>1, <2>2
<1> QED
  BY <1>1, <1>2, <1>3, <1>4, <1>5, <1>6, <1>7, <1>8, <1>9, <1>10, <1>11, <1>12
     DEF Next

(* Type correctness, whatever processes call whatever ioctls in whatever   *)
(* order (vmm.c:24) and whether or not their requests were refused: what   *)
(* current_idx selects is -1 or lies at or behind the pool's start, and    *)
(* the device is registered as long as there is a pool.                    *)
THEOREM VmmTypeCorrect == Spec => []TypeOK
<1>1. Spec => []TypeInv
  BY TypeInit, TypeNext, PTL DEF Spec
<1>2. TypeInv => TypeOK
  BY TypeParts DEF TypeInv
<1> QED
  BY <1>1, <1>2, PTL

-----------------------------------------------------------------------------
(* The invariant of one process: its pages are apart and in the pool, what *)
(* it has written lies in them, current_idx is what it has selected, and   *)
(* the -1 of a refused request is selected in vain.                        *)
PagesApart ==
  /\ \A m, n \in pages : m # n => Apart(m, n)
  /\ \A n \in pages : n.idx + n.size <= POOL_SIZE
  /\ pool = -1 => pages = {}

OwnsPage(idx) ==
  /\ \E n \in pages : n.idx = idx /\ want[idx] <= n.size
  /\ text[idx] <= want[idx]

OwnsPages(p) ==
  \A idx \in own[p] : (idx = -1 /\ text[idx] = 0) \/ OwnsPage(idx)

Written(idx, len) == \A k \in 0 .. len - 1 : memory[idx + k] = <<idx, k>>

Selects(p) ==
  LET c == call[p]
  IN  /\ pc[p] # "idle" => c.page \in own[p]
      /\ pc[p] \in {"write", "writing"} =>
           current_idx = c.page /\ c.len <= want[c.page]
      /\ pc[p] \in {"set_read_size", "read", "reading"} =>
           current_idx = c.page + c.from /\ c.from < want[c.page]

Moves(p) ==
  LET c == call[p]
  IN  /\ pc[p] # "writing" /\ pc[p] # "reading" => buf[p] = <<>>
      /\ pc[p] = "writing" => Len(buf[p]) <= c.len /\ Written(c.page, Len(buf[p]))
      /\ pc[p] = "writing" /\ c.page = -1 => size[p] = -1 /\ buf[p] = <<>>
      /\ pc[p] = "reading" =>
           \E n \in pages :
             n.idx <= current_idx /\ current_idx + read_size <= n.idx + n.size

Reads(p) ==
  LET c == call[p]
  IN  pc[p] = "reading" =>
        \A k \in 1 .. Len(buf[p]) :
          c.from + k - 1 < text[c.page] => buf[p][k] = <<c.page, c.from + k - 1>>

Intact(p) == \A idx \in own[p] : Written(idx, text[idx])

OneInv(p) ==
  /\ TypeInv
  /\ memory \in [Area -> Int \X Int]
  /\ InsideThePool
  /\ buf[p] \in Seq(Int \X Int)
  /\ PagesApart
  /\ OwnsPages(p)
  /\ Intact(p)
  /\ Selects(p)
  /\ Moves(p)
  /\ Reads(p)

(* What the invariant says of types, in the form the other proofs need.    *)
Facts(p) ==
  /\ POOL_SIZE \in Nat
  /\ \A n \in pages : n.idx \in 0 .. POOL_SIZE - 1 /\ n.size \in 1 .. POOL_SIZE
  /\ own[p] \subseteq -1 .. POOL_SIZE
  /\ \A idx \in own[p] : want[idx] \in Nat /\ text[idx] \in Nat
  /\ call[p].page \in -1 .. POOL_SIZE /\ call[p].from \in Nat /\ call[p].len \in Nat
  /\ Len(buf[p]) \in Nat /\ read_size \in Nat /\ current_idx \in Int

LEMMA OneFacts ==
  ASSUME NEW p \in Procs, OneInv(p) PROVE Facts(p)
<1>1. POOL_SIZE \in Nat
  BY PoolSize
<1>2. \A n \in pages : n.idx \in 0 .. POOL_SIZE - 1 /\ n.size \in 1 .. POOL_SIZE
  BY DEF OneInv, TypeInv, AllocTypes, PageSet
<1>3. own[p] \subseteq -1 .. POOL_SIZE
  BY DEF OneInv, TypeInv, OtherTypes, Places
<1>4. \A idx \in own[p] : want[idx] \in Nat /\ text[idx] \in Nat
  BY DEF OneInv, TypeInv, OtherTypes
<1>5. call[p] \in Calls
  BY DEF OneInv, TypeInv
<1>6. Len(buf[p]) \in Nat
  BY LenProperties DEF OneInv
<1>7. read_size \in Nat /\ current_idx \in Int
  BY DEF OneInv, TypeInv, OtherTypes
<1> QED
  BY <1>1, <1>2, <1>3, <1>4, <1>5, <1>6, <1>7 DEF Calls, Places, Facts

LEMMA OneInit ==
  ASSUME NEW p \in Procs, Init PROVE OneInv(p)
<1>1. TypeInv
  BY TypeInit
<1>2. Unwritten \in Int \X Int
  BY DEF Unwritten
<1>3. memory \in [Area -> Int \X Int] /\ InsideThePool
  BY <1>2 DEF Init, InsideThePool
<1>4. buf[p] = <<>> /\ buf[p] \in Seq(Int \X Int) /\ pc[p] = "idle" /\ own[p] = {}
  BY EmptySeq DEF Init
<1>5. PagesApart
  BY DEF Init, AllocInit, PagesApart
<1> QED
  BY <1>1, <1>3, <1>4, <1>5
     DEF OneInv, OwnsPages, Intact, Selects, Moves, Reads

(* Nobody has a page at -1, and buddy_size says so.                        *)
LEMMA SizeOfNone ==
  ASSUME NEW p \in Procs, OneInv(p), Query(current_idx), current_idx = -1
  PROVE  result' = -1
<1>1. \A n \in pages : n.idx \in Nat
  BY OneFacts DEF Facts
<1>2. \A n \in pages : ~ Holds(n, current_idx)
  BY <1>1 DEF Holds
<1> QED
  BY <1>2 DEF Query

(* An ioctl that returns leaves nothing to show of its call.               *)
LEMMA OneReturn ==
  ASSUME NEW p \in Procs, OneInv(p), Return(p)
  PROVE  /\ Selects(p)' /\ Moves(p)' /\ Reads(p)'
         /\ buf'[p] \in Seq(Int \X Int)
<1>1. pc'[p] = "idle" /\ buf'[p] = <<>>
  BY DEF OneInv, TypeInv, OtherTypes, Return
<1> QED
  BY <1>1, EmptySeq DEF Selects, Moves, Reads

(* The actions of the one process, and loading and unloading.              *)
LEMMA OneLoad ==
  ASSUME NEW p \in Procs, OneInv(p), TypeInv', init_mod \/ exit_mod
  PROVE  OneInv(p)'
<1>1. CASE init_mod
  <2>1. /\ UNCHANGED <<memory, current_idx, read_size, own, want, text, procVars>>
        /\ pages' = pages
        /\ pool' = -1 => pool = -1
    BY <1>1 DEF init_mod, Start, vars, allocVars
  <2>2. PagesApart'
    BY <2>1 DEF OneInv, PagesApart
  <2> QED
    BY <2>1, <2>2 DEF OneInv, InsideThePool, OwnsPages, OwnsPage, Intact, Written,
                      Selects, Moves, Reads, procVars
<1>2. CASE exit_mod
  <2>1. Unwritten \in Int \X Int
    BY DEF Unwritten
  <2>2. memory' \in [Area -> Int \X Int] /\ InsideThePool'
    BY <1>2, <2>1 DEF exit_mod, InsideThePool
  <2>3. pages' = {} /\ own'[p] = {} /\ pc'[p] = "idle" /\ UNCHANGED procVars
    BY <1>2 DEF exit_mod, Killed, Stop, procVars
  <2>4. PagesApart'
    BY <2>3 DEF PagesApart
  <2>5. Moves(p)'
    BY <2>3 DEF OneInv, Moves, procVars
  <2> QED
    BY <2>2, <2>3, <2>4, <2>5
       DEF OneInv, OwnsPages, Intact, Selects, Reads, procVars
<1> QED
  BY <1>1, <1>2

LEMMA OneGet ==
  ASSUME NEW p \in Procs, OneInv(p), TypeInv', NEW n \in Requests, get_mem(p, n)
  PROVE  OneInv(p)'
<1> USE DEF get_mem
<1>1. Facts(p)
  BY OneFacts
<1>2. pc[p] = "idle" /\ UNCHANGED <<memory, current_idx, read_size, procVars>>
  OBVIOUS
<1> InsideThePool'
  BY <1>2 DEF OneInv, InsideThePool
<1>3. n \in Nat \ {0}
  BY PagesAssumption
<1>4. Selects(p)' /\ Moves(p)' /\ Reads(p)' /\ buf'[p] \in Seq(Int \X Int)
  BY <1>2 DEF OneInv, Selects, Moves, Reads, procVars
<1>5. CASE UNCHANGED pages /\ result' = -1
  <2>1. /\ UNCHANGED <<pool, pages>> /\ own'[p] = own[p] \cup {-1}
        /\ want' = [want EXCEPT ![-1] = n] /\ text' = [text EXCEPT ![-1] = 0]
    BY <1>5 DEF Hand, OneInv, TypeInv, OtherTypes
  <2>2. -1 \in Places
    BY PoolSize DEF Places
  <2>3. text'[-1] = 0
    BY <2>1, <2>2 DEF OneInv, TypeInv, OtherTypes
  <2>4. \A k \in own[p] \ {-1} : want'[k] = want[k] /\ text'[k] = text[k]
    BY <2>1 DEF OneInv, TypeInv, OtherTypes
  <2>5. OwnsPages(p)'
    <3>1. ASSUME NEW k \in own[p] \ {-1} PROVE OwnsPage(k)'
      BY <2>1, <2>4 DEF OneInv, OwnsPages, OwnsPage
    <3> QED
      BY <2>1, <2>3, <3>1 DEF OwnsPages
  <2>6. Intact(p)'
    <3>1. ASSUME NEW k \in own[p] \ {-1} PROVE Written(k, text[k])'
      BY <1>2, <2>4 DEF OneInv, Intact, Written
    <3>2. Written(-1, text[-1])'
      BY <2>3 DEF Written
    <3> QED
      BY <2>1, <3>1, <3>2 DEF Intact
  <2> QED
    BY <1>2, <1>4, <2>1, <2>5, <2>6 DEF OneInv, PagesApart
<1>6. ASSUME NEW idx \in 0 .. pool - 1, NEW len \in n .. pool,
             idx + len <= pool,
             \A page \in pages : Apart(Page(idx, len), page),
             pages' = pages \cup {Page(idx, len)}, result' = idx
      PROVE  OneInv(p)'
  <2>1. pool = POOL_SIZE /\ pool' = pool
    BY <1>1, <1>6 DEF OneInv, TypeInv, AllocTypes, Hand, Facts
  <2>2. idx \in Places /\ idx \in Nat /\ len \in Nat /\ n <= len
    BY <1>1, <1>3, <2>1 DEF Facts, Places
  <2>3. Page(idx, len).idx = idx /\ Page(idx, len).size = len
    BY DEF Page
  <2>4. PagesApart'
    <3>1. \A m \in pages : Apart(m, Page(idx, len))
      BY <1>6 DEF Apart
    <3>2. \A m, o \in pages' : m # o => Apart(m, o)
      BY <1>6, <3>1 DEF OneInv, PagesApart
    <3>3. \A m \in pages' : m.idx + m.size <= POOL_SIZE
      BY <1>6, <2>1, <2>3 DEF OneInv, PagesApart
    <3> QED
      BY <1>1, <2>1, <3>2, <3>3 DEF PagesApart, Facts
  <2>5. idx \notin own[p]
    <3>1. ASSUME NEW m \in pages, m.idx = idx PROVE FALSE
      <4>1. m.size \in Nat \ {0}
        BY <1>1 DEF Facts
      <4> QED
        BY <1>3, <1>6, <2>2, <2>3, <3>1, <4>1 DEF Apart
    <3> QED
      BY <2>2, <3>1 DEF OneInv, OwnsPages, OwnsPage
  <2>6. /\ own'[p] = own[p] \cup {idx}
        /\ want' = [want EXCEPT ![idx] = n]
        /\ text' = [text EXCEPT ![idx] = 0]
    BY <1>6, <2>2 DEF OneInv, TypeInv, OtherTypes
  <2>7. want'[idx] = n /\ text'[idx] = 0
    BY <2>2, <2>6 DEF OneInv, TypeInv, OtherTypes
  <2>8. \A k \in own[p] : want'[k] = want[k] /\ text'[k] = text[k]
    BY <1>1, <2>5, <2>6 DEF OneInv, TypeInv, OtherTypes, Facts
  <2>9. OwnsPages(p)'
    <3>1. ASSUME NEW k \in own[p] PROVE (k = -1 /\ text'[k] = 0) \/ OwnsPage(k)'
      BY <1>6, <2>8 DEF OneInv, OwnsPages, OwnsPage
    <3>2. OwnsPage(idx)'
      BY <1>3, <1>6, <2>2, <2>3, <2>7 DEF OwnsPage
    <3> QED
      BY <2>6, <3>1, <3>2 DEF OwnsPages
  <2>10. Intact(p)'
    <3>1. \A j \in 0 .. text'[idx] - 1 : memory'[idx + j] = <<idx, j>>
      BY <2>7
    <3>2. ASSUME NEW k \in own[p]
          PROVE  \A j \in 0 .. text'[k] - 1 : memory'[k + j] = <<k, j>>
      BY <1>2, <2>8 DEF OneInv, Intact, Written
    <3> QED
      BY <2>6, <3>1, <3>2 DEF Intact, Written
  <2> QED
    BY <1>2, <1>4, <2>4, <2>9, <2>10 DEF OneInv
<1> QED
  BY <1>5, <1>6 DEF Hand

LEMMA OneFree ==
  ASSUME NEW p \in Procs, OneInv(p), TypeInv', NEW idx \in own[p], free_mem(p, idx)
  PROVE  OneInv(p)'
<1> USE DEF free_mem
<1>1. /\ pc[p] = "idle"
      /\ UNCHANGED <<memory, current_idx, read_size, procVars>>
      /\ pool' = pool /\ pages' \subseteq pages
      /\ \A n \in pages : n.idx # idx => n \in pages'
  BY DEF TakeBack
<1>2. own'[p] = own[p] \ {idx}
  BY DEF OneInv, TypeInv, OtherTypes
<1>3. Selects(p)' /\ Moves(p)' /\ Reads(p)' /\ buf'[p] \in Seq(Int \X Int)
  BY <1>1 DEF OneInv, Selects, Moves, Reads, procVars
<1>4. PagesApart'
  BY <1>1 DEF OneInv, PagesApart
<1>5. \A k \in own[p] \ {idx} : want'[k] = want[k] /\ text'[k] = text[k]
  BY DEF OneInv, TypeInv, OtherTypes
<1>6. OwnsPages(p)'
  <2>1. ASSUME NEW k \in own[p] \ {idx}
        PROVE  (k = -1 /\ text'[k] = 0) \/ OwnsPage(k)'
    <3>1. CASE k = -1 /\ text[k] = 0
      BY <1>5, <3>1
    <3>2. CASE OwnsPage(k)
      <4>1. PICK n \in pages : n.idx = k /\ want[k] <= n.size
        BY <3>2 DEF OwnsPage
      <4>2. n \in pages'
        BY <1>1, <4>1
      <4> QED
        BY <1>5, <3>2, <4>1, <4>2 DEF OwnsPage
    <3> QED
      BY <3>1, <3>2 DEF OneInv, OwnsPages
  <2> QED
    BY <1>2, <2>1 DEF OwnsPages
<1>7. Intact(p)'
  <2>1. ASSUME NEW k \in own[p] \ {idx} PROVE Written(k, text[k])'
    BY <1>1, <1>5 DEF OneInv, Intact, Written
  <2> QED
    BY <1>2, <2>1 DEF Intact
<1> QED
  BY <1>1, <1>3, <1>4, <1>6, <1>7 DEF OneInv, InsideThePool

LEMMA OneSelect ==
  ASSUME NEW p \in Procs, OneInv(p), TypeInv', Careful,
         NEW idx \in own[p], NEW n \in Requests,
         \/ write_mem(p, idx, n)
         \/ \E from \in 0 .. want[idx] - 1 : read_mem(p, idx, from, n)
  PROVE  OneInv(p)'
<1>1. Facts(p)
  BY OneFacts
<1>2. /\ pc[p] = "idle"
      /\ UNCHANGED <<allocVars, memory, read_size, own, want, text, size, buf>>
  BY DEF write_mem, read_mem
<1>3. PagesApart' /\ OwnsPages(p)' /\ Intact(p)' /\ InsideThePool'
  BY <1>2 DEF OneInv, PagesApart, OwnsPages, OwnsPage, Intact, Written, InsideThePool,
              allocVars
<1>4. Moves(p)' /\ Reads(p)' /\ Selects(p)'
  <2>1. CASE write_mem(p, idx, n)
    <3>1. pc'[p] = "write" /\ call'[p] = [page |-> idx, from |-> 0, len |-> n]
      BY <2>1 DEF write_mem, OneInv, TypeInv, OtherTypes
    <3>2. Selects(p)'
      BY <1>2, <2>1, <3>1 DEF write_mem, Selects
    <3> QED
      BY <1>2, <3>1, <3>2 DEF OneInv, Moves, Reads
  <2>2. ASSUME NEW from \in 0 .. want[idx] - 1, read_mem(p, idx, from, n)
        PROVE  Moves(p)' /\ Reads(p)' /\ Selects(p)'
    <3>1. /\ pc'[p] = "set_read_size"
          /\ call'[p] = [page |-> idx, from |-> from, len |-> n]
      BY <2>2 DEF read_mem, OneInv, TypeInv, OtherTypes
    <3>2. want[idx] \in Nat
      BY <1>1 DEF Facts
    <3>3. Selects(p)'
      BY <1>2, <2>2, <3>1, <3>2 DEF read_mem, Selected, Selects
    <3> QED
      BY <1>2, <3>1, <3>3 DEF OneInv, Moves, Reads
  <2> QED
    BY <2>1, <2>2
<1> QED
  BY <1>2, <1>3, <1>4 DEF OneInv

(* The ioctls that find the size of the page, or set how much is read.     *)
LEMMA OneIoctl ==
  ASSUME NEW p \in Procs, OneInv(p), TypeInv',
         ioctl_write(p) \/ ioctl_set_read_size(p) \/ ioctl_read(p)
  PROVE  OneInv(p)'
<1>1. Facts(p)
  BY OneFacts
<1>2. UNCHANGED <<pool, pages, memory, current_idx, own, want, text>>
  BY DEF ioctl_write, ioctl_set_read_size, ioctl_read, Query, allocVars
<1>3. PagesApart' /\ OwnsPages(p)' /\ Intact(p)' /\ InsideThePool'
  BY <1>2 DEF OneInv, PagesApart, OwnsPages, OwnsPage, Intact, Written, InsideThePool
<1>4. CASE ioctl_write(p)
  <2>1. /\ pc[p] = "write" /\ pc'[p] = "writing"
        /\ UNCHANGED <<call, buf, read_size>>
    BY <1>4 DEF ioctl_write, OneInv, TypeInv, OtherTypes
  <2>2. buf'[p] = <<>>
    BY <2>1 DEF OneInv, Moves
  <2>3. call[p].page = -1 => size'[p] = -1
    <3>1. call[p].page = -1 => current_idx = -1
      BY <2>1 DEF OneInv, Selects
    <3>2. size'[p] = result' /\ Query(current_idx)
      BY <1>4 DEF ioctl_write, OneInv, TypeInv
    <3> QED
      BY <3>1, <3>2, SizeOfNone
  <2>4. Moves(p)'
    BY <1>1, <2>1, <2>2, <2>3 DEF Moves, Written, Facts
  <2>5. Selects(p)' /\ Reads(p)'
    BY <1>2, <2>1 DEF OneInv, Selects, Reads
  <2> QED
    BY <1>2, <1>3, <2>1, <2>4, <2>5 DEF OneInv
<1>5. CASE ioctl_set_read_size(p)
  <2>1. /\ pc[p] = "set_read_size" /\ pc'[p] = "read"
        /\ UNCHANGED <<call, buf>>
    BY <1>5 DEF ioctl_set_read_size, OneInv, TypeInv, OtherTypes
  <2>2. Selects(p)' /\ Reads(p)' /\ Moves(p)'
    BY <1>2, <2>1 DEF OneInv, Selects, Reads, Moves
  <2> QED
    BY <1>2, <1>3, <2>1, <2>2 DEF OneInv
<1>6. CASE ioctl_read(p)
  <2>1. CASE Return(p)
    BY <1>2, <1>3, <2>1, OneReturn DEF OneInv
  <2>2. CASE ~ Return(p)
    <3>1. /\ pc[p] = "read" /\ pc'[p] = "reading" /\ read_size <= result'
          /\ UNCHANGED <<call, buf, read_size>> /\ Query(current_idx)
      <4>1. result' \in Int /\ read_size \in Nat
        BY <1>1 DEF TypeInv, AllocTypes, Facts
      <4> QED
        BY <1>6, <2>2, <4>1 DEF ioctl_read, OneInv, TypeInv, OtherTypes
    <3>2. result' # -1
      BY <1>1, <3>1 DEF Facts
    <3>3. PICK n \in pages :
            Holds(n, current_idx) /\ result' = n.idx + n.size - current_idx
      BY <3>1, <3>2 DEF Query
    <3>4. n.idx \in Nat /\ n.size \in Nat /\ current_idx \in Int /\ read_size \in Nat
      BY <1>1 DEF Facts
    <3>5. n.idx <= current_idx /\ current_idx + read_size <= n.idx + n.size
      BY <3>1, <3>3, <3>4 DEF Holds
    <3>6. buf[p] = <<>>
      BY <3>1 DEF OneInv, Moves
    <3>7. Moves(p)'
      BY <1>2, <3>1, <3>3, <3>5 DEF Moves
    <3>8. Selects(p)' /\ Reads(p)'
      BY <1>2, <3>1, <3>6 DEF OneInv, Selects, Reads
    <3> QED
      BY <1>2, <1>3, <3>1, <3>7, <3>8 DEF OneInv
  <2> QED
    BY <2>1, <2>2
<1> QED
  BY <1>4, <1>5, <1>6

(* A byte that is written lies in the selected page, apart from the others. *)
LEMMA OneWrite ==
  ASSUME NEW p \in Procs, OneInv(p), TypeInv', write_byte(p)
  PROVE  OneInv(p)'
<1>1. Facts(p)
  BY OneFacts
<1>2. PICK page \in -1 .. POOL_SIZE : page = call[p].page
  BY <1>1 DEF Facts
<1>3. PICK bytes \in Nat : bytes = Len(buf[p])
  BY <1>1 DEF Facts
<1>4. /\ pc[p] = "writing" /\ page \in own[p] /\ current_idx = page
      /\ call[p].len <= want[page] /\ bytes <= call[p].len
      /\ Written(page, bytes)
  BY <1>2, <1>3 DEF write_byte, OneInv, Selects, Moves
<1>5. UNCHANGED <<allocVars, current_idx, read_size, own, want>>
  BY DEF write_byte
<1>6. PagesApart'
  BY <1>5 DEF OneInv, PagesApart, allocVars
<1>7. CASE Return(p)
  <2>1. memory' = memory
    BY <1>7, <1>3 DEF write_byte, Return, OneInv, TypeInv, OtherTypes
  <2>2. \/ text' = text
        \/ bytes >= call[p].len /\ text' = [text EXCEPT ![page] = bytes]
    <3>1. bytes \in Nat /\ call[p].len \in Nat
      BY <1>1 DEF Facts
    <3> QED
      BY <1>2, <1>3, <1>4, <1>7, <3>1 DEF write_byte
  <2>3. OwnsPages(p)' /\ Intact(p)'
    <3>1. CASE text' = text
      BY <1>5, <2>1, <3>1 DEF OneInv, OwnsPages, OwnsPage, Intact, Written, allocVars
    <3>2. CASE text' = [text EXCEPT ![page] = bytes]
      <4>1. text'[page] = bytes
        BY <1>4, <3>2 DEF OneInv, TypeInv, OtherTypes
      <4>2. \A k \in own[p] : k # page => text'[k] = text[k]
        BY <1>1, <3>2 DEF OneInv, TypeInv, OtherTypes, Facts
      <4>3. bytes <= want[page]
        BY <1>1, <1>4 DEF Facts
      <4>4. OwnsPages(p)'
        <5>1. ASSUME NEW k \in own[p], k # page
              PROVE  (k = -1 /\ text'[k] = 0) \/ OwnsPage(k)'
          BY <1>5, <4>2, <5>1 DEF OneInv, OwnsPages, OwnsPage, allocVars
        <5>2. CASE page = -1
          <6>1. bytes = 0
            BY <1>2, <1>3, <1>4, <5>2 DEF OneInv, Moves
          <6> QED
            BY <1>5, <4>1, <5>1, <5>2, <6>1 DEF OwnsPages
        <5>3. CASE page # -1
          <6>1. OwnsPage(page)'
            BY <1>4, <1>5, <4>1, <4>3, <5>3 DEF OneInv, OwnsPages, OwnsPage, allocVars
          <6> QED
            BY <1>5, <5>1, <6>1 DEF OwnsPages
        <5> QED
          BY <5>2, <5>3
      <4>5. Intact(p)'
        BY <1>4, <1>5, <2>1, <4>1, <4>2 DEF OneInv, Intact, Written
      <4> QED
        BY <4>4, <4>5
    <3> QED
      BY <2>2, <3>1, <3>2
  <2> QED
    BY <1>6, <1>7, <2>1, <2>3, OneReturn DEF OneInv, InsideThePool
<1>8. CASE ~ Return(p)
  <2> DEFINE ch == <<page, bytes>>
  <2>1. /\ bytes < call[p].len
        /\ memory' = [memory EXCEPT ![page + bytes] = ch]
        /\ buf' = [buf EXCEPT ![p] = Append(@, ch)]
        /\ UNCHANGED <<pc, text, call, size>>
        /\ ~ Outside(p)
    BY <1>2, <1>3, <1>4, <1>8 DEF write_byte, Place
  <2> page # -1
    <3>1. SUFFICES ASSUME page = -1 PROVE FALSE
      OBVIOUS
    <3>2. size[p] = -1
      BY <1>2, <1>4, <3>1 DEF OneInv, Moves
    <3> QED
      BY <1>3, <2>1, <3>2 DEF Outside
  <2>2. PICK n \in pages : n.idx = page /\ want[page] <= n.size
    BY <1>4 DEF OneInv, OwnsPages, OwnsPage
  <2>3. n.size \in Nat /\ want[page] \in Nat /\ call[p].len \in Nat /\ page \in Nat
    BY <1>1, <1>4 DEF Facts
  <2>4. bytes < n.size /\ page + bytes \in Area /\ page + bytes \in 0 .. POOL_SIZE - 1
    <3>1. bytes < n.size
      BY <1>4, <2>1, <2>2, <2>3
    <3>2. n.idx + n.size <= POOL_SIZE
      BY DEF OneInv, PagesApart
    <3> QED
      BY <1>1, <2>2, <2>3, <3>1, <3>2 DEF Area, Facts
  <2>5. ch \in Int \X Int
    BY <2>3
  <2>6. /\ memory' \in [Area -> Int \X Int]
        /\ memory'[page + bytes] = ch
        /\ \A a \in Area : a # page + bytes => memory'[a] = memory[a]
    BY <2>1, <2>4, <2>5 DEF OneInv
  <2> InsideThePool'
    BY <2>4, <2>6 DEF OneInv, InsideThePool
  <2>7. buf'[p] = Append(buf[p], ch)
    BY <2>1 DEF OneInv, TypeInv
  <2>8. buf'[p] \in Seq(Int \X Int) /\ Len(buf'[p]) = bytes + 1
    BY <1>3, <2>5, <2>7, AppendProperties DEF OneInv
  <2>9. \A k \in 0 .. bytes : memory'[page + k] = <<page, k>>
    <3>1. ASSUME NEW k \in 0 .. bytes - 1 PROVE memory'[page + k] = <<page, k>>
      <4>1. page + k \in Area /\ page + k # page + bytes
        BY <1>1, <2>3, <2>4 DEF Area, Facts
      <4> QED
        BY <1>4, <2>6, <4>1 DEF Written
    <3> QED
      BY <2>6, <3>1
  <2>10. Intact(p)'
    <3>1. ASSUME NEW idx \in own[p], NEW k \in 0 .. text[idx] - 1
          PROVE  memory'[idx + k] = <<idx, k>>
      <4> OwnsPage(idx)
        BY DEF OneInv, OwnsPages
      <4>1. PICK m \in pages : m.idx = idx /\ want[idx] <= m.size
        BY DEF OwnsPage
      <4>2. /\ idx \in Nat /\ k \in Nat /\ m.size \in Nat /\ want[idx] \in Nat
            /\ text[idx] \in Nat /\ text[idx] <= want[idx]
        BY <1>1, <4>1 DEF Facts, OwnsPage
      <4>3. k < m.size
        BY <4>1, <4>2
      <4>4. idx + k \in Area
        <5>1. idx + m.size <= POOL_SIZE
          BY <4>1 DEF OneInv, PagesApart
        <5>2. POOL_SIZE \in Nat
          BY PoolSize
        <5>3. 0 <= idx + k /\ idx + k <= 2 * POOL_SIZE
          BY <4>2, <4>3, <5>1, <5>2
        <5> QED
          BY <4>2, <5>3 DEF Area
      <4>5. CASE idx + k = page + bytes
        <5>1. ~ Apart(m, n)
          BY <2>2, <2>3, <2>4, <4>1, <4>2, <4>3, <4>5 DEF Apart
        <5>2. m = n
          BY <5>1 DEF OneInv, PagesApart
        <5> QED
          BY <2>2, <2>3, <2>6, <4>1, <4>2, <4>5, <5>2
      <4>6. CASE idx + k # page + bytes
        BY <2>6, <4>4, <4>6 DEF OneInv, Intact, Written
      <4> QED
        BY <4>5, <4>6
    <3> QED
      BY <1>5, <2>1, <3>1 DEF Intact, Written
  <2>11. Moves(p)'
    <3>1. Written(page, bytes + 1)'
      BY <2>9 DEF Written
    <3>2. bytes + 1 <= call[p].len
      BY <2>1, <2>3
    <3> QED
      BY <1>2, <1>4, <2>1, <2>8, <3>1, <3>2 DEF Moves
  <2>12. OwnsPages(p)' /\ Selects(p)' /\ Reads(p)'
    BY <1>4, <1>5, <2>1 DEF OneInv, OwnsPages, OwnsPage, Selects, Reads, allocVars
  <2> QED
    BY <1>6, <2>6, <2>8, <2>10, <2>11, <2>12 DEF OneInv
<1> QED
  BY <1>7, <1>8

(* A byte that is read is the one at the place the process has named.      *)
LEMMA OneRead ==
  ASSUME NEW p \in Procs, OneInv(p), TypeInv', read_byte(p)
  PROVE  OneInv(p)'
<1>1. Facts(p)
  BY OneFacts
<1>2. UNCHANGED <<allocVars, memory, current_idx, read_size, own, want, text>>
  BY DEF read_byte
<1>3. PagesApart' /\ OwnsPages(p)' /\ Intact(p)' /\ InsideThePool'
  BY <1>2 DEF OneInv, PagesApart, OwnsPages, OwnsPage, Intact, Written, InsideThePool,
              allocVars
<1>4. CASE Return(p)
  BY <1>2, <1>3, <1>4, OneReturn DEF OneInv
<1>5. CASE ~ Return(p)
  <2> DEFINE c == call[p]
             bytes == Len(buf[p])
             byte == memory[current_idx + bytes]
  <2>1. /\ pc[p] = "reading" /\ bytes < read_size
        /\ buf' = [buf EXCEPT ![p] = Append(@, byte)]
        /\ UNCHANGED <<pc, call, size>>
    BY <1>5 DEF read_byte
  <2>2. c.page \in own[p] /\ current_idx = c.page + c.from
    BY <2>1 DEF OneInv, Selects
  <2>3. PICK n \in pages :
          n.idx <= current_idx /\ current_idx + read_size <= n.idx + n.size
    BY <2>1 DEF OneInv, Moves
  <2>4. /\ c.page \in Int /\ c.from \in Nat /\ bytes \in Nat /\ read_size \in Nat
        /\ text[c.page] \in Nat
    BY <1>1, <2>2 DEF Facts
  <2>5. current_idx + bytes \in Area
    <3>1. n.idx + n.size <= POOL_SIZE
      BY DEF OneInv, PagesApart
    <3>2. /\ n.idx \in Nat /\ n.size \in Nat /\ current_idx \in Int
          /\ POOL_SIZE \in Nat
      BY <1>1 DEF Facts
    <3>3. PICK a, b, d, e, f \in Int :
            /\ a = current_idx /\ b = n.idx /\ d = bytes /\ e = n.size
            /\ f = read_size
      BY <2>4, <3>2
    <3>4. 0 <= b /\ 0 <= d /\ b <= a /\ a + f <= b + e /\ b + e <= POOL_SIZE /\ d < f
      BY <2>1, <2>3, <2>4, <3>1, <3>2, <3>3
    <3>5. a + d \in -1 .. 2 * POOL_SIZE
      BY <3>2, <3>4
    <3> QED
      BY <3>3, <3>5 DEF Area
  <2>6. byte \in Int \X Int
    BY <2>5 DEF OneInv
  <2>7. buf'[p] = Append(buf[p], byte)
    BY <2>1 DEF OneInv, TypeInv
  <2>8. /\ buf'[p] \in Seq(Int \X Int) /\ Len(buf'[p]) = bytes + 1
        /\ \A k \in 1 .. bytes : buf'[p][k] = buf[p][k]
        /\ buf'[p][bytes + 1] = byte
    BY <2>6, <2>7, AppendProperties DEF OneInv
  <2>9. c.from + bytes < text[c.page] => byte = <<c.page, c.from + bytes>>
    <3>1. Written(c.page, text[c.page])
      BY <2>2 DEF OneInv, Intact
    <3>2. current_idx + bytes = c.page + (c.from + bytes)
      BY <2>2, <2>4
    <3>3. PICK k \in Nat : k = c.from + bytes
      BY <2>4
    <3>4. k < text[c.page] => memory[c.page + k] = <<c.page, k>>
      BY <2>4, <3>1 DEF Written
    <3> QED
      BY <3>2, <3>3, <3>4
  <2>10. Reads(p)'
    <3>1. ASSUME NEW k \in 1 .. bytes + 1, c.from + k - 1 < text[c.page]
          PROVE  buf'[p][k] = <<c.page, c.from + k - 1>>
      <4>1. CASE k \in 1 .. bytes
        BY <2>1, <2>8, <3>1, <4>1 DEF OneInv, Reads
      <4>2. CASE k = bytes + 1
        <5>1. c.from + k - 1 = c.from + bytes
          BY <2>4, <4>2
        <5> QED
          BY <2>8, <2>9, <3>1, <4>2, <5>1
      <4> QED
        BY <2>4, <4>1, <4>2
    <3> QED
      BY <1>2, <2>1, <2>8, <3>1 DEF Reads
  <2>11. Moves(p)' /\ Selects(p)'
    BY <1>2, <2>1 DEF OneInv, Moves, Selects, allocVars
  <2> QED
    BY <1>2, <1>3, <2>8, <2>10, <2>11 DEF OneInv
<1> QED
  BY <1>4, <1>5

(* With one process, whose writes are no longer than what it asked for,    *)
(* the pages stay intact and read back what was written to them.           *)
LEMMA OneNext ==
  ASSUME NEW p, Procs = {p}, Careful
  PROVE  OneInv(p) /\ [Next]_vars => OneInv(p)'
<1> SUFFICES ASSUME OneInv(p), [Next]_vars PROVE OneInv(p)'
  OBVIOUS
<1>1. p \in Procs
  OBVIOUS
<1>2. TypeInv'
  BY TypeNext DEF OneInv
<1>3. CASE UNCHANGED vars
  BY <1>2, <1>3
     DEF vars, allocVars, procVars, OneInv, InsideThePool, PagesApart, OwnsPages,
         OwnsPage, Intact, Written, Selects, Moves, Reads
<1>4. CASE init_mod \/ exit_mod
  BY <1>1, <1>2, <1>4, OneLoad
<1>5. CASE \E n \in Requests : get_mem(p, n)
  BY <1>1, <1>2, <1>5, OneGet
<1>6. ASSUME NEW idx \in own[p], free_mem(p, idx) PROVE OneInv(p)'
  BY <1>1, <1>2, <1>6, OneFree
<1>7. ASSUME NEW idx \in own[p], NEW n \in Requests,
             \/ write_mem(p, idx, n)
             \/ \E from \in 0 .. want[idx] - 1 : read_mem(p, idx, from, n)
      PROVE  OneInv(p)'
  BY <1>1, <1>2, <1>7, OneSelect
<1>8. CASE ioctl_write(p) \/ ioctl_set_read_size(p) \/ ioctl_read(p)
  BY <1>1, <1>2, <1>8, OneIoctl
<1>9. CASE write_byte(p)
  BY <1>1, <1>2, <1>9, OneWrite
<1>10. CASE read_byte(p)
  BY <1>1, <1>2, <1>10, OneRead
<1> QED
  BY <1>3, <1>4, <1>5, <1>6, <1>7, <1>8, <1>9, <1>10 DEF Next

(* The invariant that the next three results rest on.                      *)
THEOREM OneInvariant ==
  ASSUME NEW CONSTANT p, Procs = {p}, Careful
  PROVE  Spec => []OneInv(p)
<1>1. p \in Procs
  OBVIOUS
<1>2. Init => OneInv(p)
  BY <1>1, OneInit
<1>3. OneInv(p) /\ [Next]_vars => OneInv(p)'
  BY OneNext
<1> QED
  BY <1>2, <1>3, PTL DEF Spec

(* No write reaches a byte before or behind the pool: not the write of a   *)
(* page, which ends inside it, and not a write after a refused request,    *)
(* whose -1 gets the size -1 and fails the test of vmm.c:75.               *)
THEOREM InsideCorrect ==
  ASSUME NEW CONSTANT p, Procs = {p}, Careful
  PROVE  Spec => []InsideThePool
<1>1. OneInv(p) => InsideThePool
  BY DEF OneInv
<1> QED
  BY <1>1, OneInvariant, PTL

(* What was written to a page stays there until the page is freed          *)
(* (vmm.c:74), for one process as in vmm_test.c.                           *)
THEOREM PagesCorrect ==
  ASSUME NEW CONSTANT p, Procs = {p}, Careful
  PROVE  Spec => []PagesIntact
<1>1. OneInv(p) => PagesIntact
  <2> SUFFICES ASSUME OneInv(p) PROVE PagesIntact
    OBVIOUS
  <2>1. UNION {own[q] : q \in Procs} = own[p]
    OBVIOUS
  <2> QED
    BY <2>1 DEF OneInv, Intact, Written, PagesIntact
<1> QED
  BY <1>1, OneInvariant, PTL

(* read_mem returns the bytes that were written to the page it names, for  *)
(* one process: nobody else changes current_idx or read_size (vmm.c:44)    *)
(* between its ioctls.                                                     *)
THEOREM PageReadsBackCorrect ==
  ASSUME NEW CONSTANT p, Procs = {p}, Careful
  PROVE  Spec => []PageReadsBack
<1>1. OneInv(p) => PageReadsBack
  BY DEF OneInv, Reads, PageReadsBack
<1> QED
  BY <1>1, OneInvariant, PTL
=============================================================================
