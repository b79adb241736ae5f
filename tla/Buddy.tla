------------------------------- MODULE Buddy -------------------------------
(***************************************************************************)
(* The buddy allocator of hw5_vmm (buddy.c, buddy.h).  A node of the tree  *)
(* is told by its index and size, which never change and which no two      *)
(* nodes share; its children are the halves it was split into.  The        *)
(* recursive functions walk the tree call by call: cur is the node of the  *)
(* running call and stack holds its callers.  A caller that returns what   *)
(* the call returns needs no frame.                                        *)
(***************************************************************************)
EXTENDS Pages, Sequences

VARIABLES
  buddy_head,  \* the root of the tree, or NULL
  state,       \* state[n]: the state of node n of the tree
  op,          \* the function that runs, "back" when _buddy_free returns
  arg,         \* its size or idx
  cur,         \* the node it is called for
  stack,       \* its callers: their node and the side they have called
  freed,       \* has a call of _buddy_free returned 0?
  rt,          \* what the last function returned
  asked        \* asked[idx]: the bytes that were asked for the page at idx

tree == <<buddy_head, state, asked>>
walk == <<op, arg, cur, stack, freed>>
buddyVars == <<tree, walk, rt>>

NULL == Page(0, -1)
Left(n) == Page(n.idx, n.size \div 2)
Right(n) == Page(n.idx + n.size \div 2, n.size \div 2)

BuddyInit ==
  /\ buddy_head = NULL /\ state = <<>> /\ asked = <<>>
  /\ op = "none" /\ arg = 0 /\ cur = NULL /\ stack = <<>> /\ freed = FALSE
  /\ rt = 0

(* buddy_init: -1 when the pool or the head node cannot be allocated.      *)
buddy_init(size) ==
  /\ op = "none"
  /\ buddy_head = NULL
  /\ \/ /\ buddy_head' = Page(0, size)
        /\ state' = [n \in {Page(0, size)} |-> "FREE"]
        /\ rt' = 0
     \/ UNCHANGED <<buddy_head, state>> /\ rt' = -1
  /\ UNCHANGED <<asked, walk>>

(* The call of one of the recursive functions for the head node, and the   *)
(* return from it.                                                         *)
Call(function, x) ==
  /\ op = "none"
  /\ buddy_head # NULL
  /\ op' = function
  /\ arg' = x
  /\ cur' = buddy_head
  /\ UNCHANGED <<tree, stack, freed, rt>>

Reply(value) ==
  /\ op' = "none"
  /\ arg' = 0
  /\ cur' = NULL
  /\ stack' = <<>>
  /\ freed' = FALSE
  /\ rt' = value

buddy_alloc(size) == Call("alloc", size)
buddy_free(idx) == Call("free", idx)
buddy_size(idx) == Call("size", idx)

(* The node calls its function for the child on this side; or it has no    *)
(* page, and the next caller tries its other side.                         *)
Child(n, side) == IF side = "left" THEN Left(n) ELSE Right(n)
Other(side) == IF side = "left" THEN "right" ELSE "left"

Recurse(side) ==
  /\ stack' = <<[node |-> cur, side |-> side]>> \o stack
  /\ cur' = Child(cur, side)
  /\ UNCHANGED <<op, arg, freed, rt>>

(* Mutant: the other side is not tried.                                    *)
Fail_GivesUp == Reply(-1)
Fail ==
  IF stack = <<>> THEN Reply(-1)
  ELSE /\ cur' = Child(Head(stack).node, Other(Head(stack).side))
       /\ stack' = Tail(stack)
       /\ UNCHANGED <<op, arg, freed, rt>>

-----------------------------------------------------------------------------
(* "make two new nodes below us with half our size"                        *)
(* Mutant: the right node is not made.                                     *)
Split_NoRight(n) ==
  [m \in DOMAIN state \cup {Left(n)} |->
     IF m = n THEN "SPLIT" ELSE IF m = Left(n) THEN "FREE" ELSE state[m]]
Split(n) ==
  [m \in DOMAIN state \cup {Left(n), Right(n)} |->
     IF m = n THEN "SPLIT"
     ELSE IF m \in {Left(n), Right(n)} THEN "FREE" ELSE state[m]]

(* "check if we have enough space to make a split"                         *)
(* Mutant: off by one.                                                     *)
CanSplit_OffByOne(n, size) == n.size \div 2 > size
CanSplit(n, size) == n.size \div 2 >= size

(* The left side is tried before the right one, and a free node that is    *)
(* at least twice as large as the request is split.                        *)
_buddy_alloc ==
  /\ op = "alloc"
  /\ \/ /\ state[cur] = "SPLIT"
        /\ Recurse("left")
        /\ UNCHANGED <<state, asked>>
     \/ /\ state[cur] = "ALLOC" \/ (state[cur] = "FREE" /\ cur.size < arg)
        /\ Fail
        /\ UNCHANGED <<state, asked>>
     \/ /\ state[cur] = "FREE" /\ cur.size >= arg
        /\ CanSplit(cur, arg)
        /\ state' = Split(cur)
        /\ cur' = Left(cur)
        /\ UNCHANGED <<asked, op, arg, stack, freed, rt>>
     \/ /\ state[cur] = "FREE" /\ cur.size >= arg
        /\ ~ CanSplit(cur, arg)
        /\ state' = [state EXCEPT ![cur] = "ALLOC"]
        /\ asked' = [k \in DOMAIN asked \cup {cur.idx} |->
                       IF k = cur.idx THEN arg ELSE asked[k]]
        /\ Reply(cur.idx)
  /\ UNCHANGED buddy_head

-----------------------------------------------------------------------------
(* "check if we should merge this split", once both sides have returned.   *)
(* Mutant: never.                                                          *)
Joined_Never(n) == state
Joined(n) ==
  IF state[Left(n)] = "FREE" /\ state[Right(n)] = "FREE"
  THEN [m \in DOMAIN state \ {Left(n), Right(n)} |->
          IF m = n THEN "FREE" ELSE state[m]]
  ELSE state

(* Mutant: a free node is taken for the page.                              *)
IsPage_AnyState(n, idx) == n.idx = idx
IsPage(n, idx) == n.idx = idx /\ state[n] = "ALLOC"

(* Both sides of every split are searched.                                 *)
_buddy_free ==
  /\ \/ /\ op = "free"
        /\ state[cur] = "SPLIT"
        /\ Recurse("left")
        /\ UNCHANGED <<state, asked>>
     \/ /\ op = "free"
        /\ state[cur] # "SPLIT"
        /\ op' = "back"
        /\ IF IsPage(cur, arg)
           THEN /\ state' = [state EXCEPT ![cur] = "FREE"]
                /\ freed' = TRUE
                /\ asked' = [k \in DOMAIN asked \ {arg} |-> asked[k]]
           ELSE UNCHANGED <<state, freed, asked>>
        /\ UNCHANGED <<arg, cur, stack, rt>>
     \/ /\ op = "back" /\ stack # <<>>
        /\ Head(stack).side = "left"
        /\ op' = "free"
        /\ cur' = Right(Head(stack).node)
        /\ stack' = <<[Head(stack) EXCEPT !.side = "right"]>> \o Tail(stack)
        /\ UNCHANGED <<state, asked, arg, freed, rt>>
     \/ /\ op = "back" /\ stack # <<>>
        /\ Head(stack).side = "right"
        /\ state' = Joined(Head(stack).node)
        /\ cur' = Head(stack).node
        /\ stack' = Tail(stack)
        /\ UNCHANGED <<asked, op, arg, freed, rt>>
     \/ /\ op = "back" /\ stack = <<>>
        /\ Reply(IF freed THEN 0 ELSE -1)
        /\ UNCHANGED <<state, asked>>
  /\ UNCHANGED buddy_head

-----------------------------------------------------------------------------
(* Bytes from idx to the end of its page; the right side is tried first.   *)
_buddy_size ==
  /\ op = "size"
  /\ \/ state[cur] = "SPLIT" /\ Recurse("right")
     \/ /\ state[cur] = "ALLOC" /\ Holds(cur, arg)
        /\ Reply(cur.idx + cur.size - arg)
     \/ /\ state[cur] = "FREE" \/ (state[cur] = "ALLOC" /\ ~ Holds(cur, arg))
        /\ Fail
  /\ UNCHANGED tree

(* The nodes are freed; the program may call buddy_init again.             *)
buddy_kill ==
  /\ op = "none"
  /\ buddy_head # NULL
  /\ buddy_head' = NULL
  /\ state' = <<>>
  /\ asked' = <<>>
  /\ UNCHANGED <<walk, rt>>

BuddyNext ==
  \/ \E size \in PoolSizes : buddy_init(size)
  \/ \E size \in Requests : buddy_alloc(size)
  \/ \E idx \in Indexes : buddy_free(idx) \/ buddy_size(idx)
  \/ _buddy_alloc
  \/ _buddy_free
  \/ _buddy_size
  \/ buddy_kill

BuddySpec == BuddyInit /\ [][BuddyNext]_buddyVars

-----------------------------------------------------------------------------
Nodes == DOMAIN state
InState(s) == {n \in Nodes : state[n] = s}

BuddyTypeOK ==
  /\ Nodes \subseteq [idx : Nat, size : Nat]
  /\ state \in [Nodes -> {"FREE", "SPLIT", "ALLOC"}]
  /\ buddy_head \in Nodes \cup {NULL}
  /\ asked \in [{n.idx : n \in InState("ALLOC")} -> Requests]
  /\ op \in {"none", "alloc", "free", "back", "size"}
  /\ arg \in Int
  /\ cur \in Nodes \cup {NULL}
  /\ stack \in Seq([node : InState("SPLIT"), side : {"left", "right"}])
  /\ freed \in BOOLEAN
  /\ rt \in Int

(* The tree is an allocator: each call has the effect and the result of    *)
(* one on whole pages.  Pages are inside the pool, large enough and never  *)
(* overlap; free takes back just the page it names, at the moment a node   *)
(* is marked as free; and size finds the page around an index on whichever *)
(* side of whichever split it is.                                          *)
Abstract == INSTANCE AllocatorCalls WITH
  pool <- buddy_head.size,
  pages <- InState("ALLOC"),
  result <- IF freed THEN 0 ELSE rt,
  pending <- IF freed THEN <<"none", 0>>
             ELSE <<IF op = "back" THEN "free" ELSE op, arg>>
IsAllocator == Abstract!CallsSpec

(* Free space is always coalesced: whatever the order in which pages are   *)
(* freed, no split survives with both halves free (README: "If both        *)
(* children are `FREE` they are deallocated and the parent node is marked  *)
(* as `FREE`").                                                            *)
Coalesced ==
  op = "none" =>
    \A n \in InState("SPLIT") :
      state[Left(n)] # "FREE" \/ state[Right(n)] # "FREE"

(* A page is less than twice as large as it has to be (README: "broken in  *)
(* half until the smallest space that will properly allocate the request   *)
(* is achieved"): half of it would not have been enough.                   *)
TightFit ==
  \A n \in InState("ALLOC") :
    n.size >= asked[n.idx] /\ n.size \div 2 < asked[n.idx]

(* The blocks that root can be split into: Level(root)[d] after d splits.  *)
Level(root) ==
  LET level[d \in Nat] ==
        IF d = 0 THEN {root}
        ELSE {Left(n) : n \in level[d - 1]} \cup {Right(n) : n \in level[d - 1]}
  IN  level
Blocks(root) == UNION {Level(root)[d] : d \in 0 .. root.size}

(* alloc refuses a request only when there is no room: no block of a size  *)
(* and at a place the tree can have, and large enough, is without a page.  *)
NeverRefusesInVain ==
  [][op = "alloc" /\ op' = "none" /\ rt' = -1 =>
       \A b \in Blocks(buddy_head) :
         b.size >= arg => \E n \in InState("ALLOC") : ~ Apart(b, n)]_buddyVars

(* Whatever calls led to it, the tree is the one that the pages alone      *)
(* determine: a block is split exactly if a smaller page lies in it.  So   *)
(* freeing a page gives back the very tree from before it was allocated.   *)
OnlyPagesMatter ==
  op = "none" /\ buddy_head # NULL =>
    LET pages == InState("ALLOC")
        cut == {b \in Blocks(buddy_head) : \E n \in pages : n # b /\ Inside(n, b)}
        made == {Left(b) : b \in cut} \cup {Right(b) : b \in cut}
    IN  state = [n \in made \cup {buddy_head} |->
                   IF n \in pages THEN "ALLOC"
                   ELSE IF n \in cut THEN "SPLIT" ELSE "FREE"]
=============================================================================
