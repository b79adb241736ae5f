----------------------------- MODULE BuddyProof -----------------------------
(***************************************************************************)
(* What is proved of the buddy allocator of hw5_vmm, for every size of the *)
(* pool, every request and every index: nodes as intervals, the shape of   *)
(* the tree, the walks through it, the allocator it implements, and the    *)
(* blocks that a tree with these pages has to have.                        *)
(***************************************************************************)
EXTENDS Buddy, SequenceTheorems, WellFoundedInduction, TLAPS

(* Nodes as intervals.                                                     *)
Node == [idx : Nat, size : Nat]
Below(m, n) == Inside(m, Left(n)) \/ Inside(m, Right(n))

LEMMA NodeFields ==
  ASSUME NEW n \in Node PROVE n.idx \in Nat /\ n.size \in Nat
BY DEF Node

LEMMA NodeEq ==
  \A m, n \in Node : m.idx = n.idx /\ m.size = n.size => m = n
BY DEF Node

LEMMA PageNode ==
  \A i, s \in Nat : Page(i, s) \in Node /\ Page(i, s).idx = i /\ Page(i, s).size = s
BY DEF Node, Page

(* The two halves of a node.                                               *)
HalfFacts(n) ==
  /\ Left(n) \in Node /\ Right(n) \in Node
  /\ Left(n).idx = n.idx /\ Left(n).size = n.size \div 2
  /\ Right(n).idx = n.idx + n.size \div 2 /\ Right(n).size = n.size \div 2

LEMMA Half == \A s \in Nat : s \div 2 \in Nat /\ 2 * (s \div 2) <= s
OBVIOUS

LEMMA HalfNodes == \A n \in Node : HalfFacts(n)
<1> TAKE n \in Node
<1>1. PICK i, s, h \in Nat : i = n.idx /\ s = n.size /\ h = n.size \div 2
  BY NodeFields, Half
<1>2. Left(n) = Page(i, h) /\ Right(n) = Page(i + h, h)
  BY <1>1 DEF Left, Right
<1>3. i + h \in Nat
  OBVIOUS
<1>4. /\ Page(i, h) \in Node /\ Page(i, h).idx = i /\ Page(i, h).size = h
      /\ Page(i + h, h) \in Node /\ Page(i + h, h).idx = i + h
      /\ Page(i + h, h).size = h
  BY <1>3, PageNode
<1> QED
  BY <1>1, <1>2, <1>4 DEF HalfFacts

(* The halves of a node that can be split.                                 *)
CanHalve(n) == n.size \div 2 >= 1
HalvesFit(n) ==
  /\ Apart(Left(n), Right(n)) /\ Apart(Right(n), Left(n))
  /\ Inside(Left(n), n) /\ Inside(Right(n), n)
  /\ Left(n).size < n.size /\ Right(n).size < n.size
  /\ Left(n).size >= 1 /\ Right(n).size >= 1 /\ n.size >= 1
  /\ Left(n) # Right(n) /\ Left(n) # n /\ Right(n) # n
  /\ ~ Inside(n, Left(n)) /\ ~ Inside(n, Right(n))

LEMMA HalvesOfNode == \A n \in Node : CanHalve(n) => HalvesFit(n)
<1> SUFFICES ASSUME NEW n \in Node, CanHalve(n) PROVE HalvesFit(n)
  OBVIOUS
<1>1. PICK i, s, h \in Nat :
        i = n.idx /\ s = n.size /\ h = n.size \div 2 /\ 2 * h <= s /\ h >= 1
  BY NodeFields, Half DEF CanHalve
<1>2. /\ Left(n).idx = i /\ Left(n).size = h
      /\ Right(n).idx = i + h /\ Right(n).size = h
  BY <1>1, HalfNodes DEF HalfFacts
<1> QED
  BY <1>1, <1>2 DEF HalvesFit, Apart, Inside

LEMMA InsideTrans ==
  \A a, b, c \in Node : Inside(a, b) /\ Inside(b, c) => Inside(a, c)
<1> SUFFICES ASSUME NEW a \in Node, NEW b \in Node, NEW c \in Node,
                    Inside(a, b), Inside(b, c)
             PROVE  Inside(a, c)
  OBVIOUS
<1> QED
  BY NodeFields DEF Inside

LEMMA InsideSelf == \A a \in Node : Inside(a, a)
BY NodeFields DEF Inside

LEMMA InsideApart ==
  \A a, b, c \in Node : Inside(a, b) /\ Apart(b, c) => Apart(a, c)
<1> SUFFICES ASSUME NEW a \in Node, NEW b \in Node, NEW c \in Node,
                    Inside(a, b), Apart(b, c)
             PROVE  Apart(a, c)
  OBVIOUS
<1> QED
  BY NodeFields DEF Inside, Apart

LEMMA ApartSym == \A a, b \in Node : Apart(a, b) => Apart(b, a)
BY DEF Apart

LEMMA InsideNotApart ==
  \A a, b \in Node : Inside(a, b) /\ a.size >= 1 => ~ Apart(a, b)
<1> SUFFICES ASSUME NEW a \in Node, NEW b \in Node, Inside(a, b), a.size >= 1,
                    Apart(a, b)
             PROVE  FALSE
  OBVIOUS
<1> QED
  BY NodeFields DEF Inside, Apart

LEMMA InsideSize == \A a, b \in Node : Inside(a, b) => a.size <= b.size
<1> SUFFICES ASSUME NEW a \in Node, NEW b \in Node, Inside(a, b)
             PROVE  a.size <= b.size
  OBVIOUS
<1> QED
  BY NodeFields DEF Inside

LEMMA InsideEq == \A a, b \in Node : Inside(a, b) /\ Inside(b, a) => a = b
<1> SUFFICES ASSUME NEW a \in Node, NEW b \in Node, Inside(a, b), Inside(b, a)
             PROVE  a = b
  OBVIOUS
<1>1. a.idx = b.idx /\ a.size = b.size
  BY NodeFields DEF Inside
<1> QED
  BY <1>1, NodeEq

(* What lies in a half of a node is smaller than the node.                 *)
LEMMA BelowFacts ==
  \A m, n \in Node : CanHalve(n) /\ Below(m, n) =>
    Inside(m, n) /\ m # n /\ ~ Inside(n, m) /\ m.size < n.size
<1> SUFFICES ASSUME NEW m \in Node, NEW n \in Node, CanHalve(n), Below(m, n)
             PROVE  Inside(m, n) /\ m # n /\ ~ Inside(n, m) /\ m.size < n.size
  OBVIOUS
<1>1. Left(n) \in Node /\ Right(n) \in Node /\ HalvesFit(n)
  BY HalfNodes, HalvesOfNode DEF HalfFacts
<1>2. PICK h \in {Left(n), Right(n)} : Inside(m, h)
  BY DEF Below
<1>3. h \in Node /\ Inside(h, n) /\ h.size < n.size /\ ~ Inside(n, h)
  BY <1>1 DEF HalvesFit
<1>4. Inside(m, n)
  BY <1>2, <1>3, InsideTrans
<1>5. m.size <= h.size
  BY <1>2, <1>3, InsideSize
<1>6. m.size < n.size
  BY <1>3, <1>5, NodeFields
<1>7. ~ Inside(n, m)
  BY <1>2, <1>3, InsideTrans
<1> QED
  BY <1>4, <1>6, <1>7, InsideSelf

-----------------------------------------------------------------------------
(* The shape of a tree with root r whose nodes have the states st: two     *)
(* nodes are apart, or one lies in a half of the other, which is split.    *)
Marks == {"FREE", "SPLIT", "ALLOC"}
IsSplit(st, n) == st[n] = "SPLIT"
Nested(st, m, n) == IsSplit(st, n) /\ Below(m, n)
ChildOf(m, n) == m = Left(n) \/ m = Right(n)

Laminar(st) ==
  \A m, n \in DOMAIN st :
    m # n => Apart(m, n) \/ Nested(st, m, n) \/ Nested(st, n, m)
InRoot(st, r) == \A n \in DOMAIN st : Inside(n, r) /\ (n # r => n.size >= 1)
SplitsHave(st) ==
  \A n \in DOMAIN st : IsSplit(st, n) =>
    CanHalve(n) /\ Left(n) \in DOMAIN st /\ Right(n) \in DOMAIN st
HaveParents(st, r) ==
  \A n \in DOMAIN st : n # r => \E m \in DOMAIN st : IsSplit(st, m) /\ ChildOf(n, m)

TreeOK(st, r) ==
  /\ DOMAIN st \subseteq Node
  /\ st \in [DOMAIN st -> Marks]
  /\ r \in DOMAIN st
  /\ InRoot(st, r)
  /\ SplitsHave(st)
  /\ Laminar(st)
  /\ HaveParents(st, r)

(* A node that is not split has nothing in it.                             *)
LEMMA LeafAlone ==
  ASSUME NEW st, NEW r, TreeOK(st, r),
         NEW n \in DOMAIN st, ~ IsSplit(st, n),
         NEW m \in DOMAIN st, Inside(m, n), m.size >= 1
  PROVE  m = n
<1> SUFFICES ASSUME m # n PROVE FALSE
  OBVIOUS
<1>1. m \in Node /\ n \in Node
  BY DEF TreeOK
<1>2. ~ Apart(m, n)
  BY <1>1, InsideNotApart
<1>3. Nested(st, n, m)
  BY <1>2 DEF TreeOK, Laminar, Nested
<1>4. CanHalve(m) /\ Below(n, m)
  BY <1>3 DEF TreeOK, SplitsHave, Nested
<1> QED
  BY <1>1, <1>4, BelowFacts

(* A node of the tree has one parent, and the root has none.               *)
LEMMA OneParent ==
  ASSUME NEW st, NEW r, TreeOK(st, r),
         NEW c \in DOMAIN st,
         NEW m \in DOMAIN st, IsSplit(st, m), ChildOf(c, m),
         NEW n \in DOMAIN st, IsSplit(st, n), ChildOf(c, n)
  PROVE  m = n
<1>1. c \in Node /\ m \in Node /\ n \in Node
  BY DEF TreeOK
<1>2. HalvesFit(m) /\ HalvesFit(n)
  BY <1>1, HalvesOfNode DEF TreeOK, SplitsHave
<1>3. c.size >= 1 /\ Inside(c, m) /\ Inside(c, n)
  BY <1>2 DEF HalvesFit, ChildOf
<1>4. ASSUME NEW a \in Node, NEW b \in Node, HalvesFit(a), HalvesFit(b),
             ChildOf(c, a), ChildOf(c, b), Below(a, b)
      PROVE  FALSE
  <2>1. ~ Inside(a, c) /\ Inside(c, a)
    BY <1>4 DEF HalvesFit, ChildOf
  <2>2. PICK h \in {Left(b), Right(b)} : Inside(a, h)
    BY <1>4 DEF Below
  <2>3. h # c
    BY <2>1, <2>2
  <2>4. h \in Node
    BY <1>4, HalfNodes DEF HalfFacts
  <2>5. Apart(h, c)
    BY <1>4, <2>2, <2>3 DEF HalvesFit, ChildOf
  <2>6. Apart(a, c)
    BY <1>1, <1>4, <2>2, <2>4, <2>5, InsideApart
  <2> QED
    BY <1>1, <1>3, <1>4, <2>1, <2>6, InsideNotApart, ApartSym
<1>5. ~ Apart(m, n)
  <2> SUFFICES ASSUME Apart(m, n) PROVE FALSE
    OBVIOUS
  <2>1. Apart(c, n)
    BY <1>1, <1>3, InsideApart
  <2> QED
    BY <1>1, <1>3, <2>1, InsideNotApart
<1>6. ~ Nested(st, m, n) /\ ~ Nested(st, n, m)
  BY <1>1, <1>2, <1>4 DEF Nested
<1> QED
  BY <1>5, <1>6 DEF TreeOK, Laminar

LEMMA RootNoChild ==
  ASSUME NEW st, NEW r, TreeOK(st, r), NEW m \in DOMAIN st, IsSplit(st, m)
  PROVE  ~ ChildOf(r, m)
<1>1. m \in Node /\ r \in Node /\ Inside(m, r)
  BY DEF TreeOK, InRoot
<1>2. HalvesFit(m)
  BY <1>1, HalvesOfNode DEF TreeOK, SplitsHave
<1> QED
  BY <1>1, <1>2 DEF HalvesFit, ChildOf

(* A leaf is marked.                                                       *)
LEMMA MarkTree ==
  ASSUME NEW st, NEW r, TreeOK(st, r), NEW n \in DOMAIN st, ~ IsSplit(st, n),
         NEW x \in {"FREE", "ALLOC"}, NEW s2, s2 = [st EXCEPT ![n] = x]
  PROVE  TreeOK(s2, r)
<1>1. DOMAIN s2 = DOMAIN st /\ s2 \in [DOMAIN s2 -> Marks]
  BY DEF TreeOK, Marks
<1>2. \A m \in DOMAIN st : IsSplit(s2, m) <=> IsSplit(st, m)
  BY DEF IsSplit, TreeOK
<1>3. Laminar(s2)
  BY <1>1, <1>2 DEF TreeOK, Laminar, Nested
<1>4. SplitsHave(s2) /\ HaveParents(s2, r) /\ InRoot(s2, r)
  BY <1>1, <1>2 DEF TreeOK, SplitsHave, HaveParents, InRoot
<1> QED
  BY <1>1, <1>3, <1>4 DEF TreeOK

(* A leaf is split.                                                        *)
LEMMA SplitTree ==
  ASSUME NEW st, NEW r, TreeOK(st, r),
         NEW n \in DOMAIN st, ~ IsSplit(st, n), CanHalve(n),
         NEW s2,
         s2 = [m \in DOMAIN st \cup {Left(n), Right(n)} |->
                 IF m = n THEN "SPLIT"
                 ELSE IF m \in {Left(n), Right(n)} THEN "FREE" ELSE st[m]]
  PROVE  /\ TreeOK(s2, r)
         /\ Left(n) \notin DOMAIN st /\ Right(n) \notin DOMAIN st
<1> DEFINE H == {Left(n), Right(n)}
<1>1. n \in Node /\ H \subseteq Node /\ HalvesFit(n)
  BY HalfNodes, HalvesOfNode DEF TreeOK, HalfFacts
<1>2. \A h \in H : h \in Node /\ Inside(h, n) /\ h.size >= 1 /\ h # n
  BY <1>1 DEF HalvesFit
<1>3. \A h \in H : h \notin DOMAIN st
  BY <1>2, LeafAlone
<1> HIDE DEF H
<1>4. /\ DOMAIN s2 = DOMAIN st \cup H
      /\ IsSplit(s2, n)
      /\ \A h \in H : s2[h] = "FREE"
      /\ \A m \in DOMAIN st : m # n => s2[m] = st[m]
  BY <1>2, <1>3 DEF IsSplit, H
<1>5. \A m \in DOMAIN st : m # n => (IsSplit(s2, m) <=> IsSplit(st, m))
  BY <1>4 DEF IsSplit
<1>6. \A h \in H : ~ IsSplit(s2, h)
  BY <1>4 DEF IsSplit
<1>7. s2 \in [DOMAIN s2 -> Marks]
  BY DEF TreeOK, Marks
<1>8. \A m \in DOMAIN st : m # n => Apart(m, n) \/ Nested(st, n, m)
  BY DEF TreeOK, Laminar, Nested
<1>9. \A m \in DOMAIN st, h \in H :
        m # n => (Apart(m, h) /\ Apart(h, m)) \/ Nested(s2, h, m)
  <2> SUFFICES ASSUME NEW m \in DOMAIN st, NEW h \in H, m # n
               PROVE  (Apart(m, h) /\ Apart(h, m)) \/ Nested(s2, h, m)
    OBVIOUS
  <2>1. m \in Node /\ h \in Node /\ Left(m) \in Node /\ Right(m) \in Node
    BY <1>2, HalfNodes DEF TreeOK, HalfFacts
  <2>2. CASE Apart(m, n)
    BY <1>1, <1>2, <2>1, <2>2, InsideApart, ApartSym
  <2>3. CASE Nested(st, n, m)
    <3>1. Below(h, m)
      BY <1>1, <1>2, <2>1, <2>3, InsideTrans DEF Nested, Below
    <3> QED
      BY <1>5, <2>3, <3>1 DEF Nested
  <2> QED
    BY <1>8, <2>2, <2>3
<1>10. \A h \in H : Nested(s2, h, n)
  BY <1>1, <1>4, InsideSelf DEF Nested, Below, H
<1>11. \A g, h \in H : g # h => Apart(g, h)
  BY <1>1 DEF H, HalvesFit
<1>12. \A m, o \in DOMAIN st :
         m # o => Apart(m, o) \/ Nested(s2, m, o) \/ Nested(s2, o, m)
  BY <1>5, <1>8, ApartSym DEF TreeOK, Laminar, Nested
<1>13. Laminar(s2)
  BY <1>4, <1>9, <1>10, <1>11, <1>12 DEF Laminar
<1>14. SplitsHave(s2)
  BY <1>4, <1>5, <1>6 DEF TreeOK, SplitsHave, H
<1>15. HaveParents(s2, r)
  <2>1. \A h \in H : ChildOf(h, n)
    BY DEF H, ChildOf
  <2> QED
    BY <1>4, <1>5, <2>1 DEF TreeOK, HaveParents
<1>16. InRoot(s2, r)
  <2>1. r \in Node /\ Inside(n, r)
    BY DEF TreeOK, InRoot
  <2>2. \A h \in H : Inside(h, r)
    BY <1>1, <1>2, <2>1, InsideTrans
  <2> QED
    BY <1>2, <1>4, <2>2 DEF TreeOK, InRoot
<1>17. DOMAIN s2 \subseteq Node
  BY <1>2, <1>4 DEF TreeOK
<1> QED
  BY <1>3, <1>4, <1>7, <1>13, <1>14, <1>15, <1>16, <1>17 DEF TreeOK, H

(* Two leaves share nothing.                                               *)
LEMMA LeavesApart ==
  ASSUME NEW st, NEW r, TreeOK(st, r),
         NEW m \in DOMAIN st, ~ IsSplit(st, m),
         NEW n \in DOMAIN st, ~ IsSplit(st, n), m # n
  PROVE  Apart(m, n)
BY DEF TreeOK, Laminar, Nested

(* What lies in a split node lies in one of its halves.                    *)
LEMMA InHalf ==
  ASSUME NEW st, NEW r, TreeOK(st, r),
         NEW n \in DOMAIN st, IsSplit(st, n),
         NEW m \in DOMAIN st, ~ IsSplit(st, m), m.size >= 1, Inside(m, n)
  PROVE  Below(m, n)
<1>1. m # n /\ m \in Node /\ n \in Node
  BY DEF TreeOK
<1>2. ~ Apart(m, n)
  BY <1>1, InsideNotApart
<1> QED
  BY <1>1, <1>2 DEF TreeOK, Laminar, Nested

(* The halves of a split node go when both are free.                       *)
LEMMA JoinTree ==
  ASSUME NEW st, NEW r, TreeOK(st, r),
         NEW n \in DOMAIN st, IsSplit(st, n),
         st[Left(n)] = "FREE", st[Right(n)] = "FREE",
         NEW s2,
         s2 = [m \in DOMAIN st \ {Left(n), Right(n)} |->
                 IF m = n THEN "FREE" ELSE st[m]]
  PROVE  TreeOK(s2, r) /\ n \in DOMAIN s2 /\ s2[n] = "FREE"
<1> DEFINE H == {Left(n), Right(n)}
<1>1. n \in Node /\ H \subseteq DOMAIN st /\ HalvesFit(n) /\ H \subseteq Node
  BY HalvesOfNode DEF TreeOK, SplitsHave
<1>2. \A h \in H : /\ Inside(h, n) /\ h.size >= 1 /\ h # n
                   /\ ~ IsSplit(st, h) /\ ChildOf(h, n)
  BY <1>1 DEF HalvesFit, IsSplit, ChildOf
<1>3. \A m \in DOMAIN st : ChildOf(m, n) => m \in H
  BY DEF ChildOf
<1>4. \A m \in Node : Below(m, n) => \E h \in H : Inside(m, h)
  BY DEF Below
<1> HIDE DEF H
<1>5. /\ DOMAIN s2 = DOMAIN st \ H
      /\ n \in DOMAIN s2 /\ s2[n] = "FREE"
      /\ \A m \in DOMAIN s2 : m # n => s2[m] = st[m]
  BY <1>2 DEF H
<1>6. ~ IsSplit(s2, n)
  BY <1>5 DEF IsSplit
<1>7. \A m \in DOMAIN s2 : m # n => (IsSplit(s2, m) <=> IsSplit(st, m))
  BY <1>5 DEF IsSplit
<1>8. r \in DOMAIN s2
  BY <1>2, <1>5, RootNoChild DEF TreeOK
<1>9. s2 \in [DOMAIN s2 -> Marks]
  BY DEF TreeOK, Marks
<1>10. \A m \in DOMAIN s2 : ~ Below(m, n)
  <2> SUFFICES ASSUME NEW m \in DOMAIN s2, Below(m, n) PROVE FALSE
    OBVIOUS
  <2>1. m \in DOMAIN st /\ m \in Node /\ r \in Node /\ Inside(n, r) /\ CanHalve(n)
    BY <1>5 DEF TreeOK, InRoot, SplitsHave
  <2>2. m # r
    BY <1>1, <2>1, BelowFacts
  <2>3. m.size >= 1
    BY <2>1, <2>2 DEF TreeOK, InRoot
  <2>4. PICK h \in H : Inside(m, h)
    BY <1>4, <2>1
  <2>5. m = h
    BY <1>1, <1>2, <2>1, <2>3, <2>4, LeafAlone
  <2> QED
    BY <1>5, <2>5
<1>11. Laminar(s2)
  <2> SUFFICES ASSUME NEW m \in DOMAIN s2, NEW o \in DOMAIN s2, m # o
               PROVE  Apart(m, o) \/ Nested(s2, m, o) \/ Nested(s2, o, m)
    BY DEF Laminar
  <2>1. Apart(m, o) \/ Nested(st, m, o) \/ Nested(st, o, m)
    BY <1>5 DEF TreeOK, Laminar
  <2> QED
    BY <1>7, <1>10, <2>1 DEF Nested
<1>12. SplitsHave(s2)
  <2> SUFFICES ASSUME NEW m \in DOMAIN s2, IsSplit(s2, m)
               PROVE  CanHalve(m) /\ Left(m) \in DOMAIN s2 /\ Right(m) \in DOMAIN s2
    BY DEF SplitsHave
  <2>1. m \in DOMAIN st /\ m # n /\ IsSplit(st, m)
    BY <1>5, <1>6, <1>7
  <2>2. CanHalve(m) /\ Left(m) \in DOMAIN st /\ Right(m) \in DOMAIN st
    BY <2>1 DEF TreeOK, SplitsHave
  <2>3. ChildOf(Left(m), m) /\ ChildOf(Right(m), m)
    BY DEF ChildOf
  <2>4. \A h \in H : ~ ChildOf(h, m)
    BY <1>1, <1>2, <2>1, OneParent
  <2> QED
    BY <1>5, <2>2, <2>3, <2>4
<1>13. HaveParents(s2, r)
  <2> SUFFICES ASSUME NEW c \in DOMAIN s2, c # r
               PROVE  \E m \in DOMAIN s2 : IsSplit(s2, m) /\ ChildOf(c, m)
    BY DEF HaveParents
  <2>1. PICK m \in DOMAIN st : IsSplit(st, m) /\ ChildOf(c, m)
    BY <1>5 DEF TreeOK, HaveParents
  <2>2. m # n /\ m \notin H
    BY <1>2, <1>3, <1>5, <2>1
  <2> QED
    BY <1>5, <1>7, <2>1, <2>2
<1>14. InRoot(s2, r) /\ DOMAIN s2 \subseteq Node
  BY <1>5 DEF TreeOK, InRoot
<1> QED
  BY <1>5, <1>8, <1>9, <1>11, <1>12, <1>13, <1>14 DEF TreeOK

-----------------------------------------------------------------------------
(* The callers of a walk.                                                  *)
Sides == {"left", "right"}
Frame(st) == [node : DOMAIN st, side : Sides]
Frames(s) == {s[i] : i \in 1 .. Len(s)}

Pushed(s, f, t) ==
  /\ Len(t) = Len(s) + 1 /\ t[1] = f
  /\ \A i \in 1 .. Len(s) : t[i + 1] = s[i]
  /\ Frames(t) = {f} \cup Frames(s)
  /\ t # <<>> /\ Head(t) = f

LEMMA PushSeq ==
  ASSUME NEW S, NEW s \in Seq(S), NEW f \in S
  PROVE  <<f>> \o s \in Seq(S) /\ Pushed(s, f, <<f>> \o s)
<1> DEFINE t == <<f>> \o s
<1>1. t \in Seq(S) /\ Len(t) = Len(s) + 1 /\ t[1] = f
  OBVIOUS
<1>2. \A i \in 1 .. Len(s) : t[i + 1] = s[i]
  OBVIOUS
<1>3. Len(s) \in Nat
  OBVIOUS
<1> HIDE DEF t
<1>4. Frames(t) \subseteq {f} \cup Frames(s)
  <2> SUFFICES ASSUME NEW i \in 1 .. Len(t), i # 1 PROVE t[i] \in Frames(s)
    BY <1>1 DEF Frames
  <2>1. i - 1 \in 1 .. Len(s) /\ (i - 1) + 1 = i
    BY <1>1, <1>3
  <2> QED
    BY <1>2, <2>1 DEF Frames
<1>5. f \in Frames(t)
  <2>1. 1 \in 1 .. Len(t)
    BY <1>1, <1>3
  <2> QED
    BY <1>1, <2>1 DEF Frames
<1>6. Frames(s) \subseteq Frames(t)
  <2> SUFFICES ASSUME NEW i \in 1 .. Len(s) PROVE s[i] \in Frames(t)
    BY DEF Frames
  <2>1. i + 1 \in 1 .. Len(t)
    BY <1>1, <1>3
  <2> QED
    BY <1>2, <2>1 DEF Frames
<1>7. t # <<>> /\ Head(t) = f
  BY <1>1, <1>3
<1> QED
  BY <1>1, <1>2, <1>4, <1>5, <1>6, <1>7 DEF Pushed, t

Popped(s, t) ==
  /\ Len(s) \in Nat /\ Len(s) >= 1 /\ Len(t) = Len(s) - 1
  /\ Head(s) = s[1]
  /\ \A i \in 1 .. Len(t) : t[i] = s[i + 1]
  /\ Frames(s) = {Head(s)} \cup Frames(t)

LEMMA PopSeq ==
  ASSUME NEW S, NEW s \in Seq(S), s # <<>>
  PROVE  Tail(s) \in Seq(S) /\ Head(s) \in S /\ Popped(s, Tail(s))
<1>1. Tail(s) \in Seq(S) /\ Head(s) \in S /\ s = <<Head(s)>> \o Tail(s)
  OBVIOUS
<1>2. Pushed(Tail(s), Head(s), s)
  BY <1>1, PushSeq
<1>3. Len(s) \in Nat /\ Len(s) >= 1 /\ Len(Tail(s)) = Len(s) - 1
  OBVIOUS
<1> QED
  BY <1>1, <1>2, <1>3 DEF Pushed, Popped

LEMMA NoFrames == Frames(<<>>) = {}
BY DEF Frames

(* Under(c, s, i): the node whose caller is the i-th one.                  *)
Under(c, s, i) == IF i = 1 THEN c ELSE s[i - 1].node

(* From cur the callers lead up to the root, and the nodes grow.           *)
Linked(r, c, s) ==
  /\ \A i \in 1 .. Len(s) : Under(c, s, i) = Child(s[i].node, s[i].side)
  /\ Under(c, s, Len(s) + 1) = r
Growing(c, s) ==
  \A i, j \in 1 .. Len(s) : i <= j => Under(c, s, i).size < s[j].node.size

LEMMA NodeFrame == \A S : \A s \in Seq([node : S, side : Sides]) :
  \A i \in 1 .. Len(s) : s[i].node \in S /\ s[i].side \in Sides
<1> SUFFICES ASSUME NEW S, NEW s \in Seq([node : S, side : Sides]),
                    NEW i \in 1 .. Len(s)
             PROVE  s[i].node \in S /\ s[i].side \in Sides
  OBVIOUS
<1>1. \A T : \A q \in Seq(T) : \A k \in 1 .. Len(q) : q[k] \in T
  OBVIOUS
<1>2. s[i] \in [node : S, side : Sides]
  BY <1>1
<1> QED
  BY <1>2

LEMMA PushLinked ==
  ASSUME NEW S, S \subseteq Node, NEW s \in Seq([node : S, side : Sides]),
         NEW r, NEW c \in S, NEW side \in Sides,
         Linked(r, c, s), Growing(c, s), Child(c, side) \in Node,
         Child(c, side).size < c.size,
         NEW f, f = [node |-> c, side |-> side],
         NEW t, t = <<f>> \o s
  PROVE  Linked(r, Child(c, side), t) /\ Growing(Child(c, side), t)
<1>0. f \in [node : S, side : Sides]
  OBVIOUS
<1>1. Pushed(s, f, t) /\ Len(s) \in Nat
  <2>1. PICK T : T = [node : S, side : Sides]
    OBVIOUS
  <2>2. s \in Seq(T) /\ f \in T
    BY <1>0, <2>1
  <2> QED
    BY <2>2, PushSeq
<1> DEFINE d == Child(c, side)
<1>2. Under(d, t, 1) = d /\ t[1].node = c /\ t[1].side = side
  BY <1>1 DEF Pushed, Under
<1>3. \A i \in 1 .. Len(s) + 1 : Under(d, t, i + 1) = Under(c, s, i)
  <2> SUFFICES ASSUME NEW i \in 1 .. Len(s) + 1
               PROVE  Under(d, t, i + 1) = Under(c, s, i)
    OBVIOUS
  <2>1. i + 1 # 1 /\ (i + 1) - 1 = i
    BY <1>1
  <2>2. CASE i = 1
    BY <1>2, <2>1, <2>2 DEF Under
  <2>3. CASE i # 1
    <3>1. i - 1 \in 1 .. Len(s) /\ (i - 1) + 1 = i
      BY <1>1, <2>3
    <3>2. t[i] = s[i - 1]
      BY <1>1, <3>1 DEF Pushed
    <3> QED
      BY <2>1, <2>3, <3>2 DEF Under
  <2> QED
    BY <2>2, <2>3
<1> HIDE DEF d
<1>4. \A i \in 1 .. Len(t) : i # 1 => i - 1 \in 1 .. Len(s) /\ (i - 1) + 1 = i
  BY <1>1 DEF Pushed
<1>5. \A i \in 1 .. Len(t) : i # 1 => t[i] = s[i - 1] /\ Under(d, t, i) = Under(c, s, i - 1)
  <2> SUFFICES ASSUME NEW i \in 1 .. Len(t), i # 1
               PROVE  t[i] = s[i - 1] /\ Under(d, t, i) = Under(c, s, i - 1)
    OBVIOUS
  <2>1. i - 1 \in 1 .. Len(s) /\ (i - 1) + 1 = i /\ i - 1 \in 1 .. Len(s) + 1
    BY <1>4, <1>1
  <2> QED
    BY <1>1, <1>3, <2>1 DEF Pushed
<1>6. Linked(r, d, t)
  <2>1. Under(d, t, Len(t) + 1) = r
    <3>1. Len(s) + 1 \in 1 .. Len(s) + 1 /\ Len(t) = Len(s) + 1
      BY <1>1 DEF Pushed
    <3> QED
      BY <1>3, <3>1 DEF Linked
  <2>2. ASSUME NEW i \in 1 .. Len(t)
        PROVE  Under(d, t, i) = Child(t[i].node, t[i].side)
    <3>1. CASE i = 1
      BY <1>2, <3>1 DEF d
    <3>2. CASE i # 1
      BY <1>4, <1>5, <3>2 DEF Linked
    <3> QED
      BY <3>1, <3>2
  <2> QED
    BY <2>1, <2>2 DEF Linked
<1>7. Growing(d, t)
  <2> SUFFICES ASSUME NEW i \in 1 .. Len(t), NEW j \in 1 .. Len(t), i <= j
               PROVE  Under(d, t, i).size < t[j].node.size
    BY DEF Growing
  <2>1. d.size \in Nat /\ c.size \in Nat /\ d.size < c.size
    BY NodeFields DEF d
  <2>2. CASE i # 1
    <3>1. j # 1 /\ i - 1 <= j - 1
      BY <1>1, <2>2
    <3> QED
      BY <1>4, <1>5, <2>2, <3>1 DEF Growing
  <2>3. CASE i = 1 /\ j = 1
    BY <1>2, <2>1, <2>3
  <2>4. CASE i = 1 /\ j # 1
    <3>1. j - 1 \in 1 .. Len(s) /\ 1 \in 1 .. Len(s) /\ 1 <= j - 1
      BY <1>1, <1>4, <2>4
    <3>2. c.size < s[j - 1].node.size
      BY <3>1 DEF Growing, Under
    <3>3. s[j - 1].node.size \in Nat
      BY <3>1, NodeFrame, NodeFields
    <3>4. t[j] = s[j - 1]
      BY <1>5, <2>4
    <3>5. Under(d, t, i).size < s[j - 1].node.size
      BY <1>2, <2>1, <2>4, <3>2, <3>3
    <3> QED
      BY <3>4, <3>5
  <2> QED
    BY <2>2, <2>3, <2>4
<1> QED
  BY <1>6, <1>7 DEF d

LEMMA PopLinked ==
  ASSUME NEW S, S \subseteq Node, NEW s \in Seq([node : S, side : Sides]),
         NEW r, NEW c, s # <<>>, Linked(r, c, s), Growing(c, s),
         NEW t, t = Tail(s), NEW d, d = Head(s).node
  PROVE  /\ Linked(r, d, t) /\ Growing(d, t)
         /\ c = Child(d, Head(s).side)
         /\ \A f \in Frames(t) : f.node # d
<1>1. Popped(s, t)
  BY PopSeq
<1>2. \A i \in 1 .. Len(t) + 1 : Under(d, t, i) = Under(c, s, i + 1)
  <2> SUFFICES ASSUME NEW i \in 1 .. Len(t) + 1
               PROVE  Under(d, t, i) = Under(c, s, i + 1)
    OBVIOUS
  <2>1. i + 1 # 1 /\ (i + 1) - 1 = i
    BY <1>1 DEF Popped
  <2>2. CASE i = 1
    BY <1>1, <2>1, <2>2 DEF Under, Popped
  <2>3. CASE i # 1
    <3>1. i - 1 \in 1 .. Len(t) /\ (i - 1) + 1 = i
      BY <1>1, <2>3 DEF Popped
    <3>2. t[i - 1] = s[i]
      BY <1>1, <3>1 DEF Popped
    <3> QED
      BY <2>1, <2>3, <3>2 DEF Under
  <2> QED
    BY <2>2, <2>3
<1>3. \A i \in 1 .. Len(t) :
        /\ i + 1 \in 1 .. Len(s) /\ t[i] = s[i + 1]
        /\ Under(d, t, i) = Under(c, s, i + 1)
  <2> SUFFICES ASSUME NEW i \in 1 .. Len(t)
               PROVE  /\ i + 1 \in 1 .. Len(s) /\ t[i] = s[i + 1]
                      /\ Under(d, t, i) = Under(c, s, i + 1)
    OBVIOUS
  <2>1. i \in 1 .. Len(t) + 1 /\ i + 1 \in 1 .. Len(s)
    BY <1>1 DEF Popped
  <2> QED
    BY <1>1, <1>2, <2>1 DEF Popped
<1>4. Linked(r, d, t)
  <2>1. Len(t) + 1 \in 1 .. Len(t) + 1 /\ Len(t) + 1 = Len(s)
    BY <1>1 DEF Popped
  <2>2. Under(d, t, Len(t) + 1) = r
    BY <1>2, <2>1 DEF Linked
  <2> QED
    BY <1>3, <2>2 DEF Linked
<1>5. Growing(d, t)
  <2> SUFFICES ASSUME NEW i \in 1 .. Len(t), NEW j \in 1 .. Len(t), i <= j
               PROVE  Under(d, t, i).size < t[j].node.size
    BY DEF Growing
  <2>1. i + 1 <= j + 1
    OBVIOUS
  <2> QED
    BY <1>3, <2>1 DEF Growing
<1>6. 1 \in 1 .. Len(s)
  BY <1>1 DEF Popped
<1>7. c = Child(d, Head(s).side)
  BY <1>1, <1>6 DEF Linked, Under, Popped
<1>8. ASSUME NEW f \in Frames(t), f.node = d PROVE FALSE
  <2>1. PICK i \in 1 .. Len(t) : f = t[i]
    BY <1>8 DEF Frames
  <2>2. 1 \in 1 .. Len(t) /\ 1 <= i
    BY <1>1 DEF Popped
  <2>3. d.size < t[i].node.size
    BY <1>5, <2>2 DEF Growing, Under
  <2>4. d.size \in Nat
    BY <1>1, <1>6, NodeFrame, NodeFields DEF Popped
  <2> QED
    BY <1>8, <2>1, <2>3, <2>4
<1> QED
  BY <1>4, <1>5, <1>7, <1>8

-----------------------------------------------------------------------------
(* The inductive invariant: the tree has its shape and the walk is at one  *)
(* of its nodes, with split nodes as its callers;                          *)
PoolOK ==
  /\ buddy_head = NULL => DOMAIN state = {} /\ op = "none"
  /\ buddy_head # NULL => TreeOK(state, buddy_head) /\ buddy_head.idx = 0

WalkOK ==
  /\ op \in {"none", "alloc", "free", "back", "size"}
  /\ stack \in Seq(Frame(state))
  /\ \A f \in Frames(stack) : IsSplit(state, f.node)
  /\ op = "none" => cur = NULL /\ stack = <<>> /\ arg = 0
  /\ op # "none" => buddy_head # NULL /\ cur \in DOMAIN state
  /\ op = "alloc" => arg \in Requests
  /\ op \in {"free", "back", "size"} => arg \in Indexes
  /\ rt \in Int

(* alloc and size keep no caller that is on its second side, and the       *)
(* callers of free are the nodes above cur; a page is given back once;     *)
CallersOK ==
  /\ op = "alloc" => \A f \in Frames(stack) : f.side = "left"
  /\ op = "size" => \A f \in Frames(stack) : f.side = "right"
  /\ op \in {"free", "back"} => Linked(buddy_head, cur, stack) /\ Growing(cur, stack)

FreedOK ==
  /\ freed \in BOOLEAN
  /\ freed => op \in {"free", "back"} /\ \A n \in InState("ALLOC") : n.idx # arg

(* a page is large enough and tight;                                       *)
AskedOK ==
  /\ asked \in [{n.idx : n \in InState("ALLOC")} -> Requests]
  /\ TightFit

(* two free halves are about to be joined by one of the callers of free,   *)
(* or have just been made by alloc;                                        *)
BothFree(n) == state[Left(n)] = "FREE" /\ state[Right(n)] = "FREE"
JoinsOK ==
  \A n \in InState("SPLIT") : BothFree(n) =>
    \/ op \in {"free", "back"} /\ \E f \in Frames(stack) : f.node = n
    \/ op = "alloc" /\ cur = Left(n) /\ cur.size >= arg

(* and what the walk looks for is in cur or in a side not yet tried.       *)
Behind(n, s, side) ==
  \E f \in Frames(s) : f.side = side /\ Inside(n, Child(f.node, Other(side)))
Ahead(n, c, s, side) == Inside(n, c) \/ Behind(n, s, side)
SeekOK ==
  /\ op = "alloc" =>
       \/ state[cur] = "FREE" /\ cur.size >= arg
       \/ \A n \in InState("FREE") : n.size >= arg => Ahead(n, cur, stack, "left")
  /\ op = "size" =>
       \A n \in InState("ALLOC") : Holds(n, arg) => Ahead(n, cur, stack, "right")
  /\ op = "free" => freed \/
       \A n \in InState("ALLOC") : n.idx = arg => Ahead(n, cur, stack, "left")
  /\ op = "back" => freed \/
       \A n \in InState("ALLOC") : n.idx = arg => Behind(n, stack, "left")

BuddyInv ==
  PoolOK /\ WalkOK /\ CallersOK /\ FreedOK /\ AskedOK /\ JoinsOK /\ SeekOK

-----------------------------------------------------------------------------
(* What the walk looks for stays ahead of it.                              *)
LEMMA ChildSides ==
  ASSUME NEW st, NEW r, TreeOK(st, r), NEW n \in DOMAIN st, IsSplit(st, n),
         NEW side \in Sides
  PROVE  /\ Child(n, side) \in DOMAIN st /\ Child(n, Other(side)) \in DOMAIN st
         /\ Child(n, side) \in Node /\ Child(n, Other(side)) \in Node
         /\ {Child(n, side), Child(n, Other(side))} = {Left(n), Right(n)}
         /\ Child(n, side).size < n.size
<1>1. /\ Left(n) \in DOMAIN st /\ Right(n) \in DOMAIN st
      /\ Left(n) \in Node /\ Right(n) \in Node /\ n \in Node
      /\ HalvesFit(n)
  BY HalvesOfNode DEF TreeOK, SplitsHave
<1> QED
  BY <1>1 DEF Child, Other, Sides, HalvesFit

LEMMA AheadDown ==
  ASSUME NEW st, NEW r, TreeOK(st, r),
         NEW s \in Seq(Frame(st)), NEW c \in DOMAIN st, IsSplit(st, c),
         NEW side \in Sides, NEW n \in DOMAIN st, ~ IsSplit(st, n), n.size >= 1,
         Ahead(n, c, s, side)
  PROVE  Ahead(n, Child(c, side), <<[node |-> c, side |-> side]>> \o s, side)
<1>1. PICK T : T = Frame(st)
  OBVIOUS
<1>2. PICK f : f = [node |-> c, side |-> side]
  OBVIOUS
<1>3. f \in T /\ s \in Seq(T) /\ f.node = c /\ f.side = side
  BY <1>1, <1>2 DEF Frame
<1>4. Frames(<<f>> \o s) = {f} \cup Frames(s)
  BY <1>3, PushSeq DEF Pushed
<1>5. Inside(n, c) => Inside(n, Child(c, side)) \/ Inside(n, Child(c, Other(side)))
  <2>1. Inside(n, c) => Below(n, c)
    BY InHalf
  <2> QED
    BY <2>1, ChildSides DEF Below
<1> QED
  BY <1>2, <1>3, <1>4, <1>5 DEF Ahead, Behind

LEMMA AheadPop ==
  ASSUME NEW st, NEW s \in Seq(Frame(st)), s # <<>>, NEW side \in Sides,
         NEW n, Behind(n, s, side)
  PROVE  Ahead(n, Child(Head(s).node, Other(side)), Tail(s), side)
<1>1. Frames(s) = {Head(s)} \cup Frames(Tail(s))
  BY PopSeq DEF Popped
<1> QED
  BY <1>1 DEF Ahead, Behind

-----------------------------------------------------------------------------
(* One lemma for each kind of step.                                        *)
Walking ==
  /\ TreeOK(state, buddy_head) /\ buddy_head # NULL /\ buddy_head.idx = 0
  /\ cur \in DOMAIN state /\ cur \in Node
  /\ buddy_head \in Node /\ DOMAIN state \subseteq Node

LEMMA IsWalking == BuddyInv /\ op # "none" => Walking
<1> SUFFICES ASSUME BuddyInv, op # "none" PROVE Walking
  OBVIOUS
<1>1. /\ TreeOK(state, buddy_head) /\ buddy_head # NULL /\ buddy_head.idx = 0
      /\ cur \in DOMAIN state
  BY DEF BuddyInv, PoolOK, WalkOK
<1> QED
  BY <1>1 DEF Walking, TreeOK

(* A page is not empty.                                                    *)
LEMMA PagesFull ==
  ASSUME BuddyInv, DOMAIN state \subseteq Node, NEW n \in InState("ALLOC")
  PROVE  n \in DOMAIN state /\ ~ IsSplit(state, n) /\ n.size >= 1 /\ n \in Node
<1>1. n \in DOMAIN state /\ state[n] = "ALLOC" /\ n \in Node
  BY DEF InState, Nodes
<1>2. asked[n.idx] \in Requests /\ n.size >= asked[n.idx]
  BY DEF BuddyInv, AskedOK, TightFit
<1>3. asked[n.idx] \in Nat \ {0} /\ n.size \in Nat
  BY <1>1, <1>2, PagesAssumption, NodeFields
<1> QED
  BY <1>1, <1>2, <1>3 DEF IsSplit

Down(o, side) ==
  /\ op = o /\ state[cur] = "SPLIT"
  /\ stack' = <<[node |-> cur, side |-> side]>> \o stack
  /\ cur' = Child(cur, side)
  /\ UNCHANGED <<buddy_head, state, asked, op, arg, freed, rt>>

LEMMA DownStep ==
  ASSUME BuddyInv, NEW o, NEW side, Down(o, side),
         <<o, side>> \in {<<"alloc", "left">>, <<"free", "left">>, <<"size", "right">>}
  PROVE  BuddyInv'
<1>1. /\ side \in Sides /\ op = o /\ op # "none" /\ op # "back"
      /\ op \in {"alloc", "free", "size"}
      /\ op = "alloc" => side = "left"
      /\ op = "size" => side = "right"
      /\ op = "free" => side = "left"
  BY DEF Down, Sides
<1>2. Walking /\ IsSplit(state, cur)
  BY <1>1, IsWalking DEF Down, IsSplit
<1>3. /\ Child(cur, side) \in DOMAIN state /\ Child(cur, side) \in Node
      /\ Child(cur, side).size < cur.size
  BY <1>1, <1>2, ChildSides DEF Walking
<1>4. UNCHANGED <<buddy_head, state, asked, op, arg, freed, rt>>
  BY DEF Down
<1>5. PICK f : f = [node |-> cur, side |-> side]
  OBVIOUS
<1>6. f \in Frame(state) /\ f.node = cur /\ f.side = side
  BY <1>1, <1>2, <1>5 DEF Frame, Walking
<1>7. /\ stack' = <<f>> \o stack /\ stack \in Seq(Frame(state))
      /\ stack' \in Seq(Frame(state))
      /\ Frames(stack') = {f} \cup Frames(stack)
  BY <1>5, <1>6, PushSeq DEF Down, BuddyInv, WalkOK, Pushed
<1>8. cur' = Child(cur, side)
  BY DEF Down
<1>9. PoolOK' /\ AskedOK' /\ FreedOK'
  BY <1>4 DEF BuddyInv, PoolOK, AskedOK, FreedOK, TightFit, InState, Nodes
<1>10. WalkOK'
  BY <1>1, <1>2, <1>3, <1>4, <1>6, <1>7, <1>8 DEF BuddyInv, WalkOK
<1>11. CallersOK'
  <2>1. op \in {"alloc", "size"} => CallersOK'
    BY <1>1, <1>4, <1>6, <1>7 DEF BuddyInv, CallersOK
  <2>2. ASSUME op = "free"
        PROVE  Linked(buddy_head, Child(cur, side), stack') /\ Growing(Child(cur, side), stack')
    <3>1. Linked(buddy_head, cur, stack) /\ Growing(cur, stack)
      BY <2>2 DEF BuddyInv, CallersOK
    <3> QED
      BY <1>1, <1>2, <1>3, <1>5, <1>7, <3>1, PushLinked DEF Walking, Frame
  <2> QED
    BY <1>1, <1>4, <1>8, <2>1, <2>2 DEF CallersOK
<1>12. JoinsOK'
  <2> SUFFICES ASSUME NEW n \in InState("SPLIT"), BothFree(n)
               PROVE  op = "free" /\ \E g \in Frames(stack') : g.node = n
    BY <1>1, <1>4 DEF JoinsOK, BothFree, InState, Nodes
  <2>1. cur # Left(n)
    BY <1>2 DEF BothFree, IsSplit
  <2> QED
    BY <1>1, <1>7, <2>1 DEF BuddyInv, JoinsOK
<1>13. SeekOK'
  <2>1. ASSUME NEW n \in DOMAIN state, ~ IsSplit(state, n), n.size >= 1,
               Ahead(n, cur, stack, side)
        PROVE  Ahead(n, cur', stack', side)
    BY <1>1, <1>2, <1>5, <1>7, <1>8, <2>1, AheadDown DEF Walking
  <2>2. \A n \in InState("ALLOC") : n \in DOMAIN state /\ ~ IsSplit(state, n) /\ n.size >= 1
    BY <1>2, PagesFull DEF Walking
  <2>3. ASSUME op = "alloc", NEW n \in InState("FREE"), n.size >= arg
        PROVE  n \in DOMAIN state /\ ~ IsSplit(state, n) /\ n.size >= 1
    <3>1. n \in DOMAIN state /\ state[n] = "FREE" /\ n \in Node
      BY <1>2 DEF InState, Nodes, Walking
    <3>2. arg \in Nat \ {0} /\ n.size \in Nat
      BY <2>3, <3>1, PagesAssumption, NodeFields DEF BuddyInv, WalkOK
    <3> QED
      BY <2>3, <3>1, <3>2 DEF IsSplit
  <2>4. op = "alloc" => SeekOK'
    <3> SUFFICES ASSUME op = "alloc", NEW n \in InState("FREE"), n.size >= arg
                 PROVE  Ahead(n, cur', stack', "left")
      BY <1>4 DEF SeekOK, InState, Nodes
    <3>1. Ahead(n, cur, stack, "left")
      BY <1>2 DEF BuddyInv, SeekOK, IsSplit
    <3> QED
      BY <1>1, <2>1, <2>3, <3>1
  <2>5. op = "size" => SeekOK'
    <3> SUFFICES ASSUME op = "size", NEW n \in InState("ALLOC"), Holds(n, arg)
                 PROVE  Ahead(n, cur', stack', "right")
      BY <1>4 DEF SeekOK, InState, Nodes
    <3>1. Ahead(n, cur, stack, "right")
      BY DEF BuddyInv, SeekOK
    <3> QED
      BY <1>1, <2>1, <2>2, <3>1
  <2>6. op = "free" => SeekOK'
    <3> SUFFICES ASSUME op = "free", ~ freed, NEW n \in InState("ALLOC"), n.idx = arg
                 PROVE  Ahead(n, cur', stack', "left")
      BY <1>4 DEF SeekOK, InState, Nodes
    <3>1. Ahead(n, cur, stack, "left")
      BY DEF BuddyInv, SeekOK
    <3> QED
      BY <1>1, <2>1, <2>2, <3>1
  <2> QED
    BY <1>1, <2>4, <2>5, <2>6
<1> QED
  BY <1>9, <1>10, <1>11, <1>12, <1>13 DEF BuddyInv

(* The walk leaves a node that has not what it looks for.                  *)
Missed ==
  \/ op = "alloc" /\ (state[cur] = "ALLOC" \/ (state[cur] = "FREE" /\ cur.size < arg))
  \/ op = "size" /\ (state[cur] = "FREE" \/ (state[cur] = "ALLOC" /\ ~ Holds(cur, arg)))

(* Nothing is joined, and what the walk looks for is behind cur.           *)
NoneFree == \A n \in InState("SPLIT") : ~ BothFree(n)
LeftBehind ==
  /\ NoneFree
  /\ op = "alloc" =>
       \A n \in InState("FREE") : n.size >= arg => Behind(n, stack, "left")
  /\ op = "size" =>
       \A n \in InState("ALLOC") : Holds(n, arg) => Behind(n, stack, "right")

LEMMA MissedBehind == BuddyInv /\ Missed => LeftBehind
<1> SUFFICES ASSUME BuddyInv, Missed PROVE LeftBehind
  OBVIOUS
<1>1. /\ op \in {"alloc", "size"} /\ op # "none" /\ state[cur] # "SPLIT"
      /\ op = "alloc" => ~ (state[cur] = "FREE" /\ cur.size >= arg)
  <2>1. op = "alloc" => arg \in Nat /\ cur.size \in Nat
    BY IsWalking, PagesAssumption, NodeFields DEF Walking, BuddyInv, WalkOK
  <2> QED
    BY <2>1 DEF Missed
<1>2. Walking /\ ~ IsSplit(state, cur)
  BY <1>1, IsWalking DEF IsSplit
<1>3. NoneFree
  <2> SUFFICES ASSUME NEW n \in InState("SPLIT"), BothFree(n) PROVE FALSE
    BY DEF NoneFree
  <2>1. op = "alloc" /\ cur = Left(n) /\ cur.size >= arg
    BY <1>1 DEF BuddyInv, JoinsOK
  <2> QED
    BY <1>1, <2>1 DEF BothFree
<1>4. ASSUME NEW n \in DOMAIN state, n.size >= 1, Inside(n, cur)
      PROVE  n = cur
  BY <1>2, <1>4, LeafAlone DEF Walking
<1>5. ASSUME op = "alloc", NEW n \in InState("FREE"), n.size >= arg
      PROVE  Behind(n, stack, "left")
  <2>1. n \in DOMAIN state /\ state[n] = "FREE" /\ n \in Node
    BY <1>2 DEF InState, Nodes, Walking
  <2>2. arg \in Nat \ {0} /\ n.size \in Nat
    BY <1>5, <2>1, PagesAssumption, NodeFields DEF BuddyInv, WalkOK
  <2>3. n.size >= 1
    BY <1>5, <2>2
  <2>4. Ahead(n, cur, stack, "left")
    BY <1>1, <1>5 DEF BuddyInv, SeekOK
  <2>5. n # cur
    BY <1>1, <1>5, <2>1
  <2> QED
    BY <1>4, <2>1, <2>3, <2>4, <2>5 DEF Ahead
<1>6. ASSUME op = "size", NEW n \in InState("ALLOC"), Holds(n, arg)
      PROVE  Behind(n, stack, "right")
  <2>1. n \in DOMAIN state /\ state[n] = "ALLOC" /\ n.size >= 1
    BY <1>2, PagesFull DEF InState, Nodes, Walking
  <2>2. Ahead(n, cur, stack, "right")
    BY <1>6 DEF BuddyInv, SeekOK
  <2>3. n # cur
    BY <1>6, <2>1 DEF Missed
  <2> QED
    BY <1>4, <2>1, <2>2, <2>3 DEF Ahead
<1> QED
  BY <1>3, <1>5, <1>6 DEF LeftBehind

Up ==
  /\ stack # <<>>
  /\ cur' = Child(Head(stack).node, Other(Head(stack).side))
  /\ stack' = Tail(stack)
  /\ UNCHANGED <<buddy_head, state, asked, op, arg, freed, rt>>

LEMMA UpStep ==
  ASSUME BuddyInv, Missed, NEW side, Up,
         side = IF op = "alloc" THEN "left" ELSE "right"
  PROVE  BuddyInv'
<1>1. side \in Sides /\ op \in {"alloc", "size"} /\ op # "none"
  BY DEF Missed, Sides
<1>2. Walking /\ LeftBehind
  BY <1>1, IsWalking, MissedBehind
<1>3. UNCHANGED <<buddy_head, state, asked, op, arg, freed, rt>>
  BY DEF Up
<1>4. stack \in Seq(Frame(state)) /\ stack # <<>>
  BY DEF BuddyInv, WalkOK, Up
<1>5. /\ stack' = Tail(stack) /\ Tail(stack) \in Seq(Frame(state))
      /\ Head(stack) \in Frame(state)
      /\ Frames(stack) = {Head(stack)} \cup Frames(stack')
  BY <1>4, PopSeq DEF Popped, Up
<1>6. /\ Head(stack).node \in DOMAIN state /\ Head(stack).side = side
      /\ IsSplit(state, Head(stack).node)
  <2>1. Head(stack) \in Frames(stack)
    BY <1>5
  <2> QED
    BY <1>1, <1>5, <2>1 DEF BuddyInv, WalkOK, CallersOK, Frame
<1>7. cur' \in DOMAIN state /\ cur' = Child(Head(stack).node, Other(side))
  BY <1>1, <1>2, <1>6, ChildSides DEF Walking, Up
<1>8. PoolOK' /\ AskedOK' /\ FreedOK'
  BY <1>3 DEF BuddyInv, PoolOK, AskedOK, FreedOK, TightFit, InState, Nodes
<1>9. WalkOK'
  BY <1>1, <1>2, <1>3, <1>5, <1>7 DEF BuddyInv, WalkOK
<1>10. CallersOK'
  BY <1>1, <1>3, <1>5 DEF BuddyInv, CallersOK
<1>11. JoinsOK'
  BY <1>2, <1>3 DEF LeftBehind, NoneFree, JoinsOK, BothFree, InState, Nodes
<1>12. SeekOK'
  <2>1. ASSUME NEW n, Behind(n, stack, side)
        PROVE  Ahead(n, cur', stack', side)
    BY <1>1, <1>4, <1>5, <1>7, <2>1, AheadPop
  <2> QED
    BY <1>1, <1>2, <1>3, <2>1 DEF LeftBehind, SeekOK, InState, Nodes
<1> QED
  BY <1>8, <1>9, <1>10, <1>11, <1>12 DEF BuddyInv

(* A function returns.                                                     *)
LEMMA ReplyIdle ==
  ASSUME NEW v \in Int, Reply(v), BuddyInv
  PROVE  WalkOK' /\ CallersOK' /\ FreedOK' /\ SeekOK'
<1>1. /\ op' = "none" /\ arg' = 0 /\ cur' = NULL /\ stack' = <<>> /\ rt' = v
      /\ freed' = FALSE
  BY DEF Reply
<1>2. Frames(stack') = {} /\ stack' \in Seq(Frame(state)')
  BY <1>1, NoFrames
<1>3. WalkOK'
  BY <1>1, <1>2 DEF WalkOK
<1>4. CallersOK' /\ SeekOK'
  BY <1>1 DEF CallersOK, SeekOK
<1>5. FreedOK'
  BY <1>1 DEF FreedOK
<1> QED
  BY <1>3, <1>4, <1>5

LEMMA ReplyStep ==
  ASSUME BuddyInv, op # "none", NoneFree, NEW v \in Int, Reply(v), UNCHANGED tree
  PROVE  BuddyInv'
<1>1. WalkOK' /\ CallersOK' /\ FreedOK' /\ SeekOK'
  BY ReplyIdle
<1>2. UNCHANGED <<buddy_head, state, asked>>
  BY DEF tree
<1>3. AskedOK'
  BY <1>2 DEF BuddyInv, AskedOK, TightFit, InState, Nodes
<1>4. PoolOK'
  BY <1>2, IsWalking DEF PoolOK, Walking
<1>5. JoinsOK'
  BY <1>2 DEF NoneFree, JoinsOK, BothFree, InState, Nodes
<1> QED
  BY <1>1, <1>3, <1>4, <1>5 DEF BuddyInv

LEMMA IdleFree ==
  BuddyInv /\ op \notin {"alloc", "free", "back"} => NoneFree
BY DEF BuddyInv, JoinsOK, NoneFree

(* A function is called.                                                   *)
LEMMA CallStep ==
  ASSUME BuddyInv, NEW o, NEW x, Call(o, x),
         \/ o = "alloc" /\ x \in Requests
         \/ o \in {"free", "size"} /\ x \in Indexes
  PROVE  BuddyInv'
<1>1. /\ op = "none" /\ buddy_head # NULL /\ op' = o /\ arg' = x
      /\ cur' = buddy_head /\ stack' = stack /\ stack = <<>>
      /\ UNCHANGED <<buddy_head, state, asked, freed, rt>>
      /\ op' \in {"alloc", "free", "size"}
  BY DEF Call, tree, BuddyInv, WalkOK
<1>2. /\ TreeOK(state, buddy_head) /\ buddy_head \in DOMAIN state
      /\ \A n \in DOMAIN state : Inside(n, buddy_head)
  BY <1>1 DEF BuddyInv, PoolOK, TreeOK, InRoot
<1>3. PoolOK' /\ AskedOK'
  BY <1>1, <1>2 DEF BuddyInv, PoolOK, AskedOK, TightFit, InState, Nodes
<1>4. WalkOK'
  BY <1>1, <1>2 DEF BuddyInv, WalkOK
<1>5. FreedOK'
  BY <1>1 DEF BuddyInv, FreedOK
<1>6. CallersOK'
  <2>1. Frames(stack') = {} /\ Len(stack') = 0
    BY <1>1, NoFrames
  <2>2. Linked(buddy_head, buddy_head, stack') /\ Growing(buddy_head, stack')
    BY <2>1 DEF Linked, Growing, Under
  <2> QED
    BY <1>1, <2>1, <2>2 DEF CallersOK
<1>7. JoinsOK'
  BY <1>1, IdleFree DEF NoneFree, JoinsOK, BothFree, InState, Nodes
<1>8. SeekOK'
  BY <1>1, <1>2 DEF SeekOK, Ahead, InState, Nodes
<1> QED
  BY <1>3, <1>4, <1>5, <1>6, <1>7, <1>8 DEF BuddyInv

(* The callers are in whatever set holds each of them.                     *)
LEMMA SeqIn ==
  ASSUME NEW S, NEW T, NEW s \in Seq(S), \A f \in Frames(s) : f \in T
  PROVE  s \in Seq(T)
<1>1. Len(s) \in Nat /\ s = [i \in 1 .. Len(s) |-> s[i]]
  OBVIOUS
<1>2. \A i \in 1 .. Len(s) : s[i] \in T
  BY DEF Frames
<1> QED
  BY <1>1, <1>2

LEMMA FramesIn ==
  ASSUME NEW st, NEW s \in Seq(Frame(st)), NEW f \in Frames(s)
  PROVE  f \in Frame(st)
<1>1. PICK T : T = Frame(st)
  OBVIOUS
<1>2. s \in Seq(T)
  BY <1>1
<1>3. f \in T
  BY <1>2 DEF Frames
<1> QED
  BY <1>1, <1>3

LEMMA SameCallers ==
  ASSUME NEW st, NEW st2, NEW s \in Seq(Frame(st)),
         \A f \in Frames(s) : f.node \in DOMAIN st2
  PROVE  s \in Seq(Frame(st2))
<1>1. ASSUME NEW f \in Frames(s) PROVE f \in Frame(st2)
  <2>1. f \in Frame(st)
    BY FramesIn
  <2>2. f.node \in DOMAIN st2
    OBVIOUS
  <2> QED
    BY <2>1, <2>2 DEF Frame
<1>2. PICK S, T : S = Frame(st) /\ T = Frame(st2)
  OBVIOUS
<1>3. s \in Seq(S) /\ \A f \in Frames(s) : f \in T
  BY <1>1, <1>2
<1>4. s \in Seq(T)
  BY <1>3, SeqIn
<1> QED
  BY <1>2, <1>4

(* alloc splits a free node.                                               *)
Halve ==
  /\ op = "alloc" /\ state[cur] = "FREE" /\ cur.size >= arg
  /\ CanSplit(cur, arg)
  /\ state' = Split(cur)
  /\ cur' = Left(cur)
  /\ UNCHANGED <<buddy_head, asked, op, arg, stack, freed, rt>>

LEMMA HalveStep ==
  ASSUME BuddyInv, Halve
  PROVE  BuddyInv' /\ InState("ALLOC")' = InState("ALLOC")
<1>1. /\ op = "alloc" /\ state[cur] = "FREE"
      /\ UNCHANGED <<buddy_head, asked, op, arg, stack, freed, rt>>
      /\ cur' = Left(cur) /\ state' = Split(cur)
  BY DEF Halve
<1>2. Walking /\ ~ IsSplit(state, cur)
  BY <1>1, IsWalking DEF IsSplit
<1>3. PICK a \in Nat \ {0}, h \in Nat : a = arg /\ h = cur.size \div 2 /\ h >= a
  BY <1>1, <1>2, PagesAssumption, NodeFields, Half
     DEF Halve, CanSplit, Walking, BuddyInv, WalkOK
<1>4. CanHalve(cur) /\ Left(cur).size >= arg
  BY <1>2, <1>3, HalfNodes DEF CanHalve, Walking, HalfFacts
<1>5. /\ TreeOK(state', buddy_head)
      /\ Left(cur) \notin DOMAIN state /\ Right(cur) \notin DOMAIN state
  BY <1>1, <1>2, <1>4, SplitTree DEF Walking, Split
<1>6. HalvesFit(cur)
  BY <1>2, <1>4, HalvesOfNode DEF Walking
<1>7. /\ DOMAIN state' = DOMAIN state \cup {Left(cur), Right(cur)}
      /\ state'[cur] = "SPLIT"
      /\ state'[Left(cur)] = "FREE" /\ state'[Right(cur)] = "FREE"
      /\ \A m \in DOMAIN state : m # cur => state'[m] = state[m]
  BY <1>1, <1>2, <1>5, <1>6 DEF Split, Walking, HalvesFit
<1>8. InState("ALLOC")' = InState("ALLOC")
  BY <1>1, <1>2, <1>7 DEF InState, Nodes, Walking
<1>9. PoolOK'
  BY <1>1, <1>2, <1>5 DEF PoolOK, Walking
<1>10. AskedOK' /\ FreedOK'
  BY <1>1, <1>8 DEF BuddyInv, AskedOK, FreedOK, TightFit
<1>11. \A f \in Frames(stack) : f.node \in DOMAIN state /\ f.node # cur /\ IsSplit(state, f.node)
  <2>1. \A f \in Frames(stack) : f \in Frame(state) /\ IsSplit(state, f.node)
    BY FramesIn DEF BuddyInv, WalkOK
  <2> QED
    BY <1>2, <2>1 DEF Frame
<1>12. stack \in Seq(Frame(state'))
  BY <1>7, <1>11, SameCallers DEF BuddyInv, WalkOK
<1>13. WalkOK'
  <2>1. \A f \in Frames(stack) : IsSplit(state', f.node)
    BY <1>7, <1>11 DEF IsSplit
  <2> QED
    BY <1>1, <1>2, <1>7, <1>12, <2>1 DEF BuddyInv, WalkOK, Walking
<1>14. CallersOK'
  BY <1>1 DEF BuddyInv, CallersOK
<1>15. JoinsOK'
  <2> SUFFICES ASSUME NEW n \in InState("SPLIT")', BothFree(n)'
               PROVE  n = cur
    BY <1>1, <1>4 DEF JoinsOK
  <2>1. n \in DOMAIN state' /\ state'[n] = "SPLIT"
        /\ state'[Left(n)] = "FREE" /\ state'[Right(n)] = "FREE"
    BY DEF InState, Nodes, BothFree
  <2> SUFFICES ASSUME n # cur PROVE FALSE
    OBVIOUS
  <2>2. n \in DOMAIN state /\ state[n] = "SPLIT"
    BY <1>7, <2>1
  <2>3. Left(n) \in DOMAIN state /\ Right(n) \in DOMAIN state
    BY <1>2, <2>2 DEF Walking, TreeOK, SplitsHave, IsSplit
  <2>4. Left(n) # cur /\ Right(n) # cur /\ BothFree(n)
    BY <1>7, <2>1, <2>3 DEF BothFree
  <2> QED
    BY <1>1, <2>2, <2>4 DEF BuddyInv, JoinsOK, InState, Nodes
<1>16. SeekOK'
  BY <1>1, <1>4, <1>7 DEF SeekOK
<1> QED
  BY <1>8, <1>9, <1>10, <1>13, <1>14, <1>15, <1>16 DEF BuddyInv

(* alloc takes a free node for a page.                                     *)
Take ==
  /\ op = "alloc" /\ state[cur] = "FREE" /\ cur.size >= arg
  /\ ~ CanSplit(cur, arg)
  /\ state' = [state EXCEPT ![cur] = "ALLOC"]
  /\ asked' = [k \in DOMAIN asked \cup {cur.idx} |->
                 IF k = cur.idx THEN arg ELSE asked[k]]
  /\ Reply(cur.idx)
  /\ UNCHANGED buddy_head

(* Pages start at different places.                                        *)
LEMMA PlacesDiffer ==
  ASSUME BuddyInv, Walking, ~ IsSplit(state, cur), cur.size >= 1,
         NEW n \in InState("ALLOC"), n # cur
  PROVE  n.idx # cur.idx
<1>1. n \in DOMAIN state /\ ~ IsSplit(state, n) /\ n.size >= 1 /\ n \in Node
  BY PagesFull DEF Walking
<1>2. Apart(n, cur)
  BY <1>1, LeavesApart DEF Walking
<1>3. PICK i, s, j, t \in Nat : i = n.idx /\ s = n.size /\ j = cur.idx /\ t = cur.size
  BY <1>1, NodeFields DEF Walking
<1> QED
  BY <1>1, <1>2, <1>3 DEF Apart

LEMMA TakeStep ==
  ASSUME BuddyInv, Take
  PROVE  BuddyInv' /\ InState("ALLOC")' = InState("ALLOC") \cup {cur}
<1>1. /\ op = "alloc" /\ state[cur] = "FREE" /\ buddy_head' = buddy_head
      /\ state' = [state EXCEPT ![cur] = "ALLOC"] /\ op' = "none"
  BY DEF Take, Reply
<1>2. Walking /\ ~ IsSplit(state, cur)
  BY <1>1, IsWalking DEF IsSplit
<1>3. PICK a \in Nat \ {0}, z, h \in Nat :
        /\ a = arg /\ z = cur.size /\ h = cur.size \div 2
        /\ z >= a /\ ~ (h >= a) /\ a \in Requests
  BY <1>1, <1>2, PagesAssumption, NodeFields, Half
     DEF Take, CanSplit, Walking, BuddyInv, WalkOK
<1>4. cur.size >= 1 /\ cur.size >= arg /\ cur.size \div 2 < arg
  BY <1>3
<1>5. TreeOK(state', buddy_head)
  BY <1>1, <1>2, MarkTree DEF Walking
<1>6. /\ DOMAIN state' = DOMAIN state /\ state'[cur] = "ALLOC"
      /\ \A m \in DOMAIN state : m # cur => state'[m] = state[m]
  BY <1>1, <1>2 DEF Walking, TreeOK
<1>7. InState("ALLOC")' = InState("ALLOC") \cup {cur}
  BY <1>2, <1>6 DEF InState, Nodes, Walking
<1>8. WalkOK' /\ CallersOK' /\ FreedOK' /\ SeekOK'
  <2>1. cur.idx \in Int
    BY <1>2, NodeFields DEF Walking
  <2> QED
    BY <2>1, ReplyIdle DEF Take
<1>9. PoolOK'
  BY <1>1, <1>2, <1>5 DEF PoolOK, Walking
<1>10. AskedOK'
  <2>1. \A n \in InState("ALLOC") : n # cur => n.idx # cur.idx
    BY <1>2, <1>4, PlacesDiffer
  <2>2. cur \notin InState("ALLOC")
    BY <1>1 DEF InState
  <2>3. DOMAIN asked = {n.idx : n \in InState("ALLOC")} /\ \A k \in DOMAIN asked : asked[k] \in Requests
    BY DEF BuddyInv, AskedOK
  <2>4. asked' = [k \in DOMAIN asked \cup {cur.idx} |->
                    IF k = cur.idx THEN arg ELSE asked[k]]
    BY DEF Take
  <2>5. asked' \in [{n.idx : n \in InState("ALLOC")'} -> Requests]
    <3>1. DOMAIN asked \cup {cur.idx} = {n.idx : n \in InState("ALLOC")'}
      BY <1>7, <2>3
    <3> QED
      BY <1>3, <2>3, <2>4, <3>1
  <2>6. asked'[cur.idx] = arg /\ \A n \in InState("ALLOC") : asked'[n.idx] = asked[n.idx]
    BY <2>1, <2>2, <2>3, <2>4
  <2>7. TightFit'
    BY <1>4, <1>7, <2>6 DEF TightFit, BuddyInv, AskedOK
  <2> QED
    BY <2>5, <2>7 DEF AskedOK
<1>11. JoinsOK'
  <2> SUFFICES ASSUME NEW n \in InState("SPLIT")', BothFree(n)' PROVE FALSE
    BY DEF JoinsOK
  <2>1. /\ n \in DOMAIN state /\ state[n] = "SPLIT" /\ n # cur
        /\ state'[Left(n)] = "FREE" /\ state'[Right(n)] = "FREE"
    BY <1>6 DEF InState, Nodes, BothFree
  <2>2. Left(n) \in DOMAIN state /\ Right(n) \in DOMAIN state
    BY <1>2, <2>1 DEF Walking, TreeOK, SplitsHave, IsSplit
  <2>3. Left(n) # cur /\ Right(n) # cur /\ BothFree(n)
    BY <1>6, <2>1, <2>2 DEF BothFree
  <2> QED
    BY <1>1, <2>1, <2>3 DEF BuddyInv, JoinsOK, InState, Nodes
<1> QED
  BY <1>7, <1>8, <1>9, <1>10, <1>11 DEF BuddyInv

(* The node above cur is the first caller of free.                         *)
LEMMA ParentCalls ==
  ASSUME NEW st, NEW r, TreeOK(st, r), NEW c \in DOMAIN st,
         NEW s \in Seq(Frame(st)), Linked(r, c, s),
         \A f \in Frames(s) : IsSplit(st, f.node),
         NEW n \in DOMAIN st, IsSplit(st, n), ChildOf(c, n)
  PROVE  \E f \in Frames(s) : f.node = n
<1>1. c # r
  BY RootNoChild
<1>2. Len(s) \in Nat /\ Len(s) # 0
  <2>1. Len(s) \in Nat
    OBVIOUS
  <2> SUFFICES ASSUME Len(s) = 0 PROVE FALSE
    BY <2>1
  <2> QED
    BY <1>1 DEF Linked, Under
<1>3. 1 \in 1 .. Len(s)
  BY <1>2
<1>4. s[1] \in Frames(s) /\ c = Child(s[1].node, s[1].side)
  BY <1>3 DEF Frames, Linked, Under
<1>5. s[1].node \in DOMAIN st /\ IsSplit(st, s[1].node) /\ ChildOf(c, s[1].node)
  BY <1>4, FramesIn DEF Frame, Child, ChildOf
<1>6. s[1].node = n
  BY <1>5, OneParent
<1> QED
  BY <1>4, <1>6

(* free gives back the page it looks for,                                  *)
GiveBack ==
  /\ op = "free" /\ state[cur] # "SPLIT" /\ IsPage(cur, arg)
  /\ op' = "back"
  /\ state' = [state EXCEPT ![cur] = "FREE"]
  /\ freed' = TRUE
  /\ asked' = [k \in DOMAIN asked \ {arg} |-> asked[k]]
  /\ UNCHANGED <<buddy_head, arg, cur, stack, rt>>

LEMMA GiveBackStep ==
  ASSUME BuddyInv, GiveBack
  PROVE  BuddyInv' /\ InState("ALLOC")' = InState("ALLOC") \ {cur}
<1>1. /\ op = "free" /\ op' = "back" /\ state[cur] = "ALLOC" /\ cur.idx = arg
      /\ state' = [state EXCEPT ![cur] = "FREE"]
      /\ UNCHANGED <<buddy_head, arg, cur, stack, rt>>
  BY DEF GiveBack, IsPage
<1>2. Walking /\ ~ IsSplit(state, cur)
  BY <1>1, IsWalking DEF IsSplit
<1>3. cur \in InState("ALLOC") /\ cur.size >= 1
  <2>1. cur \in InState("ALLOC")
    BY <1>1, <1>2 DEF InState, Nodes, Walking
  <2> QED
    BY <1>2, <2>1, PagesFull DEF Walking
<1>4. TreeOK(state', buddy_head)
  BY <1>1, <1>2, MarkTree DEF Walking
<1>5. /\ DOMAIN state' = DOMAIN state /\ state'[cur] = "FREE"
      /\ \A m \in DOMAIN state : m # cur => state'[m] = state[m]
  BY <1>1, <1>2 DEF Walking, TreeOK
<1>6. InState("ALLOC")' = InState("ALLOC") \ {cur}
  BY <1>2, <1>5 DEF InState, Nodes, Walking
<1>7. \A m \in DOMAIN state : IsSplit(state', m) <=> IsSplit(state, m)
  BY <1>1, <1>5 DEF IsSplit
<1>8. \A f \in Frames(stack) : f.node \in DOMAIN state /\ IsSplit(state, f.node)
  BY FramesIn DEF BuddyInv, WalkOK, Frame
<1>9. stack \in Seq(Frame(state'))
  BY <1>5, <1>8, SameCallers DEF BuddyInv, WalkOK
<1>10. PoolOK'
  BY <1>1, <1>2, <1>4 DEF PoolOK, Walking
<1>11. WalkOK'
  BY <1>1, <1>2, <1>5, <1>7, <1>8, <1>9 DEF BuddyInv, WalkOK, Walking
<1>12. CallersOK'
  BY <1>1 DEF BuddyInv, CallersOK
<1>13. freed' = TRUE /\ FreedOK'
  <2>1. \A n \in InState("ALLOC")' : n.idx # arg'
    BY <1>1, <1>2, <1>3, <1>6, PlacesDiffer
  <2>2. freed' = TRUE /\ op' = "back"
    BY <1>1 DEF GiveBack
  <2> QED
    BY <2>1, <2>2 DEF FreedOK
<1>14. SeekOK'
  BY <1>1, <1>13 DEF SeekOK
<1>15. AskedOK'
  <2>1. \A n \in InState("ALLOC") : n # cur => n.idx # arg
    BY <1>1, <1>2, <1>3, PlacesDiffer
  <2>2. DOMAIN asked = {n.idx : n \in InState("ALLOC")} /\ \A k \in DOMAIN asked : asked[k] \in Requests
    BY DEF BuddyInv, AskedOK
  <2>3. asked' = [k \in DOMAIN asked \ {arg} |-> asked[k]]
    BY DEF GiveBack
  <2>4. DOMAIN asked \ {arg} = {n.idx : n \in InState("ALLOC")'}
    BY <1>1, <1>6, <2>1, <2>2
  <2>5. asked' \in [{n.idx : n \in InState("ALLOC")'} -> Requests]
    BY <2>2, <2>3, <2>4
  <2>6. \A n \in InState("ALLOC")' : asked'[n.idx] = asked[n.idx]
    BY <2>3, <2>4
  <2>7. TightFit'
    BY <1>6, <2>6 DEF TightFit, BuddyInv, AskedOK
  <2> QED
    BY <2>5, <2>7 DEF AskedOK
<1>16. JoinsOK'
  <2> SUFFICES ASSUME NEW n \in InState("SPLIT")', BothFree(n)'
               PROVE  \E f \in Frames(stack) : f.node = n
    BY <1>1 DEF JoinsOK
  <2>1. /\ n \in DOMAIN state /\ state[n] = "SPLIT" /\ n # cur
        /\ state'[Left(n)] = "FREE" /\ state'[Right(n)] = "FREE"
    BY <1>5 DEF InState, Nodes, BothFree
  <2>2. CASE ChildOf(cur, n)
    <3>1. stack \in Seq(Frame(state)) /\ Linked(buddy_head, cur, stack)
      BY <1>1 DEF BuddyInv, WalkOK, CallersOK
    <3>2. IsSplit(state, n)
      BY <2>1 DEF IsSplit
    <3> QED
      BY <1>2, <1>8, <2>1, <2>2, <3>1, <3>2, ParentCalls DEF Walking
  <2>3. CASE ~ ChildOf(cur, n)
    <3>1. Left(n) \in DOMAIN state /\ Right(n) \in DOMAIN state
      BY <1>2, <2>1 DEF Walking, TreeOK, SplitsHave, IsSplit
    <3>2. BothFree(n)
      BY <1>5, <2>1, <2>3, <3>1 DEF BothFree, ChildOf
    <3> QED
      BY <1>1, <2>1, <3>2 DEF BuddyInv, JoinsOK, InState, Nodes
  <2> QED
    BY <2>2, <2>3
<1> QED
  BY <1>6, <1>10, <1>11, <1>12, <1>13, <1>14, <1>15, <1>16 DEF BuddyInv

(* or leaves a node that is not it,                                        *)
PassBy ==
  /\ op = "free" /\ state[cur] # "SPLIT" /\ ~ IsPage(cur, arg)
  /\ op' = "back"
  /\ UNCHANGED <<buddy_head, state, freed, asked, arg, cur, stack, rt>>

LEMMA PassByStep ==
  ASSUME BuddyInv, PassBy
  PROVE  BuddyInv'
<1>1. /\ op = "free" /\ op' = "back" /\ op # "none"
      /\ UNCHANGED <<buddy_head, state, freed, asked, arg, cur, stack, rt>>
  BY DEF PassBy
<1>2. Walking /\ ~ IsSplit(state, cur)
  BY <1>1, IsWalking DEF PassBy, IsSplit
<1>3. PoolOK' /\ WalkOK' /\ CallersOK'
  BY <1>1, <1>2 DEF BuddyInv, PoolOK, WalkOK, CallersOK, Walking
<1>4. FreedOK' /\ AskedOK'
  BY <1>1 DEF BuddyInv, FreedOK, AskedOK, TightFit, InState, Nodes
<1>5. JoinsOK'
  BY <1>1 DEF BuddyInv, JoinsOK, BothFree, InState, Nodes
<1>6. SeekOK'
  <2> SUFFICES ASSUME ~ freed, NEW n \in InState("ALLOC"), n.idx = arg
               PROVE  Behind(n, stack, "left")
    BY <1>1 DEF SeekOK, InState, Nodes
  <2>1. Ahead(n, cur, stack, "left")
    BY <1>1 DEF BuddyInv, SeekOK
  <2>2. n \in DOMAIN state /\ n.size >= 1 /\ state[n] = "ALLOC"
    BY <1>2, PagesFull DEF Walking, InState
  <2>3. n # cur
    BY <2>2 DEF PassBy, IsPage
  <2>4. ~ Inside(n, cur)
    BY <1>2, <2>2, <2>3, LeafAlone DEF Walking
  <2> QED
    BY <2>1, <2>4 DEF Ahead
<1> QED
  BY <1>3, <1>4, <1>5, <1>6 DEF BuddyInv

(* goes from the left to the right side of a split,                        *)
Turn ==
  /\ op = "back" /\ stack # <<>> /\ Head(stack).side = "left"
  /\ op' = "free"
  /\ cur' = Right(Head(stack).node)
  /\ stack' = <<[Head(stack) EXCEPT !.side = "right"]>> \o Tail(stack)
  /\ UNCHANGED <<buddy_head, state, asked, arg, freed, rt>>

LEMMA TurnStep ==
  ASSUME BuddyInv, Turn
  PROVE  BuddyInv'
<1>1. /\ op = "back" /\ op' = "free" /\ op # "none" /\ stack # <<>>
      /\ UNCHANGED <<buddy_head, state, asked, arg, freed, rt>>
  BY DEF Turn
<1>2. Walking
  BY <1>1, IsWalking
<1>3. stack \in Seq(Frame(state)) /\ \A f \in Frames(stack) : IsSplit(state, f.node)
  BY DEF BuddyInv, WalkOK
<1>4. /\ Tail(stack) \in Seq(Frame(state)) /\ Head(stack) \in Frame(state)
      /\ Frames(stack) = {Head(stack)} \cup Frames(Tail(stack))
  BY <1>1, <1>3, PopSeq DEF Popped
<1>5. PICK n : n = Head(stack).node
  OBVIOUS
<1>6. n \in DOMAIN state /\ IsSplit(state, n) /\ Head(stack).side = "left" /\ n \in Node
  BY <1>2, <1>3, <1>4, <1>5 DEF Frame, Turn, Walking
<1>7. PICK f : f = [node |-> n, side |-> "right"]
  OBVIOUS
<1>8. f \in Frame(state) /\ f.node = n /\ f.side = "right"
  BY <1>6, <1>7 DEF Frame, Sides
<1>9. stack' = <<f>> \o Tail(stack)
  <2>1. [Head(stack) EXCEPT !.side = "right"] = f
    BY <1>4, <1>5, <1>7 DEF Frame
  <2> QED
    BY <2>1 DEF Turn
<1>10. /\ stack' \in Seq(Frame(state))
       /\ Frames(stack') = {f} \cup Frames(Tail(stack))
  <2>1. PICK q, T : q = Tail(stack) /\ T = Frame(state)
    OBVIOUS
  <2>2. q \in Seq(T) /\ f \in T
    BY <1>4, <1>8, <2>1
  <2>3. <<f>> \o q \in Seq(T) /\ Frames(<<f>> \o q) = {f} \cup Frames(q)
    BY <2>2, PushSeq DEF Pushed
  <2> QED
    BY <1>9, <2>1, <2>3
<1>11. /\ Child(n, "right") \in DOMAIN state /\ Child(n, "right") \in Node
       /\ Child(n, "right").size < n.size
  BY <1>2, <1>6, ChildSides DEF Walking, Sides
<1>12. cur' = Child(n, "right") /\ Child(n, Other("left")) = cur'
  BY <1>5 DEF Turn, Child, Other
<1>13. PoolOK' /\ AskedOK' /\ FreedOK'
  BY <1>1, <1>2 DEF BuddyInv, PoolOK, AskedOK, FreedOK, TightFit, InState, Nodes, Walking
<1>14. WalkOK'
  BY <1>1, <1>2, <1>3, <1>4, <1>6, <1>8, <1>10, <1>11, <1>12 DEF BuddyInv, WalkOK, Walking
<1>15. CallersOK'
  <2>1. Linked(buddy_head, cur, stack) /\ Growing(cur, stack)
    BY <1>1 DEF BuddyInv, CallersOK
  <2>2. Linked(buddy_head, n, Tail(stack)) /\ Growing(n, Tail(stack))
    BY <1>1, <1>2, <1>3, <1>5, <2>1, PopLinked DEF Walking, Frame
  <2>3. Linked(buddy_head, Child(n, "right"), stack') /\ Growing(Child(n, "right"), stack')
    BY <1>2, <1>4, <1>6, <1>7, <1>9, <1>11, <2>2, PushLinked DEF Walking, Frame, Sides
  <2> QED
    BY <1>1, <1>12, <2>3 DEF CallersOK
<1>16. JoinsOK'
  BY <1>1, <1>4, <1>5, <1>8, <1>10 DEF BuddyInv, JoinsOK, BothFree, InState, Nodes
<1>17. SeekOK'
  <2> SUFFICES ASSUME ~ freed, NEW m \in InState("ALLOC"), m.idx = arg
               PROVE  Ahead(m, cur', stack', "left")
    BY <1>1 DEF SeekOK, InState, Nodes
  <2>1. Behind(m, stack, "left")
    BY <1>1 DEF BuddyInv, SeekOK
  <2> QED
    BY <1>4, <1>5, <1>10, <1>12, <2>1 DEF Ahead, Behind
<1> QED
  BY <1>13, <1>14, <1>15, <1>16, <1>17 DEF BuddyInv

(* joins a split when both sides are free, or leaves it,                   *)
Rise ==
  /\ op = "back" /\ stack # <<>> /\ Head(stack).side = "right"
  /\ state' = Joined(Head(stack).node)
  /\ cur' = Head(stack).node
  /\ stack' = Tail(stack)
  /\ UNCHANGED <<buddy_head, asked, op, arg, freed, rt>>

LEMMA RiseStep ==
  ASSUME BuddyInv, Rise
  PROVE  BuddyInv' /\ InState("ALLOC")' = InState("ALLOC")
<1>1. /\ op = "back" /\ op # "none" /\ stack # <<>> /\ stack' = Tail(stack)
      /\ UNCHANGED <<buddy_head, asked, op, arg, freed, rt>>
  BY DEF Rise
<1>2. Walking
  BY <1>1, IsWalking
<1>3. stack \in Seq(Frame(state)) /\ \A f \in Frames(stack) : IsSplit(state, f.node)
  BY DEF BuddyInv, WalkOK
<1>4. /\ stack' \in Seq(Frame(state)) /\ Head(stack) \in Frame(state)
      /\ Frames(stack) = {Head(stack)} \cup Frames(stack')
  BY <1>1, <1>3, PopSeq DEF Popped
<1>5. PICK n : n = Head(stack).node
  OBVIOUS
<1>6. /\ n \in DOMAIN state /\ IsSplit(state, n) /\ n \in Node
      /\ Head(stack).side = "right" /\ cur' = n
  BY <1>2, <1>3, <1>4, <1>5 DEF Frame, Rise, Walking
<1>7. /\ Linked(buddy_head, n, stack') /\ Growing(n, stack')
      /\ \A f \in Frames(stack') : f.node # n
  <2>1. Linked(buddy_head, cur, stack) /\ Growing(cur, stack)
    BY <1>1 DEF BuddyInv, CallersOK
  <2> QED
    BY <1>1, <1>2, <1>3, <1>5, <2>1, PopLinked DEF Walking, Frame
<1>8. CallersOK'
  BY <1>1, <1>6, <1>7 DEF CallersOK
<1>10. \A f \in Frames(stack') : f.node \in DOMAIN state /\ IsSplit(state, f.node) /\ f.node # n
  BY <1>3, <1>4, <1>7, FramesIn DEF Frame
<1>11. /\ TreeOK(state', buddy_head) /\ n \in DOMAIN state'
       /\ \A m \in DOMAIN state' : m \in DOMAIN state /\ (m # n => state'[m] = state[m])
       /\ \A m \in DOMAIN state : state[m] # "FREE" => m \in DOMAIN state'
       /\ state'[n] # "ALLOC"
       /\ IsSplit(state', n) => ~ BothFree(n) /\ state' = state
  <2>1. CASE BothFree(n)
    <3>1. state' = [m \in DOMAIN state \ {Left(n), Right(n)} |->
                      IF m = n THEN "FREE" ELSE state[m]]
      BY <1>5, <2>1 DEF Rise, Joined, BothFree
    <3>2. TreeOK(state', buddy_head) /\ n \in DOMAIN state' /\ state'[n] = "FREE"
      BY <1>2, <1>6, <2>1, <3>1, JoinTree DEF Walking, BothFree
    <3>3. \A m \in DOMAIN state' : m \in DOMAIN state /\ (m # n => state'[m] = state[m])
      BY <3>1
    <3>4. \A m \in DOMAIN state : state[m] # "FREE" => m \in DOMAIN state'
      BY <2>1, <3>1 DEF BothFree
    <3> QED
      BY <3>2, <3>3, <3>4 DEF IsSplit
  <2>2. CASE ~ BothFree(n)
    <3>1. state' = state
      BY <1>5, <2>2 DEF Rise, Joined, BothFree
    <3> QED
      BY <1>2, <1>6, <2>2, <3>1 DEF Walking, IsSplit
  <2> QED
    BY <2>1, <2>2
<1>12. InState("ALLOC")' = InState("ALLOC")
  <2>1. state[n] = "SPLIT"
    BY <1>6 DEF IsSplit
  <2>2. ASSUME NEW m \in InState("ALLOC") PROVE m \in InState("ALLOC")'
    BY <1>11, <2>1 DEF InState, Nodes
  <2>3. ASSUME NEW m \in InState("ALLOC")' PROVE m \in InState("ALLOC")
    BY <1>11, <2>1 DEF InState, Nodes
  <2> QED
    BY <2>2, <2>3
<1>9. FreedOK'
  BY <1>1, <1>12 DEF BuddyInv, FreedOK
<1>13. PoolOK' /\ AskedOK'
  BY <1>1, <1>2, <1>11, <1>12 DEF BuddyInv, PoolOK, AskedOK, TightFit, Walking
<1>14. \A f \in Frames(stack') : f.node \in DOMAIN state' /\ IsSplit(state', f.node)
  BY <1>10, <1>11 DEF IsSplit
<1>15. stack' \in Seq(Frame(state'))
  BY <1>4, <1>14, SameCallers
<1>16. WalkOK'
  BY <1>1, <1>2, <1>6, <1>11, <1>14, <1>15 DEF BuddyInv, WalkOK, Walking
<1>17. JoinsOK'
  <2> SUFFICES ASSUME NEW m \in InState("SPLIT")', BothFree(m)'
               PROVE  \E f \in Frames(stack') : f.node = m
    BY <1>1 DEF JoinsOK
  <2>1. /\ m \in DOMAIN state' /\ IsSplit(state', m)
        /\ state'[Left(m)] = "FREE" /\ state'[Right(m)] = "FREE"
    BY DEF InState, Nodes, BothFree, IsSplit
  <2>2. m # n
    BY <1>11, <2>1 DEF BothFree
  <2>3. CASE ChildOf(n, m)
    BY <1>7, <1>11, <1>14, <1>15, <2>1, <2>3, ParentCalls
  <2>4. CASE ~ ChildOf(n, m)
    <3>1. Left(m) \in DOMAIN state' /\ Right(m) \in DOMAIN state'
      BY <1>11, <2>1 DEF TreeOK, SplitsHave
    <3>2. BothFree(m) /\ m \in InState("SPLIT")
      BY <1>11, <2>1, <2>2, <2>4, <3>1 DEF BothFree, ChildOf, InState, Nodes, IsSplit
    <3> QED
      BY <1>1, <1>4, <1>5, <2>2, <3>2 DEF BuddyInv, JoinsOK
  <2> QED
    BY <2>3, <2>4
<1>18. SeekOK'
  <2> SUFFICES ASSUME ~ freed, NEW m \in InState("ALLOC"), m.idx = arg
               PROVE  Behind(m, stack', "left")
    BY <1>1, <1>12 DEF SeekOK
  <2>1. Behind(m, stack, "left")
    BY <1>1 DEF BuddyInv, SeekOK
  <2> QED
    BY <1>4, <1>6, <2>1 DEF Behind
<1> QED
  BY <1>12, <1>8, <1>9, <1>13, <1>16, <1>17, <1>18 DEF BuddyInv

(* A pool is made, or dropped.                                             *)
LEMMA OneTree ==
  ASSUME NEW r \in Node, NEW st, st = [n \in {r} |-> "FREE"]
  PROVE  TreeOK(st, r)
<1>1. DOMAIN st = {r} /\ st[r] = "FREE" /\ ~ IsSplit(st, r)
  BY DEF IsSplit
<1>2. Inside(r, r)
  BY InsideSelf
<1> QED
  BY <1>1, <1>2 DEF TreeOK, Marks, InRoot, SplitsHave, Laminar, HaveParents

LEMMA IdleState ==
  ASSUME BuddyInv, op = "none", UNCHANGED <<op, arg, cur, stack, freed>>, rt' \in Int
  PROVE  WalkOK' /\ CallersOK' /\ FreedOK' /\ SeekOK'
<1>1. op = "none" /\ op' = "none" /\ stack = <<>> /\ stack' = <<>>
  BY DEF BuddyInv, WalkOK
<1>2. Frames(stack') = {} /\ stack' \in Seq(Frame(state'))
  BY <1>1, NoFrames
<1>3. WalkOK'
  BY <1>1, <1>2 DEF BuddyInv, WalkOK
<1>4. CallersOK' /\ SeekOK'
  BY <1>1 DEF CallersOK, SeekOK
<1>5. FreedOK'
  BY <1>1 DEF BuddyInv, FreedOK
<1> QED
  BY <1>3, <1>4, <1>5

Begin(size) ==
  /\ op = "none" /\ buddy_head = NULL
  /\ buddy_head' = Page(0, size)
  /\ state' = [n \in {Page(0, size)} |-> "FREE"]
  /\ rt' = 0
  /\ UNCHANGED <<asked, op, arg, cur, stack, freed>>

LEMMA BeginStep ==
  ASSUME BuddyInv, NEW size \in Nat, Begin(size)
  PROVE  BuddyInv'
<1>1. WalkOK' /\ CallersOK' /\ FreedOK' /\ SeekOK'
  BY IdleState DEF Begin
<1>2. PICK r : r = Page(0, size)
  OBVIOUS
<1>3. r \in Node /\ r.idx = 0 /\ r # NULL
  BY <1>2, PageNode DEF NULL, Page
<1>4. buddy_head' = r /\ state' = [n \in {r} |-> "FREE"] /\ op' = op
  BY <1>2 DEF Begin
<1>5. DOMAIN state' = {r} /\ state'[r] = "FREE"
  BY <1>4
<1>6. TreeOK(state', r)
  BY <1>3, <1>4, OneTree
<1>7. PoolOK'
  BY <1>3, <1>4, <1>6 DEF PoolOK
<1>8. InState("ALLOC") = {} /\ InState("ALLOC")' = {} /\ InState("SPLIT")' = {}
  BY <1>5 DEF Begin, BuddyInv, PoolOK, InState, Nodes
<1>9. AskedOK'
  <2>1. asked' = asked
    BY DEF Begin
  <2> QED
    BY <1>8, <2>1 DEF BuddyInv, AskedOK, TightFit
<1>10. JoinsOK'
  BY <1>8 DEF JoinsOK
<1> QED
  BY <1>1, <1>7, <1>9, <1>10 DEF BuddyInv

LEMMA KillStep ==
  ASSUME BuddyInv, buddy_kill
  PROVE  BuddyInv'
<1>1. /\ op = "none" /\ buddy_head' = NULL /\ state' = <<>> /\ asked' = <<>>
      /\ UNCHANGED <<op, arg, cur, stack, freed, rt>>
  BY DEF buddy_kill, walk
<1>2. WalkOK' /\ CallersOK' /\ FreedOK' /\ SeekOK'
  <2>1. rt' \in Int
    BY <1>1 DEF BuddyInv, WalkOK
  <2> QED
    BY <1>1, <2>1, IdleState
<1>3. DOMAIN state' = {} /\ asked' \in [{} -> Requests]
  BY <1>1
<1>4. PoolOK'
  BY <1>1, <1>3 DEF PoolOK
<1>5. InState("ALLOC")' = {} /\ InState("SPLIT")' = {}
  BY <1>3 DEF InState, Nodes
<1>6. AskedOK' /\ JoinsOK'
  BY <1>3, <1>5 DEF AskedOK, TightFit, JoinsOK
<1> QED
  BY <1>2, <1>4, <1>6 DEF BuddyInv

Still ==
  /\ rt' = rt \/ (buddy_head = NULL /\ PoolSizes # {} /\ rt' = -1)
  /\ UNCHANGED <<buddy_head, state, asked, op, arg, cur, stack, freed>>

LEMMA StillStep ==
  ASSUME BuddyInv, Still
  PROVE  BuddyInv'
<1>1. UNCHANGED <<buddy_head, state, asked, op, arg, cur, stack, freed>> /\ rt' \in Int
  BY DEF Still, BuddyInv, WalkOK
<1>2. PoolOK' /\ WalkOK' /\ CallersOK'
  BY <1>1 DEF BuddyInv, PoolOK, WalkOK, CallersOK
<1>3. FreedOK' /\ AskedOK'
  BY <1>1 DEF BuddyInv, FreedOK, AskedOK, TightFit, InState, Nodes
<1>4. JoinsOK' /\ SeekOK'
  BY <1>1 DEF BuddyInv, JoinsOK, SeekOK, BothFree, InState, Nodes
<1> QED
  BY <1>2, <1>3, <1>4 DEF BuddyInv

(* Every step is of one of these kinds.                                    *)
Deny == Missed /\ stack = <<>> /\ Reply(-1) /\ UNCHANGED tree
Done == op = "back" /\ stack = <<>> /\ Reply(IF freed THEN 0 ELSE -1) /\ UNCHANGED tree
Found ==
  /\ op = "size" /\ state[cur] = "ALLOC" /\ Holds(cur, arg)
  /\ Reply(cur.idx + cur.size - arg)
  /\ UNCHANGED tree

Kinds ==
  \/ Still
  \/ \E size \in PoolSizes : Begin(size)
  \/ \E x \in Requests : Call("alloc", x)
  \/ \E x \in Indexes : Call("free", x) \/ Call("size", x)
  \/ Down("alloc", "left") \/ Down("free", "left") \/ Down("size", "right")
  \/ Missed /\ Up
  \/ Deny \/ Halve \/ Take
  \/ GiveBack \/ PassBy \/ Turn \/ Rise \/ Done
  \/ Found
  \/ buddy_kill

LEMMA StepKinds ==
  ASSUME BuddyInv, [BuddyNext]_buddyVars
  PROVE  Kinds
<1>1. CASE UNCHANGED buddyVars
  BY <1>1 DEF buddyVars, tree, walk, Kinds, Still, BuddyInv, WalkOK
<1>2. CASE \E size \in PoolSizes : buddy_init(size)
  BY <1>2 DEF buddy_init, walk, Kinds, Still, Begin
<1>3. CASE \E size \in Requests : buddy_alloc(size)
  BY <1>3 DEF buddy_alloc, Kinds
<1>4. CASE \E idx \in Indexes : buddy_free(idx) \/ buddy_size(idx)
  BY <1>4 DEF buddy_free, buddy_size, Kinds
<1>5. ASSUME Fail, Missed, UNCHANGED tree
      PROVE  (Missed /\ Up) \/ Deny
  BY <1>5 DEF Fail, Up, Deny, tree
<1>6. CASE _buddy_alloc
  <2>1. CASE /\ op = "alloc" /\ state[cur] = "SPLIT" /\ Recurse("left")
             /\ UNCHANGED <<state, asked, buddy_head>>
    BY <2>1 DEF Recurse, Down, Kinds
  <2>2. CASE /\ op = "alloc"
             /\ state[cur] = "ALLOC" \/ (state[cur] = "FREE" /\ cur.size < arg)
             /\ Fail /\ UNCHANGED <<state, asked, buddy_head>>
    <3>1. Missed /\ UNCHANGED tree
      BY <2>2 DEF Missed, tree
    <3> QED
      BY <1>5, <2>2, <3>1 DEF Kinds
  <2>3. CASE op = "alloc" /\ state[cur] = "FREE" /\ cur.size >= arg /\ UNCHANGED buddy_head
             /\ CanSplit(cur, arg) /\ state' = Split(cur) /\ cur' = Left(cur)
             /\ UNCHANGED <<asked, op, arg, stack, freed, rt>>
    BY <2>3 DEF Halve, Kinds
  <2>4. CASE /\ op = "alloc" /\ state[cur] = "FREE" /\ cur.size >= arg /\ UNCHANGED buddy_head
             /\ ~ CanSplit(cur, arg)
             /\ state' = [state EXCEPT ![cur] = "ALLOC"]
             /\ asked' = [k \in DOMAIN asked \cup {cur.idx} |->
                            IF k = cur.idx THEN arg ELSE asked[k]]
             /\ Reply(cur.idx)
    BY <2>4 DEF Take, Kinds
  <2> QED
    BY <1>6, <2>1, <2>2, <2>3, <2>4 DEF _buddy_alloc
<1>7. CASE _buddy_free
  <2>1. CASE /\ op = "free" /\ state[cur] = "SPLIT" /\ Recurse("left")
             /\ UNCHANGED <<state, asked, buddy_head>>
    BY <2>1 DEF Recurse, Down, Kinds
  <2>2. CASE /\ op = "free" /\ state[cur] # "SPLIT" /\ op' = "back"
             /\ IF IsPage(cur, arg)
                THEN /\ state' = [state EXCEPT ![cur] = "FREE"]
                     /\ freed' = TRUE
                     /\ asked' = [k \in DOMAIN asked \ {arg} |-> asked[k]]
                ELSE UNCHANGED <<state, freed, asked>>
             /\ UNCHANGED <<arg, cur, stack, rt, buddy_head>>
    BY <2>2 DEF GiveBack, PassBy, Kinds
  <2>3. CASE /\ op = "back" /\ stack # <<>> /\ Head(stack).side = "left"
             /\ op' = "free" /\ cur' = Right(Head(stack).node)
             /\ stack' = <<[Head(stack) EXCEPT !.side = "right"]>> \o Tail(stack)
             /\ UNCHANGED <<state, asked, arg, freed, rt, buddy_head>>
    BY <2>3 DEF Turn, Kinds
  <2>4. CASE /\ op = "back" /\ stack # <<>> /\ Head(stack).side = "right"
             /\ state' = Joined(Head(stack).node) /\ cur' = Head(stack).node
             /\ stack' = Tail(stack)
             /\ UNCHANGED <<asked, op, arg, freed, rt, buddy_head>>
    BY <2>4 DEF Rise, Kinds
  <2>5. CASE /\ op = "back" /\ stack = <<>> /\ Reply(IF freed THEN 0 ELSE -1)
             /\ UNCHANGED <<state, asked, buddy_head>>
    BY <2>5 DEF Done, Kinds, tree
  <2> QED
    BY <1>7, <2>1, <2>2, <2>3, <2>4, <2>5 DEF _buddy_free
<1>8. CASE _buddy_size
  <2>1. CASE op = "size" /\ state[cur] = "SPLIT" /\ Recurse("right") /\ UNCHANGED tree
    BY <2>1 DEF Recurse, Down, Kinds, tree
  <2>2. CASE /\ op = "size" /\ state[cur] = "ALLOC" /\ Holds(cur, arg)
             /\ Reply(cur.idx + cur.size - arg) /\ UNCHANGED tree
    BY <2>2 DEF Found, Kinds
  <2>3. CASE /\ op = "size"
             /\ state[cur] = "FREE" \/ (state[cur] = "ALLOC" /\ ~ Holds(cur, arg))
             /\ Fail /\ UNCHANGED tree
    <3>1. Missed
      BY <2>3 DEF Missed
    <3> QED
      BY <1>5, <2>3, <3>1 DEF Kinds
  <2> QED
    BY <1>8, <2>1, <2>2, <2>3 DEF _buddy_size
<1>9. CASE buddy_kill
  BY <1>9 DEF Kinds
<1> QED
  BY <1>1, <1>2, <1>3, <1>4, <1>6, <1>7, <1>8, <1>9 DEF BuddyNext

LEMMA InvStep == BuddyInv /\ [BuddyNext]_buddyVars => BuddyInv'
<1> SUFFICES ASSUME BuddyInv, [BuddyNext]_buddyVars PROVE BuddyInv'
  OBVIOUS
<1>1. Kinds
  BY StepKinds
<1>2. CASE Still
  BY <1>2, StillStep
<1>3. CASE \E size \in PoolSizes : Begin(size)
  BY <1>3, BeginStep, PagesAssumption
<1>4. CASE \E x \in Requests : Call("alloc", x)
  BY <1>4, CallStep
<1>5. CASE \E x \in Indexes : Call("free", x) \/ Call("size", x)
  BY <1>5, CallStep
<1>6. CASE Down("alloc", "left") \/ Down("free", "left") \/ Down("size", "right")
  BY <1>6, DownStep
<1>7. CASE Missed /\ Up
  BY <1>7, UpStep
<1>8. CASE Deny
  <2>1. Missed /\ Reply(-1) /\ UNCHANGED tree
    BY <1>8 DEF Deny
  <2>2. op # "none" /\ NoneFree
    BY <2>1, MissedBehind DEF Missed, LeftBehind
  <2> QED
    BY <2>1, <2>2, ReplyStep
<1>9. CASE Halve \/ Take
  BY <1>9, HalveStep, TakeStep
<1>10. CASE GiveBack \/ PassBy \/ Turn \/ Rise
  BY <1>10, GiveBackStep, PassByStep, TurnStep, RiseStep
<1>11. CASE Done
  <2>1. op = "back" /\ stack = <<>> /\ UNCHANGED tree
    BY <1>11 DEF Done
  <2>2. PICK v \in {0, -1} : Reply(v)
    BY <1>11 DEF Done
  <2>3. NoneFree
    <3>1. Frames(stack) = {}
      BY <2>1, NoFrames
    <3> QED
      BY <2>1, <3>1 DEF NoneFree, BuddyInv, JoinsOK
  <2>4. op # "none" /\ v \in Int
    BY <2>1
  <2> QED
    BY <2>1, <2>2, <2>3, <2>4, ReplyStep
<1>12. CASE Found
  <2>1. op = "size" /\ op # "none" /\ Reply(cur.idx + cur.size - arg) /\ UNCHANGED tree
    BY <1>12 DEF Found
  <2>2. cur.idx + cur.size - arg \in Int
    <3>1. cur.idx \in Nat /\ cur.size \in Nat /\ arg \in Int
      BY <2>1, IsWalking, NodeFields, PagesAssumption DEF Walking, BuddyInv, WalkOK
    <3> QED
      BY <3>1
  <2>3. NoneFree
    BY <2>1, IdleFree
  <2> QED
    BY <2>1, <2>2, <2>3, ReplyStep
<1>13. CASE buddy_kill
  BY <1>13, KillStep
<1> QED
  BY <1>1, <1>2, <1>3, <1>4, <1>5, <1>6, <1>7, <1>8, <1>9, <1>10, <1>11, <1>12,
     <1>13 DEF Kinds

LEMMA InvInit == BuddyInit => BuddyInv
<1> SUFFICES ASSUME BuddyInit PROVE BuddyInv
  OBVIOUS
<1>1. /\ buddy_head = NULL /\ state = <<>> /\ asked = <<>> /\ op = "none"
      /\ arg = 0 /\ cur = NULL /\ stack = <<>> /\ rt = 0
  BY DEF BuddyInit
<1>2. DOMAIN state = {} /\ asked \in [{} -> Requests] /\ Frames(stack) = {}
  BY <1>1, NoFrames
<1>3. InState("ALLOC") = {} /\ InState("SPLIT") = {}
  BY <1>2 DEF InState, Nodes
<1>4. stack \in Seq(Frame(state))
  BY <1>1
<1>5. PoolOK /\ WalkOK /\ CallersOK
  BY <1>1, <1>2, <1>4 DEF PoolOK, WalkOK, CallersOK
<1>6. FreedOK
  BY DEF BuddyInit, FreedOK
<1>7. AskedOK /\ JoinsOK /\ SeekOK
  BY <1>1, <1>2, <1>3 DEF AskedOK, TightFit, JoinsOK, SeekOK
<1> QED
  BY <1>5, <1>6, <1>7 DEF BuddyInv

(* The invariant that the results on the buddy allocator rest on.          *)
THEOREM BuddyInvariant == BuddySpec => []BuddyInv
BY InvInit, InvStep, PTL DEF BuddySpec

LEMMA InvType == BuddyInv => BuddyTypeOK
<1> SUFFICES ASSUME BuddyInv PROVE BuddyTypeOK
  OBVIOUS
<1>1. DOMAIN state \subseteq Node /\ state \in [DOMAIN state -> Marks]
      /\ buddy_head \in DOMAIN state \cup {NULL}
  <2>1. CASE buddy_head = NULL
    BY <2>1 DEF BuddyInv, PoolOK
  <2>2. CASE buddy_head # NULL
    BY <2>2 DEF BuddyInv, PoolOK, TreeOK
  <2> QED
    BY <2>1, <2>2
<1>2. stack \in Seq([node : InState("SPLIT"), side : {"left", "right"}])
  <2>1. ASSUME NEW f \in Frames(stack)
        PROVE  f \in [node : InState("SPLIT"), side : {"left", "right"}]
    <3>1. f \in Frame(state) /\ IsSplit(state, f.node)
      BY FramesIn DEF BuddyInv, WalkOK
    <3> QED
      BY <3>1 DEF Frame, Sides, IsSplit, InState, Nodes
  <2>2. PICK S, T, s : /\ S = Frame(state) /\ s = stack
                       /\ T = [node : InState("SPLIT"), side : {"left", "right"}]
    OBVIOUS
  <2>3. s \in Seq(S) /\ \A f \in Frames(s) : f \in T
    BY <2>1, <2>2 DEF BuddyInv, WalkOK
  <2>4. s \in Seq(T)
    BY <2>3, SeqIn
  <2> QED
    BY <2>2, <2>4
<1>3. arg \in Int /\ op \in {"none", "alloc", "free", "back", "size"} /\ rt \in Int
      /\ cur \in DOMAIN state \cup {NULL}
  <2>1. Requests \subseteq Int /\ Indexes \subseteq Int /\ 0 \in Int
    BY PagesAssumption
  <2>2. arg \in Requests \cup Indexes \cup {0}
    BY DEF BuddyInv, WalkOK
  <2> QED
    BY <2>1, <2>2 DEF BuddyInv, WalkOK
<1>4. freed \in BOOLEAN
  BY DEF BuddyInv, FreedOK
<1>5. asked \in [{n.idx : n \in InState("ALLOC")} -> Requests]
  BY DEF BuddyInv, AskedOK
<1> QED
  BY <1>1, <1>2, <1>3, <1>4, <1>5 DEF BuddyTypeOK, Nodes, Node, Marks

(* Type correctness of the tree and of the walks through it, for every     *)
(* pool size and every request: the callers on the stack of the recursion  *)
(* of buddy.c are nodes that are still split, so none of them was freed.   *)
THEOREM BuddyTypeCorrect == BuddySpec => []BuddyTypeOK
BY BuddyInvariant, InvType, PTL

LEMMA InvCoalesced == BuddyInv => Coalesced
BY IdleFree DEF Coalesced, NoneFree, BothFree

(* No split survives with both halves free (buddy.c:109), whatever the     *)
(* order in which pages of whatever sizes are allocated and freed.         *)
THEOREM CoalescedCorrect == BuddySpec => []Coalesced
BY BuddyInvariant, InvCoalesced, PTL

(* A page is large enough for its request and its half is not (buddy.c:62).*)
THEOREM TightFitCorrect == BuddySpec => []TightFit
<1>1. BuddyInv => TightFit
  BY DEF BuddyInv, AskedOK
<1> QED
  BY <1>1, BuddyInvariant, PTL

-----------------------------------------------------------------------------
(* The tree implements the allocator that buddy.h promises.                *)
NewPage(r, n, ps) ==
  /\ n.idx \in 0 .. r.size - 1
  /\ n.size \in 1 .. r.size
  /\ n.idx + n.size <= r.size
  /\ \A page \in ps : Apart(n, page)

LEMMA TakeFits == BuddyInv /\ Take => NewPage(buddy_head, cur, InState("ALLOC"))
<1> SUFFICES ASSUME BuddyInv, Take
             PROVE  NewPage(buddy_head, cur, InState("ALLOC"))
  OBVIOUS
<1>1. Walking /\ ~ IsSplit(state, cur) /\ Inside(cur, buddy_head)
  BY IsWalking DEF Take, IsSplit, Walking, TreeOK, InRoot
<1>2. PICK i, z, p \in Nat, a \in Nat \ {0} :
        /\ i = cur.idx /\ z = cur.size /\ a = arg /\ p = buddy_head.size
        /\ z >= a /\ buddy_head.idx = 0
  BY <1>1, PagesAssumption, NodeFields DEF Take, Walking, BuddyInv, WalkOK
<1>3. i + z <= p
  BY <1>1, <1>2 DEF Inside
<1>4. ASSUME NEW page \in InState("ALLOC") PROVE Apart(cur, page)
  <2>1. page # cur
    BY DEF Take, InState
  <2>2. page \in DOMAIN state /\ ~ IsSplit(state, page)
    BY <1>1, PagesFull DEF Walking
  <2> QED
    BY <1>1, <2>1, <2>2, LeavesApart DEF Walking
<1>5. i \in 0 .. p - 1 /\ z \in 1 .. p
  BY <1>2, <1>3
<1> QED
  BY <1>2, <1>3, <1>4, <1>5 DEF NewPage

(* The call that has not taken effect yet.                                 *)
Pending ==
  IF freed THEN <<"none", 0>> ELSE <<IF op = "back" THEN "free" ELSE op, arg>>

LEMMA PendingIdle == BuddyInv /\ op = "none" => ~ freed /\ Pending = <<"none", 0>>
<1> SUFFICES ASSUME BuddyInv, op = "none"
             PROVE  ~ freed /\ Pending = <<"none", 0>>
  OBVIOUS
<1>1. arg = 0
  BY DEF BuddyInv, WalkOK
<1>2. ~ freed
  BY DEF BuddyInv, FreedOK
<1> QED
  BY <1>1, <1>2 DEF Pending

LEMMA PendingSearch ==
  BuddyInv /\ op \in {"alloc", "size"} => ~ freed /\ Pending = <<op, arg>>
<1> SUFFICES ASSUME BuddyInv, op \in {"alloc", "size"}
             PROVE  ~ freed /\ Pending = <<op, arg>>
  OBVIOUS
<1>1. ~ freed
  BY DEF BuddyInv, FreedOK
<1> QED
  BY <1>1 DEF Pending

LEMMA ReplyPending ==
  ASSUME NEW v, Reply(v)
  PROVE  Pending' = <<"none", 0>> /\ (IF freed THEN 0 ELSE rt)' = v
<1>1. freed' = FALSE
  BY DEF Reply
<1>2. op' = "none" /\ arg' = 0 /\ rt' = v
  BY DEF Reply
<1> QED
  BY <1>1, <1>2 DEF Pending

LEMMA TakeHands ==
  ASSUME BuddyInv, Take
  PROVE  Abstract!CallsNext
<1>1. PICK x \in Requests : x = arg
  BY DEF Take, BuddyInv, WalkOK
<1>2. Walking
  BY IsWalking DEF Take
<1>3. InState("ALLOC")' = InState("ALLOC") \cup {cur}
  BY TakeStep
<1>4. cur = Page(cur.idx, cur.size)
  BY <1>2 DEF Walking, Node, Page
<1>5. NewPage(buddy_head, cur, InState("ALLOC"))
  BY TakeFits
<1>6. buddy_head.size # -1 /\ buddy_head' = buddy_head /\ cur.size >= x
  BY <1>1, <1>2, NodeFields DEF Take, Walking
<1>7. cur.size \in x .. buddy_head.size
  BY <1>5, <1>6, PagesAssumption DEF NewPage
<1>8. (IF freed THEN 0 ELSE rt)' = cur.idx /\ Pending' = <<"none", 0>>
  BY ReplyPending DEF Take
<1>9. Pending = <<"alloc", x>>
  BY <1>1, PendingSearch DEF Take
<1>10. Abstract!Hand(x)
  BY <1>3, <1>4, <1>5, <1>6, <1>7, <1>8
     DEF Abstract!Hand, Abstract!Apart, Abstract!Page, Apart, Page, NewPage
<1>11. Abstract!Answer("alloc", x)
  BY <1>8, <1>9 DEF Abstract!Answer, Abstract!None, Pending
<1> QED
  BY <1>10, <1>11 DEF Abstract!CallsNext

SamePages ==
  /\ UNCHANGED <<buddy_head, freed, rt, Pending>>
  /\ InState("ALLOC")' = InState("ALLOC")

LEMMA SameRefines == SamePages => UNCHANGED Abstract!callsVars
BY DEF SamePages, Abstract!callsVars, Abstract!allocVars, Pending

LEMMA PoolSize ==
  BuddyInv => /\ buddy_head = NULL => buddy_head.size = -1
              /\ buddy_head # NULL => buddy_head.size \in Nat /\ buddy_head.size # -1
<1>1. NULL.size = -1
  BY DEF NULL, Page
<1>2. ASSUME BuddyInv, buddy_head # NULL
      PROVE  buddy_head.size \in Nat /\ buddy_head.size # -1
  BY <1>2, NodeFields DEF BuddyInv, PoolOK, TreeOK
<1> QED
  BY <1>1, <1>2

LEMMA RefineStep ==
  BuddyInv /\ [BuddyNext]_buddyVars => [Abstract!CallsNext]_(Abstract!callsVars)
<1> SUFFICES ASSUME BuddyInv, [BuddyNext]_buddyVars
             PROVE  Abstract!CallsNext \/ UNCHANGED Abstract!callsVars
  OBVIOUS
<1>1. Kinds
  BY StepKinds
<1>2. CASE Still
  <2>1. /\ UNCHANGED <<buddy_head, state, freed, Pending>>
        /\ InState("ALLOC")' = InState("ALLOC")
    BY <1>2 DEF Still, InState, Nodes, Pending
  <2>2. CASE rt' = rt
    BY <2>1, <2>2, SameRefines DEF SamePages
  <2>3. CASE buddy_head = NULL /\ PoolSizes # {} /\ rt' = -1
    <3>1. PICK size \in PoolSizes : TRUE
      BY <2>3
    <3>2. ~ freed /\ Pending = <<"none", 0>>
      BY <2>3, PendingIdle DEF BuddyInv, PoolOK
    <3>3. (IF freed THEN 0 ELSE rt)' = -1
      BY <2>1, <2>3, <3>2
    <3>4. buddy_head.size = -1 /\ buddy_head' = buddy_head
      BY <2>1, <2>3, PoolSize
    <3>5. Abstract!Start(size)
      BY <2>1, <3>3, <3>4 DEF Abstract!Start
    <3> QED
      BY <2>1, <3>2, <3>5 DEF Abstract!CallsNext, Abstract!None, Pending
  <2> QED
    BY <1>2, <2>2, <2>3 DEF Still
<1>3. CASE \E size \in PoolSizes : Begin(size)
  <2>1. PICK size \in PoolSizes : Begin(size)
    BY <1>3
  <2>2. buddy_head.size = -1 /\ Page(0, size).size = size /\ buddy_head' = Page(0, size)
    BY <2>1, PoolSize DEF Begin, Page
  <2>3. ~ freed /\ Pending = <<"none", 0>> /\ UNCHANGED <<freed, Pending>>
    BY <2>1, PendingIdle DEF Begin, Pending
  <2>4. (IF freed THEN 0 ELSE rt)' = 0
    BY <2>1, <2>3 DEF Begin
  <2>5. InState("ALLOC")' = InState("ALLOC")
    <3>1. DOMAIN state = {}
      BY <2>1 DEF Begin, BuddyInv, PoolOK
    <3>2. \A n \in DOMAIN state' : state'[n] = "FREE"
      BY <2>1 DEF Begin
    <3> QED
      BY <3>1, <3>2 DEF InState, Nodes
  <2>6. Abstract!Start(size)
    BY <2>2, <2>4, <2>5 DEF Abstract!Start
  <2> QED
    BY <2>3, <2>6 DEF Abstract!CallsNext, Abstract!None, Pending
<1>4. ASSUME NEW o \in {"alloc", "free", "size"}, NEW x, Call(o, x)
      PROVE  Abstract!Ask(o, x)
  <2>1. /\ op = "none" /\ buddy_head # NULL /\ op' = o /\ arg' = x
        /\ UNCHANGED <<buddy_head, freed, rt>>
        /\ InState("ALLOC")' = InState("ALLOC")
    BY <1>4 DEF Call, tree, InState, Nodes
  <2>2. ~ freed /\ Pending = <<"none", 0>>
    BY <2>1, PendingIdle
  <2>3. Pending' = <<o, x>>
    BY <2>1, <2>2 DEF Pending
  <2>4. buddy_head.size # -1
    BY <2>1, PoolSize
  <2>5. UNCHANGED Abstract!allocVars
    BY <2>1 DEF Abstract!allocVars
  <2> QED
    BY <2>2, <2>3, <2>4, <2>5 DEF Abstract!Ask, Abstract!None, Pending
<1>5. CASE \/ Down("alloc", "left") \/ Down("free", "left") \/ Down("size", "right")
           \/ (Missed /\ Up) \/ PassBy \/ Turn
  <2>1. SamePages
    BY <1>5 DEF Down, Up, PassBy, Turn, SamePages, InState, Nodes, Pending
  <2> QED
    BY <2>1, SameRefines
<1>6. CASE Halve \/ Rise
  <2>1. InState("ALLOC")' = InState("ALLOC")
    BY <1>6, HalveStep, RiseStep
  <2>2. SamePages
    BY <1>6, <2>1 DEF Halve, Rise, SamePages, Pending
  <2> QED
    BY <2>2, SameRefines
<1>7. CASE Take
  BY <1>7, TakeHands
<1>8. CASE Deny
  <2>1. /\ Missed /\ stack = <<>> /\ buddy_head' = buddy_head
        /\ InState("ALLOC")' = InState("ALLOC")
    BY <1>8 DEF Deny, tree, InState, Nodes
  <2>2. (IF freed THEN 0 ELSE rt)' = -1 /\ Pending' = <<"none", 0>>
    BY <1>8, ReplyPending DEF Deny
  <2>3. op # "none" /\ op \in {"alloc", "size"} /\ Pending = <<op, arg>>
    BY <2>1, PendingSearch DEF Missed
  <2>4. buddy_head.size # -1
    BY <2>3, IsWalking, PoolSize DEF Walking
  <2>5. CASE op = "alloc"
    <3>1. arg \in Requests
      BY <2>5 DEF BuddyInv, WalkOK
    <3>2. Abstract!Hand(arg)
      BY <2>1, <2>2, <2>4 DEF Abstract!Hand
    <3>3. Abstract!Answer("alloc", arg)
      BY <2>2, <2>3, <2>5 DEF Abstract!Answer, Abstract!None, Pending
    <3> QED
      BY <3>1, <3>2, <3>3 DEF Abstract!CallsNext
  <2>6. CASE op = "size"
    <3>1. arg \in Indexes
      BY <2>6 DEF BuddyInv, WalkOK
    <3>2. \A n \in InState("ALLOC") : ~ Holds(n, arg)
      BY <2>1, <2>6, MissedBehind, NoFrames DEF LeftBehind, Behind
    <3>3. Abstract!Query(arg)
      BY <2>1, <2>2, <2>4, <3>2 DEF Abstract!Query, Abstract!Holds, Holds
    <3>4. Abstract!Answer("size", arg)
      BY <2>2, <2>3, <2>6 DEF Abstract!Answer, Abstract!None, Pending
    <3> QED
      BY <3>1, <3>3, <3>4 DEF Abstract!CallsNext
  <2> QED
    BY <2>3, <2>5, <2>6
<1>9. CASE GiveBack
  <2>1. InState("ALLOC")' = InState("ALLOC") \ {cur}
    BY <1>9, GiveBackStep
  <2>2. /\ cur \in InState("ALLOC") /\ cur.idx = arg /\ arg \in Indexes
        /\ buddy_head.size # -1 /\ buddy_head' = buddy_head
    BY <1>9, IsWalking, PoolSize
       DEF GiveBack, IsPage, InState, Nodes, Walking, BuddyInv, WalkOK
  <2>3. freed' = TRUE /\ op = "free"
    BY <1>9 DEF GiveBack
  <2>4. (IF freed THEN 0 ELSE rt)' = 0 /\ Pending' = <<"none", 0>>
    BY <2>3 DEF Pending
  <2>5. ~ freed
    BY <2>2 DEF BuddyInv, FreedOK
  <2>6. Pending = <<"free", arg>>
    BY <2>3, <2>5 DEF Pending
  <2>7. Abstract!TakeBack(arg)
    BY <2>1, <2>2, <2>4 DEF Abstract!TakeBack
  <2>8. Abstract!Answer("free", arg)
    BY <2>4, <2>6 DEF Abstract!Answer, Abstract!None, Pending
  <2> QED
    BY <2>2, <2>7, <2>8 DEF Abstract!CallsNext
<1>10. CASE Done
  <2>1. /\ op = "back" /\ stack = <<>> /\ buddy_head' = buddy_head
        /\ InState("ALLOC")' = InState("ALLOC")
    BY <1>10 DEF Done, tree, InState, Nodes
  <2>2. /\ (IF freed THEN 0 ELSE rt)' = (IF freed THEN 0 ELSE -1)
        /\ Pending' = <<"none", 0>>
    <3>1. PICK v : v = (IF freed THEN 0 ELSE -1)
      OBVIOUS
    <3>2. Reply(v)
      BY <1>10, <3>1 DEF Done
    <3>3. (IF freed THEN 0 ELSE rt)' = v /\ Pending' = <<"none", 0>>
      BY <3>2, ReplyPending
    <3> QED
      BY <3>1, <3>3, Zenon
  <2>3. CASE freed
    <3>1. (IF freed THEN 0 ELSE rt)' = (IF freed THEN 0 ELSE rt)
      BY <2>2, <2>3
    <3>2. Pending = <<"none", 0>>
      BY <2>3 DEF Pending
    <3>3. Pending' = Pending
      BY <2>2, <3>2
    <3> QED
      BY <2>1, <3>1, <3>3 DEF Abstract!callsVars, Abstract!allocVars, Pending
  <2>4. CASE ~ freed
    <3>1. (IF freed THEN 0 ELSE rt)' = -1
      BY <2>2, <2>4
    <3>2. \A n \in InState("ALLOC") : n.idx # arg
      BY <2>1, <2>4, NoFrames DEF BuddyInv, SeekOK, Behind
    <3>3. buddy_head.size # -1 /\ arg \in Indexes
      BY <2>1, IsWalking, PoolSize DEF Walking, BuddyInv, WalkOK
    <3>4. Abstract!TakeBack(arg)
      BY <2>1, <3>1, <3>2, <3>3 DEF Abstract!TakeBack
    <3>5. Pending = <<"free", arg>>
      BY <2>1, <2>4 DEF Pending
    <3>6. Abstract!Answer("free", arg)
      BY <2>2, <3>5 DEF Abstract!Answer, Abstract!None, Pending
    <3> QED
      BY <3>3, <3>4, <3>6 DEF Abstract!CallsNext
  <2> QED
    BY <2>3, <2>4
<1>11. CASE Found
  <2>1. /\ cur \in InState("ALLOC") /\ Holds(cur, arg) /\ arg \in Indexes
        /\ buddy_head.size # -1
    BY <1>11, IsWalking, PoolSize
       DEF Found, InState, Nodes, Walking, BuddyInv, WalkOK
  <2>2. buddy_head' = buddy_head /\ InState("ALLOC")' = InState("ALLOC")
    BY <1>11 DEF Found, tree, InState, Nodes
  <2>3. /\ (IF freed THEN 0 ELSE rt)' = cur.idx + cur.size - arg
        /\ Pending' = <<"none", 0>>
    BY <1>11, ReplyPending DEF Found
  <2>4. Abstract!Query(arg)
    BY <2>1, <2>2, <2>3 DEF Abstract!Query, Abstract!Holds, Holds
  <2>5. Pending = <<"size", arg>>
    BY <1>11, PendingSearch DEF Found
  <2>6. Abstract!Answer("size", arg)
    BY <2>3, <2>5 DEF Abstract!Answer, Abstract!None, Pending
  <2> QED
    BY <2>1, <2>4, <2>6 DEF Abstract!CallsNext
<1>12. CASE buddy_kill
  <2>1. buddy_head'.size = -1 /\ InState("ALLOC")' = {} /\ UNCHANGED <<freed, rt>>
    BY <1>12 DEF buddy_kill, walk, NULL, Page, InState, Nodes
  <2>2. Abstract!Stop
    BY <2>1 DEF Abstract!Stop
  <2>3. Pending = <<"none", 0>> /\ UNCHANGED Pending
    BY <1>12, PendingIdle DEF buddy_kill, walk, Pending
  <2> QED
    BY <2>2, <2>3 DEF Abstract!CallsNext, Abstract!None, Pending
<1>13. CASE \E x \in Requests : Call("alloc", x)
  BY <1>4, <1>13 DEF Abstract!CallsNext
<1>14. CASE \E x \in Indexes : Call("free", x) \/ Call("size", x)
  BY <1>4, <1>14 DEF Abstract!CallsNext
<1> QED
  BY <1>1, <1>2, <1>3, <1>5, <1>6, <1>7, <1>8, <1>9, <1>10, <1>11, <1>12, <1>13,
     <1>14 DEF Kinds

LEMMA RefineInit == BuddyInit => Abstract!CallsInit
<1> SUFFICES ASSUME BuddyInit PROVE Abstract!CallsInit
  OBVIOUS
<1>1. buddy_head.size = -1 /\ InState("ALLOC") = {} /\ rt = 0
  BY DEF BuddyInit, NULL, Page, InState, Nodes
<1>2. (IF freed THEN 0 ELSE rt) = 0
  BY <1>1
<1>3. Pending = <<"none", 0>>
  BY InvInit, PendingIdle DEF BuddyInit
<1> QED
  BY <1>1, <1>2, <1>3 DEF Abstract!CallsInit, Abstract!AllocInit, Abstract!None, Pending

(* The tree of buddy.c is an allocator as buddy.h promises it, for every   *)
(* pool, every request and every order of calls: the page of alloc lies in *)
(* the pool, is as large as asked for and overlaps no other; free takes    *)
(* back the page that starts at idx and no other, and returns -1 only when *)
(* there is none; size finds the page around idx, or there is none.        *)
THEOREM AllocatorCorrect == BuddySpec => IsAllocator
BY BuddyInvariant, RefineInit, RefineStep, PTL
   DEF BuddySpec, IsAllocator, Abstract!CallsSpec

-----------------------------------------------------------------------------
(* The blocks the pool can be split into.                                  *)
LEMMA NatMin ==
  ASSUME NEW T \in SUBSET Nat, T # {}
  PROVE  \E x \in T : \A y \in T : x <= y
<1>1. IsWellFoundedOn(OpToRel(<, Nat), Nat)
  BY NatLessThanWellFounded
<1>2. PICK x \in T : \A y \in T : ~ (<<y, x>> \in OpToRel(<, Nat))
  BY <1>1, WFMin
<1>3. \A y \in T : ~ (y < x)
  BY <1>2 DEF OpToRel
<1> QED
  BY <1>3

(* A block after d splits is the end of a path of d halvings.              *)
Path(root, d) ==
  {c \in [0 .. d -> Node] :
     c[0] = root /\ \A i \in 0 .. d - 1 : ChildOf(c[i + 1], c[i])}
Ends(root, d) == {c[d] : c \in Path(root, d)}
Halves(S) == {Left(n) : n \in S} \cup {Right(n) : n \in S}

LEMMA EndsZero == \A root \in Node : Ends(root, 0) = {root}
<1> TAKE root \in Node
<1>1. [i \in 0 .. 0 |-> root] \in Path(root, 0)
  BY DEF Path
<1>2. root \in Ends(root, 0)
  BY <1>1 DEF Ends
<1> QED
  BY <1>2 DEF Ends, Path

LEMMA EndsMore ==
  ASSUME NEW root \in Node, NEW d \in Nat
  PROVE  Ends(root, d + 1) = Halves(Ends(root, d))
<1>1. ASSUME NEW b \in Ends(root, d + 1) PROVE b \in Halves(Ends(root, d))
  <2>1. PICK c \in Path(root, d + 1) : b = c[d + 1]
    BY DEF Ends
  <2>2. /\ c \in [0 .. d + 1 -> Node] /\ c[0] = root
        /\ \A i \in 0 .. (d + 1) - 1 : ChildOf(c[i + 1], c[i])
    BY DEF Path
  <2>3. PICK e : e = [i \in 0 .. d |-> c[i]]
    OBVIOUS
  <2>4. e \in [0 .. d -> Node] /\ e[0] = root /\ e[d] = c[d]
    BY <2>2, <2>3
  <2>5. \A i \in 0 .. d - 1 : ChildOf(e[i + 1], e[i])
    <3> TAKE i \in 0 .. d - 1
    <3>1. i \in 0 .. d /\ i + 1 \in 0 .. d /\ i \in 0 .. (d + 1) - 1
      OBVIOUS
    <3>2. e[i] = c[i] /\ e[i + 1] = c[i + 1]
      BY <2>3, <3>1
    <3> QED
      BY <2>2, <3>1, <3>2
  <2>6. c[d] \in Ends(root, d)
    BY <2>4, <2>5 DEF Path, Ends
  <2>7. ChildOf(b, c[d])
    <3>1. d \in 0 .. (d + 1) - 1
      OBVIOUS
    <3> QED
      BY <2>1, <2>2, <3>1
  <2> QED
    BY <2>6, <2>7 DEF ChildOf, Halves
<1>2. ASSUME NEW b \in Halves(Ends(root, d)) PROVE b \in Ends(root, d + 1)
  <2>1. PICK n \in Ends(root, d) : ChildOf(b, n)
    BY DEF Halves, ChildOf
  <2>2. PICK c \in Path(root, d) : n = c[d]
    BY DEF Ends
  <2>3. /\ c \in [0 .. d -> Node] /\ c[0] = root
        /\ \A i \in 0 .. d - 1 : ChildOf(c[i + 1], c[i])
    BY DEF Path
  <2>4. d \in 0 .. d /\ 0 \in 0 .. d /\ d + 1 # 0 /\ d + 1 \in 0 .. d + 1
        /\ 0 \in 0 .. d + 1
    OBVIOUS
  <2>5. n \in Node /\ b \in Node
    BY <2>1, <2>2, <2>3, <2>4, HalfNodes DEF ChildOf, HalfFacts
  <2>6. PICK e : e = [i \in 0 .. d + 1 |-> IF i = d + 1 THEN b ELSE c[i]]
    OBVIOUS
  <2>7. \A i \in 0 .. d + 1 : i # d + 1 => i \in 0 .. d
    OBVIOUS
  <2>8. e \in [0 .. d + 1 -> Node] /\ e[0] = root /\ e[d + 1] = b
    BY <2>3, <2>4, <2>5, <2>6, <2>7
  <2>9. \A i \in 0 .. (d + 1) - 1 : ChildOf(e[i + 1], e[i])
    <3> TAKE i \in 0 .. (d + 1) - 1
    <3>1. i \in 0 .. d + 1 /\ i # d + 1 /\ i + 1 \in 0 .. d + 1
      OBVIOUS
    <3>2. e[i] = c[i]
      BY <2>6, <3>1
    <3>3. CASE i = d
      BY <2>1, <2>2, <2>8, <3>2, <3>3
    <3>4. CASE i # d
      <4>1. i \in 0 .. d - 1 /\ i + 1 # d + 1
        BY <3>4
      <4>2. e[i + 1] = c[i + 1]
        BY <2>6, <3>1, <4>1
      <4> QED
        BY <2>3, <3>2, <4>1, <4>2
    <3> QED
      BY <3>3, <3>4
  <2> QED
    BY <2>8, <2>9 DEF Path, Ends
<1> QED
  BY <1>1, <1>2

LEMMA LevelDef ==
  ASSUME NEW root \in Node
  PROVE  /\ Level(root)[0] = {root}
         /\ \A d \in Nat : Level(root)[d + 1] = Halves(Level(root)[d])
<1> DEFINE Rec(g) == [d \in Nat |->
             IF d = 0 THEN {root}
             ELSE {Left(n) : n \in g[d - 1]} \cup {Right(n) : n \in g[d - 1]}]
<1>1. \E g : g = Rec(g)
  <2>1. PICK g : g = [d \in Nat |-> Ends(root, d)]
    OBVIOUS
  <2>2. ASSUME NEW d \in Nat
        PROVE  g[d] = IF d = 0 THEN {root} ELSE Halves(g[d - 1])
    <3>1. CASE d = 0
      BY <2>1, <3>1, EndsZero
    <3>2. CASE d # 0
      <4>1. PICK e \in Nat : e = d - 1 /\ e + 1 = d
        BY <3>2
      <4>2. g[d] = Ends(root, e + 1) /\ g[d - 1] = Ends(root, e)
        BY <2>1, <4>1
      <4> QED
        BY <3>2, <4>2, EndsMore
    <3> QED
      BY <3>1, <3>2
  <2>3. g = [d \in Nat |-> IF d = 0 THEN {root} ELSE Halves(g[d - 1])]
    BY <2>1, <2>2
  <2> QED
    BY <2>3 DEF Halves
<1>2. Level(root) = CHOOSE g : g = Rec(g)
  BY DEF Level
<1>3. Level(root) = Rec(Level(root))
  BY <1>1, <1>2
<1>4. \A d \in Nat : d + 1 \in Nat /\ d + 1 # 0 /\ (d + 1) - 1 = d
  OBVIOUS
<1> QED
  BY <1>3, <1>4 DEF Halves

(* A node of the tree is such a block, and lies deeper than the root by no *)
(* more than the bytes it is smaller.                                      *)
AtDepth(r, n, d) == n \in Level(r)[d] /\ d + n.size <= r.size

LEMMA NodeDepth ==
  ASSUME NEW st, NEW r, TreeOK(st, r), NEW n \in DOMAIN st
  PROVE  \E d \in Nat : AtDepth(r, n, d)
<1> DEFINE Bad == {m \in DOMAIN st : \A d \in Nat : ~ AtDepth(r, m, d)}
           T == {r.size - m.size : m \in Bad}
<1>1. r \in Node /\ r.size \in Nat
  BY NodeFields DEF TreeOK
<1>2. \A m \in DOMAIN st : m \in Node /\ m.size \in Nat /\ m.size <= r.size
  BY <1>1, NodeFields, InsideSize DEF TreeOK, InRoot
<1> SUFFICES ASSUME Bad # {} PROVE FALSE
  OBVIOUS
<1>3. T \in SUBSET Nat /\ T # {}
  BY <1>1, <1>2
<1>4. PICK x \in T : \A y \in T : x <= y
  BY <1>3, NatMin
<1>5. PICK m \in Bad : x = r.size - m.size
  OBVIOUS
<1>6. \A k \in Bad : r.size - m.size <= r.size - k.size
  BY <1>4, <1>5
<1>7. m # r
  <2>1. AtDepth(r, r, 0)
    BY <1>1, LevelDef DEF AtDepth
  <2> QED
    BY <2>1
<1>8. PICK p \in DOMAIN st : IsSplit(st, p) /\ ChildOf(m, p)
  BY <1>7 DEF TreeOK, HaveParents
<1>9. p \in Node /\ HalvesFit(p)
  BY <1>8, HalvesOfNode DEF TreeOK, SplitsHave
<1>10. m.size < p.size
  BY <1>8, <1>9 DEF HalvesFit, ChildOf
<1>11. p \notin Bad
  BY <1>1, <1>2, <1>6, <1>10
<1>12. PICK d \in Nat : AtDepth(r, p, d)
  BY <1>11
<1>13. m \in Level(r)[d + 1]
  BY <1>1, <1>8, <1>12, LevelDef DEF Halves, ChildOf, AtDepth
<1>14. d + 1 + m.size <= r.size
  <2>1. PICK a, b, c \in Nat : a = m.size /\ b = p.size /\ c = r.size
    BY <1>1, <1>2
  <2>2. d + b <= c /\ a < b
    BY <1>10, <1>12, <2>1 DEF AtDepth
  <2>3. d + 1 + a <= c
    BY <2>2
  <2> QED
    BY <2>1, <2>3
<1>15. d + 1 \in Nat /\ AtDepth(r, m, d + 1)
  BY <1>13, <1>14 DEF AtDepth
<1> QED
  BY <1>15

LEMMA NodeBlock ==
  ASSUME NEW st, NEW r, TreeOK(st, r), NEW n \in DOMAIN st
  PROVE  n \in Blocks(r)
<1>1. PICK d \in Nat : AtDepth(r, n, d)
  BY NodeDepth
<1>2. n.size \in Nat /\ r.size \in Nat
  BY NodeFields DEF TreeOK
<1>3. d \in 0 .. r.size
  <2>1. PICK a, c \in Nat : a = n.size /\ c = r.size
    BY <1>2
  <2>2. d + a <= c
    BY <1>1, <2>1 DEF AtDepth
  <2>3. d \in 0 .. c
    BY <2>2
  <2> QED
    BY <2>1, <2>3
<1> QED
  BY <1>1, <1>3 DEF Blocks, AtDepth

(* A block that is not empty is a node of the tree or lies in a leaf.      *)
Placed(st, b) ==
  b \in Node /\ (b.size >= 1 =>
    \/ b \in DOMAIN st
    \/ \E l \in DOMAIN st : ~ IsSplit(st, l) /\ Inside(b, l))

LEMMA LevelPlaced ==
  ASSUME NEW st, NEW r, TreeOK(st, r), NEW d \in Nat, NEW b \in Level(r)[d]
  PROVE  Placed(st, b)
<1> DEFINE T == {k \in Nat : \E c \in Level(r)[k] : ~ Placed(st, c)}
<1>1. r \in Node /\ r \in DOMAIN st
  BY DEF TreeOK
<1> SUFFICES ASSUME T # {} PROVE FALSE
  OBVIOUS
<1>2. PICK k \in T : \A y \in T : k <= y
  BY NatMin
<1>3. PICK c \in Level(r)[k] : ~ Placed(st, c)
  OBVIOUS
<1>4. k # 0
  <2> SUFFICES ASSUME k = 0 PROVE FALSE
    OBVIOUS
  <2>1. c = r
    BY <1>1, <1>3, LevelDef
  <2> QED
    BY <1>1, <1>3, <2>1 DEF Placed
<1>5. PICK e \in Nat : k = e + 1
  BY <1>4
<1>6. e \notin T
  BY <1>2, <1>5
<1>7. PICK n \in Level(r)[e] : ChildOf(c, n)
  <2>1. Level(r)[k] = Halves(Level(r)[e])
    BY <1>1, <1>5, LevelDef
  <2> QED
    BY <2>1 DEF Halves, ChildOf
<1>8. Placed(st, n)
  BY <1>6
<1>9. n \in Node /\ c \in Node /\ c.size = n.size \div 2
  BY <1>7, <1>8, HalfNodes DEF Placed, HalfFacts, ChildOf
<1>10. c.size >= 1
  BY <1>3, <1>9 DEF Placed
<1>11. CanHalve(n) /\ HalvesFit(n)
  BY <1>9, <1>10, HalvesOfNode DEF CanHalve
<1>12. Inside(c, n) /\ n.size >= 1
  BY <1>7, <1>11 DEF HalvesFit, ChildOf
<1>13. CASE n \in DOMAIN st /\ IsSplit(st, n)
  <2>1. c \in DOMAIN st
    BY <1>7, <1>13 DEF TreeOK, SplitsHave, ChildOf
  <2> QED
    BY <1>3, <1>9, <2>1 DEF Placed
<1>14. CASE \E l \in DOMAIN st : ~ IsSplit(st, l) /\ Inside(n, l)
  <2>1. PICK l \in DOMAIN st : ~ IsSplit(st, l) /\ Inside(n, l)
    BY <1>14
  <2>2. l \in Node
    BY DEF TreeOK
  <2>3. Inside(c, l)
    BY <1>9, <1>12, <2>1, <2>2, InsideTrans
  <2> QED
    BY <1>3, <1>9, <2>1, <2>3 DEF Placed
<1>15. CASE n \in DOMAIN st /\ ~ IsSplit(st, n)
  BY <1>9, <1>14, <1>15, InsideSelf
<1> QED
  BY <1>8, <1>12, <1>13, <1>14, <1>15 DEF Placed

LEMMA BlockPlaced ==
  ASSUME NEW st, NEW r, TreeOK(st, r), NEW b \in Blocks(r)
  PROVE  Placed(st, b)
<1>1. r.size \in Nat
  BY NodeFields DEF TreeOK
<1>2. PICK d \in 0 .. r.size : b \in Level(r)[d]
  BY DEF Blocks
<1> QED
  BY <1>1, <1>2, LevelPlaced

(* In a coalesced tree there is a page in every split node.                *)
PageIn(st, n) == \E p \in DOMAIN st : st[p] = "ALLOC" /\ Inside(p, n)

LEMMA SplitHasPage ==
  ASSUME NEW st, NEW r, TreeOK(st, r),
         \A m \in DOMAIN st : IsSplit(st, m) =>
           st[Left(m)] # "FREE" \/ st[Right(m)] # "FREE",
         NEW n \in DOMAIN st, IsSplit(st, n)
  PROVE  PageIn(st, n)
<1> DEFINE Bad == {m \in DOMAIN st : IsSplit(st, m) /\ ~ PageIn(st, m)}
           T == {m.size : m \in Bad}
<1> SUFFICES ASSUME Bad # {} PROVE FALSE
  OBVIOUS
<1>1. \A m \in DOMAIN st : m \in Node /\ m.size \in Nat
  BY NodeFields DEF TreeOK
<1>2. T \in SUBSET Nat /\ T # {}
  BY <1>1
<1>3. PICK x \in T : \A y \in T : x <= y
  BY <1>2, NatMin
<1>4. PICK m \in Bad : x = m.size
  OBVIOUS
<1>5. m \in Node /\ HalvesFit(m)
  BY <1>1, HalvesOfNode DEF TreeOK, SplitsHave
<1>6. PICK c \in {Left(m), Right(m)} : st[c] # "FREE"
  OBVIOUS
<1>7. c \in DOMAIN st /\ Inside(c, m) /\ c.size < m.size
  BY <1>5 DEF TreeOK, SplitsHave, HalvesFit
<1>8. st[c] \in {"SPLIT", "ALLOC"}
  BY <1>6, <1>7 DEF TreeOK, Marks
<1>9. CASE st[c] = "ALLOC"
  BY <1>7, <1>9 DEF PageIn
<1>10. CASE st[c] = "SPLIT"
  <2>1. c \notin Bad
    <3> SUFFICES ASSUME c \in Bad PROVE FALSE
      OBVIOUS
    <3>1. m.size <= c.size
      BY <1>3, <1>4
    <3> QED
      BY <1>1, <1>7, <3>1
  <2>2. PICK p \in DOMAIN st : st[p] = "ALLOC" /\ Inside(p, c)
    BY <1>7, <1>10, <2>1 DEF PageIn, IsSplit
  <2>3. Inside(p, m)
    BY <1>1, <1>5, <1>7, <2>2, InsideTrans
  <2> QED
    BY <2>2, <2>3 DEF PageIn
<1> QED
  BY <1>8, <1>9, <1>10

-----------------------------------------------------------------------------
LEMMA CoalescedPages ==
  ASSUME BuddyInv, NoneFree, buddy_head # NULL,
         NEW n \in DOMAIN state, IsSplit(state, n)
  PROVE  \E p \in InState("ALLOC") : Inside(p, n) /\ p # n
<1>1. TreeOK(state, buddy_head)
  BY DEF BuddyInv, PoolOK
<1>2. \A m \in DOMAIN state : IsSplit(state, m) =>
        state[Left(m)] # "FREE" \/ state[Right(m)] # "FREE"
  BY DEF NoneFree, BothFree, InState, Nodes, IsSplit
<1>3. PICK p \in DOMAIN state : state[p] = "ALLOC" /\ Inside(p, n)
  BY <1>1, <1>2, SplitHasPage DEF PageIn
<1> QED
  BY <1>3 DEF InState, Nodes, IsSplit

(* When alloc gives up, every block that is large enough holds a page.     *)
LEMMA DenyFull ==
  ASSUME BuddyInv, Deny, op = "alloc",
         NEW b \in Blocks(buddy_head), b.size >= arg
  PROVE  \E n \in InState("ALLOC") : ~ Apart(b, n)
<1>1. Missed /\ stack = <<>> /\ op # "none"
  BY DEF Deny
<1>2. Walking /\ LeftBehind
  BY <1>1, IsWalking, MissedBehind
<1>3. arg \in Nat \ {0}
  BY PagesAssumption DEF BuddyInv, WalkOK
<1>4. ASSUME NEW n \in DOMAIN state, state[n] = "FREE" PROVE ~ (n.size >= arg)
  BY <1>1, <1>2, <1>4, NoFrames DEF LeftBehind, Behind, InState, Nodes
<1>5. Placed(state, b)
  BY <1>2, BlockPlaced DEF Walking
<1>6. b \in Node /\ b.size \in Nat /\ b.size >= 1
  <2>1. b \in Node /\ b.size \in Nat
    BY <1>5, NodeFields DEF Placed
  <2> QED
    BY <1>3, <2>1
<1>7. CASE b \in DOMAIN state /\ IsSplit(state, b)
  <2>1. PICK p \in InState("ALLOC") : Inside(p, b)
    BY <1>2, <1>7, CoalescedPages DEF LeftBehind, Walking
  <2>2. p \in Node /\ p.size >= 1
    BY <1>2, PagesFull DEF Walking
  <2>3. ~ Apart(p, b)
    BY <1>6, <2>1, <2>2, InsideNotApart
  <2> QED
    BY <1>6, <2>2, <2>3, ApartSym
<1>8. ASSUME NEW l \in DOMAIN state, ~ IsSplit(state, l), Inside(b, l)
      PROVE  \E n \in InState("ALLOC") : ~ Apart(b, n)
  <2>1. l \in Node /\ l.size \in Nat /\ b.size <= l.size
    BY <1>2, <1>6, <1>8, InsideSize, NodeFields DEF Walking
  <2>2. l.size >= arg
    BY <1>3, <1>6, <2>1
  <2>3. state[l] = "ALLOC"
    BY <1>2, <1>4, <1>8, <2>2 DEF Walking, TreeOK, Marks, IsSplit
  <2>4. ~ Apart(b, l)
    BY <1>6, <1>8, <2>1, InsideNotApart
  <2> QED
    BY <2>3, <2>4 DEF InState, Nodes
<1>9. CASE b \in DOMAIN state /\ ~ IsSplit(state, b)
  BY <1>6, <1>8, <1>9, InsideSelf
<1> QED
  BY <1>5, <1>6, <1>7, <1>8, <1>9 DEF Placed

(* Only Deny and Take end a call of alloc.                                 *)
LEMMA RefusalDenies ==
  ASSUME BuddyInv, [BuddyNext]_buddyVars, op = "alloc", op' = "none", rt' = -1
  PROVE  Deny
<1>1. Kinds
  BY StepKinds
<1>2. ~ Take
  <2> SUFFICES ASSUME Take PROVE FALSE
    OBVIOUS
  <2>1. cur.idx \in Nat /\ rt' = cur.idx
    BY IsWalking, NodeFields DEF Walking, Take, Reply
  <2> QED
    BY <2>1
<1> QED
  BY <1>1, <1>2
     DEF Kinds, Still, Begin, Call, Down, Up, Halve, GiveBack, PassBy, Turn,
         Rise, Done, Found, buddy_kill

Refusal ==
  op = "alloc" /\ op' = "none" /\ rt' = -1 =>
    \A b \in Blocks(buddy_head) :
      b.size >= arg => \E n \in InState("ALLOC") : ~ Apart(b, n)

LEMMA RefusalStep == BuddyInv /\ [BuddyNext]_buddyVars => Refusal
<1> SUFFICES ASSUME BuddyInv, [BuddyNext]_buddyVars,
                    op = "alloc", op' = "none", rt' = -1,
                    NEW b \in Blocks(buddy_head), b.size >= arg
             PROVE  \E n \in InState("ALLOC") : ~ Apart(b, n)
  BY DEF Refusal
<1>1. Deny
  BY RefusalDenies
<1> QED
  BY <1>1, DenyFull

(* A request is refused only when there is no room for it: every block the *)
(* pool can be split into and that is large enough overlaps a page.  The   *)
(* free space is coalesced and the search passes no side by (buddy.c:47).  *)
THEOREM NeverRefusesCorrect == BuddySpec => NeverRefusesInVain
<1>1. BuddyInv /\ [BuddyNext]_buddyVars => [Refusal]_buddyVars
  BY RefusalStep
<1> QED
  BY <1>1, BuddyInvariant, PTL DEF BuddySpec, NeverRefusesInVain, Refusal

-----------------------------------------------------------------------------
(* The blocks with a smaller page in them are the split nodes.             *)
Cut(r, ps) == {b \in Blocks(r) : \E n \in ps : n # b /\ Inside(n, b)}

LEMMA CutSplit ==
  ASSUME BuddyInv, NoneFree, buddy_head # NULL
  PROVE  \A b : b \in Cut(buddy_head, InState("ALLOC"))
                <=> b \in DOMAIN state /\ IsSplit(state, b)
<1>1. TreeOK(state, buddy_head) /\ DOMAIN state \subseteq Node
  BY DEF BuddyInv, PoolOK, TreeOK
<1>2. ASSUME NEW b \in DOMAIN state, IsSplit(state, b)
      PROVE  b \in Cut(buddy_head, InState("ALLOC"))
  BY <1>1, <1>2, NodeBlock, CoalescedPages DEF Cut
<1>3. ASSUME NEW b \in Cut(buddy_head, InState("ALLOC"))
      PROVE  b \in DOMAIN state /\ IsSplit(state, b)
  <2>1. PICK p \in InState("ALLOC") : p # b /\ Inside(p, b)
    BY DEF Cut
  <2>2. p \in DOMAIN state /\ ~ IsSplit(state, p) /\ p.size >= 1 /\ p \in Node
    BY <1>1, PagesFull
  <2>3. Placed(state, b)
    BY <1>1, BlockPlaced DEF Cut
  <2>4. b \in Node /\ b.size >= 1
    <3>1. b \in Node /\ p.size <= b.size
      BY <2>1, <2>2, <2>3, InsideSize DEF Placed
    <3> QED
      BY <2>2, <3>1, NodeFields
  <2>5. ASSUME NEW l \in DOMAIN state, ~ IsSplit(state, l), Inside(b, l)
        PROVE  FALSE
    <3>1. l \in Node /\ Inside(p, l)
      BY <1>1, <2>1, <2>2, <2>4, <2>5, InsideTrans
    <3>2. p = l
      BY <1>1, <2>2, <2>5, <3>1, LeafAlone
    <3> QED
      BY <2>1, <2>2, <2>4, <2>5, <3>2, InsideEq
  <2>6. b \in DOMAIN state
    BY <2>3, <2>4, <2>5 DEF Placed
  <2> QED
    BY <2>4, <2>5, <2>6, InsideSelf
<1> QED
  BY <1>2, <1>3

LEMMA InvOnlyPages == BuddyInv => OnlyPagesMatter
<1> SUFFICES ASSUME BuddyInv, op = "none", buddy_head # NULL
             PROVE  OnlyPagesMatter
  BY DEF OnlyPagesMatter
<1> DEFINE pages == InState("ALLOC")
           cut == {b \in Blocks(buddy_head) : \E n \in pages : n # b /\ Inside(n, b)}
           made == {Left(b) : b \in cut} \cup {Right(b) : b \in cut}
<1>1. /\ TreeOK(state, buddy_head) /\ NoneFree
      /\ state \in [DOMAIN state -> Marks] /\ buddy_head \in DOMAIN state
  BY IdleFree DEF BuddyInv, PoolOK, TreeOK
<1>2. \A b : b \in cut <=> b \in DOMAIN state /\ IsSplit(state, b)
  BY <1>1, CutSplit DEF Cut
<1>3. \A n : n \in pages <=> n \in DOMAIN state /\ state[n] = "ALLOC"
  BY DEF InState, Nodes
<1> HIDE DEF cut, pages
<1>4. DOMAIN state = made \cup {buddy_head}
  <2>1. ASSUME NEW b \in cut
        PROVE  Left(b) \in DOMAIN state /\ Right(b) \in DOMAIN state
    BY <1>1, <1>2 DEF TreeOK, SplitsHave
  <2>2. ASSUME NEW n \in DOMAIN state, n # buddy_head PROVE n \in made
    <3>1. PICK b \in DOMAIN state : IsSplit(state, b) /\ ChildOf(n, b)
      BY <1>1, <2>2 DEF TreeOK, HaveParents
    <3> QED
      BY <1>2, <3>1 DEF ChildOf
  <2> QED
    BY <1>1, <2>1, <2>2
<1> HIDE DEF made
<1>5. ASSUME NEW n \in DOMAIN state
      PROVE  state[n] = IF n \in pages THEN "ALLOC"
                        ELSE IF n \in cut THEN "SPLIT" ELSE "FREE"
  <2>1. state[n] \in Marks
    BY <1>1
  <2> QED
    BY <1>2, <1>3, <2>1 DEF Marks, IsSplit
<1>6. state = [n \in made \cup {buddy_head} |->
                 IF n \in pages THEN "ALLOC"
                 ELSE IF n \in cut THEN "SPLIT" ELSE "FREE"]
  BY <1>1, <1>4, <1>5
<1> QED
  BY <1>6 DEF OnlyPagesMatter, made, cut, pages

(* Between two calls the tree is the one that the pages alone determine,   *)
(* whatever calls led to it: so freeing a page (buddy.c:90) gives back the *)
(* tree from before it was allocated, in whatever order it happens.        *)
THEOREM OnlyPagesCorrect == BuddySpec => []OnlyPagesMatter
BY BuddyInvariant, InvOnlyPages, PTL
=============================================================================
