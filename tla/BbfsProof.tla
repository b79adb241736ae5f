------------------------------ MODULE BbfsProof ------------------------------
(***************************************************************************)
(* What is proved of the file system of hw7_fuse, for any files, names,    *)
(* descriptors, bytes and mounts; last, that seen through a mount it       *)
(* implements plain files (PlainFiles).                                    *)
(***************************************************************************)
EXTENDS Bbfs, SequenceTheorems, TLAPS

(* Within one byte of the range of a char, storing an int in a char of     *)
(* bb_read or bb_write wraps once at either end.                           *)
LEMMA Stored ==
  ASSUME NEW n \in -129 .. 128
  PROVE  ToChar(n) = IF n = -129 THEN 127 ELSE IF n = 128 THEN -128 ELSE n
<1>1. CASE n \in -128 .. 127
  <2>1. n + 384 \in 256 .. 511
    BY <1>1
  <2>2. (n + 384) % 256 = n + 128
    BY <2>1
  <2>. QED  BY <1>1, <2>2 DEF ToChar
<1>2. CASE n = -129 \/ n = 128
  BY <1>2 DEF ToChar
<1>. QED  BY <1>1, <1>2

(* The remainder that C computes leaves these numbers as they are.         *)
LEMMA Remainder ==
  ASSUME NEW n \in -255 .. 255
  PROVE  Rem(n, 256) = n
<1>1. CASE n >= 0
  <2>1. n % 256 = n
    BY <1>1
  <2>. QED  BY <1>1, <2>1 DEF Rem
<1>2. CASE n < 0
  <2>1. -n \in 0 .. 255
    BY <1>2
  <2>2. (-n) % 256 = -n
    BY <2>1
  <2>. QED  BY <1>2, <2>2 DEF Rem
<1>. QED  BY <1>1, <1>2

LEMMA EncipherIs ==
  ASSUME NEW c \in Char
  PROVE  Encipher(c) = IF c = 127 THEN -128 ELSE c + 1
<1>1. c + 1 \in -255 .. 255 /\ c + 1 \in -129 .. 128
  BY DEF Char
<1>2. Rem(c + 1, 256) = c + 1
  BY <1>1, Remainder
<1>. QED  BY <1>1, <1>2, Stored DEF Encipher, Char

LEMMA DecipherIs ==
  ASSUME NEW c \in Char
  PROVE  Decipher(c) = IF c = -128 THEN 127 ELSE c - 1
<1>1. CASE c = 0
  <2>1. ToChar(255) = -1
    BY DEF ToChar
  <2>. QED  BY <1>1, <2>1 DEF Decipher
<1>2. CASE c # 0
  <2>1. c - 1 \in -255 .. 255 /\ c - 1 \in -129 .. 128
    BY DEF Char
  <2>2. Rem(c - 1, 256) = c - 1
    BY <2>1, Remainder
  <2>. QED  BY <1>2, <2>1, <2>2, Stored DEF Decipher, Char
<1>. QED  BY <1>1, <1>2

(* Whatever byte a program writes, what bb_write stores is a char other    *)
(* than it and bb_read turns it back into it, at both ends of the range of *)
(* a signed char too; and every byte in rootdir is what some byte of a     *)
(* program is stored as.                                                   *)
THEOREM CipherInverse ==
  \A c \in Char :
    /\ Encipher(c) \in Char \ {c}
    /\ Decipher(Encipher(c)) = c
    /\ Encipher(Decipher(c)) = c
<1>. SUFFICES ASSUME NEW c \in Char
              PROVE  /\ Encipher(c) \in Char \ {c}
                     /\ Decipher(Encipher(c)) = c
                     /\ Encipher(Decipher(c)) = c
  OBVIOUS
<1>1. Encipher(c) \in Char \ {c} /\ Decipher(c) \in Char
  BY EncipherIs, DecipherIs DEF Char
<1>2. Decipher(Encipher(c)) = c
  BY <1>1, EncipherIs, DecipherIs DEF Char
<1>3. Encipher(Decipher(c)) = c
  BY <1>1, EncipherIs, DecipherIs DEF Char
<1>. QED  BY <1>1, <1>2, <1>3

-----------------------------------------------------------------------------
(* The names, and the descriptors with what they are open for, on which    *)
(* DescriptorsAccountedFor rests.                                          *)
Opened == [ino : Files \cup {NoFile, Root}, use : Flags \cup Positions]

DescriptorInv ==
  /\ dir \in [Names -> Files \cup {NoFile}]
  /\ fds \in [Handles -> Opened \cup {Closed}]
  /\ given \subseteq Handles
  /\ making \in Handles \cup {NoFile}
  /\ DescriptorsAccountedFor

(* A descriptor that is open is not the closed one.                        *)
LEMMA OpenedIsNotClosed == Closed \notin Opened
  BY DEF Closed, Opened, Flags, Positions

(* A step that touches no descriptor.                                      *)
LEMMA NoDescriptor ==
  ASSUME DescriptorInv, UNCHANGED <<fds, given, making>>,
         dir' \in [Names -> Files \cup {NoFile}]
  PROVE  DescriptorInv'
  BY DEF DescriptorInv, DescriptorsAccountedFor

(* A handler opens h and FUSE is given it.                                 *)
LEMMA OpensAndGives ==
  ASSUME DescriptorInv, NEW h \in Handles, NEW d \in Opened,
         fds[h] = Closed, fds' = [fds EXCEPT ![h] = d],
         given' = given \cup {h}, UNCHANGED making,
         dir' \in [Names -> Files \cup {NoFile}]
  PROVE  DescriptorInv'
<1>1. h \notin given /\ h # making
  BY BbfsAssumption DEF DescriptorInv, DescriptorsAccountedFor
<1>2. {k \in Handles : fds'[k] # Closed}
        = {k \in Handles : fds[k] # Closed} \cup {h}
  BY OpenedIsNotClosed DEF DescriptorInv
<1>3. fds' \in [Handles -> Opened \cup {Closed}]
  BY DEF DescriptorInv
<1>. QED  BY <1>1, <1>2, <1>3 DEF DescriptorInv, DescriptorsAccountedFor

(* A handler closes h and FUSE has it no more.                             *)
LEMMA ClosesGiven ==
  ASSUME DescriptorInv, NEW h \in given,
         fds' = [fds EXCEPT ![h] = Closed],
         given' = given \ {h}, UNCHANGED <<making, dir>>
  PROVE  DescriptorInv'
<1>1. h \in Handles /\ h # making
  BY DEF DescriptorInv, DescriptorsAccountedFor
<1>2. {k \in Handles : fds'[k] # Closed}
        = {k \in Handles : fds[k] # Closed} \ {h}
  BY <1>1 DEF DescriptorInv
<1>3. fds' \in [Handles -> Opened \cup {Closed}]
  BY <1>1 DEF DescriptorInv
<1>. QED  BY <1>1, <1>2, <1>3 DEF DescriptorInv, DescriptorsAccountedFor

(* What opening and closing leave of the names.                            *)
LEMMA NewName ==
  ASSUME DescriptorInv, NEW n \in Names, NEW f \in Files
  PROVE  [dir EXCEPT ![n] = f] \in [Names -> Files \cup {NoFile}]
  BY DEF DescriptorInv

LEMMA DescriptorInit == Init => DescriptorInv
<1>. SUFFICES ASSUME Init PROVE DescriptorInv
  OBVIOUS
<1>1. fds \in [Handles -> Opened \cup {Closed}]
  BY DEF Init
<1>2. {h \in Handles : fds[h] # Closed} = {}
  BY DEF Init
<1>. QED  BY <1>1, <1>2 DEF Init, DescriptorInv, DescriptorsAccountedFor

LEMMA LeavesDescriptors ==
  ASSUME DescriptorInv, NEW ret, Leaves(ret)
  PROVE  DescriptorInv'
<1>1. dir \in [Names -> Files \cup {NoFile}]
  BY DEF DescriptorInv
<1>. QED  BY <1>1, NoDescriptor DEF Leaves, Handler, disk

(* The handlers that are called with a name.                               *)
LEMMA NameStep ==
  ASSUME DescriptorInv, NEW n \in Names, OnName(n)
  PROVE  DescriptorInv'
<1>0. dir \in [Names -> Files \cup {NoFile}]
  BY DEF DescriptorInv
<1>1. CASE Asks(n) \/ SetsAttribute(n)
  <2>1. CASE Asks(n)
    <3>1. PICK ret \in AttrSizes : Leaves(ret)
      BY <2>1 DEF Asks, bb_getattr, bb_readlink, bb_statfs, bb_access,
                  bb_getxattr, bb_listxattr, AttrSizes
    <3>. QED  BY <3>1, LeavesDescriptors
  <2>2. CASE SetsAttribute(n)
    <3>1. Leaves(0)
      BY <2>2 DEF SetsAttribute, bb_chmod, bb_chown, bb_utime, bb_setxattr,
                  bb_removexattr
    <3>. QED  BY <3>1, LeavesDescriptors
  <2>. QED  BY <1>1, <2>1, <2>2
<1>2. CASE bb_mknod_open(n)
  <2>. PICK f \in Files, h \in Handles :
         /\ fds[h] = Closed
         /\ NewNode(n, f, "file",
                    [fds EXCEPT ![h] = [ino |-> f, use |-> "w"]])
         /\ making' = h
    BY <1>2 DEF bb_mknod_open
  <2>1. making = NoFile /\ given' = given
    BY <1>2 DEF bb_mknod_open
  <2>2. /\ dir' = [dir EXCEPT ![n] = f]
        /\ fds' = [fds EXCEPT ![h] = [ino |-> f, use |-> "w"]]
    BY DEF NewNode, Becomes
  <2>3. [ino |-> f, use |-> "w"] \in Opened
    BY DEF Opened, Flags
  <2>4. h \notin given /\ h # NoFile
    BY BbfsAssumption DEF DescriptorInv, DescriptorsAccountedFor
  <2>5. {k \in Handles : fds'[k] # Closed}
          = {k \in Handles : fds[k] # Closed} \cup {h}
    BY <2>2, <2>3, OpenedIsNotClosed DEF DescriptorInv
  <2>6. fds' \in [Handles -> Opened \cup {Closed}]
    BY <2>2, <2>3 DEF DescriptorInv
  <2>7. dir' \in [Names -> Files \cup {NoFile}]
    BY <2>2, NewName
  <2>. QED
    BY <2>1, <2>4, <2>5, <2>6, <2>7 DEF DescriptorInv, DescriptorsAccountedFor
<1>3. CASE bb_mknod_special(n) \/ bb_symlink(n) \/ bb_mkdir(n)
  <2>1. \E f \in Files : dir' = [dir EXCEPT ![n] = f]
    BY <1>3 DEF bb_mknod_special, bb_symlink, bb_mkdir, Makes, Handler,
                NewNode, Becomes
  <2>2. UNCHANGED <<fds, given, making>>
    BY <1>3 DEF bb_mknod_special, bb_symlink, bb_mkdir, Makes, Handler,
                NewNode, Becomes, Done
  <2>. QED  BY <2>1, <2>2, NewName, NoDescriptor
<1>4. CASE bb_unlink(n) \/ bb_rmdir(n)
  <2>1. dir' = [dir EXCEPT ![n] = NoFile] /\ UNCHANGED <<fds, given, making>>
    BY <1>4 DEF bb_unlink, bb_rmdir, Handler, Removes, Refers, Becomes, Done
  <2>. QED  BY <1>0, <2>1, NoDescriptor
<1>5. ASSUME NEW m \in Names, bb_rename(n, m) \/ bb_link(n, m)
      PROVE  DescriptorInv'
  <2>1. /\ \/ dir' = Renamed(n, m)
           \/ dir' = [dir EXCEPT ![m] = dir[n]]
        /\ UNCHANGED <<fds, given, making>>
    BY <1>5 DEF bb_rename, bb_link, Handler, Refers, Becomes, Done
  <2>2. dir' \in [Names -> Files \cup {NoFile}]
    BY <1>0, <2>1 DEF Renamed
  <2>. QED  BY <2>1, <2>2, NoDescriptor
<1>6. ASSUME NEW size \in 0 .. MAXSIZE, bb_truncate(n, size)
      PROVE  DescriptorInv'
  BY <1>0, <1>6, NoDescriptor DEF bb_truncate, Handler, Cuts, Stores, Done
<1>7. ASSUME NEW h \in Handles, bb_create(n, h)
      PROVE  DescriptorInv'
  <2>1. /\ fds[h] = Closed /\ given' = given \cup {h} /\ UNCHANGED making
        /\ \/ \E f \in Files :
                 /\ dir' = [dir EXCEPT ![n] = f]
                 /\ fds' = [fds EXCEPT ![h] = [ino |-> f, use |-> "w"]]
           \/ /\ dir' = dir
              /\ fds' = [fds EXCEPT ![h] = [ino |-> dir[n], use |-> "w"]]
    BY <1>7 DEF bb_create, Handler, Gives, NewNode, Becomes
  <2>2. \E f \in Files \cup {NoFile} :
          fds' = [fds EXCEPT ![h] = [ino |-> f, use |-> "w"]]
    BY <1>0, <2>1
  <2>3. \A f \in Files \cup {NoFile} : [ino |-> f, use |-> "w"] \in Opened
    BY DEF Opened, Flags
  <2>4. dir' \in [Names -> Files \cup {NoFile}]
    BY <1>0, <2>1, NewName
  <2>. QED  BY <2>1, <2>2, <2>3, <2>4, OpensAndGives
<1>8. ASSUME NEW h \in Handles, NEW flags \in OpenWith, bb_open(n, h, flags)
      PROVE  DescriptorInv'
  <2>1. /\ fds[h] = Closed /\ given' = given \cup {h} /\ UNCHANGED making
        /\ dir' = dir
        /\ fds' = [fds EXCEPT ![h] = [ino |-> dir[n], use |-> flags]]
    BY <1>8 DEF bb_open, Handler, Gives, Refers, Becomes
  <2>2. [ino |-> dir[n], use |-> flags] \in Opened
    BY <1>0, BbfsAssumption DEF Opened, Flags
  <2>. QED  BY <1>0, <2>1, <2>2, OpensAndGives
<1>. QED
  BY <1>1, <1>2, <1>3, <1>4, <1>5, <1>6, <1>7, <1>8 DEF OnName

(* The handlers that are called with a handle FUSE was given.              *)
LEMMA HandleStep ==
  ASSUME DescriptorInv, NEW h \in given, OnHandle(h)
  PROVE  DescriptorInv'
<1>0. dir \in [Names -> Files \cup {NoFile}] /\ h \in Handles
  BY DEF DescriptorInv
<1>1. CASE Unseen(h)
  <2>1. Leaves(0)
    BY <1>1 DEF Unseen, bb_fgetattr, bb_fsync, bb_flush, bb_fsyncdir
  <2>. QED  BY <2>1, LeavesDescriptors
<1>2. CASE bb_readdir(h)
  <2>1. UNCHANGED <<dir, given, making>>
    BY <1>2 DEF bb_readdir, disk
  <2>2. fds[h].use \in Positions
    BY <1>2 DEF bb_readdir
  <2>3. fds[h] \in Opened
    BY <1>0, <2>2 DEF DescriptorInv, Positions, Closed
  <2>4. CASE fds' = fds
    BY <1>0, <2>1, <2>4, NoDescriptor
  <2>5. ASSUME NEW p \in Positions, fds' = [fds EXCEPT ![h].use = p]
        PROVE  DescriptorInv'
    <3>1. fds'[h] \in Opened
      BY <1>0, <2>3, <2>5 DEF DescriptorInv, Opened
    <3>2. \A k \in Handles \ {h} : fds'[k] = fds[k]
      BY <2>5 DEF DescriptorInv
    <3>3. fds' \in [Handles -> Opened \cup {Closed}]
      BY <2>5, <3>1, <3>2 DEF DescriptorInv
    <3>4. {k \in Handles : fds'[k] # Closed} = {k \in Handles : fds[k] # Closed}
      BY <2>3, <3>1, <3>2, OpenedIsNotClosed
    <3>. QED  BY <2>1, <3>3, <3>4 DEF DescriptorInv, DescriptorsAccountedFor
  <2>. QED  BY <1>2, <2>4, <2>5 DEF bb_readdir, Positions
<1>3. CASE bb_release(h) \/ bb_releasedir(h)
  <2>1. /\ given' = given \ {h} /\ UNCHANGED <<making, dir>>
        /\ fds' = [fds EXCEPT ![h] = Closed]
    BY <1>3 DEF bb_release, bb_releasedir, Refers, Becomes, AfterClose
  <2>. QED  BY <2>1, ClosesGiven
<1>4. ASSUME NEW size \in 0 .. MAXSIZE, bb_ftruncate(h, size)
      PROVE  DescriptorInv'
  BY <1>0, <1>4, NoDescriptor DEF bb_ftruncate, Handler, Cuts, Stores, Done
<1>5. ASSUME NEW size \in 1 .. MAXSIZE, NEW offset \in 0 .. MAXSIZE - 1,
             bb_read(h, size, offset)
      PROVE  DescriptorInv'
  BY <1>0, <1>5, NoDescriptor DEF bb_read, Handler, disk
<1>6. ASSUME NEW data \in BytesUpTo(MAXSIZE), NEW offset \in 0 .. MAXSIZE - 1,
             NEW count \in 1 .. Len(data), bb_write(h, data, offset, count)
      PROVE  DescriptorInv'
  BY <1>0, <1>6, NoDescriptor DEF bb_write, Handler, Stores
<1>. QED  BY <1>1, <1>2, <1>3, <1>4, <1>5, <1>6 DEF OnHandle

(* bb_mknod closes its descriptor, or the process ends and with it all.    *)
LEMMA CloseStep ==
  ASSUME DescriptorInv, bb_mknod_close \/ Exit
  PROVE  DescriptorInv'
<1>1. CASE bb_mknod_close
  <2>1. /\ making \in Handles /\ making' = NoFile
        /\ fds' = [fds EXCEPT ![making] = Closed]
        /\ UNCHANGED <<dir, given>>
    BY <1>1 DEF bb_mknod_close, Refers, Becomes, AfterClose, DescriptorInv
  <2>2. {k \in Handles : fds'[k] # Closed}
          = {k \in Handles : fds[k] # Closed} \ {making}
    BY <2>1 DEF DescriptorInv
  <2>3. fds' \in [Handles -> Opened \cup {Closed}]
    BY <2>1 DEF DescriptorInv
  <2>4. NoFile \notin given
    BY BbfsAssumption DEF DescriptorInv
  <2>. QED
    BY <2>1, <2>2, <2>3, <2>4 DEF DescriptorInv, DescriptorsAccountedFor
<1>2. CASE Exit
  <2>1. /\ fds' = [h \in Handles |-> Closed]
        /\ given' = {} /\ making' = NoFile /\ UNCHANGED dir
    BY <1>2 DEF Exit, Refers, Becomes
  <2>2. {k \in Handles : fds'[k] # Closed} = {}
    BY <2>1
  <2>3. fds' \in [Handles -> Opened \cup {Closed}]
    BY <2>1
  <2>. QED  BY <2>1, <2>2, <2>3 DEF DescriptorInv, DescriptorsAccountedFor
<1>. QED  BY <1>1, <1>2

LEMMA DescriptorStep == DescriptorInv /\ [Next]_vars => DescriptorInv'
<1>. SUFFICES ASSUME DescriptorInv, [Next]_vars PROVE DescriptorInv'
  OBVIOUS
<1>0. dir \in [Names -> Files \cup {NoFile}]
  BY DEF DescriptorInv
<1>1. CASE UNCHANGED vars
  BY <1>0, <1>1, NoDescriptor DEF vars, disk
<1>2. ASSUME NEW u \in Uids, Mount(u) PROVE DescriptorInv'
  BY <1>0, <1>2, NoDescriptor DEF Mount, disk
<1>3. CASE Fails
  BY <1>0, <1>3, NoDescriptor DEF Fails, disk
<1>4. CASE bb_mknod_close \/ Exit
  BY <1>4, CloseStep
<1>5. ASSUME NEW n \in Names, OnName(n) PROVE DescriptorInv'
  BY <1>5, NameStep
<1>6. ASSUME NEW h \in given, OnHandle(h) PROVE DescriptorInv'
  BY <1>6, HandleStep
<1>7. ASSUME NEW f \in Files \cup {Root}, NEW h \in Handles, bb_opendir(f, h)
      PROVE  DescriptorInv'
  <2>1. /\ fds[h] = Closed /\ given' = given \cup {h} /\ UNCHANGED making
        /\ dir' = dir
        /\ fds' = [fds EXCEPT ![h] = [ino |-> f, use |-> "entries"]]
    BY <1>7 DEF bb_opendir, Handler, Gives, Refers, Becomes
  <2>2. [ino |-> f, use |-> "entries"] \in Opened
    BY DEF Opened, Positions
  <2>. QED  BY <1>0, <2>1, <2>2, OpensAndGives
<1>. QED
  BY <1>1, <1>2, <1>3, <1>4, <1>5, <1>6, <1>7 DEF Next

(* No sequence of calls and failures leaks a descriptor of the bbfs        *)
(* process, uses one that is closed, or confuses the one that a bb_mknod   *)
(* has open with those of other handlers, for any number of names, files   *)
(* and descriptors.                                                        *)
THEOREM DescriptorsNeverLeak == Spec => []DescriptorsAccountedFor
<1>1. DescriptorInv => DescriptorsAccountedFor
  BY DEF DescriptorInv
<1>. QED  BY <1>1, DescriptorInit, DescriptorStep, PTL DEF Spec

-----------------------------------------------------------------------------
(* The bytes of a file, and beside each who wrote it and as what.          *)
Ghosts == [byte : Char, by : BOOLEAN \cup {Nobody}]

(* Byte r of rootdir is what w says was written.                           *)
Keeps(r, w) ==
  /\ w.by = TRUE => r = Encipher(w.byte)
  /\ w.by = FALSE => r = w.byte

Kept(r, w) ==
  /\ r \in Seq(Char) /\ w \in Seq(Ghosts)
  /\ Len(w) = Len(r)
  /\ \A k \in 1 .. Len(r) : Keeps(r[k], w[k])

LEMMA SeqFrom ==
  ASSUME NEW S, NEW n \in Nat, NEW s \in [1 .. n -> S]
  PROVE  s \in Seq(S) /\ Len(s) = n
BY SeqDef

(* A byte nobody wrote.                                                    *)
LEMMA GapKept == 0 \in Char /\ Gap \in Ghosts /\ Keeps(0, Gap)
<1>1. 0 \in Char
  BY DEF Char
<1>2. Gap \in Ghosts
  BY <1>1 DEF Gap, Ghosts
<1>3. Gap.by # TRUE /\ Gap.by # FALSE
  BY BbfsAssumption DEF Gap
<1>. QED  BY <1>1, <1>2, <1>3 DEF Keeps

LEMMA NothingKept == Kept(<<>>, <<>>)
  BY EmptySeq DEF Kept

(* What truncate makes of bytes.                                           *)
IsResized(S, s, n, b) ==
  /\ Resized(s, n, b) \in Seq(S)
  /\ Len(Resized(s, n, b)) = n
  /\ \A k \in 1 .. n :
       Resized(s, n, b)[k] = IF k <= Len(s) THEN s[k] ELSE b

LEMMA ResizedIs ==
  ASSUME NEW S, NEW s \in Seq(S), NEW n \in Nat, NEW b \in S
  PROVE  IsResized(S, s, n, b)
<1>1. Len(s) \in Nat /\ \A k \in 1 .. Len(s) : s[k] \in S
  BY LenProperties, ElementOfSeq
<1>2. Resized(s, n, b) \in [1 .. n -> S]
  BY <1>1 DEF Resized
<1>3. \A k \in 1 .. n : Resized(s, n, b)[k] = IF k <= Len(s) THEN s[k] ELSE b
  BY DEF Resized
<1>. QED  BY <1>2, <1>3, SeqFrom DEF IsResized

(* What pwrite makes of bytes.                                             *)
IsOverlaid(S, s, offset, data, b) ==
  LET end == offset + Len(data)
      n == IF end > Len(s) THEN end ELSE Len(s)
  IN  /\ Overlaid(s, offset, data, b) \in Seq(S)
      /\ Len(Overlaid(s, offset, data, b)) = n
      /\ \A k \in 1 .. n :
           Overlaid(s, offset, data, b)[k] =
             IF k > offset /\ k <= end THEN data[k - offset]
             ELSE IF k <= Len(s) THEN s[k] ELSE b

LEMMA OverlaidIs ==
  ASSUME NEW S, NEW s \in Seq(S), NEW offset \in Nat,
         NEW data \in Seq(S), data # <<>>, NEW b \in S
  PROVE  IsOverlaid(S, s, offset, data, b)
<1>. DEFINE end == offset + Len(data)
            n == IF end > Len(s) THEN end ELSE Len(s)
            o == [k \in 1 .. n |-> IF k > offset /\ k <= end
                                   THEN data[k - offset]
                                   ELSE IF k <= Len(s) THEN s[k] ELSE b]
<1>1. /\ Len(s) \in Nat /\ \A k \in 1 .. Len(s) : s[k] \in S
      /\ Len(data) \in Nat /\ \A k \in 1 .. Len(data) : data[k] \in S
  BY LenProperties, ElementOfSeq
<1>2. Overlaid(s, offset, data, b) = o
  BY DEF Overlaid
<1>3. n \in Nat /\ end = offset + Len(data)
  BY <1>1
<1>4. o \in [1 .. n -> S]
  <2>. SUFFICES ASSUME NEW k \in 1 .. n
                PROVE  (IF k > offset /\ k <= end THEN data[k - offset]
                        ELSE IF k <= Len(s) THEN s[k] ELSE b) \in S
    OBVIOUS
  <2>1. CASE k > offset /\ k <= end
    <3>1. k - offset \in 1 .. Len(data)
      BY <1>1, <1>3, <2>1
    <3>. QED  BY <1>1, <2>1, <3>1
  <2>. QED  BY <1>1, <1>3, <2>1
<1>5. \A k \in 1 .. n : o[k] = IF k > offset /\ k <= end THEN data[k - offset]
                               ELSE IF k <= Len(s) THEN s[k] ELSE b
  OBVIOUS
<1>. HIDE DEF n, end, o
<1>6. o \in Seq(S) /\ Len(o) = n
  BY <1>3, <1>4, SeqFrom
<1>. QED  BY <1>2, <1>5, <1>6 DEF n, end, IsOverlaid

(* bb_truncate and bb_ftruncate keep what was written.                     *)
LEMMA ResizedKept ==
  ASSUME NEW r, NEW w, Kept(r, w), NEW n \in Nat
  PROVE  Kept(Resized(r, n, 0), Resized(w, n, Gap))
<1>1. r \in Seq(Char) /\ w \in Seq(Ghosts) /\ Len(w) = Len(r) /\ Len(r) \in Nat
  BY LenProperties DEF Kept
<1>a. IsResized(Char, r, n, 0) /\ IsResized(Ghosts, w, n, Gap)
  BY <1>1, GapKept, ResizedIs
<1>2. \A k \in 1 .. n : Keeps(Resized(r, n, 0)[k], Resized(w, n, Gap)[k])
  <2>. SUFFICES ASSUME NEW k \in 1 .. n
                PROVE  Keeps(Resized(r, n, 0)[k], Resized(w, n, Gap)[k])
    OBVIOUS
  <2>0. /\ Resized(r, n, 0)[k] = IF k <= Len(r) THEN r[k] ELSE 0
        /\ Resized(w, n, Gap)[k] = IF k <= Len(r) THEN w[k] ELSE Gap
    BY <1>1, <1>a DEF IsResized
  <2>1. CASE k <= Len(r)
    BY <1>1, <2>0, <2>1 DEF Kept
  <2>2. CASE ~ (k <= Len(r))
    BY <2>0, <2>2, GapKept
  <2>. QED  BY <2>1, <2>2
<1>. QED  BY <1>a, <1>2 DEF Kept, IsResized

(* So does bb_write, and what it writes is kept itself.                    *)
LEMMA OverlaidKept ==
  ASSUME NEW r, NEW w, Kept(r, w), NEW offset \in Nat,
         NEW d, NEW g, Kept(d, g), Len(d) > 0
  PROVE  Kept(Overlaid(r, offset, d, 0), Overlaid(w, offset, g, Gap))
<1>1. /\ r \in Seq(Char) /\ w \in Seq(Ghosts) /\ Len(w) = Len(r) /\ Len(r) \in Nat
      /\ d \in Seq(Char) /\ g \in Seq(Ghosts) /\ Len(g) = Len(d) /\ Len(d) \in Nat
  BY LenProperties DEF Kept
<1>2. d # <<>> /\ g # <<>>
  BY <1>1
<1>. DEFINE end == offset + Len(d)
            n == IF end > Len(r) THEN end ELSE Len(r)
            rr == Overlaid(r, offset, d, 0)
            ww == Overlaid(w, offset, g, Gap)
<1>a. IsOverlaid(Char, r, offset, d, 0) /\ IsOverlaid(Ghosts, w, offset, g, Gap)
  BY <1>1, <1>2, GapKept, OverlaidIs
<1>3. /\ rr \in Seq(Char) /\ Len(rr) = n
      /\ \A k \in 1 .. n :
           rr[k] = IF k > offset /\ k <= end THEN d[k - offset]
                   ELSE IF k <= Len(r) THEN r[k] ELSE 0
  BY <1>a DEF IsOverlaid
<1>4. /\ ww \in Seq(Ghosts) /\ Len(ww) = n
      /\ \A k \in 1 .. n :
           ww[k] = IF k > offset /\ k <= end THEN g[k - offset]
                   ELSE IF k <= Len(r) THEN w[k] ELSE Gap
  <2>. DEFINE e2 == offset + Len(g)
              n2 == IF e2 > Len(w) THEN e2 ELSE Len(w)
  <2>1. /\ ww \in Seq(Ghosts) /\ Len(ww) = n2
        /\ \A k \in 1 .. n2 :
             ww[k] = IF k > offset /\ k <= e2 THEN g[k - offset]
                     ELSE IF k <= Len(w) THEN w[k] ELSE Gap
    BY <1>a DEF IsOverlaid
  <2>2. e2 = end /\ n2 = n /\ Len(w) = Len(r)
    BY <1>1
  <2>. QED  BY <2>1, <2>2
<1>5. n \in Nat /\ end = offset + Len(d)
  BY <1>1
<1>. HIDE DEF rr, ww, n, end
<1>6. \A k \in 1 .. n : Keeps(rr[k], ww[k])
  <2>. SUFFICES ASSUME NEW k \in 1 .. n PROVE Keeps(rr[k], ww[k])
    OBVIOUS
  <2>1. CASE k > offset /\ k <= end
    <3>1. k - offset \in 1 .. Len(d)
      BY <1>1, <1>5, <2>1
    <3>2. rr[k] = d[k - offset] /\ ww[k] = g[k - offset]
      BY <1>3, <1>4, <2>1
    <3>. QED  BY <3>1, <3>2 DEF Kept
  <2>2. CASE ~ (k > offset /\ k <= end) /\ k <= Len(r)
    <3>1. rr[k] = r[k] /\ ww[k] = w[k]
      BY <1>3, <1>4, <2>2
    <3>. QED  BY <1>1, <1>5, <2>2, <3>1 DEF Kept
  <2>3. CASE ~ (k > offset /\ k <= end) /\ ~ (k <= Len(r))
    BY <1>3, <1>4, <2>3, GapKept
  <2>. QED  BY <2>1, <2>2, <2>3
<1>. QED  BY <1>3, <1>4, <1>6 DEF Kept, rr, ww

(* The buffer of bb_write, enciphered or not.                              *)
LEMMA InIs ==
  ASSUME NEW data \in Seq(Char)
  PROVE  /\ In(data) \in Seq(Char) /\ Len(In(data)) = Len(data)
         /\ \A k \in 1 .. Len(data) :
              In(data)[k] = IF Allowed THEN Encipher(data[k]) ELSE data[k]
<1>1. /\ Len(data) \in Nat /\ DOMAIN data = 1 .. Len(data)
      /\ \A k \in 1 .. Len(data) : data[k] \in Char
  BY LenProperties, ElementOfSeq
<1>2. CASE Allowed
  <2>1. In(data) = [k \in 1 .. Len(data) |-> Encipher(data[k])]
    BY <1>1, <1>2 DEF In
  <2>2. In(data) \in [1 .. Len(data) -> Char]
    BY <1>1, <2>1, CipherInverse
  <2>. QED  BY <1>1, <1>2, <2>1, <2>2, SeqFrom
<1>3. CASE ~ Allowed
  BY <1>3 DEF In
<1>. QED  BY <1>2, <1>3

LEMMA SignedIs ==
  ASSUME NEW data \in Seq(Char)
  PROVE  /\ Signed(data) \in Seq(Ghosts) /\ Len(Signed(data)) = Len(data)
         /\ \A k \in 1 .. Len(data) :
              /\ Signed(data)[k].byte = data[k]
              /\ Signed(data)[k].by = Allowed
<1>1. /\ Len(data) \in Nat /\ DOMAIN data = 1 .. Len(data)
      /\ \A k \in 1 .. Len(data) : data[k] \in Char
  BY LenProperties, ElementOfSeq
<1>2. \A k \in 1 .. Len(data) :
        Signed(data)[k] = [byte |-> data[k], by |-> Allowed]
  BY <1>1 DEF Signed
<1>3. Allowed \in BOOLEAN
  BY DEF Allowed
<1>. HIDE DEF Allowed
<1>4. \A k \in 1 .. Len(data) : [byte |-> data[k], by |-> Allowed] \in Ghosts
  BY <1>1, <1>3, Zenon DEF Ghosts
<1>5. Signed(data) \in [1 .. Len(data) -> Ghosts]
  BY <1>1, <1>4, Zenon DEF Signed
<1>6. \A k \in 1 .. Len(data) :
        Signed(data)[k].byte = data[k] /\ Signed(data)[k].by = Allowed
  <2>. SUFFICES ASSUME NEW k \in 1 .. Len(data)
                PROVE  /\ Signed(data)[k].byte = data[k]
                       /\ Signed(data)[k].by = Allowed
    OBVIOUS
  <2>1. PICK y : y = Allowed
    BY Zenon
  <2>2. Signed(data)[k] = [byte |-> data[k], by |-> y]
    BY <1>2, <2>1, Zenon
  <2>3. Signed(data)[k].byte = data[k] /\ Signed(data)[k].by = y
    BY <2>2
  <2>. QED  BY <2>1, <2>3, Zenon
<1>. QED  BY <1>1, <1>5, <1>6, SeqFrom

LEMMA DataKept ==
  ASSUME NEW data \in Seq(Char), NEW count \in 1 .. Len(data)
  PROVE  /\ Kept(SubSeq(In(data), 1, count), SubSeq(Signed(data), 1, count))
         /\ Len(SubSeq(In(data), 1, count)) = count
<1>1. Len(data) \in Nat /\ count \in Nat /\ count <= Len(data)
  BY LenProperties
<1>. DEFINE r == SubSeq(In(data), 1, count)
            w == SubSeq(Signed(data), 1, count)
<1>2. /\ r \in Seq(Char) /\ Len(r) = count
      /\ \A k \in 1 .. count : r[k] = In(data)[k]
  <2>1. \A k \in 1 .. count : In(data)[k] \in Char
    BY <1>1, InIs, ElementOfSeq
  <2>. QED  BY <1>1, <2>1, SubSeqProperties
<1>3. /\ w \in Seq(Ghosts) /\ Len(w) = count
      /\ \A k \in 1 .. count : w[k] = Signed(data)[k]
  <2>1. \A k \in 1 .. count : Signed(data)[k] \in Ghosts
    BY <1>1, SignedIs, ElementOfSeq
  <2>. QED  BY <1>1, <2>1, SubSeqProperties
<1>. HIDE DEF r, w
<1>4. ASSUME NEW k \in 1 .. count PROVE Keeps(r[k], w[k])
  <2>1. w[k].byte = data[k] /\ w[k].by = Allowed
    BY <1>1, <1>3, SignedIs
  <2>2. r[k] = IF Allowed THEN Encipher(data[k]) ELSE data[k]
    BY <1>1, <1>2, InIs
  <2>3. CASE Allowed
    <3>1. w[k].by = TRUE /\ TRUE # FALSE
      BY <2>1, <2>3, Zenon DEF Allowed
    <3>. QED  BY <2>1, <2>2, <2>3, <3>1, Zenon DEF Keeps
  <2>4. CASE ~ Allowed
    <3>1. w[k].by = FALSE /\ TRUE # FALSE
      BY <2>1, <2>4, Zenon DEF Allowed
    <3>. QED  BY <2>1, <2>2, <2>4, <3>1, Zenon DEF Keeps
  <2>. QED  BY <2>3, <2>4
<1>. QED  BY <1>2, <1>3, <1>4 DEF Kept, r, w

-----------------------------------------------------------------------------
(* A descriptor is open on what its use is for.                            *)
OpenOn(open, kinds) ==
  \A h \in Handles :
    /\ open[h].use \in Flags => /\ open[h].ino \in Files
                                /\ kinds[open[h].ino] = "file"
    /\ open[h].use \in Positions =>
         (open[h].ino \in Files => kinds[open[h].ino] = "dir")

Kinds == {"file", "dir", "other", NoFile}

(* The disk: an inode is free when nothing refers to it, only files hold   *)
(* bytes, and each byte is what was written there.                         *)
DiskInv ==
  /\ kind \in [Files -> Kinds]
  /\ raw \in [Files -> Seq(Char)] /\ wrote \in [Files -> Seq(Ghosts)]
  /\ \A f \in Files :
       /\ kind[f] = NoFile <=> f \notin Live(dir, fds)
       /\ kind[f] # "file" => raw[f] = <<>>
       /\ Kept(raw[f], wrote[f])
  /\ OpenOn(fds, kind)

(* The process: without a mount it has no descriptor.                      *)
SessionInv ==
  /\ uid \in Uids \cup {Nobody}
  /\ uid = Nobody => \A h \in Handles : fds[h] = Closed
  /\ reply.ret \in Int

FileInv == DescriptorInv /\ DiskInv /\ SessionInv

(* What a name or a descriptor refers to is there.                         *)
LEMMA NamesLive ==
  ASSUME FileInv, NEW n \in Names, Exists(n)
  PROVE  dir[n] \in Files /\ dir[n] \in Live(dir, fds)
BY DEF FileInv, DescriptorInv, Exists, Live

LEMMA DiskInit == Init => DiskInv /\ SessionInv
<1>. SUFFICES ASSUME Init PROVE DiskInv /\ SessionInv
  OBVIOUS
<1>1. kind \in [Files -> Kinds]
  BY DEF Init, Kinds
<1>2. raw \in [Files -> Seq(Char)] /\ wrote \in [Files -> Seq(Ghosts)]
  BY EmptySeq DEF Init
<1>3. ASSUME NEW f \in Files
      PROVE  /\ kind[f] = NoFile <=> f \notin Live(dir, fds)
             /\ kind[f] # "file" => raw[f] = <<>>
             /\ Kept(raw[f], wrote[f])
  <2>1. f \notin Live(dir, fds)
    BY BbfsAssumption DEF Init, Live, Closed
  <2>. QED  BY <2>1, NothingKept DEF Init
<1>4. OpenOn(fds, kind)
  BY DEF Init, OpenOn, Closed, Flags, Positions
<1>5. SessionInv
  BY DEF Init, SessionInv, NoReply
<1>. QED  BY <1>1, <1>2, <1>3, <1>4, <1>5 DEF DiskInv

(* A step that changes neither the disk nor a descriptor.                  *)
LEMMA SameDisk ==
  ASSUME DiskInv, UNCHANGED <<disk, fds>>
  PROVE  DiskInv'
BY DEF DiskInv, disk, Live, OpenOn

(* A step after which the names are d, the descriptors open and the kinds  *)
(* of the inodes kinds.                                                    *)
LEMMA BecomesDisk ==
  ASSUME DiskInv, NEW d \in [Names -> Files \cup {NoFile}],
         NEW open \in [Handles -> Opened \cup {Closed}],
         NEW kinds \in [Files -> Kinds],
         Becomes(d, open, kinds), OpenOn(open, kinds),
         \A f \in Files : /\ f \in Live(d, open) => kinds[f] # NoFile
                          /\ kinds[f] # "file" => raw[f] = <<>>
  PROVE  DiskInv'
<1>. DEFINE alive == Live(d, open)
<1>1. /\ dir' = d /\ fds' = open
      /\ kind' = [f \in Files |-> IF f \in alive THEN kinds[f] ELSE NoFile]
      /\ raw' = [f \in Files |-> IF f \in alive THEN raw[f] ELSE <<>>]
      /\ wrote' = [f \in Files |-> IF f \in alive THEN wrote[f] ELSE <<>>]
  BY DEF Becomes
<1>2. alive = Live(dir, fds)'
  BY <1>1 DEF Live
<1>3. kind' \in [Files -> Kinds]
  BY <1>1 DEF Kinds
<1>4. raw' \in [Files -> Seq(Char)] /\ wrote' \in [Files -> Seq(Ghosts)]
  BY <1>1, EmptySeq DEF DiskInv
<1>5. \A h \in Handles : open[h].ino \in alive
  BY DEF Live
<1>. HIDE DEF alive
<1>6. ASSUME NEW f \in Files
      PROVE  /\ kind'[f] = NoFile <=> f \notin alive
             /\ kind'[f] # "file" => raw'[f] = <<>>
             /\ Kept(raw'[f], wrote'[f])
  <2>1. CASE f \in alive
    <3>1. kind'[f] = kinds[f] /\ raw'[f] = raw[f] /\ wrote'[f] = wrote[f]
      BY <1>1, <2>1
    <3>2. Kept(raw[f], wrote[f])
      BY DEF DiskInv
    <3>. QED  BY <2>1, <3>1, <3>2 DEF alive
  <2>2. CASE f \notin alive
    <3>1. kind'[f] = NoFile /\ raw'[f] = <<>> /\ wrote'[f] = <<>>
      BY <1>1, <2>2
    <3>. QED  BY <2>2, <3>1, NothingKept
  <2>. QED  BY <2>1, <2>2
<1>7. OpenOn(fds', kind')
  BY <1>1, <1>5 DEF OpenOn
<1>. QED  BY <1>2, <1>3, <1>4, <1>6, <1>7 DEF DiskInv, OpenOn, Kept, Keeps

(* No inode is made, and none is referred to that was not.                 *)
LEMMA RefersDisk ==
  ASSUME DiskInv, NEW d \in [Names -> Files \cup {NoFile}],
         NEW open \in [Handles -> Opened \cup {Closed}],
         Refers(d, open), OpenOn(open, kind),
         \A f \in Files : f \in Live(d, open) => f \in Live(dir, fds)
  PROVE  DiskInv'
<1>1. kind \in [Files -> Kinds]
  BY DEF DiskInv
<1>2. \A f \in Files : /\ f \in Live(d, open) => kind[f] # NoFile
                       /\ kind[f] # "file" => raw[f] = <<>>
  BY DEF DiskInv
<1>. QED  BY <1>1, <1>2, BecomesDisk DEF Refers

(* Bytes are stored in a file.                                             *)
LEMMA StoresDisk ==
  ASSUME DiskInv, NEW f \in Files, kind[f] = "file",
         NEW r, NEW w, Kept(r, w), Stores(f, r, w)
  PROVE  DiskInv'
<1>1. r \in Seq(Char) /\ w \in Seq(Ghosts)
  BY DEF Kept
<1>2. /\ raw' = [raw EXCEPT ![f] = r] /\ wrote' = [wrote EXCEPT ![f] = w]
      /\ dir' = dir /\ kind' = kind /\ fds' = fds
  BY DEF Stores
<1>3. raw' \in [Files -> Seq(Char)] /\ wrote' \in [Files -> Seq(Ghosts)]
  BY <1>1, <1>2 DEF DiskInv
<1>4. Live(dir, fds)' = Live(dir, fds)
  BY <1>2 DEF Live
<1>5. ASSUME NEW g \in Files
      PROVE  /\ kind'[g] = NoFile <=> g \notin Live(dir, fds)
             /\ kind'[g] # "file" => raw'[g] = <<>>
             /\ Kept(raw'[g], wrote'[g])
  <2>1. CASE g = f
    <3>1. raw'[g] = r /\ wrote'[g] = w
      BY <1>2, <2>1 DEF DiskInv
    <3>2. kind'[g] = NoFile <=> g \notin Live(dir, fds)
      BY <1>2 DEF DiskInv
    <3>. QED  BY <1>2, <2>1, <3>1, <3>2
  <2>2. CASE g # f
    <3>1. raw'[g] = raw[g] /\ wrote'[g] = wrote[g]
      BY <1>2, <2>2 DEF DiskInv
    <3>. QED  BY <1>2, <3>1 DEF DiskInv
  <2>. QED  BY <2>1, <2>2
<1>6. OpenOn(fds', kind')
  BY <1>2 DEF DiskInv
<1>. QED  BY <1>2, <1>3, <1>4, <1>5, <1>6 DEF DiskInv, OpenOn, Kept, Keeps

(* An inode f is made, and perhaps opened.                                 *)
LEMMA NewNodeDisk ==
  ASSUME FileInv, NEW n \in Names, NEW f \in Files,
         NEW k \in {"file", "dir", "other"},
         NEW open \in [Handles -> Opened \cup {Closed}],
         NewNode(n, f, k, open),
         \/ open = fds
         \/ /\ k = "file"
            /\ \E h \in Handles :
                 /\ fds[h] = Closed
                 /\ open = [fds EXCEPT ![h] = [ino |-> f, use |-> "w"]]
  PROVE  DiskInv'
<1>. DEFINE d == [dir EXCEPT ![n] = f]
            kinds == [kind EXCEPT ![f] = k]
<1>0. DiskInv /\ DescriptorInv
  BY DEF FileInv
<1>1. d \in [Names -> Files \cup {NoFile}] /\ kinds \in [Files -> Kinds]
  BY <1>0 DEF DescriptorInv, DiskInv, Kinds
<1>2. Becomes(d, open, kinds) /\ kind[f] = NoFile /\ dir[n] = NoFile
  BY DEF NewNode
<1>3. \A g \in Files : g # f => (g \in Live(d, open) => g \in Live(dir, fds))
  BY <1>0 DEF DescriptorInv, Live
<1>4. /\ kinds[f] = k /\ k # NoFile
      /\ \A g \in Files : g # f => kinds[g] = kind[g]
  BY <1>0, BbfsAssumption DEF DiskInv
<1>5. raw[f] = <<>> /\ f \notin Live(dir, fds)
  BY <1>0, <1>2, BbfsAssumption DEF DiskInv
<1>6. \A g \in Files : /\ g \in Live(d, open) => kinds[g] # NoFile
                       /\ kinds[g] # "file" => raw[g] = <<>>
  BY <1>0, <1>3, <1>4, <1>5 DEF DiskInv
<1>7. OpenOn(open, kinds)
  <2>1. \A h \in Handles : fds[h].ino # f
    BY <1>5 DEF Live
  <2>2. OpenOn(fds, kinds)
    BY <1>0, <1>4, <2>1 DEF DiskInv, OpenOn
  <2>3. ASSUME NEW h \in Handles, k = "file",
               open = [fds EXCEPT ![h] = [ino |-> f, use |-> "w"]]
        PROVE  OpenOn(open, kinds)
    <3>1. fds \in [Handles -> Opened \cup {Closed}]
      BY <1>0 DEF DescriptorInv
    <3>2. /\ open[h].ino = f /\ open[h].use = "w"
          /\ \A i \in Handles \ {h} : open[i] = fds[i]
      BY <2>3, <3>1
    <3>. HIDE DEF kinds
    <3>. QED  BY <1>4, <2>2, <2>3, <3>2 DEF OpenOn, Flags, Positions
  <2>. QED  BY <2>2, <2>3
<1>. HIDE DEF d, kinds
<1>. QED  BY <1>0, <1>1, <1>2, <1>6, <1>7, BecomesDisk

(* A descriptor is opened on an inode that is there.                       *)
LEMMA OpensDisk ==
  ASSUME FileInv, NEW h \in Handles, fds[h] = Closed, NEW o \in Opened,
         Refers(dir, [fds EXCEPT ![h] = o]),
         o.ino \in Files => o.ino \in Live(dir, fds),
         o.use \in Flags => o.ino \in Files /\ kind[o.ino] = "file",
         o.use \in Positions => (o.ino \in Files => kind[o.ino] = "dir")
  PROVE  DiskInv'
<1>. DEFINE open == [fds EXCEPT ![h] = o]
<1>0. /\ DiskInv /\ dir \in [Names -> Files \cup {NoFile}]
      /\ fds \in [Handles -> Opened \cup {Closed}]
  BY DEF FileInv, DescriptorInv
<1>1. /\ open \in [Handles -> Opened \cup {Closed}]
      /\ open[h] = o /\ \A i \in Handles \ {h} : open[i] = fds[i]
  BY <1>0
<1>. HIDE DEF open
<1>2. OpenOn(open, kind)
  <2>1. OpenOn(fds, kind)
    BY <1>0 DEF DiskInv
  <2>. QED  BY <1>1, <2>1 DEF OpenOn
<1>3. \A f \in Files : f \in Live(dir, open) => f \in Live(dir, fds)
  BY <1>1 DEF Live
<1>. QED  BY <1>0, <1>1, <1>2, <1>3, RefersDisk DEF open

(* A descriptor is closed.                                                 *)
LEMMA ClosesDisk ==
  ASSUME FileInv, NEW h \in Handles, Refers(dir, AfterClose(h))
  PROVE  DiskInv'
<1>. DEFINE open == [fds EXCEPT ![h] = Closed]
<1>0. /\ DiskInv /\ dir \in [Names -> Files \cup {NoFile}]
      /\ fds \in [Handles -> Opened \cup {Closed}]
  BY DEF FileInv, DescriptorInv
<1>1. /\ open \in [Handles -> Opened \cup {Closed}]
      /\ open[h] = Closed /\ \A i \in Handles \ {h} : open[i] = fds[i]
  BY <1>0
<1>2. Refers(dir, open)
  BY DEF AfterClose
<1>. HIDE DEF open
<1>3. OpenOn(open, kind)
  <2>1. OpenOn(fds, kind)
    BY <1>0 DEF DiskInv
  <2>2. open[h].use \notin Flags /\ open[h].use \notin Positions
    BY <1>1 DEF Closed, Flags, Positions
  <2>. QED  BY <1>1, <2>1, <2>2 DEF OpenOn
<1>4. \A f \in Files : f \in Live(dir, open) => f \in Live(dir, fds)
  BY <1>1, BbfsAssumption DEF Live, Closed
<1>. QED  BY <1>0, <1>1, <1>2, <1>3, <1>4, RefersDisk

(* A handler that asks, or changes what is not in the model.               *)
LEMMA LeavesDisk ==
  ASSUME FileInv, NEW ret \in Int, Leaves(ret)
  PROVE  DiskInv' /\ reply'.ret \in Int
<1>1. UNCHANGED <<disk, fds>> /\ DiskInv
  BY DEF Leaves, Handler, FileInv
<1>2. reply'.ret \in Int
  BY DEF Leaves, Handler, Answer, Reply
<1>. QED  BY <1>1, <1>2, SameDisk

(* The size of a file changes.                                             *)
LEMMA CutsDisk ==
  ASSUME FileInv, NEW f \in Files, kind[f] = "file", NEW n \in 0 .. MAXSIZE,
         Cuts(f, n)
  PROVE  DiskInv' /\ reply'.ret \in Int
<1>1. n \in Nat /\ DiskInv /\ Kept(raw[f], wrote[f])
  BY BbfsAssumption DEF FileInv, DiskInv
<1>2. Kept(Resized(raw[f], n, 0), Resized(wrote[f], n, Gap))
  BY <1>1, ResizedKept
<1>3. DiskInv'
  BY <1>1, <1>2, StoresDisk DEF Cuts
<1>. QED  BY <1>3 DEF Cuts, Done, Answer, Reply

(* The handlers that are called with a name.                               *)
LEMMA NameDisk ==
  ASSUME FileInv, NEW n \in Names, OnName(n)
  PROVE  DiskInv' /\ (reply'.ret \in Int \/ reply' = reply)
<1>0. /\ DiskInv /\ DescriptorInv
      /\ dir \in [Names -> Files \cup {NoFile}]
      /\ fds \in [Handles -> Opened \cup {Closed}]
  BY DEF FileInv, DescriptorInv
<1>1. CASE Asks(n) \/ SetsAttribute(n)
  <2>1. \E ret \in Int : Leaves(ret)
    BY <1>1 DEF Asks, bb_getattr, bb_readlink, bb_statfs, bb_access,
                bb_getxattr, bb_listxattr, AttrSizes, SetsAttribute, bb_chmod,
                bb_chown, bb_utime, bb_setxattr, bb_removexattr
  <2>. QED  BY <2>1, LeavesDisk
<1>2. CASE bb_mknod_open(n)
  <2>. PICK f \in Files, h \in Handles :
         /\ fds[h] = Closed
         /\ NewNode(n, f, "file",
                    [fds EXCEPT ![h] = [ino |-> f, use |-> "w"]])
    BY <1>2 DEF bb_mknod_open
  <2>1. [ino |-> f, use |-> "w"] \in Opened
    BY DEF Opened, Flags
  <2>2. [fds EXCEPT ![h] = [ino |-> f, use |-> "w"]]
          \in [Handles -> Opened \cup {Closed}]
    BY <1>0, <2>1
  <2>3. reply' = reply
    BY <1>2 DEF bb_mknod_open
  <2>. QED  BY <2>2, <2>3, NewNodeDisk
<1>3. CASE bb_mknod_special(n) \/ bb_symlink(n) \/ bb_mkdir(n)
  <2>1. \E f \in Files, k \in {"file", "dir", "other"} : NewNode(n, f, k, fds)
    BY <1>3 DEF bb_mknod_special, bb_symlink, bb_mkdir, Makes, Handler
  <2>2. reply'.ret \in Int
    BY <1>3 DEF bb_mknod_special, bb_symlink, bb_mkdir, Makes, Handler,
                Done, Answer, Reply
  <2>. QED  BY <1>0, <2>1, <2>2, NewNodeDisk
<1>4. CASE bb_unlink(n) \/ bb_rmdir(n)
  <2>1. /\ Refers([dir EXCEPT ![n] = NoFile], fds)
        /\ reply'.ret \in Int
    BY <1>4 DEF bb_unlink, bb_rmdir, Handler, Removes, Done, Answer, Reply
  <2>2. [dir EXCEPT ![n] = NoFile] \in [Names -> Files \cup {NoFile}]
    BY <1>0
  <2>3. \A f \in Files :
          f \in Live([dir EXCEPT ![n] = NoFile], fds) => f \in Live(dir, fds)
    BY <1>0, BbfsAssumption DEF Live
  <2>. QED  BY <1>0, <2>1, <2>2, <2>3, RefersDisk DEF DiskInv
<1>5. ASSUME NEW m \in Names, bb_rename(n, m) \/ bb_link(n, m)
      PROVE  DiskInv' /\ reply'.ret \in Int
  <2>1. PICK d \in {Renamed(n, m), [dir EXCEPT ![m] = dir[n]]} : Refers(d, fds)
    BY <1>5 DEF bb_rename, bb_link, Handler
  <2>2. reply'.ret \in Int
    BY <1>5 DEF bb_rename, bb_link, Handler, Done, Answer, Reply
  <2>3. d \in [Names -> Files \cup {NoFile}]
    BY <1>0 DEF Renamed
  <2>4. \A i \in Names : d[i] # NoFile => \E j \in Names : d[i] = dir[j]
    BY <1>0 DEF Renamed
  <2>5. \A f \in Files : f \in Live(d, fds) => f \in Live(dir, fds)
    BY <2>4, BbfsAssumption DEF Live
  <2>. QED  BY <1>0, <2>1, <2>2, <2>3, <2>5, RefersDisk DEF DiskInv
<1>6. ASSUME NEW size \in 0 .. MAXSIZE, bb_truncate(n, size)
      PROVE  DiskInv' /\ reply'.ret \in Int
  <2>1. Is(n, "file") /\ Cuts(dir[n], size)
    BY <1>6 DEF bb_truncate, Handler
  <2>2. dir[n] \in Files /\ kind[dir[n]] = "file"
    BY <2>1, NamesLive DEF Is
  <2>. QED  BY <2>1, <2>2, CutsDisk
<1>7. ASSUME NEW h \in Handles, bb_create(n, h)
      PROVE  DiskInv' /\ reply'.ret \in Int
  <2>0. fds[h] = Closed /\ reply'.ret \in Int
    BY <1>7 DEF bb_create, Handler, Gives, Answer, Reply
  <2>1. ASSUME NEW f \in Files,
               NewNode(n, f, "file",
                       [fds EXCEPT ![h] = [ino |-> f, use |-> "w"]])
        PROVE  DiskInv'
    <3>1. [ino |-> f, use |-> "w"] \in Opened
      BY DEF Opened, Flags
    <3>2. [fds EXCEPT ![h] = [ino |-> f, use |-> "w"]]
            \in [Handles -> Opened \cup {Closed}]
      BY <1>0, <3>1
    <3>. QED  BY <2>0, <2>1, <3>2, NewNodeDisk
  <2>2. ASSUME Is(n, "file"),
               raw' = [raw EXCEPT ![dir[n]] = <<>>],
               wrote' = [wrote EXCEPT ![dir[n]] = <<>>],
               fds' = [fds EXCEPT ![h] = [ino |-> dir[n], use |-> "w"]],
               UNCHANGED <<dir, kind>>
        PROVE  DiskInv'
    <3>. DEFINE f == dir[n]
    <3>1. f \in Files /\ f \in Live(dir, fds) /\ kind[f] = "file"
      BY <2>2, NamesLive DEF Is
    <3>2. fds'[h].ino = f /\ fds'[h].use = "w" /\ fds[h].ino = NoFile
      BY <1>0, <2>0, <2>2 DEF Closed
    <3>3. \A i \in Handles \ {h} : fds'[i] = fds[i]
      BY <1>0, <2>2
    <3>4. \A g \in Files : g \in Live(dir', fds') <=> g \in Live(dir, fds)
      BY <2>2, <3>1, <3>2, <3>3, BbfsAssumption DEF Live
    <3>5. raw' \in [Files -> Seq(Char)] /\ wrote' \in [Files -> Seq(Ghosts)]
      BY <1>0, <2>2, EmptySeq DEF DiskInv
    <3>. HIDE DEF f
    <3>6. ASSUME NEW g \in Files
          PROVE  /\ kind'[g] = NoFile <=> g \notin Live(dir', fds')
                 /\ kind'[g] # "file" => raw'[g] = <<>>
                 /\ Kept(raw'[g], wrote'[g])
      <4>0. /\ kind'[g] = kind[g]
            /\ kind[g] = NoFile <=> g \notin Live(dir, fds)
        BY <1>0, <2>2 DEF DiskInv
      <4>1. CASE g = f
        <5>1. raw'[g] = <<>> /\ wrote'[g] = <<>>
          BY <1>0, <2>2, <4>1 DEF DiskInv, f
        <5>. QED  BY <3>4, <4>0, <5>1, NothingKept
      <4>2. CASE g # f
        <5>1. raw'[g] = raw[g] /\ wrote'[g] = wrote[g]
          BY <1>0, <2>2, <4>2 DEF DiskInv, f
        <5>2. Kept(raw[g], wrote[g]) /\ (kind[g] # "file" => raw[g] = <<>>)
          BY <1>0 DEF DiskInv
        <5>. QED  BY <3>4, <4>0, <5>1, <5>2
      <4>. QED  BY <4>1, <4>2
    <3>7. OpenOn(fds', kind')
      <4>1. OpenOn(fds, kind) /\ kind' = kind
        BY <1>0, <2>2 DEF DiskInv
      <4>. QED  BY <3>1, <3>2, <3>3, <4>1 DEF OpenOn, Flags, Positions
    <3>8. kind' \in [Files -> Kinds]
      BY <1>0, <2>2 DEF DiskInv
    <3>. QED  BY <3>5, <3>6, <3>7, <3>8 DEF DiskInv, Live, OpenOn, Kept, Keeps
  <2>. QED  BY <1>7, <2>0, <2>1, <2>2 DEF bb_create, Handler
<1>8. ASSUME NEW h \in Handles, NEW flags \in OpenWith, bb_open(n, h, flags)
      PROVE  DiskInv' /\ reply'.ret \in Int
  <2>. DEFINE o == [ino |-> dir[n], use |-> flags]
  <2>1. /\ Is(n, "file") /\ fds[h] = Closed /\ reply'.ret \in Int
        /\ Refers(dir, [fds EXCEPT ![h] = o])
    BY <1>8 DEF bb_open, Handler, Gives, Answer, Reply
  <2>2. dir[n] \in Files /\ dir[n] \in Live(dir, fds) /\ kind[dir[n]] = "file"
    BY <2>1, NamesLive DEF Is
  <2>3. flags \in Flags /\ flags \notin Positions
    BY BbfsAssumption DEF Flags, Positions
  <2>4. o \in Opened /\ o.ino = dir[n] /\ o.use = flags
    BY <2>2, <2>3 DEF Opened
  <2>. HIDE DEF o
  <2>. QED  BY <2>1, <2>2, <2>3, <2>4, OpensDisk
<1>. QED
  BY <1>1, <1>2, <1>3, <1>4, <1>5, <1>6, <1>7, <1>8 DEF OnName

(* The bytes a program writes.                                             *)
LEMMA BytesAreChars ==
  ASSUME NEW data \in BytesUpTo(MAXSIZE)
  PROVE  data \in Seq(Char)
<1>1. PICK k \in 1 .. MAXSIZE : data \in [1 .. k -> Bytes]
  BY DEF BytesUpTo
<1>2. k \in Nat /\ data \in [1 .. k -> Char]
  BY <1>1, BbfsAssumption
<1>. QED  BY <1>2, SeqFrom

(* What pread finds.                                                       *)
LEMMA SliceIs ==
  ASSUME NEW S, NEW s \in Seq(S), NEW offset \in Nat, NEW n \in Nat
  PROVE  /\ Slice(s, offset, n) \in Seq(S)
         /\ Len(Slice(s, offset, n)) \in Nat
<1>. DEFINE e == IF offset + n < Len(s) THEN offset + n ELSE Len(s)
<1>1. Len(s) \in Nat /\ \A k \in 1 .. Len(s) : s[k] \in S
  BY LenProperties, ElementOfSeq
<1>2. e \in Nat /\ e <= Len(s)
  BY <1>1
<1>. HIDE DEF e
<1>3. \A k \in offset + 1 .. e : s[k] \in S
  BY <1>1, <1>2
<1>4. SubSeq(s, offset + 1, e) \in Seq(S)
  BY <1>2, <1>3, SubSeqProperties
<1>. QED  BY <1>4, LenProperties DEF Slice, e

(* The handlers that are called with a handle FUSE was given.              *)
LEMMA HandleDisk ==
  ASSUME FileInv, NEW h \in given, OnHandle(h)
  PROVE  DiskInv' /\ reply'.ret \in Int
<1>0. /\ DiskInv /\ DescriptorInv /\ h \in Handles
      /\ dir \in [Names -> Files \cup {NoFile}]
      /\ fds \in [Handles -> Opened \cup {Closed}]
      /\ OpenOn(fds, kind)
  BY DEF FileInv, DescriptorInv, DiskInv
<1>1. CASE Unseen(h)
  <2>1. Leaves(0)
    BY <1>1 DEF Unseen, bb_fgetattr, bb_fsync, bb_flush, bb_fsyncdir
  <2>. QED  BY <2>1, LeavesDisk
<1>2. CASE bb_readdir(h)
  <2>1. fds[h].use \in Positions /\ UNCHANGED disk
    BY <1>2 DEF bb_readdir
  <2>2. reply'.ret \in Int
    BY <1>2, BbfsAssumption DEF bb_readdir, bb_error, Answer, Reply, ENOMEM
  <2>3. CASE fds' = fds
    BY <1>0, <2>1, <2>2, <2>3, SameDisk
  <2>4. ASSUME NEW p \in Positions, fds' = [fds EXCEPT ![h].use = p]
        PROVE  DiskInv'
    <3>1. fds[h] \in Opened
      BY <1>0, <2>1 DEF Positions, Closed
    <3>2. fds'[h].ino = fds[h].ino /\ fds'[h].use = p
      BY <1>0, <2>4, <3>1 DEF Opened
    <3>3. \A i \in Handles \ {h} : fds'[i] = fds[i]
      BY <1>0, <2>4
    <3>4. Live(dir', fds') = Live(dir, fds)
      BY <2>1, <3>2, <3>3 DEF Live, disk
    <3>5. OpenOn(fds', kind')
      BY <1>0, <2>1, <3>2, <3>3 DEF OpenOn, disk, Flags, Positions
    <3>. QED  BY <1>0, <2>1, <3>4, <3>5 DEF DiskInv, disk, Live, OpenOn
  <2>. QED  BY <1>2, <2>2, <2>3, <2>4 DEF bb_readdir, Positions
<1>3. CASE bb_release(h) \/ bb_releasedir(h)
  <2>1. Refers(dir, AfterClose(h)) /\ reply'.ret \in Int
    BY <1>3 DEF bb_release, bb_releasedir, Answer, Reply
  <2>. QED  BY <1>0, <2>1, ClosesDisk
<1>4. ASSUME NEW size \in 0 .. MAXSIZE, bb_ftruncate(h, size)
      PROVE  DiskInv' /\ reply'.ret \in Int
  <2>1. fds[h].use \in Flags /\ Cuts(fds[h].ino, size)
    BY <1>4 DEF bb_ftruncate, Handler, Flags
  <2>2. fds[h].ino \in Files /\ kind[fds[h].ino] = "file"
    BY <1>0, <2>1 DEF OpenOn
  <2>. QED  BY <2>1, <2>2, CutsDisk
<1>5. ASSUME NEW size \in 1 .. MAXSIZE, NEW offset \in 0 .. MAXSIZE - 1,
             bb_read(h, size, offset)
      PROVE  DiskInv' /\ reply'.ret \in Int
  <2>1. /\ fds[h].use \in Flags /\ UNCHANGED <<disk, fds>>
        /\ reply'.ret = Len(Slice(raw[fds[h].ino], offset, size))
    BY <1>5 DEF bb_read, Handler, Flags, Pread, Reply
  <2>2. raw[fds[h].ino] \in Seq(Char)
    BY <1>0, <2>1 DEF OpenOn, DiskInv
  <2>3. offset \in Nat /\ size \in Nat
    BY BbfsAssumption
  <2>. QED  BY <1>0, <2>1, <2>2, <2>3, SliceIs, SameDisk
<1>6. ASSUME NEW data \in BytesUpTo(MAXSIZE), NEW offset \in 0 .. MAXSIZE - 1,
             NEW count \in 1 .. Len(data), bb_write(h, data, offset, count)
      PROVE  DiskInv' /\ reply'.ret \in Int
  <2>. DEFINE f == fds[h].ino
              d == SubSeq(In(data), 1, count)
              g == SubSeq(Signed(data), 1, count)
  <2>1. /\ fds[h].use \in Flags /\ reply'.ret = count
        /\ Stores(f, Overlaid(raw[f], offset, d, 0),
                  Overlaid(wrote[f], offset, g, Gap))
    BY <1>6 DEF bb_write, Handler, Copy, Reply, Flags
  <2>2. f \in Files /\ kind[f] = "file" /\ Kept(raw[f], wrote[f])
    BY <1>0, <2>1 DEF OpenOn, DiskInv
  <2>3. Kept(d, g) /\ Len(d) = count
    BY BytesAreChars, DataKept
  <2>4. offset \in Nat /\ count \in Int /\ count > 0
    BY BytesAreChars, LenProperties, BbfsAssumption
  <2>. HIDE DEF f, d, g
  <2>5. Kept(Overlaid(raw[f], offset, d, 0), Overlaid(wrote[f], offset, g, Gap))
    BY <2>2, <2>3, <2>4, OverlaidKept
  <2>. QED  BY <1>0, <2>1, <2>2, <2>4, <2>5, StoresDisk
<1>. QED  BY <1>1, <1>2, <1>3, <1>4, <1>5, <1>6 DEF OnHandle

(* Only Mount begins a mount, and only Exit ends one.                      *)
LEMMA UidStep ==
  ASSUME FileInv, Next
  PROVE  \/ uid # Nobody /\ uid' = uid
         \/ uid' \in Uids /\ fds' = fds
         \/ uid' = Nobody /\ fds' = [h \in Handles |-> Closed]
<1>1. given # {} \/ making # NoFile => uid # Nobody
  BY BbfsAssumption DEF FileInv, SessionInv, DescriptorInv,
                        DescriptorsAccountedFor
<1>2. ASSUME NEW u \in Uids, Mount(u) PROVE uid' \in Uids /\ fds' = fds
  BY <1>2 DEF Mount
<1>3. CASE Exit
  BY <1>3 DEF Exit, Refers, Becomes
<1>4. CASE Fails
  BY <1>4 DEF Fails
<1>5. CASE bb_mknod_close
  BY <1>1, <1>5 DEF bb_mknod_close
<1>6. ASSUME NEW n \in Names, OnName(n) PROVE uid # Nobody /\ uid' = uid
  BY <1>6 DEF OnName, Asks, bb_getattr, bb_readlink, bb_statfs, bb_access,
              bb_getxattr, bb_listxattr, SetsAttribute, bb_chmod, bb_chown,
              bb_utime, bb_setxattr, bb_removexattr, Leaves, Handler,
              bb_mknod_open, bb_mknod_special, bb_symlink, bb_mkdir, Makes,
              bb_unlink, bb_rmdir, bb_rename, bb_link, bb_truncate, bb_create,
              bb_open
<1>7. ASSUME NEW h \in given, OnHandle(h) PROVE uid # Nobody /\ uid' = uid
  <2>1. uid # Nobody
    BY <1>1
  <2>2. uid' = uid
    BY <1>7 DEF OnHandle, Unseen, bb_fgetattr, bb_fsync, bb_flush, bb_fsyncdir,
                Leaves, Handler, bb_readdir, bb_release, bb_releasedir,
                bb_ftruncate, bb_read, bb_write
  <2>. QED  BY <2>1, <2>2
<1>8. ASSUME NEW f \in Files \cup {Root}, NEW h \in Handles, bb_opendir(f, h)
      PROVE  uid # Nobody /\ uid' = uid
  BY <1>8 DEF bb_opendir, Handler
<1>. QED
  BY <1>2, <1>3, <1>4, <1>5, <1>6, <1>7, <1>8 DEF Next

(* Every step keeps the disk in order, and answers with an integer.        *)
LEMMA DiskStep ==
  ASSUME FileInv, Next
  PROVE  DiskInv' /\ (reply'.ret \in Int \/ reply' = reply)
<1>0. /\ DiskInv /\ DescriptorInv
      /\ dir \in [Names -> Files \cup {NoFile}]
      /\ fds \in [Handles -> Opened \cup {Closed}]
  BY DEF FileInv, DescriptorInv
<1>1. ASSUME NEW u \in Uids, Mount(u) PROVE DiskInv' /\ reply'.ret \in Int
  <2>1. UNCHANGED <<disk, fds>> /\ reply'.ret \in Int
    BY <1>1 DEF Mount, Answer, Reply
  <2>. QED  BY <1>0, <2>1, SameDisk
<1>2. CASE Exit
  <2>. DEFINE open == [h \in Handles |-> Closed]
  <2>1. Refers(dir, open) /\ reply'.ret \in Int
    BY <1>2 DEF Exit, Answer, Reply
  <2>2. open \in [Handles -> Opened \cup {Closed}]
    OBVIOUS
  <2>3. OpenOn(open, kind)
    BY DEF OpenOn, Closed, Flags, Positions
  <2>4. \A f \in Files : f \in Live(dir, open) => f \in Live(dir, fds)
    BY BbfsAssumption DEF Live, Closed
  <2>. HIDE DEF open
  <2>. QED  BY <1>0, <2>1, <2>2, <2>3, <2>4, RefersDisk
<1>3. CASE Fails
  <2>1. UNCHANGED <<disk, fds>>
    BY <1>3 DEF Fails
  <2>2. \E ret \in Int : Answer(ret)
    BY <1>3, BbfsAssumption DEF Fails, bb_error
  <2>3. reply'.ret \in Int
    BY <2>2 DEF Answer, Reply
  <2>. QED  BY <1>0, <2>1, <2>3, SameDisk
<1>4. CASE bb_mknod_close
  <2>1. /\ making \in Handles /\ Refers(dir, AfterClose(making))
        /\ reply'.ret \in Int
    BY <1>0, <1>4, BbfsAssumption
       DEF bb_mknod_close, bb_error, Answer, Reply, DescriptorInv
  <2>. QED  BY <2>1, ClosesDisk
<1>5. ASSUME NEW f \in Files \cup {Root}, NEW h \in Handles, bb_opendir(f, h)
      PROVE  DiskInv' /\ reply'.ret \in Int
  <2>. DEFINE o == [ino |-> f, use |-> "entries"]
  <2>1. /\ f = Root \/ \E n \in Names : dir[n] = f /\ Is(n, "dir")
        /\ fds[h] = Closed /\ Refers(dir, [fds EXCEPT ![h] = o])
        /\ reply'.ret \in Int
    BY <1>5 DEF bb_opendir, Handler, Gives, Answer, Reply
  <2>2. o \in Opened /\ o.ino = f /\ o.use = "entries"
    BY DEF Opened, Positions
  <2>3. f \in Files => f \in Live(dir, fds) /\ kind[f] = "dir"
    BY <2>1, NamesLive, BbfsAssumption DEF Is
  <2>4. o.use \notin Flags
    BY <2>2 DEF Flags
  <2>. HIDE DEF o
  <2>. QED  BY <2>1, <2>2, <2>3, <2>4, OpensDisk
<1>. QED
  BY <1>1, <1>2, <1>3, <1>4, <1>5, NameDisk, HandleDisk DEF Next

LEMMA FileStep == FileInv /\ [Next]_vars => FileInv'
<1>. SUFFICES ASSUME FileInv, [Next]_vars PROVE FileInv'
  OBVIOUS
<1>1. DescriptorInv'
  BY DescriptorStep DEF FileInv
<1>2. CASE Next
  <2>1. DiskInv' /\ (reply'.ret \in Int \/ reply' = reply)
    BY <1>2, DiskStep
  <2>2. SessionInv'
    <3>1. reply'.ret \in Int
      BY <2>1 DEF FileInv, SessionInv
    <3>2. uid' \in Uids \cup {Nobody}
      BY <1>2, UidStep DEF FileInv, SessionInv
    <3>3. uid' = Nobody => \A h \in Handles : fds'[h] = Closed
      BY <1>2, UidStep, BbfsAssumption
    <3>. QED  BY <3>1, <3>2, <3>3 DEF SessionInv
  <2>. QED  BY <1>1, <2>1, <2>2 DEF FileInv
<1>3. CASE UNCHANGED vars
  <2>1. DiskInv'
    BY <1>3, SameDisk DEF FileInv, vars
  <2>2. SessionInv'
    BY <1>3 DEF FileInv, SessionInv, vars
  <2>. QED  BY <1>1, <2>1, <2>2 DEF FileInv
<1>. QED  BY <1>2, <1>3

(* The invariant behind the type invariant and ReadsBack.                  *)
THEOREM FileInvariant == Spec => []FileInv
<1>1. Init => FileInv
  BY DescriptorInit, DiskInit DEF FileInv
<1>. QED  BY <1>1, FileStep, PTL DEF Spec

(* The variables of the file system keep their types, and an inode is free *)
(* exactly when no name and no descriptor refers to it, whatever is        *)
(* renamed, linked or unlinked while it is open.                           *)
THEOREM TypeCorrect == Spec => []TypeOK
<1>1. FileInv => TypeOK
  <2>. SUFFICES ASSUME FileInv PROVE TypeOK
    OBVIOUS
  <2>1. DescriptorInv /\ DiskInv /\ SessionInv
    BY DEF FileInv
  <2>2. fds \in [Handles -> [ino : Files \cup {NoFile, Root},
                             use : Flags \cup Positions \cup {"closed"}]]
    BY <2>1 DEF DescriptorInv, Opened, Closed
  <2>3. \A f \in Files : \A k \in 1 .. Len(raw[f]) : raw[f][k] \in Char
    BY <2>1, ElementOfSeq DEF DiskInv
  <2>4. \A f \in Files : kind[f] = NoFile <=> f \notin Live(dir, fds)
    BY <2>1 DEF DiskInv
  <2>. QED
    BY <2>1, <2>2, <2>3, <2>4
       DEF DescriptorInv, DiskInv, SessionInv, Kinds, TypeOK
<1>. QED  BY <1>1, FileInvariant, PTL

(* A byte that a mount of the right user wrote reads as it was written in  *)
(* every mount of the right user, and differently in every other; a byte   *)
(* another mount wrote the other way round.  For every sequence of mounts, *)
(* calls, failures and partial writes, and for every byte.                 *)
THEOREM ReadsBackCorrect == Spec => []ReadsBack
<1>1. FileInv => ReadsBack
  <2>. SUFFICES ASSUME FileInv, NEW f \in Files, NEW k \in DOMAIN wrote[f],
                       wrote[f][k].by \in BOOLEAN
                PROVE  Out(raw[f])[k] = wrote[f][k].byte
                         <=> wrote[f][k].by = Allowed
    BY DEF ReadsBack
  <2>1. Kept(raw[f], wrote[f])
    BY DEF FileInv, DiskInv
  <2>. DEFINE r == raw[f]
              w == wrote[f]
  <2>2. r \in Seq(Char) /\ w \in Seq(Ghosts) /\ Len(w) = Len(r)
    BY <2>1 DEF Kept
  <2>3. k \in 1 .. Len(r) /\ k \in DOMAIN r /\ Keeps(r[k], w[k])
    BY <2>1, <2>2, LenProperties DEF Kept
  <2>4. r[k] \in Char /\ w[k] \in Ghosts
    BY <2>2, <2>3, ElementOfSeq
  <2>5. w[k].byte \in Char
    BY <2>4 DEF Ghosts
  <2>. HIDE DEF r, w
  <2>6. Out(r)[k] = IF Allowed THEN Decipher(r[k]) ELSE r[k]
    BY <2>3 DEF Out
  <2>7. CASE w[k].by = TRUE
    <3>1. r[k] = Encipher(w[k].byte)
      BY <2>3, <2>7, Zenon DEF Keeps
    <3>2. Decipher(r[k]) = w[k].byte /\ r[k] # w[k].byte
      BY <2>5, <3>1, CipherInverse
    <3>3. Out(r)[k] = w[k].byte <=> Allowed
      BY <2>6, <3>2
    <3>. QED  BY <2>7, <3>3, Zenon DEF r, w, Allowed
  <2>8. CASE w[k].by = FALSE
    <3>1. r[k] = w[k].byte
      BY <2>3, <2>8, Zenon DEF Keeps
    <3>2. Decipher(r[k]) # r[k]
      BY <2>4, CipherInverse
    <3>3. Out(r)[k] = w[k].byte <=> ~ Allowed
      BY <2>6, <3>1, <3>2
    <3>. QED  BY <2>8, <3>3, Zenon DEF r, w, Allowed
  <2>. QED  BY <2>7, <2>8, Zenon DEF w
<1>. QED  BY <1>1, FileInvariant, PTL

-----------------------------------------------------------------------------
(* Bytes as the mount of user u shows them.                                *)
Seen(u, s) == IF u = Me THEN [k \in DOMAIN s |-> Decipher(s[k])] ELSE s

(* What the mount of user u shows of bytes.                                *)
IsSeen(u, s) ==
  /\ Seen(u, s) \in Seq(Char) /\ Len(Seen(u, s)) = Len(s)
  /\ \A k \in 1 .. Len(s) :
       Seen(u, s)[k] = IF u = Me THEN Decipher(s[k]) ELSE s[k]

LEMMA DecipherChar == \A c \in Char : Decipher(c) \in Char
  BY DecipherIs DEF Char

LEMMA SeenIs ==
  ASSUME NEW u, NEW s \in Seq(Char)
  PROVE  IsSeen(u, s)
<1>1. /\ Len(s) \in Nat /\ DOMAIN s = 1 .. Len(s)
      /\ \A k \in 1 .. Len(s) : s[k] \in Char
  BY LenProperties, ElementOfSeq
<1>2. CASE u = Me
  <2>1. Seen(u, s) = [k \in 1 .. Len(s) |-> Decipher(s[k])]
    BY <1>1, <1>2 DEF Seen
  <2>2. Seen(u, s) \in [1 .. Len(s) -> Char]
    BY <1>1, <2>1, DecipherChar
  <2>. QED  BY <1>1, <1>2, <2>1, <2>2, SeqFrom DEF IsSeen
<1>3. CASE u # Me
  BY <1>3 DEF Seen, IsSeen
<1>. QED  BY <1>2, <1>3

(* A 0 that nobody wrote.                                                  *)
Zero(u) == Seen(u, <<0>>)[1]
LEMMA ZeroIs ==
  ASSUME NEW u
  PROVE  Zero(u) \in Char /\ Zero(u) = IF u = Me THEN Decipher(0) ELSE 0
<1>1. <<0>> \in Seq(Char) /\ Len(<<0>>) = 1 /\ <<0>>[1] = 0
  BY GapKept
<1>2. IsSeen(u, <<0>>)
  BY <1>1, SeenIs
<1>. QED  BY <1>1, <1>2, GapKept, DecipherChar DEF IsSeen, Zero

(* Seeing goes through what truncate, pwrite and pread make of bytes.      *)
LEMMA SeenResized ==
  ASSUME NEW u, NEW s \in Seq(Char), NEW n \in Nat
  PROVE  Seen(u, Resized(s, n, 0)) = Resized(Seen(u, s), n, Zero(u))
<1>. DEFINE a == Resized(s, n, 0)
            b == Resized(Seen(u, s), n, Zero(u))
<1>1. IsSeen(u, s) /\ Len(s) \in Nat
  BY SeenIs, LenProperties
<1>2. Seen(u, s) \in Seq(Char) /\ Len(Seen(u, s)) = Len(s)
  BY <1>1 DEF IsSeen
<1>3. IsResized(Char, s, n, 0) /\ IsResized(Char, Seen(u, s), n, Zero(u))
  BY <1>2, GapKept, ZeroIs, ResizedIs
<1>4. a \in Seq(Char) /\ Len(a) = n /\ b \in Seq(Char) /\ Len(b) = n
  BY <1>3 DEF IsResized
<1>5. IsSeen(u, a)
  BY <1>4, SeenIs
<1>6. ASSUME NEW k \in 1 .. n PROVE Seen(u, a)[k] = b[k]
  <2>1. a[k] = (IF k <= Len(s) THEN s[k] ELSE 0)
    BY <1>3 DEF IsResized
  <2>2. b[k] = (IF k <= Len(s) THEN Seen(u, s)[k] ELSE Zero(u))
    BY <1>2, <1>3 DEF IsResized
  <2>3. Seen(u, a)[k] = IF u = Me THEN Decipher(a[k]) ELSE a[k]
    BY <1>4, <1>5 DEF IsSeen
  <2>4. k <= Len(s) =>
          Seen(u, s)[k] = IF u = Me THEN Decipher(s[k]) ELSE s[k]
    BY <1>1 DEF IsSeen
  <2>. HIDE DEF a, b
  <2>. QED  BY <2>1, <2>2, <2>3, <2>4, ZeroIs
<1>7. Seen(u, a) \in Seq(Char) /\ Len(Seen(u, a)) = n
  BY <1>4, <1>5 DEF IsSeen
<1>. HIDE DEF a, b
<1>8. Seen(u, a) = b
  BY <1>4, <1>6, <1>7, SeqEqual
<1>. QED  BY <1>8 DEF a, b

LEMMA SeenOverlaid ==
  ASSUME NEW u, NEW s \in Seq(Char), NEW offset \in Nat,
         NEW d \in Seq(Char), Len(d) > 0
  PROVE  Seen(u, Overlaid(s, offset, d, 0))
           = Overlaid(Seen(u, s), offset, Seen(u, d), Zero(u))
<1>. DEFINE a == Overlaid(s, offset, d, 0)
            b == Overlaid(Seen(u, s), offset, Seen(u, d), Zero(u))
            end == offset + Len(d)
            n == IF end > Len(s) THEN end ELSE Len(s)
<1>1. IsSeen(u, s) /\ IsSeen(u, d) /\ Len(s) \in Nat /\ Len(d) \in Nat
  BY SeenIs, LenProperties
<1>2. /\ Seen(u, s) \in Seq(Char) /\ Len(Seen(u, s)) = Len(s)
      /\ Seen(u, d) \in Seq(Char) /\ Len(Seen(u, d)) = Len(d)
  BY <1>1 DEF IsSeen
<1>3. d # <<>> /\ Seen(u, d) # <<>>
  BY <1>1, <1>2
<1>4. /\ IsOverlaid(Char, s, offset, d, 0)
      /\ IsOverlaid(Char, Seen(u, s), offset, Seen(u, d), Zero(u))
  BY <1>2, <1>3, GapKept, ZeroIs, OverlaidIs
<1>5. /\ a \in Seq(Char) /\ Len(a) = n
      /\ \A k \in 1 .. n :
           a[k] = IF k > offset /\ k <= end THEN d[k - offset]
                  ELSE IF k <= Len(s) THEN s[k] ELSE 0
  BY <1>4 DEF IsOverlaid
<1>6. /\ b \in Seq(Char) /\ Len(b) = n
      /\ \A k \in 1 .. n :
           b[k] = IF k > offset /\ k <= end THEN Seen(u, d)[k - offset]
                  ELSE IF k <= Len(s) THEN Seen(u, s)[k] ELSE Zero(u)
  BY <1>2, <1>4 DEF IsOverlaid
<1>7. IsSeen(u, a)
  BY <1>5, SeenIs
<1>8. n \in Nat /\ end = offset + Len(d)
  BY <1>1
<1>. HIDE DEF a, b, n, end
<1>9. /\ Seen(u, a) \in Seq(Char) /\ Len(Seen(u, a)) = n
      /\ \A k \in 1 .. n :
           Seen(u, a)[k] = IF u = Me THEN Decipher(a[k]) ELSE a[k]
  BY <1>5, <1>7 DEF IsSeen
<1>10. ASSUME NEW k \in 1 .. n PROVE Seen(u, a)[k] = b[k]
  <2>0. Seen(u, a)[k] = IF u = Me THEN Decipher(a[k]) ELSE a[k]
    BY <1>9
  <2>1. CASE k > offset /\ k <= end
    <3>1. k - offset \in 1 .. Len(d)
      BY <1>1, <1>8, <2>1
    <3>2. Seen(u, d)[k - offset]
            = IF u = Me THEN Decipher(d[k - offset]) ELSE d[k - offset]
      BY <1>1, <3>1 DEF IsSeen
    <3>3. a[k] = d[k - offset] /\ b[k] = Seen(u, d)[k - offset]
      BY <1>5, <1>6, <2>1
    <3>. QED  BY <2>0, <3>2, <3>3
  <2>2. CASE ~ (k > offset /\ k <= end) /\ k <= Len(s)
    <3>1. Seen(u, s)[k] = IF u = Me THEN Decipher(s[k]) ELSE s[k]
      BY <1>1, <1>8, <2>2 DEF IsSeen
    <3>2. a[k] = s[k] /\ b[k] = Seen(u, s)[k]
      BY <1>5, <1>6, <2>2
    <3>. QED  BY <2>0, <3>1, <3>2
  <2>3. CASE ~ (k > offset /\ k <= end) /\ ~ (k <= Len(s))
    <3>1. a[k] = 0 /\ b[k] = Zero(u)
      BY <1>5, <1>6, <2>3
    <3>. QED  BY <2>0, <3>1, ZeroIs
  <2>. QED  BY <2>1, <2>2, <2>3
<1>11. Seen(u, a) = b
  BY <1>6, <1>9, <1>10, SeqEqual
<1>. QED  BY <1>11 DEF a, b

LEMMA SeenSlice ==
  ASSUME NEW u, NEW s \in Seq(Char), NEW offset \in Nat, NEW n \in Nat
  PROVE  /\ Seen(u, Slice(s, offset, n)) = Slice(Seen(u, s), offset, n)
         /\ Len(Slice(Seen(u, s), offset, n)) = Len(Slice(s, offset, n))
<1>. DEFINE a == Slice(s, offset, n)
            b == Slice(Seen(u, s), offset, n)
            e == IF offset + n < Len(s) THEN offset + n ELSE Len(s)
            m == IF offset + 1 <= e THEN e - (offset + 1) + 1 ELSE 0
<1>1. IsSeen(u, s) /\ Len(s) \in Nat
  BY SeenIs, LenProperties
<1>2. Seen(u, s) \in Seq(Char) /\ Len(Seen(u, s)) = Len(s)
  BY <1>1 DEF IsSeen
<1>3. a = SubSeq(s, offset + 1, e) /\ b = SubSeq(Seen(u, s), offset + 1, e)
  BY <1>2 DEF Slice
<1>4. e \in Nat /\ e <= Len(s)
  BY <1>1
<1>. HIDE DEF e, a, b
<1>5. \A k \in offset + 1 .. e : s[k] \in Char /\ Seen(u, s)[k] \in Char
  <2>1. \A k \in offset + 1 .. e : k \in 1 .. Len(s)
    BY <1>1, <1>4
  <2>. QED  BY <1>2, <2>1, ElementOfSeq
<1>6. /\ a \in Seq(Char) /\ Len(a) = m
      /\ \A k \in 1 .. e - (offset + 1) + 1 : a[k] = s[offset + 1 + k - 1]
  BY <1>3, <1>4, <1>5, SubSeqProperties
<1>7. /\ b \in Seq(Char) /\ Len(b) = m
      /\ \A k \in 1 .. e - (offset + 1) + 1 :
           b[k] = Seen(u, s)[offset + 1 + k - 1]
  BY <1>3, <1>4, <1>5, SubSeqProperties
<1>8. IsSeen(u, a)
  BY <1>6, SeenIs
<1>9. Seen(u, a) \in Seq(Char) /\ Len(Seen(u, a)) = m
  BY <1>6, <1>8 DEF IsSeen
<1>10. ASSUME NEW k \in 1 .. m PROVE Seen(u, a)[k] = b[k]
  <2>1. k \in 1 .. e - (offset + 1) + 1 /\ offset + 1 + k - 1 \in 1 .. Len(s)
    BY <1>1, <1>4
  <2>2. Seen(u, a)[k] = IF u = Me THEN Decipher(a[k]) ELSE a[k]
    BY <1>6, <1>8 DEF IsSeen
  <2>3. a[k] = s[offset + 1 + k - 1] /\ b[k] = Seen(u, s)[offset + 1 + k - 1]
    BY <1>6, <1>7, <2>1
  <2>. DEFINE j == offset + 1 + k - 1
  <2>. HIDE DEF j
  <2>4. Seen(u, s)[j] = IF u = Me THEN Decipher(s[j]) ELSE s[j]
    BY <1>1, <2>1 DEF IsSeen, j
  <2>. QED  BY <2>2, <2>3, <2>4 DEF j
<1>. HIDE DEF m
<1>11. Seen(u, a) = b
  BY <1>7, <1>9, <1>10, SeqEqual
<1>. QED  BY <1>6, <1>7, <1>11 DEF a, b

(* The first count bytes that bb_write stores read as the bytes written.   *)
LEMMA SeenIn ==
  ASSUME NEW data \in Seq(Char), NEW count \in 1 .. Len(data)
  PROVE  Seen(uid, SubSeq(In(data), 1, count)) = SubSeq(data, 1, count)
<1>. DEFINE a == SubSeq(In(data), 1, count)
            b == SubSeq(data, 1, count)
<1>1. Len(data) \in Nat /\ count \in Nat /\ count <= Len(data) /\ 1 <= count
  BY LenProperties
<1>2. \A k \in 1 .. count : data[k] \in Char /\ In(data)[k] \in Char
  BY <1>1, InIs, ElementOfSeq
<1>3. /\ a \in Seq(Char) /\ Len(a) = count
      /\ \A k \in 1 .. count : a[k] = In(data)[k]
  BY <1>1, <1>2, SubSeqProperties
<1>4. /\ b \in Seq(Char) /\ Len(b) = count
      /\ \A k \in 1 .. count : b[k] = data[k]
  BY <1>1, <1>2, SubSeqProperties
<1>. HIDE DEF a, b
<1>5. IsSeen(uid, a)
  BY <1>3, SeenIs
<1>6. ASSUME NEW k \in 1 .. count PROVE Seen(uid, a)[k] = b[k]
  <2>1. Seen(uid, a)[k] = IF uid = Me THEN Decipher(a[k]) ELSE a[k]
    BY <1>3, <1>5 DEF IsSeen
  <2>2. a[k] = IF uid = Me THEN Encipher(data[k]) ELSE data[k]
    BY <1>1, <1>3, InIs DEF Allowed
  <2>3. Decipher(Encipher(data[k])) = data[k]
    BY <1>2, CipherInverse
  <2>. QED  BY <1>4, <2>1, <2>2, <2>3
<1>7. Seen(uid, a) \in Seq(Char) /\ Len(Seen(uid, a)) = count
  BY <1>3, <1>5 DEF IsSeen
<1>8. Seen(uid, a) = b
  BY <1>4, <1>6, <1>7, SeqEqual
<1>. QED  BY <1>8 DEF a, b

-----------------------------------------------------------------------------
(* The state of the plain files.                                           *)
LEMMA ContentIs ==
  /\ Content = [f \in Files |-> IF kind[f] = "file" THEN Seen(uid, raw[f])
                                ELSE NoFile]
  /\ Content' = [f \in Files |-> IF kind'[f] = "file" THEN Seen(uid', raw'[f])
                                 ELSE NoFile]
  /\ Fill = Zero(uid) /\ Fill' = Zero(uid')
BY DEF Content, Fill, Zero, Out, Allowed, Seen

LEMMA HandleIs ==
  /\ HandleOn = [h \in Handles |-> IF fds[h].use \in Flags THEN fds[h].ino
                                   ELSE NoFile]
  /\ HandleOn' = [h \in Handles |-> IF fds'[h].use \in Flags THEN fds'[h].ino
                                    ELSE NoFile]
BY DEF HandleOn

(* There are bytes where there is a file.                                  *)
LEMMA FileHasBytes ==
  ASSUME FileInv, NEW f \in Files, kind[f] = "file"
  PROVE  /\ raw[f] \in Seq(Char) /\ Content[f] = Seen(uid, raw[f])
         /\ Content[f] # NoFile
<1>1. raw[f] \in Seq(Char) /\ Content[f] = Seen(uid, raw[f])
  BY ContentIs DEF FileInv, DiskInv
<1>2. IsSeen(uid, raw[f])
  BY <1>1, SeenIs
<1>. QED  BY <1>1, <1>2, BbfsAssumption DEF IsSeen

(* Nothing has been seen to change.                                        *)
LEMMA SimNothing ==
  ASSUME NEW ret, Answer(ret), Content' = Content, HandleOn' = HandleOn,
         uid' = uid
  PROVE  Plain!PlainNext
<1>1. Fill' = Fill
  BY ContentIs
<1>2. Plain!Nothing
  BY <1>1 DEF Plain!Nothing, Plain!Answer, Plain!Reply, Answer, Reply
<1>. QED  BY <1>2 DEF Plain!PlainNext

(* What remains to be seen of the files after a step that changes names,   *)
(* descriptors and kinds.                                                  *)
LEMMA ContentAfter ==
  ASSUME NEW d, NEW open, NEW kinds, Becomes(d, open, kinds), uid' = uid
  PROVE  /\ fds' = open
         /\ Content' = [f \in Files |->
                          IF f \in Live(d, open) /\ kinds[f] = "file"
                          THEN Seen(uid, raw[f]) ELSE NoFile]
<1>1. /\ fds' = open
      /\ kind' = [f \in Files |->
                    IF f \in Live(d, open) THEN kinds[f] ELSE NoFile]
      /\ raw' = [f \in Files |-> IF f \in Live(d, open) THEN raw[f] ELSE <<>>]
  BY DEF Becomes
<1>2. \A f \in Files : kind'[f] = "file" <=> f \in Live(d, open) /\ kinds[f] = "file"
  BY <1>1, BbfsAssumption
<1>3. \A f \in Files : f \in Live(d, open) => raw'[f] = raw[f]
  BY <1>1
<1>4. Content' = [f \in Files |-> IF kind'[f] = "file" THEN Seen(uid, raw'[f])
                                  ELSE NoFile]
  BY ContentIs
<1>. QED  BY <1>1, <1>2, <1>3, <1>4

(* An inode made that is no file is not seen; a new file is empty.         *)
LEMMA ContentNew ==
  ASSUME FileInv, NEW n \in Names, NEW f \in Files, NEW k, NEW open,
         NewNode(n, f, k, open), uid' = uid,
         \A g \in Files : g \in Live(dir, fds) => g \in Live([dir EXCEPT ![n] = f], open)
  PROVE  /\ fds' = open
         /\ Content[f] = NoFile
         /\ Content' = IF k = "file" THEN [Content EXCEPT ![f] = <<>>]
                       ELSE Content
<1>. DEFINE d == [dir EXCEPT ![n] = f]
            kinds == [kind EXCEPT ![f] = k]
<1>1. kind[f] = NoFile /\ Becomes(d, open, kinds)
  BY DEF NewNode
<1>2. raw[f] = <<>> /\ Content[f] = NoFile
  BY <1>1, ContentIs, BbfsAssumption DEF FileInv, DiskInv
<1>3. Seen(uid, <<>>) = <<>>
  <2>1. IsSeen(uid, <<>>) /\ <<>> \in Seq(Char) /\ Len(<<>>) = 0
    BY SeenIs, EmptySeq
  <2>. QED  BY <2>1, EmptySeq DEF IsSeen
<1>. HIDE DEF d, kinds
<1>4. /\ fds' = open
      /\ Content' = [g \in Files |->
                       IF g \in Live(d, open) /\ kinds[g] = "file"
                       THEN Seen(uid, raw[g]) ELSE NoFile]
  BY <1>1, ContentAfter
<1>5. f \in Live(d, open)
  BY DEF FileInv, DescriptorInv, Live, d
<1>6. /\ kinds[f] = k
      /\ \A g \in Files : g # f => kinds[g] = kind[g]
      /\ \A g \in Files : kind[g] = "file" => g \in Live(d, open)
  BY BbfsAssumption DEF FileInv, DiskInv, d, kinds
<1>7. Content = [g \in Files |-> IF kind[g] = "file" THEN Seen(uid, raw[g])
                                 ELSE NoFile]
  BY ContentIs
<1>8. \A g \in Files : Content'[g] = IF g = f THEN IF k = "file" THEN <<>> ELSE NoFile
                                     ELSE Content[g]
  BY <1>2, <1>3, <1>4, <1>5, <1>6, <1>7
<1>9. Content' = [g \in Files |-> Content'[g]] /\ Content = [g \in Files |-> Content[g]]
  BY <1>4, <1>7
<1>. HIDE DEF Content
<1>10. CASE k = "file"
  BY <1>2, <1>4, <1>8, <1>9, <1>10
<1>11. CASE k # "file"
  <2>1. \A g \in Files : Content'[g] = Content[g]
    BY <1>2, <1>8, <1>11
  <2>2. Content' = Content
    BY <1>9, <2>1
  <2>. QED  BY <1>2, <1>4, <1>11, <2>2
<1>. QED  BY <1>10, <1>11

(* Opening.                                                                *)
LEMMA HandleOpened ==
  ASSUME FileInv, NEW h \in Handles, fds[h] = Closed, NEW o \in Opened,
         fds' = [fds EXCEPT ![h] = o]
  PROVE  /\ HandleOn[h] = NoFile
         /\ HandleOn' = IF o.use \in Flags THEN [HandleOn EXCEPT ![h] = o.ino]
                        ELSE HandleOn
<1>1. fds \in [Handles -> Opened \cup {Closed}]
  BY DEF FileInv, DescriptorInv
<1>2. fds'[h] = o /\ \A i \in Handles \ {h} : fds'[i] = fds[i]
  BY <1>1
<1>3. HandleOn[h] = NoFile
  BY HandleIs DEF Closed, Flags
<1>4. \A i \in Handles :
        HandleOn'[i] = IF i = h THEN IF o.use \in Flags THEN o.ino ELSE NoFile
                       ELSE HandleOn[i]
  BY <1>2, HandleIs
<1>5. /\ HandleOn' = [i \in Handles |-> HandleOn'[i]]
      /\ HandleOn = [i \in Handles |-> HandleOn[i]]
  BY HandleIs
<1>6. CASE o.use \in Flags
  BY <1>3, <1>4, <1>5, <1>6
<1>7. CASE o.use \notin Flags
  <2>1. \A i \in Handles : HandleOn'[i] = HandleOn[i]
    BY <1>3, <1>4, <1>7
  <2>2. HandleOn' = HandleOn
    BY <1>5, <2>1
  <2>. QED  BY <1>3, <1>7, <2>2
<1>. QED  BY <1>6, <1>7

-----------------------------------------------------------------------------
(* Step by step.  Closing a descriptor ends a handle, and a file that has  *)
(* no name goes with its last one.                                         *)
LEMMA SimClose ==
  ASSUME FileInv, NEW h \in Handles, Refers(dir, AfterClose(h)), uid' = uid,
         NEW ret \in Int, ret <= 0, Answer(ret)
  PROVE  Plain!PlainNext
<1>. DEFINE open == AfterClose(h)
            f == fds[h].ino
<1>0. fds \in [Handles -> Opened \cup {Closed}] /\ OpenOn(fds, kind)
  BY DEF FileInv, DescriptorInv, DiskInv
<1>1. /\ open[h] = Closed
      /\ \A i \in Handles \ {h} : open[i] = fds[i]
  BY <1>0 DEF AfterClose
<1>. HIDE DEF open
<1>2. /\ fds' = open
      /\ Content' = [g \in Files |->
                       IF g \in Live(dir, open) /\ kind[g] = "file"
                       THEN Seen(uid, raw[g]) ELSE NoFile]
  BY ContentAfter DEF Refers, open
<1>3. Content = [g \in Files |-> IF kind[g] = "file" THEN Seen(uid, raw[g])
                                 ELSE NoFile]
  BY ContentIs
<1>4. \A g \in Files : kind[g] = "file" /\ g # f => g \in Live(dir, open)
  <2>. SUFFICES ASSUME NEW g \in Files, kind[g] = "file", g # f
                PROVE  g \in Live(dir, open)
    OBVIOUS
  <2>1. g \in Live(dir, fds)
    BY BbfsAssumption DEF FileInv, DiskInv
  <2>. QED  BY <1>1, <2>1 DEF Live
<1>5. Fill' = Fill
  BY ContentIs
<1>6. \A i \in Handles : HandleOn'[i] = IF i = h THEN NoFile ELSE HandleOn[i]
  BY <1>1, <1>2, HandleIs DEF Closed, Flags
<1>7. CASE fds[h].use \in Flags
  <2>1. /\ f \in Files /\ kind[f] = "file" /\ HandleOn[h] = f /\ f # NoFile
    BY <1>0, <1>7, HandleIs, BbfsAssumption DEF OpenOn
  <2>2. HandleOn' = [HandleOn EXCEPT ![h] = NoFile]
    BY <1>6, HandleIs
  <2>3. Plain!NoBytes
    BY DEF Plain!NoBytes, Plain!Answer, Plain!Reply, Answer, Reply
  <2>. HIDE DEF f
  <2>4. CASE f \in Live(dir, open)
    <3>1. Content' = Content
      BY <1>2, <1>3, <1>4, <2>4
    <3>2. Plain!CloseFile(h)
      BY <1>5, <2>1, <2>2, <2>3, <3>1 DEF Plain!CloseFile
    <3>. QED  BY <3>2 DEF Plain!PlainNext
  <2>5. CASE f \notin Live(dir, open)
    <3>1. Content' = [Content EXCEPT ![f] = NoFile]
      BY <1>2, <1>3, <1>4, <2>1, <2>5
    <3>2. \A i \in Handles \ {h} : HandleOn[i] # f
      BY <1>1, <2>1, <2>5, HandleIs DEF Live
    <3>3. Plain!CloseFile(h)
      BY <1>5, <2>1, <2>2, <2>3, <3>1, <3>2 DEF Plain!CloseFile
    <3>. QED  BY <3>3 DEF Plain!PlainNext
  <2>. QED  BY <2>4, <2>5
<1>8. CASE fds[h].use \notin Flags
  <2>1. f \in Files => kind[f] # "file"
    BY <1>0, <1>8, BbfsAssumption DEF OpenOn, Opened, Closed
  <2>2. Content' = Content
    BY <1>2, <1>3, <1>4, <2>1
  <2>3. HandleOn[h] = NoFile
    BY <1>8, HandleIs
  <2>4. HandleOn' = HandleOn
    <3>1. \A i \in Handles : HandleOn'[i] = HandleOn[i]
      BY <1>6, <2>3
    <3>2. /\ HandleOn' = [i \in Handles |-> HandleOn'[i]]
          /\ HandleOn = [i \in Handles |-> HandleOn[i]]
      BY HandleIs
    <3>. QED  BY <3>1, <3>2
  <2>. QED  BY <2>2, <2>4, SimNothing
<1>. QED  BY <1>7, <1>8

(* Changing names may make one file disappear, on which there is no handle.*)
LEMMA SimForget ==
  ASSUME FileInv, NEW d, NEW lost, Refers(d, fds), uid' = uid, Answer(0),
         \A g \in Files : g # lost => (g \in Live(dir, fds) => g \in Live(d, fds))
  PROVE  Plain!PlainNext
<1>1. /\ fds' = fds
      /\ Content' = [g \in Files |->
                       IF g \in Live(d, fds) /\ kind[g] = "file"
                       THEN Seen(uid, raw[g]) ELSE NoFile]
  BY ContentAfter DEF Refers
<1>2. Content = [g \in Files |-> IF kind[g] = "file" THEN Seen(uid, raw[g])
                                 ELSE NoFile]
  BY ContentIs
<1>3. \A g \in Files : kind[g] = "file" /\ g # lost => g \in Live(d, fds)
  BY BbfsAssumption DEF FileInv, DiskInv
<1>4. Fill' = Fill /\ HandleOn' = HandleOn
  BY <1>1, ContentIs, HandleIs
<1>5. CASE lost \in Files /\ kind[lost] = "file" /\ lost \notin Live(d, fds)
  <2>1. Content' = [Content EXCEPT ![lost] = NoFile]
    BY <1>1, <1>2, <1>3, <1>5
  <2>2. \A h \in Handles : HandleOn[h] # lost
    BY <1>5, HandleIs, BbfsAssumption DEF Live
  <2>3. Content[lost] # NoFile
    BY <1>5, FileHasBytes
  <2>4. Plain!NoBytes
    BY DEF Plain!NoBytes, Plain!Answer, Plain!Reply, Answer, Reply
  <2>5. Plain!Disappear(lost)
    BY <1>4, <2>1, <2>2, <2>3, <2>4 DEF Plain!Disappear
  <2>. QED  BY <1>5, <2>5 DEF Plain!PlainNext
<1>6. CASE ~ (lost \in Files /\ kind[lost] = "file" /\ lost \notin Live(d, fds))
  <2>1. Content' = Content
    BY <1>1, <1>2, <1>3, <1>6
  <2>. QED  BY <1>4, <2>1, SimNothing
<1>. QED  BY <1>5, <1>6

(* One byte, shifted from one mount to another.                            *)
LEMMA ShiftedByte ==
  ASSUME NEW c \in Char
  PROVE  /\ ToChar(c + 0 - 0) = c
         /\ ToChar(c + (-1) - 0) = Decipher(c)
         /\ ToChar(Decipher(c) + 0 - (-1)) = c
         /\ ToChar(Decipher(c) + (-1) - (-1)) = Decipher(c)
<1>1. c \in Int /\ -128 <= c /\ c <= 127
  BY DEF Char
<1>2. \A n \in -129 .. 128 :
        ToChar(n) = IF n = -129 THEN 127 ELSE IF n = 128 THEN -128 ELSE n
  BY Stored
<1>3. Decipher(c) = IF c = -128 THEN 127 ELSE c - 1
  BY DecipherIs
<1>4. CASE c = -128
  <2>1. /\ Decipher(c) = 127 /\ c + 0 - 0 = -128 /\ c + (-1) - 0 = -129
        /\ Decipher(c) + 0 - (-1) = 128 /\ Decipher(c) + (-1) - (-1) = 127
    BY <1>3, <1>4
  <2>. QED  BY <1>2, <1>4, <2>1
<1>5. CASE c # -128
  <2>1. /\ Decipher(c) = c - 1 /\ c + 0 - 0 = c /\ c + (-1) - 0 = c - 1
        /\ Decipher(c) + 0 - (-1) = c /\ Decipher(c) + (-1) - (-1) = c - 1
        /\ c \in -127 .. 127 /\ c - 1 \in -128 .. 126
    BY <1>1, <1>3, <1>5
  <2>2. ToChar(c) = c /\ ToChar(c - 1) = c - 1
    BY <1>2, <2>1
  <2>. QED  BY <2>1, <2>2
<1>. QED  BY <1>4, <1>5

(* From the mount of u to that of v all bytes are shifted alike.           *)
LEMMA Shifted ==
  ASSUME NEW u, NEW v, NEW s \in Seq(Char)
  PROVE  Seen(v, s) = [k \in 1 .. Len(Seen(u, s)) |->
                         ToChar(Seen(u, s)[k] + Zero(v) - Zero(u))]
<1>1. IsSeen(u, s) /\ IsSeen(v, s) /\ Len(s) \in Nat
  BY SeenIs, LenProperties
<1>2. /\ Len(Seen(u, s)) = Len(s) /\ Len(Seen(v, s)) = Len(s)
      /\ Seen(v, s) \in Seq(Char)
  BY <1>1 DEF IsSeen
<1>3. ASSUME NEW k \in 1 .. Len(s)
      PROVE  Seen(v, s)[k] = ToChar(Seen(u, s)[k] + Zero(v) - Zero(u))
  <2>. DEFINE c == s[k]
  <2>1. /\ Seen(u, s)[k] = IF u = Me THEN Decipher(c) ELSE c
        /\ Seen(v, s)[k] = IF v = Me THEN Decipher(c) ELSE c
    BY <1>1 DEF IsSeen
  <2>2. c \in Char
    BY ElementOfSeq
  <2>3. Decipher(0) = -1
    BY DecipherIs, GapKept
  <2>4. /\ Zero(u) = IF u = Me THEN -1 ELSE 0
        /\ Zero(v) = IF v = Me THEN -1 ELSE 0
    BY <2>3, ZeroIs
  <2>. HIDE DEF c
  <2>5. /\ ToChar(c + 0 - 0) = c
        /\ ToChar(c + (-1) - 0) = Decipher(c)
        /\ ToChar(Decipher(c) + 0 - (-1)) = c
        /\ ToChar(Decipher(c) + (-1) - (-1)) = Decipher(c)
    BY <2>2, ShiftedByte
  <2>6. CASE u = Me /\ v = Me
    BY <2>1, <2>4, <2>5, <2>6
  <2>7. CASE u # Me /\ v # Me
    BY <2>1, <2>4, <2>5, <2>7
  <2>8. CASE u = Me /\ v # Me
    BY <2>1, <2>4, <2>5, <2>8
  <2>9. CASE u # Me /\ v = Me
    BY <2>1, <2>4, <2>5, <2>9
  <2>. QED  BY <2>6, <2>7, <2>8, <2>9
<1>4. Seen(v, s) = [k \in 1 .. Len(s) |-> Seen(v, s)[k]]
  BY <1>2, LenProperties
<1>5. Seen(v, s) = [k \in 1 .. Len(s) |->
                      ToChar(Seen(u, s)[k] + Zero(v) - Zero(u))]
  BY <1>3, <1>4
<1>. QED  BY <1>2, <1>5

(* A mount begins or ends: the files without a name are gone.              *)
LEMMA SimRemount ==
  ASSUME FileInv, Answer(0), \A h \in Handles : fds'[h] = Closed,
         \A f \in Files : kind[f] = "file" =>
           \/ kind'[f] = "file" /\ raw'[f] = raw[f]
           \/ /\ kind'[f] # "file"
              /\ \E h \in Handles : fds[h].use \in Flags /\ fds[h].ino = f,
         \A f \in Files : kind'[f] = "file" => kind[f] = "file"
  PROVE  Plain!PlainNext
<1>. DEFINE gone == {f \in Files : kind[f] = "file" /\ kind'[f] # "file"}
            Moved(f) == [k \in 1 .. Len(Content[f]) |->
                           ToChar(Content[f][k] + Fill' - Fill)]
<1>1. HandleOn' = [h \in Handles |-> NoFile]
  BY HandleIs DEF Closed, Flags
<1>2. Fill' \in Char /\ Fill = Zero(uid) /\ Fill' = Zero(uid')
  BY ContentIs, ZeroIs
<1>3. gone \in SUBSET {HandleOn[h] : h \in Handles}
  BY HandleIs
<1>4. ASSUME NEW f \in Files
      PROVE  Content'[f] = IF f \in gone \/ Content[f] = NoFile THEN NoFile
                           ELSE Moved(f)
  <2>1. CASE kind[f] # "file"
    BY <2>1, ContentIs
  <2>2. CASE kind[f] = "file" /\ kind'[f] # "file"
    BY <2>2, ContentIs
  <2>3. CASE kind[f] = "file" /\ kind'[f] = "file"
    <3>1. /\ raw[f] \in Seq(Char) /\ Content[f] = Seen(uid, raw[f])
          /\ Content[f] # NoFile
      BY <2>3, FileHasBytes
    <3>2. Content'[f] = Seen(uid', raw[f])
      BY <2>3, ContentIs
    <3>a. PICK u, v : u = uid /\ v = uid'
      OBVIOUS
    <3>b. Seen(v, raw[f])
            = [k \in 1 .. Len(Seen(u, raw[f])) |->
                 ToChar(Seen(u, raw[f])[k] + Zero(v) - Zero(u))]
      BY <3>1, Shifted
    <3>3. Seen(uid', raw[f])
            = [k \in 1 .. Len(Seen(uid, raw[f])) |->
                 ToChar(Seen(uid, raw[f])[k] + Zero(uid') - Zero(uid))]
      BY <3>a, <3>b
    <3>4. Content'[f] = Moved(f)
      BY <1>2, <3>1, <3>2, <3>3
    <3>. HIDE DEF Moved
    <3>. QED  BY <2>3, <3>1, <3>4
  <2>. QED  BY <2>1, <2>2, <2>3
<1>5. Content' = [f \in Files |->
                    IF f \in gone \/ Content[f] = NoFile THEN NoFile
                    ELSE Moved(f)]
  <2>1. Content' = [f \in Files |-> Content'[f]]
    BY ContentIs
  <2>. HIDE DEF gone, Moved
  <2>. QED  BY <1>4, <2>1
<1>6. Plain!Remount
  <2>1. Plain!Answer(0)
    BY DEF Plain!Answer, Plain!Reply, Answer, Reply
  <2>2. Content' \in {[f \in Files |->
                         IF f \in g \/ Content[f] = NoFile THEN NoFile
                         ELSE Moved(f)] :
                      g \in SUBSET {HandleOn[h] : h \in Handles}}
    <3>. HIDE DEF gone, Moved
    <3>. QED  BY <1>3, <1>5
  <2>3. Fill' \in Plain!Char
    BY <1>2 DEF Plain!Char, Char
  <2>. QED
    BY <1>1, <2>1, <2>2, <2>3, Zenon DEF Plain!Remount, Plain!ToChar, ToChar
<1>. QED  BY <1>6 DEF Plain!PlainNext

(* The operators on bytes are those of FileCalls.                          *)
LEMMA SameCalls ==
  /\ \A s, n, b : Plain!Resized(s, n, b) = Resized(s, n, b)
  /\ \A s, o, d, b : Plain!Overlaid(s, o, d, b) = Overlaid(s, o, d, b)
  /\ \A s, o, n : Plain!Slice(s, o, n) = Slice(s, o, n)
  /\ Plain!BytesUpTo(MAXSIZE) = BytesUpTo(MAXSIZE)
BY DEF Plain!Resized, Resized, Plain!Overlaid, Overlaid, Plain!Slice, Slice,
       Plain!BytesUpTo, BytesUpTo

(* Bytes are stored in a file.                                             *)
LEMMA StoresSeen ==
  ASSUME FileInv, NEW f \in Files, kind[f] = "file", NEW r, NEW w,
         Stores(f, r, w), uid' = uid
  PROVE  /\ Content' = [Content EXCEPT ![f] = Seen(uid, r)]
         /\ HandleOn' = HandleOn /\ Fill' = Fill
<1>1. /\ raw' = [raw EXCEPT ![f] = r] /\ kind' = kind /\ fds' = fds
      /\ raw \in [Files -> Seq(Char)]
  BY DEF Stores, FileInv, DiskInv
<1>2. raw'[f] = r /\ \A g \in Files \ {f} : raw'[g] = raw[g]
  BY <1>1
<1>. QED  BY <1>1, <1>2, ContentIs, HandleIs

LEMMA SimCut ==
  ASSUME FileInv, NEW f \in Files, kind[f] = "file", NEW n \in 0 .. MAXSIZE,
         Cuts(f, n), uid' = uid
  PROVE  Plain!PlainNext
<1>1. /\ raw[f] \in Seq(Char) /\ Content[f] = Seen(uid, raw[f])
      /\ Content[f] # NoFile
  BY FileHasBytes
<1>2. n \in Nat
  BY BbfsAssumption
<1>3. /\ Content' = [Content EXCEPT ![f] = Seen(uid, Resized(raw[f], n, 0))]
      /\ HandleOn' = HandleOn /\ Fill' = Fill
  BY StoresSeen DEF Cuts
<1>4. Seen(uid, Resized(raw[f], n, 0)) = Resized(Content[f], n, Fill)
  <2>1. PICK u : u = uid
    OBVIOUS
  <2>2. Seen(u, Resized(raw[f], n, 0)) = Resized(Seen(u, raw[f]), n, Zero(u))
    BY <1>1, <1>2, SeenResized
  <2>. QED  BY <1>1, <2>1, <2>2, ContentIs
<1>5. Plain!Answer(0)
  BY DEF Cuts, Done, Plain!Answer, Plain!Reply, Answer, Reply
<1>6. Content' = [Content EXCEPT ![f] = Plain!Resized(Content[f], n, Fill)]
  BY <1>3, <1>4, SameCalls
<1>7. Plain!SetSize(f, n)
  BY <1>1, <1>3, <1>5, <1>6 DEF Plain!SetSize
<1>. QED  BY <1>7 DEF Plain!PlainNext

LEMMA SimRead ==
  ASSUME FileInv, NEW h \in Handles, NEW size \in 1 .. MAXSIZE,
         NEW offset \in 0 .. MAXSIZE - 1, bb_read(h, size, offset)
  PROVE  Plain!PlainNext
<1>. DEFINE f == fds[h].ino
            buf == Slice(raw[f], offset, size)
            data == Slice(Content[f], offset, size)
<1>1. /\ fds[h].use \in Flags /\ uid' = uid /\ UNCHANGED <<disk, fds>>
      /\ reply' = [call |-> <<"read", h, offset, size>>, ret |-> Len(buf),
                   data |-> Out(buf)]
  BY DEF bb_read, Handler, Flags, Pread, Reply
<1>2. f \in Files /\ kind[f] = "file" /\ HandleOn[h] = f /\ f # NoFile
  BY <1>1, HandleIs, BbfsAssumption DEF FileInv, DiskInv, OpenOn
<1>3. raw[f] \in Seq(Char) /\ Content[f] = Seen(uid, raw[f])
  BY <1>2, FileHasBytes
<1>4. offset \in Nat /\ size \in Nat /\ offset \in 0 .. MAXSIZE /\ size \in 0 .. MAXSIZE
  BY BbfsAssumption
<1>5. Out(buf) = data /\ Len(data) = Len(buf)
  <2>1. PICK u : u = uid
    OBVIOUS
  <2>2. /\ Seen(u, buf) = Slice(Seen(u, raw[f]), offset, size)
        /\ Len(Slice(Seen(u, raw[f]), offset, size)) = Len(buf)
    BY <1>3, <1>4, SeenSlice
  <2>3. Out(buf) = Seen(uid, buf)
    BY DEF Out, Allowed, Seen
  <2>. QED  BY <1>3, <2>1, <2>2, <2>3
<1>6. Content' = Content /\ HandleOn' = HandleOn /\ Fill' = Fill
  BY <1>1, ContentIs, HandleIs DEF disk
<1>7. data = Plain!Slice(Content[HandleOn[h]], offset, size)
  BY <1>2, SameCalls
<1>. HIDE DEF f, buf, data
<1>8. reply' = [call |-> <<"read", h, offset, size>>, ret |-> Len(data),
                data |-> data]
  BY <1>1, <1>5
<1>9. reply'.call = <<"read", h, offset, size>>
  BY <1>8
<1>10. HandleOn[h] # NoFile
  BY <1>2
<1>11. Plain!Read(h, offset, size)
  BY <1>6, <1>7, <1>8, <1>9, <1>10 DEF Plain!Read, Plain!Reply
<1>. QED  BY <1>4, <1>11 DEF Plain!PlainNext

LEMMA SimWrite ==
  ASSUME FileInv, NEW h \in Handles, NEW data \in BytesUpTo(MAXSIZE),
         NEW offset \in 0 .. MAXSIZE - 1, NEW count \in 1 .. Len(data),
         bb_write(h, data, offset, count)
  PROVE  Plain!PlainNext
<1>. DEFINE f == fds[h].ino
            d == SubSeq(In(data), 1, count)
            g == SubSeq(Signed(data), 1, count)
<1>1. /\ fds[h].use \in Flags /\ uid' = uid
      /\ offset + Len(data) <= MAXSIZE
      /\ Stores(f, Overlaid(raw[f], offset, d, 0),
                Overlaid(wrote[f], offset, g, Gap))
      /\ Reply(<<"write", h, offset, data>>, count, <<>>)
  BY DEF bb_write, Handler, Flags, Copy
<1>2. f \in Files /\ kind[f] = "file" /\ HandleOn[h] = f /\ f # NoFile
  BY <1>1, HandleIs, BbfsAssumption DEF FileInv, DiskInv, OpenOn
<1>3. raw[f] \in Seq(Char) /\ Content[f] = Seen(uid, raw[f])
  BY <1>2, FileHasBytes
<1>4. data \in Seq(Char) /\ Len(data) \in Nat
  BY BytesAreChars, LenProperties
<1>5. /\ offset \in Nat /\ offset \in 0 .. MAXSIZE
      /\ count \in 1 .. MAXSIZE
  BY <1>1, <1>4, BbfsAssumption
<1>6. d \in Seq(Char) /\ Len(d) = count /\ Seen(uid, d) = SubSeq(data, 1, count)
  BY <1>4, DataKept, SeenIn DEF Kept
<1>. HIDE DEF d, g, f
<1>7. /\ Content' = [Content EXCEPT ![f] =
                       Seen(uid, Overlaid(raw[f], offset, d, 0))]
      /\ HandleOn' = HandleOn /\ Fill' = Fill
  BY <1>1, <1>2, StoresSeen
<1>8. Seen(uid, Overlaid(raw[f], offset, d, 0))
        = Overlaid(Content[f], offset, SubSeq(data, 1, count), Fill)
  <2>1. PICK u : u = uid
    OBVIOUS
  <2>2. Len(d) > 0
    BY <1>5, <1>6
  <2>3. Seen(u, Overlaid(raw[f], offset, d, 0))
          = Overlaid(Seen(u, raw[f]), offset, Seen(u, d), Zero(u))
    BY <1>3, <1>5, <1>6, <2>2, SeenOverlaid
  <2>. QED  BY <1>3, <1>6, <2>1, <2>3, ContentIs
<1>9. Content' = [Content EXCEPT ![HandleOn[h]] =
         Plain!Overlaid(Content[HandleOn[h]], offset, SubSeq(data, 1, count), Fill)]
  BY <1>2, <1>7, <1>8, SameCalls
<1>10. Plain!Reply(<<"write", h, offset, data>>, count, <<>>)
  BY <1>1 DEF Reply, Plain!Reply
<1>11. Plain!Write(h, offset, data, count)
  BY <1>2, <1>7, <1>9, <1>10 DEF Plain!Write
<1>12. data \in Plain!BytesUpTo(MAXSIZE)
  BY SameCalls
<1>. QED  BY <1>5, <1>11, <1>12 DEF Plain!PlainNext

-----------------------------------------------------------------------------
(* The handlers that are called with a name.                               *)
LEMMA NameSim ==
  ASSUME FileInv, NEW n \in Names, OnName(n), uid' = uid
  PROVE  Plain!PlainNext
<1>0. /\ dir \in [Names -> Files \cup {NoFile}]
      /\ fds \in [Handles -> Opened \cup {Closed}]
  BY DEF FileInv, DescriptorInv
<1>1. CASE Asks(n) \/ SetsAttribute(n)
  <2>1. PICK ret \in Int : Leaves(ret)
    BY <1>1 DEF Asks, bb_getattr, bb_readlink, bb_statfs, bb_access,
                bb_getxattr, bb_listxattr, AttrSizes, SetsAttribute, bb_chmod,
                bb_chown, bb_utime, bb_setxattr, bb_removexattr
  <2>2. Answer(ret) /\ UNCHANGED <<disk, fds>>
    BY <2>1 DEF Leaves, Handler
  <2>3. Content' = Content /\ HandleOn' = HandleOn
    BY <2>2, ContentIs, HandleIs DEF disk
  <2>. QED  BY <2>2, <2>3, SimNothing
<1>2. ASSUME NEW f \in Files, NEW h \in Handles, fds[h] = Closed,
             NewNode(n, f, "file", [fds EXCEPT ![h] = [ino |-> f, use |-> "w"]])
      PROVE  /\ HandleOn[h] = NoFile /\ Content[f] = NoFile
             /\ HandleOn' = [HandleOn EXCEPT ![h] = f]
             /\ Content' = [Content EXCEPT ![f] = <<>>]
  <2>. DEFINE o == [ino |-> f, use |-> "w"]
  <2>1. o \in Opened /\ o.ino = f /\ o.use \in Flags
    BY DEF Opened, Flags
  <2>. HIDE DEF o
  <2>. DEFINE open == [fds EXCEPT ![h] = o]
              d == [dir EXCEPT ![n] = f]
  <2>2. NewNode(n, f, "file", open) /\ dir[n] = NoFile
    BY <1>2 DEF NewNode, o
  <2>3. /\ \A i \in Handles \ {h} : open[i] = fds[i]
        /\ \A m \in Names \ {n} : d[m] = dir[m]
        /\ fds[h].ino = NoFile
    BY <1>0, <1>2 DEF Closed
  <2>. HIDE DEF open, d
  <2>4. \A g \in Files : g \in Live(dir, fds) => g \in Live(d, open)
    BY <2>2, <2>3, BbfsAssumption DEF Live
  <2>5. /\ fds' = open /\ Content[f] = NoFile
        /\ Content' = [Content EXCEPT ![f] = <<>>]
    BY <2>2, <2>4, ContentNew DEF d
  <2>6. HandleOn[h] = NoFile /\ HandleOn' = [HandleOn EXCEPT ![h] = f]
    BY <1>2, <2>1, <2>5, HandleOpened DEF open
  <2>. QED  BY <2>5, <2>6
<1>3. CASE bb_mknod_open(n)
  <2>1. PICK f \in Files, h \in Handles :
          /\ fds[h] = Closed
          /\ NewNode(n, f, "file",
                     [fds EXCEPT ![h] = [ino |-> f, use |-> "w"]])
    BY <1>3 DEF bb_mknod_open
  <2>2. reply' = reply /\ Fill' = Fill
    BY <1>3, ContentIs DEF bb_mknod_open
  <2>3. Plain!Appear(h, f)
    BY <1>2, <2>1, <2>2 DEF Plain!Appear
  <2>. QED  BY <2>3 DEF Plain!PlainNext
<1>4. CASE bb_mknod_special(n) \/ bb_symlink(n) \/ bb_mkdir(n)
  <2>1. PICK f \in Files, k \in {"dir", "other"} : NewNode(n, f, k, fds)
    BY <1>4 DEF bb_mknod_special, bb_symlink, bb_mkdir, Makes, Handler
  <2>2. Answer(0)
    BY <1>4 DEF bb_mknod_special, bb_symlink, bb_mkdir, Makes, Handler, Done
  <2>3. dir[n] = NoFile
    BY <2>1 DEF NewNode
  <2>4. \A g \in Files :
          g \in Live(dir, fds) => g \in Live([dir EXCEPT ![n] = f], fds)
    BY <1>0, <2>3, BbfsAssumption DEF Live
  <2>5. fds' = fds /\ Content' = Content
    BY <2>1, <2>4, ContentNew
  <2>. QED  BY <2>2, <2>5, HandleIs, SimNothing
<1>5. CASE bb_unlink(n) \/ bb_rmdir(n)
  <2>. DEFINE d == [dir EXCEPT ![n] = NoFile]
  <2>1. Refers(d, fds) /\ Answer(0)
    BY <1>5 DEF bb_unlink, bb_rmdir, Handler, Removes, Done
  <2>2. \A g \in Files :
          g # dir[n] => (g \in Live(dir, fds) => g \in Live(d, fds))
    BY <1>0 DEF Live
  <2>. HIDE DEF d
  <2>. QED  BY <2>1, <2>2, SimForget
<1>6. ASSUME NEW m \in Names, bb_rename(n, m)
      PROVE  Plain!PlainNext
  <2>. DEFINE d == Renamed(n, m)
  <2>1. Refers(d, fds) /\ Answer(0)
    BY <1>6 DEF bb_rename, Handler, Done
  <2>2. \A g \in Files :
          g # dir[m] => (g \in Live(dir, fds) => g \in Live(d, fds))
    <3>1. CASE dir[n] = dir[m]
      BY <3>1 DEF Renamed
    <3>2. CASE dir[n] # dir[m]
      <4>1. d[m] = dir[n] /\ \A i \in Names \ {n, m} : d[i] = dir[i]
        BY <1>0, <3>2 DEF Renamed
      <4>. HIDE DEF d
      <4>. QED  BY <4>1 DEF Live
    <3>. QED  BY <3>1, <3>2
  <2>. HIDE DEF d
  <2>. QED  BY <2>1, <2>2, SimForget
<1>7. ASSUME NEW m \in Names, bb_link(n, m)
      PROVE  Plain!PlainNext
  <2>. DEFINE d == [dir EXCEPT ![m] = dir[n]]
  <2>1. Refers(d, fds) /\ Answer(0) /\ dir[m] = NoFile
    BY <1>7 DEF bb_link, Handler, Done
  <2>2. \A g \in Files :
          g # NoFile => (g \in Live(dir, fds) => g \in Live(d, fds))
    BY <1>0, <2>1 DEF Live
  <2>. HIDE DEF d
  <2>. QED  BY <2>1, <2>2, SimForget
<1>8. ASSUME NEW size \in 0 .. MAXSIZE, bb_truncate(n, size)
      PROVE  Plain!PlainNext
  <2>1. Is(n, "file") /\ Cuts(dir[n], size)
    BY <1>8 DEF bb_truncate, Handler
  <2>2. dir[n] \in Files /\ kind[dir[n]] = "file"
    BY <2>1, NamesLive DEF Is
  <2>. QED  BY <2>1, <2>2, SimCut
<1>9. ASSUME NEW h \in Handles, bb_create(n, h)
      PROVE  Plain!PlainNext
  <2>1. fds[h] = Closed /\ Plain!Answer(0)
    BY <1>9 DEF bb_create, Handler, Gives, Answer, Reply, Plain!Answer, Plain!Reply
  <2>2. Fill' = Fill
    BY ContentIs
  <2>3. ASSUME NEW f \in Files,
               NewNode(n, f, "file",
                       [fds EXCEPT ![h] = [ino |-> f, use |-> "w"]])
        PROVE  Plain!CreateFile(h, f)
    BY <1>2, <2>1, <2>2, <2>3 DEF Plain!CreateFile
  <2>4. ASSUME Is(n, "file"),
               raw' = [raw EXCEPT ![dir[n]] = <<>>],
               fds' = [fds EXCEPT ![h] = [ino |-> dir[n], use |-> "w"]],
               UNCHANGED <<dir, kind>>
        PROVE  \E f \in Files : Plain!CreateFile(h, f)
    <3>. DEFINE f == dir[n]
                o == [ino |-> dir[n], use |-> "w"]
    <3>1. f \in Files /\ kind[f] = "file"
      BY <2>4, NamesLive DEF Is
    <3>2. o \in Opened /\ o.ino = f /\ o.use \in Flags
      BY <3>1 DEF Opened, Flags
    <3>. HIDE DEF o
    <3>3. HandleOn[h] = NoFile /\ HandleOn' = [HandleOn EXCEPT ![h] = f]
      BY <2>1, <2>4, <3>2, HandleOpened DEF o
    <3>4. Seen(uid, <<>>) = <<>>
      <4>1. IsSeen(uid, <<>>) /\ <<>> \in Seq(Char) /\ Len(<<>>) = 0
        BY SeenIs, EmptySeq
      <4>. QED  BY <4>1, EmptySeq DEF IsSeen
    <3>5. raw \in [Files -> Seq(Char)]
      BY DEF FileInv, DiskInv
    <3>. HIDE DEF f
    <3>6. raw'[f] = <<>> /\ \A g \in Files \ {f} : raw'[g] = raw[g]
      BY <2>4, <3>1, <3>5 DEF f
    <3>7. Content' = [Content EXCEPT ![f] = <<>>]
      BY <2>4, <3>1, <3>4, <3>6, ContentIs
    <3>8. Plain!CreateFile(h, f)
      BY <2>1, <2>2, <3>3, <3>7 DEF Plain!CreateFile
    <3>. QED  BY <3>1, <3>8
  <2>5. \E f \in Files : Plain!CreateFile(h, f)
    BY <1>9, <2>3, <2>4 DEF bb_create, Handler
  <2>. QED  BY <2>5 DEF Plain!PlainNext
<1>10. ASSUME NEW h \in Handles, NEW flags \in OpenWith, bb_open(n, h, flags)
       PROVE  Plain!PlainNext
  <2>. DEFINE f == dir[n]
              o == [ino |-> dir[n], use |-> flags]
              open == [fds EXCEPT ![h] = [ino |-> dir[n], use |-> flags]]
  <2>1. /\ Is(n, "file") /\ fds[h] = Closed /\ Plain!Answer(0)
        /\ Refers(dir, open)
    BY <1>10 DEF bb_open, Handler, Gives, Answer, Reply, Plain!Answer, Plain!Reply
  <2>2. f \in Files /\ kind[f] = "file"
    BY <2>1, NamesLive DEF Is
  <2>3. flags \in Flags
    BY BbfsAssumption
  <2>4. o \in Opened /\ o.ino = f /\ o.use \in Flags
    BY <2>2, <2>3 DEF Opened
  <2>5. \A i \in Handles \ {h} : open[i] = fds[i]
    BY <1>0
  <2>6. fds[h].ino = NoFile
    BY <2>1 DEF Closed
  <2>. HIDE DEF o, open
  <2>7. /\ fds' = open
        /\ Content' = [g \in Files |->
                         IF g \in Live(dir, open) /\ kind[g] = "file"
                         THEN Seen(uid, raw[g]) ELSE NoFile]
    BY <2>1, ContentAfter DEF Refers
  <2>8. \A g \in Files : kind[g] = "file" => g \in Live(dir, open)
    <3>1. \A g \in Files : kind[g] = "file" => g \in Live(dir, fds)
      BY BbfsAssumption DEF FileInv, DiskInv
    <3>. QED  BY <2>5, <2>6, <3>1, BbfsAssumption DEF Live
  <2>9. Content' = Content /\ Fill' = Fill
    BY <2>7, <2>8, ContentIs
  <2>10. HandleOn[h] = NoFile /\ HandleOn' = [HandleOn EXCEPT ![h] = f]
    BY <2>1, <2>4, <2>7, HandleOpened DEF open, o
  <2>11. Content[f] # NoFile
    BY <2>2, FileHasBytes
  <2>12. Plain!OpenFile(h, f)
    BY <2>1, <2>9, <2>10, <2>11 DEF Plain!OpenFile
  <2>. QED  BY <2>2, <2>12 DEF Plain!PlainNext
<1>. QED
  BY <1>1, <1>3, <1>4, <1>5, <1>6, <1>7, <1>8, <1>9, <1>10 DEF OnName

(* The handlers that are called with a handle FUSE was given.              *)
LEMMA HandleSim ==
  ASSUME FileInv, NEW h \in given, OnHandle(h), uid' = uid
  PROVE  Plain!PlainNext
<1>0. h \in Handles /\ fds \in [Handles -> Opened \cup {Closed}]
  BY DEF FileInv, DescriptorInv
<1>1. CASE Unseen(h)
  <2>1. Answer(0) /\ UNCHANGED <<disk, fds>>
    BY <1>1 DEF Unseen, bb_fgetattr, bb_fsync, bb_flush, bb_fsyncdir, Leaves,
                Handler
  <2>2. Content' = Content /\ HandleOn' = HandleOn
    BY <2>1, ContentIs, HandleIs DEF disk
  <2>. QED  BY <2>1, <2>2, SimNothing
<1>2. CASE bb_readdir(h)
  <2>1. fds[h].use \in Positions /\ UNCHANGED disk /\ \E ret : Answer(ret)
    BY <1>2 DEF bb_readdir, bb_error
  <2>2. fds' = fds \/ \E p \in Positions : fds' = [fds EXCEPT ![h].use = p]
    BY <1>2 DEF bb_readdir, Positions
  <2>3. fds[h] \in Opened
    BY <1>0, <2>1 DEF Positions, Closed
  <2>4. fds'[h].use \in Positions /\ \A i \in Handles \ {h} : fds'[i] = fds[i]
    BY <1>0, <2>1, <2>2, <2>3 DEF Opened
  <2>5. \A i \in Handles : HandleOn'[i] = HandleOn[i]
    BY <2>1, <2>4, HandleIs DEF Flags, Positions
  <2>6. HandleOn' = HandleOn
    <3>1. /\ HandleOn' = [i \in Handles |-> HandleOn'[i]]
          /\ HandleOn = [i \in Handles |-> HandleOn[i]]
      BY HandleIs
    <3>. QED  BY <2>5, <3>1
  <2>7. Content' = Content
    BY <2>1, ContentIs DEF disk
  <2>. QED  BY <2>1, <2>6, <2>7, SimNothing
<1>3. CASE bb_release(h) \/ bb_releasedir(h)
  <2>1. /\ Refers(dir, AfterClose(h))
        /\ \E ret \in Int : ret <= 0 /\ Answer(ret)
    BY <1>3 DEF bb_release, bb_releasedir
  <2>. QED  BY <1>0, <2>1, SimClose
<1>4. ASSUME NEW size \in 0 .. MAXSIZE, bb_ftruncate(h, size)
      PROVE  Plain!PlainNext
  <2>1. fds[h].use \in Flags /\ Cuts(fds[h].ino, size)
    BY <1>4 DEF bb_ftruncate, Handler, Flags
  <2>2. fds[h].ino \in Files /\ kind[fds[h].ino] = "file"
    BY <1>0, <2>1 DEF FileInv, DiskInv, OpenOn
  <2>. QED  BY <2>1, <2>2, SimCut
<1>. QED  BY <1>0, <1>1, <1>2, <1>3, <1>4, SimRead, SimWrite DEF OnHandle

(* Every step of the file system is one of the plain files, or is not seen.*)
LEMMA PlainStep ==
  FileInv /\ [Next]_vars => [Plain!PlainNext]_(Plain!plainVars)
<1>. SUFFICES ASSUME FileInv, [Next]_vars
              PROVE  Plain!PlainNext \/ UNCHANGED Plain!plainVars
  OBVIOUS
<1>0. /\ dir \in [Names -> Files \cup {NoFile}]
      /\ fds \in [Handles -> Opened \cup {Closed}]
      /\ DiskInv /\ OpenOn(fds, kind)
  BY DEF FileInv, DescriptorInv, DiskInv
<1>1. CASE UNCHANGED vars
  <2>1. Content' = Content /\ HandleOn' = HandleOn /\ Fill' = Fill
    BY <1>1, ContentIs, HandleIs DEF vars, disk
  <2>. QED  BY <1>1, <2>1 DEF vars, Plain!plainVars
<1>2. ASSUME NEW u \in Uids, Mount(u) PROVE Plain!PlainNext
  <2>1. uid = Nobody /\ Answer(0) /\ UNCHANGED <<disk, fds>>
    BY <1>2 DEF Mount
  <2>2. \A h \in Handles : fds'[h] = Closed
    BY <2>1 DEF FileInv, SessionInv
  <2>. QED  BY <2>1, <2>2, SimRemount DEF disk
<1>3. CASE Exit
  <2>. DEFINE open == [h \in Handles |-> Closed]
  <2>1. Answer(0) /\ Becomes(dir, open, kind)
    BY <1>3 DEF Exit, Refers
  <2>2. /\ fds' = open
        /\ kind' = [f \in Files |->
                      IF f \in Live(dir, open) THEN kind[f] ELSE NoFile]
        /\ raw' = [f \in Files |-> IF f \in Live(dir, open) THEN raw[f] ELSE <<>>]
    BY <2>1 DEF Becomes
  <2>3. \A h \in Handles : fds'[h] = Closed
    BY <2>2
  <2>. HIDE DEF open
  <2>4. ASSUME NEW f \in Files, kind[f] = "file", f \notin Live(dir, open)
        PROVE  \E h \in Handles : fds[h].use \in Flags /\ fds[h].ino = f
    <3>1. f \in Live(dir, fds)
      BY <1>0, <2>4, BbfsAssumption DEF DiskInv
    <3>2. PICK h \in Handles : fds[h].ino = f
      BY <2>4, <3>1 DEF Live
    <3>3. fds[h] # Closed /\ fds[h].use \notin Positions
      BY <1>0, <2>4, <3>2, BbfsAssumption DEF Closed, OpenOn
    <3>4. fds[h].use \in Flags
      BY <1>0, <3>3 DEF Opened
    <3>. QED  BY <3>2, <3>4
  <2>5. \A f \in Files : kind[f] = "file" =>
          \/ kind'[f] = "file" /\ raw'[f] = raw[f]
          \/ /\ kind'[f] # "file"
             /\ \E h \in Handles : fds[h].use \in Flags /\ fds[h].ino = f
    BY <2>2, <2>4, BbfsAssumption
  <2>6. \A f \in Files : kind'[f] = "file" => kind[f] = "file"
    BY <2>2, BbfsAssumption
  <2>. QED  BY <2>1, <2>3, <2>5, <2>6, SimRemount
<1>4. CASE Fails
  <2>1. uid' = uid /\ UNCHANGED <<disk, fds>> /\ \E ret : Answer(ret)
    BY <1>4 DEF Fails, bb_error
  <2>2. Content' = Content /\ HandleOn' = HandleOn
    BY <2>1, ContentIs, HandleIs DEF disk
  <2>. QED  BY <2>1, <2>2, SimNothing
<1>5. CASE bb_mknod_close
  <2>1. making \in Handles /\ Refers(dir, AfterClose(making)) /\ uid' = uid
    BY <1>5 DEF bb_mknod_close, FileInv, DescriptorInv
  <2>2. \E ret \in Int : ret <= 0 /\ Answer(ret)
    BY <1>5, BbfsAssumption DEF bb_mknod_close, bb_error
  <2>. QED  BY <2>1, <2>2, SimClose
<1>6. ASSUME NEW n \in Names, OnName(n) PROVE Plain!PlainNext
  <2>1. uid' = uid
    BY <1>6 DEF OnName, Asks, bb_getattr, bb_readlink, bb_statfs, bb_access,
                bb_getxattr, bb_listxattr, SetsAttribute, bb_chmod, bb_chown,
                bb_utime, bb_setxattr, bb_removexattr, Leaves, Handler,
                bb_mknod_open, bb_mknod_special, bb_symlink, bb_mkdir, Makes,
                bb_unlink, bb_rmdir, bb_rename, bb_link, bb_truncate,
                bb_create, bb_open
  <2>. QED  BY <1>6, <2>1, NameSim
<1>7. ASSUME NEW h \in given, OnHandle(h) PROVE Plain!PlainNext
  <2>1. uid' = uid
    BY <1>7 DEF OnHandle, Unseen, bb_fgetattr, bb_fsync, bb_flush, bb_fsyncdir,
                Leaves, Handler, bb_readdir, bb_release, bb_releasedir,
                bb_ftruncate, bb_read, bb_write
  <2>. QED  BY <1>7, <2>1, HandleSim
<1>8. ASSUME NEW f \in Files \cup {Root}, NEW h \in Handles, bb_opendir(f, h)
      PROVE  Plain!PlainNext
  <2>. DEFINE o == [ino |-> f, use |-> "entries"]
              open == [fds EXCEPT ![h] = [ino |-> f, use |-> "entries"]]
  <2>1. fds[h] = Closed /\ Answer(0) /\ Refers(dir, open) /\ uid' = uid
    BY <1>8 DEF bb_opendir, Handler, Gives
  <2>2. o \in Opened /\ o.use \notin Flags
    BY DEF Opened, Positions, Flags
  <2>3. fds[h].ino = NoFile /\ \A i \in Handles \ {h} : open[i] = fds[i]
    BY <1>0, <2>1 DEF Closed
  <2>. HIDE DEF o, open
  <2>4. /\ fds' = open
        /\ Content' = [g \in Files |->
                         IF g \in Live(dir, open) /\ kind[g] = "file"
                         THEN Seen(uid, raw[g]) ELSE NoFile]
    BY <2>1, ContentAfter DEF Refers
  <2>5. \A g \in Files : kind[g] = "file" => g \in Live(dir, open)
    <3>1. \A g \in Files : kind[g] = "file" => g \in Live(dir, fds)
      BY <1>0, BbfsAssumption DEF DiskInv
    <3>. QED  BY <2>3, <3>1, BbfsAssumption DEF Live
  <2>6. Content' = Content
    BY <2>4, <2>5, ContentIs
  <2>7. HandleOn' = HandleOn
    BY <2>1, <2>2, <2>4, HandleOpened DEF open, o
  <2>. QED  BY <2>1, <2>6, <2>7, SimNothing
<1>. QED
  BY <1>1, <1>2, <1>3, <1>4, <1>5, <1>6, <1>7, <1>8 DEF Next

LEMMA PlainStart == Init => Plain!PlainInit
<1>. SUFFICES ASSUME Init PROVE Plain!PlainInit
  OBVIOUS
<1>1. Content = [f \in Files |-> NoFile]
  BY ContentIs, BbfsAssumption DEF Init
<1>2. HandleOn = [h \in Handles |-> NoFile]
  BY HandleIs DEF Init, Closed, Flags
<1>3. Fill = 0
  BY ContentIs, ZeroIs, BbfsAssumption DEF Init
<1>4. reply = Plain!NoReply
  BY DEF Init, NoReply, Plain!NoReply
<1>. QED  BY <1>1, <1>2, <1>3, <1>4 DEF Plain!PlainInit

(* Through a mount, the shifted files of rootdir are plain files: whatever *)
(* is opened, linked, renamed, unlinked, cut, written in part or refused,  *)
(* and however often the file system is mounted and by whom, a read gives  *)
(* the bytes written, and a file stays as long as a handle is on it.       *)
THEOREM PlainFilesCorrect == Spec => ImplementsPlainFiles
BY PlainStart, PlainStep, FileInvariant, PTL
   DEF Spec, ImplementsPlainFiles, Plain!PlainSpec
=============================================================================
