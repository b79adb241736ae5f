----------------------------- MODULE FileCalls -----------------------------
(***************************************************************************)
(* What the two specifications of the file system of hw7_fuse share: the   *)
(* bytes of files, what pread, pwrite and truncate make of them, and the   *)
(* answer to a call.                                                       *)
(***************************************************************************)
EXTENDS Integers, Sequences

CONSTANTS
  Files,     \* the files there can be
  Handles,   \* the handles a program can be given
  Bytes,     \* the bytes programs write
  MAXSIZE,   \* the largest size of a file
  NoFile     \* no file

VARIABLE
  reply      \* the last call, its result and the bytes it read

(* The values of a char.                                                   *)
Char == -128 .. 127
ToChar(n) == ((n + 384) % 256) - 128   \* of an int from -384 on

(* s cut off, or filled up with b, to n bytes.                             *)
Resized(s, n, b) == [k \in 1 .. n |-> IF k <= Len(s) THEN s[k] ELSE b]

(* s with data from offset on, and b in the gap between the two.           *)
Overlaid(s, offset, data, b) ==
  IF data = <<>> THEN s
  ELSE LET end == offset + Len(data)
       IN  [k \in 1 .. IF end > Len(s) THEN end ELSE Len(s) |->
              IF k > offset /\ k <= end THEN data[k - offset]
              ELSE IF k <= Len(s) THEN s[k] ELSE b]

(* The bytes of s that a read of n at offset finds.                        *)
Slice(s, offset, n) ==
  SubSeq(s, offset + 1, IF offset + n < Len(s) THEN offset + n ELSE Len(s))

BytesUpTo(n) == UNION {[1 .. k -> Bytes] : k \in 1 .. n}

NoReply == [call |-> <<>>, ret |-> 0, data |-> <<>>]

(* The result of a call; only the calls on bytes are told apart.           *)
Reply(call, ret, data) ==
  reply' = [call |-> call, ret |-> ret, data |-> data]
Answer(ret) == Reply(<<>>, ret, <<>>)
=============================================================================
