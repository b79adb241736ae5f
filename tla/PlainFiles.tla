----------------------------- MODULE PlainFiles -----------------------------
(***************************************************************************)
(* What the file system of hw7_fuse promises to the programs that use it   *)
(* (abstract specification): files of bytes, and handles on files.  A read *)
(* returns the bytes the file holds, a write replaces the bytes it names,  *)
(* a failed call changes nothing, and a file stays while a handle is on it,*)
(* whatever becomes of its name.                                           *)
(*                                                                         *)
(* Two things are not those of an ordinary file system.  The bytes of a    *)
(* gap, which nobody wrote, read as fill, not as 0.  And between two       *)
(* mounts every byte on the disk may be seen through another shift.        *)
(***************************************************************************)
EXTENDS FileCalls

VARIABLES
  content,   \* content[f]: the bytes of f; NoFile: there is no such file
  handle,    \* handle[h]: the file h is on
  fill       \* the byte a gap reads as, and the shift of all bytes

plainVars == <<content, handle, fill, reply>>

PlainInit ==
  /\ content = [f \in Files |-> NoFile]
  /\ handle = [h \in Handles |-> NoFile]
  /\ fill = 0
  /\ reply = NoReply

(* An answer without bytes: success or an error.                           *)
NoBytes == reply'.ret <= 0 /\ Answer(reply'.ret)

(* A call that fails, or that has no effect on files and handles (some     *)
(* return the size of what they were asked for).                           *)
Nothing ==
  /\ Answer(reply'.ret)
  /\ UNCHANGED <<content, handle, fill>>

Read(h, offset, n) ==
  /\ reply'.call = <<"read", h, offset, n>>
  /\ handle[h] # NoFile
  /\ LET data == Slice(content[handle[h]], offset, n)
     IN  Reply(<<"read", h, offset, n>>, Len(data), data)
  /\ UNCHANGED <<content, handle, fill>>

(* All of the data or the first part of it.                                *)
Write(h, offset, data, n) ==
  /\ Reply(<<"write", h, offset, data>>, n, <<>>)
  /\ n \in 1 .. Len(data)
  /\ handle[h] # NoFile
  /\ content' = [content EXCEPT ![handle[h]] =
                   Overlaid(@, offset, SubSeq(data, 1, n), fill)]
  /\ UNCHANGED <<handle, fill>>

SetSize(f, n) ==
  /\ Answer(0)
  /\ content[f] # NoFile
  /\ UNCHANGED <<handle, fill>>
  /\ content' = [content EXCEPT ![f] = Resized(@, n, fill)]

(* A new file is empty, and seen before the call that makes it returns:    *)
(* until then the call itself has a handle on it.                          *)
Appear(h, f) ==
  /\ UNCHANGED <<reply, fill>>
  /\ handle[h] = NoFile
  /\ content[f] = NoFile
  /\ handle' = [handle EXCEPT ![h] = f]
  /\ content' = [content EXCEPT ![f] = <<>>]

(* Only a file without a handle disappears.                                *)
Disappear(f) ==
  /\ NoBytes
  /\ content[f] # NoFile
  /\ \A h \in Handles : handle[h] # f
  /\ content' = [content EXCEPT ![f] = NoFile]
  /\ UNCHANGED <<handle, fill>>

OpenFile(h, f) ==
  /\ Answer(0)
  /\ handle[h] = NoFile
  /\ content[f] # NoFile
  /\ handle' = [handle EXCEPT ![h] = f]
  /\ UNCHANGED <<content, fill>>

(* A new file, or an old one emptied, and a handle on it.                  *)
CreateFile(h, f) ==
  /\ Answer(0)
  /\ handle[h] = NoFile
  /\ handle' = [handle EXCEPT ![h] = f]
  /\ content' = [content EXCEPT ![f] = <<>>]
  /\ UNCHANGED fill

(* With the last handle on it a file that has no name goes.                *)
CloseFile(h) ==
  /\ NoBytes
  /\ handle[h] # NoFile
  /\ handle' = [handle EXCEPT ![h] = NoFile]
  /\ \/ UNCHANGED content
     \/ /\ \A k \in Handles \ {h} : handle[k] # handle[h]
        /\ content' = [content EXCEPT ![handle[h]] = NoFile]
  /\ UNCHANGED fill

(* Unmounting ends all handles, mounting begins without any; files that    *)
(* have no name are gone, and of the others no byte is lost: all are seen  *)
(* through one new shift.                                                  *)
Remount ==
  /\ Answer(0)
  /\ handle' = [h \in Handles |-> NoFile]
  /\ fill' \in Char
  /\ content' \in
       {[f \in Files |->
           IF f \in gone \/ content[f] = NoFile THEN NoFile
           ELSE [k \in 1 .. Len(content[f]) |->
                   ToChar(content[f][k] + fill' - fill)]] :
        gone \in SUBSET {handle[h] : h \in Handles}}

PlainNext ==
  \/ Nothing
  \/ \E f \in Files :
       \/ Disappear(f)
       \/ \E n \in 0 .. MAXSIZE : SetSize(f, n)
  \/ \E h \in Handles :
       \/ CloseFile(h)
       \/ \E f \in Files : Appear(h, f) \/ OpenFile(h, f) \/ CreateFile(h, f)
       \/ \E offset \in 0 .. MAXSIZE :
            \/ \E n \in 0 .. MAXSIZE : Read(h, offset, n)
            \/ \E data \in BytesUpTo(MAXSIZE), n \in 1 .. MAXSIZE :
                 Write(h, offset, data, n)
  \/ Remount

PlainSpec == PlainInit /\ [][PlainNext]_plainVars
=============================================================================
