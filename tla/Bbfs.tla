-------------------------------- MODULE Bbfs --------------------------------
(***************************************************************************)
(* The caesar-cipher file system of hw7_fuse (bbfs.c): the handlers that   *)
(* FUSE calls, on top of the directory rootdir of the system's own file    *)
(* system.  The bytes of a file are shifted by one on their way to rootdir *)
(* and back if the uid given at the mount is that of the process.          *)
(*                                                                         *)
(* The calls of the operating system are external: rootdir is one flat     *)
(* directory of names, each call is one atomic step, and each may fail     *)
(* (Errnos) and then changes nothing.  FUSE runs handlers in several       *)
(* threads; all but bb_mknod, which opens and closes, make at most one     *)
(* call that changes anything, and are one action here.  bb_fullpath only  *)
(* turns a name of the mount into the same name in rootdir.                *)
(***************************************************************************)
EXTENDS FileCalls

CONSTANTS
  Names,     \* the names in the mounted directory
  Root,      \* the mounted directory itself
  OpenWith,  \* the flags given to open: reading, writing or both
  Errnos,    \* what a system call may fail with
  Me,        \* getuid() of the bbfs process
  Uids,      \* the uids it may be mounted with
  Nobody     \* not a uid: nothing is mounted

Closed == [ino |-> NoFile, use |-> "closed"]
Flags == {"r", "w", "rw"}        \* of an open file
Positions == {"entries", "end"}  \* of a directory: some left, or none

ASSUME BbfsAssumption ==
  /\ Bytes \subseteq Char
  /\ MAXSIZE \in Nat
  /\ NoFile \notin Files \cup Handles /\ Root \notin Files \cup {NoFile}
  /\ NoFile \notin {"file", "dir", "other"} /\ NoFile \notin Seq(Char)
  /\ OpenWith \subseteq Flags
  /\ Errnos \subseteq Nat \ {0}
  /\ Me # 0                \* main does not run as root
  /\ Nobody \notin Uids \cup {Me} /\ Nobody \notin BOOLEAN

VARIABLES
  uid,     \* BB_DATA->uid
  dir,     \* dir[n]: the inode that name n is a link to
  kind,    \* kind[f]: what inode f is; NoFile: it is free
  raw,     \* raw[f]: the bytes in rootdir
  fds,     \* fds[h]: the inode descriptor h is open on, and what for
  given,   \* the descriptors FUSE has in a fuse_file_info
  making,  \* the descriptor of a bb_mknod between its open and its close
  wrote    \* observer: wrote[f][k]: who wrote byte k of f, and as what

disk == <<dir, kind, raw, wrote>>
vars == <<uid, disk, fds, given, making, reply>>

(* "only decrypt if this user is the one that is allowed to"               *)
Allowed == uid = Me

(* What C makes of % for negative numbers.                                 *)
Rem(a, b) == IF a >= 0 THEN a % b ELSE -((-a) % b)

(* The loop of bb_write, and that of bb_read, on one byte.                 *)
(* Mutant: the byte is not brought back into the range of a char.          *)
Encipher_Wide(c) == Rem(c + 1, 256)
Encipher(c) == ToChar(Rem(c + 1, 256))
Decipher(c) == IF c = 0 THEN ToChar(255) ELSE ToChar(Rem(c - 1, 256))

(* What bb_read makes of bytes it has read, and bb_write of bytes to write.*)
Out(s) == IF Allowed THEN [k \in DOMAIN s |-> Decipher(s[k])] ELSE s
In(s) == IF Allowed THEN [k \in DOMAIN s |-> Encipher(s[k])] ELSE s

Init ==
  /\ uid = Nobody
  /\ dir = [n \in Names |-> NoFile]
  /\ kind = [f \in Files |-> NoFile]
  /\ raw = [f \in Files |-> <<>>]
  /\ fds = [h \in Handles |-> Closed]
  /\ given = {}
  /\ making = NoFile
  /\ reply = NoReply
  /\ wrote = [f \in Files |-> <<>>]

-----------------------------------------------------------------------------
(* The operating system.                                                   *)

Gap == [byte |-> 0, by |-> Nobody]
Signed(data) == [k \in DOMAIN data |-> [byte |-> data[k], by |-> Allowed]]

(* An inode lives while a name or a descriptor refers to it.               *)
Live(d, open) ==
  {d[n] : n \in Names} \cup {open[h].ino : h \in Handles}

(* The disk once the names are d and the descriptors open, and the inodes  *)
(* that this leaves without any reference are free again.                  *)
Becomes(d, open, kinds) ==
  LET alive == Live(d, open)
      Keep(fn, none) == [f \in Files |-> IF f \in alive THEN fn[f] ELSE none]
  IN  /\ dir' = d
      /\ fds' = open
      /\ kind' = Keep(kinds, NoFile)
      /\ raw' = Keep(raw, <<>>)
      /\ wrote' = Keep(wrote, <<>>)

(* Only names and descriptors change.                                      *)
Refers(d, open) == Becomes(d, open, kind)

(* A free inode f becomes a k under the name n.                            *)
NewNode(n, f, k, open) ==
  /\ dir[n] = NoFile
  /\ kind[f] = NoFile
  /\ Becomes([dir EXCEPT ![n] = f], open, [kind EXCEPT ![f] = k])

(* The bytes of f become bytes, written by those in ghosts.                *)
Stores(f, bytes, ghosts) ==
  /\ raw' = [raw EXCEPT ![f] = bytes]
  /\ wrote' = [wrote EXCEPT ![f] = ghosts]
  /\ UNCHANGED <<dir, kind, fds>>

Exists(n) == dir[n] # NoFile
Is(n, k) == Exists(n) /\ kind[dir[n]] = k

-----------------------------------------------------------------------------
(* main, bb_init, bb_destroy and the end of the process.                   *)

(* "save the uid of the user that can encrypt and decrypt"                 *)
Mount(u) ==
  /\ uid = Nobody
  /\ uid' = u
  /\ Answer(0)
  /\ UNCHANGED <<disk, fds, given, making>>

(* fuse_main returns, or the process is killed: its descriptors are closed,*)
(* and nothing else of it was not on the disk already.                     *)
Exit ==
  /\ uid # Nobody
  /\ uid' = Nobody
  /\ given' = {} /\ making' = NoFile
  /\ Refers(dir, [h \in Handles |-> Closed])
  /\ Answer(0)

-----------------------------------------------------------------------------
(* "Report errors to logfile and give -errno to caller"                    *)
bb_error(errno) == Answer(-errno)

(* A system call has failed: its handler returns -errno and has done       *)
(* nothing.  Only bb_truncate and bb_fsync, which drop what bb_error gives *)
(* them, and bb_release return -1.                                         *)
Fails ==
  /\ uid # Nobody
  /\ (\E errno \in Errnos : bb_error(errno)) \/ Answer(-1)
  /\ UNCHANGED <<uid, disk, fds, given, making>>

(* What a handler does when its system call succeeds.                      *)
Handler(Succeeds) == uid # Nobody /\ Succeeds /\ UNCHANGED <<uid, making>>

(* The handlers that return 0 and touch no descriptor.                     *)
Done == Answer(0) /\ UNCHANGED given

(* A handler after which everything in this model is as it was.            *)
Leaves(ret) == Handler(Answer(ret) /\ UNCHANGED <<disk, fds, given>>)

(* These only ask.  The last two return a size in bytes.                   *)
AttrSizes == {0, 1}  \* no extended attribute, or some
bb_getattr(n) == Exists(n) /\ Leaves(0)
bb_readlink(n) == Is(n, "other") /\ Leaves(0)
bb_statfs(n) == Exists(n) /\ Leaves(0)
bb_access(n) == Exists(n) /\ Leaves(0)
bb_getxattr(n) == Exists(n) /\ \E size \in AttrSizes : Leaves(size)
bb_listxattr(n) == Exists(n) /\ \E size \in AttrSizes : Leaves(size)
Asks(n) ==
  \/ bb_getattr(n) \/ bb_readlink(n) \/ bb_statfs(n) \/ bb_access(n)
  \/ bb_getxattr(n) \/ bb_listxattr(n)

(* bb_mknod of a regular file: open with O_CREAT and O_EXCL ...  (One      *)
(* bb_mknod at a time, to bound the descriptors in flight.)                *)
bb_mknod_open(n) ==
  /\ uid # Nobody
  /\ making = NoFile
  /\ \E f \in Files, h \in Handles :
       /\ fds[h] = Closed
       /\ NewNode(n, f, "file", [fds EXCEPT ![h] = [ino |-> f, use |-> "w"]])
       /\ making' = h
  /\ UNCHANGED <<uid, given, reply>>

(* ... and close, which gives the descriptor up even if it reports an      *)
(* error: then bb_mknod fails although the file is there.                  *)
(* Mutant: the descriptor is left open.                                    *)
AfterClose_Open(h) == fds
AfterClose(h) == [fds EXCEPT ![h] = Closed]
bb_mknod_close ==
  /\ making # NoFile
  /\ Refers(dir, AfterClose(making))
  /\ making' = NoFile
  /\ Answer(0) \/ \E errno \in Errnos : bb_error(errno)
  /\ UNCHANGED <<uid, given>>

(* mkfifo and mknod in bb_mknod, bb_symlink, bb_mkdir.                     *)
Makes(n, k) ==
  Handler(Done /\ \E f \in Files : NewNode(n, f, k, fds))
bb_mknod_special(n) == Makes(n, "other")
bb_symlink(n) == Makes(n, "other")
bb_mkdir(n) == Makes(n, "dir")

Removes(n) == Done /\ Refers([dir EXCEPT ![n] = NoFile], fds)
bb_unlink(n) == Handler(Exists(n) /\ ~ Is(n, "dir") /\ Removes(n))
bb_rmdir(n) == Handler(Is(n, "dir") /\ Removes(n))

(* rename replaces what newpath was, a directory only by a directory, and  *)
(* does nothing between two links to one inode.                            *)
Renamed(n, m) ==
  IF dir[n] = dir[m] THEN dir
  ELSE [dir EXCEPT ![m] = dir[n], ![n] = NoFile]
bb_rename(n, m) ==
  Handler(/\ Exists(n)
          /\ dir[m] = NoFile \/ (Is(n, "dir") <=> Is(m, "dir"))
          /\ Done
          /\ Refers(Renamed(n, m), fds))

bb_link(n, m) ==
  Handler(/\ Exists(n) /\ ~ Is(n, "dir")
          /\ dir[m] = NoFile
          /\ Done
          /\ Refers([dir EXCEPT ![m] = dir[n]], fds))

(* The attributes themselves are not in this model.  In another user's     *)
(* mount bb_chmod reports success and does nothing.                        *)
bb_chmod(n) == (Allowed => Exists(n)) /\ Leaves(0)
bb_chown(n) == Exists(n) /\ Leaves(0)
bb_utime(n) == Exists(n) /\ Leaves(0)
bb_setxattr(n) == Exists(n) /\ Leaves(0)
bb_removexattr(n) == Exists(n) /\ Leaves(0)
SetsAttribute(n) ==
  \/ bb_chmod(n) \/ bb_chown(n) \/ bb_utime(n)
  \/ bb_setxattr(n) \/ bb_removexattr(n)

(* A file grows by zero bytes in rootdir.                                  *)
Cuts(f, n) ==
  /\ Stores(f, Resized(raw[f], n, 0), Resized(wrote[f], n, Gap))
  /\ Done

bb_truncate(n, newsize) ==
  Handler(Is(n, "file") /\ Cuts(dir[n], newsize))
bb_ftruncate(h, offset) ==
  Handler(fds[h].use \in {"w", "rw"} /\ Cuts(fds[h].ino, offset))

(* bb_fgetattr only asks, bb_fsync changes nothing that a program can see, *)
(* bb_flush and bb_fsyncdir do nothing.                                    *)
bb_fgetattr(h) == fds[h].use \in Flags /\ Leaves(0)
bb_fsync(h) == fds[h].use \in Flags /\ Leaves(0)
bb_flush(h) == fds[h].use \in Flags /\ Leaves(0)
bb_fsyncdir(h) == fds[h].use \in Positions /\ Leaves(0)
Unseen(h) == bb_fgetattr(h) \/ bb_fsync(h) \/ bb_flush(h) \/ bb_fsyncdir(h)

-----------------------------------------------------------------------------
(* Descriptors.                                                            *)

(* fi->fh = fd                                                             *)
Gives(h) == given' = given \cup {h} /\ Answer(0)

bb_open(n, h, flags) ==
  Handler(/\ Is(n, "file")
          /\ fds[h] = Closed
          /\ Gives(h)
          /\ Refers(dir, [fds EXCEPT ![h] = [ino |-> dir[n], use |-> flags]]))

(* creat: a new file or an old one emptied, open for writing only.         *)
bb_create(n, h) ==
  Handler(/\ fds[h] = Closed
          /\ Gives(h)
          /\ \/ \E f \in Files :
                  NewNode(n, f, "file",
                          [fds EXCEPT ![h] = [ino |-> f, use |-> "w"]])
             \/ /\ Is(n, "file")
                /\ raw' = [raw EXCEPT ![dir[n]] = <<>>]
                /\ wrote' = [wrote EXCEPT ![dir[n]] = <<>>]
                /\ fds' = [fds EXCEPT ![h] = [ino |-> dir[n], use |-> "w"]]
                /\ UNCHANGED <<dir, kind>>)

(* The bytes pread finds.                                                  *)
(* Mutant: the offset is ignored.                                          *)
Pread_FromStart(h, size, offset) == Slice(raw[fds[h].ino], 0, size)
Pread(h, size, offset) == Slice(raw[fds[h].ino], offset, size)

bb_read(h, size, offset) ==
  Handler(/\ fds[h].use \in {"r", "rw"}
          /\ LET buf == Pread(h, size, offset)
             IN  Reply(<<"read", h, offset, size>>, Len(buf), Out(buf))
          /\ UNCHANGED <<disk, fds, given>>)

(* "get a mutable copy of the buffer", "encrypt all bytes"; pwrite may     *)
(* write only the first count of them.                                     *)
(* Mutant: all bytes but the last are encrypted.                           *)
Copy_ButLast(data) == In(SubSeq(data, 1, Len(data) - 1)) \o <<data[Len(data)]>>
Copy(data) == In(data)
bb_write(h, data, offset, count) ==
  Handler(LET f == fds[h].ino
              part == SubSeq(Copy(data), 1, count)
          IN  /\ fds[h].use \in {"w", "rw"}
              /\ offset + Len(data) <= MAXSIZE
              /\ Stores(f, Overlaid(raw[f], offset, part, 0),
                        Overlaid(wrote[f], offset,
                                 SubSeq(Signed(data), 1, count), Gap))
              /\ Reply(<<"write", h, offset, data>>, count, <<>>)
              /\ UNCHANGED given)

(* close and closedir give the descriptor up in any case.                  *)
bb_release(h) ==
  /\ h \in given
  /\ fds[h].use \in Flags
  /\ given' = given \ {h}
  /\ Refers(dir, AfterClose(h))
  /\ Answer(0) \/ Answer(-1)
  /\ UNCHANGED <<uid, making>>

bb_opendir(f, h) ==
  Handler(/\ f = Root \/ \E n \in Names : dir[n] = f /\ Is(n, "dir")
          /\ fds[h] = Closed
          /\ Gives(h)
          /\ Refers(dir, [fds EXCEPT ![h] = [ino |-> f, use |-> "entries"]]))

(* The loop that hands every entry to filler; -ENOMEM if filler takes no   *)
(* more.  At the end of the directory readdir returns NULL without setting *)
(* errno: what bb_error then reports is left over from an earlier call.    *)
ENOMEM == 12
bb_readdir(h) ==
  /\ h \in given
  /\ fds[h].use \in Positions
  /\ \/ /\ fds[h].use = "entries"
        /\ \/ Answer(0) /\ fds' = [fds EXCEPT ![h].use = "end"]
           \/ /\ Answer(-ENOMEM)
              /\ \E p \in Positions : fds' = [fds EXCEPT ![h].use = p]
     \/ /\ fds[h].use = "end"
        /\ \E errno \in Errnos \cup {0} : bb_error(errno)
        /\ UNCHANGED fds
  /\ UNCHANGED <<uid, disk, given, making>>

bb_releasedir(h) ==
  /\ h \in given
  /\ fds[h].use \in Positions
  /\ given' = given \ {h}
  /\ Refers(dir, AfterClose(h))
  /\ Answer(0)
  /\ UNCHANGED <<uid, making>>

-----------------------------------------------------------------------------
(* FUSE calls a handler with a name, or with a handle it was given.        *)
OnName(n) ==
  \/ Asks(n)
  \/ bb_mknod_open(n) \/ bb_mknod_special(n) \/ bb_symlink(n) \/ bb_mkdir(n)
  \/ bb_unlink(n) \/ bb_rmdir(n)
  \/ \E m \in Names : bb_rename(n, m) \/ bb_link(n, m)
  \/ SetsAttribute(n)
  \/ \E size \in 0 .. MAXSIZE : bb_truncate(n, size)
  \/ \E h \in Handles :
       bb_create(n, h) \/ \E flags \in OpenWith : bb_open(n, h, flags)

OnHandle(h) ==
  \/ Unseen(h)
  \/ bb_readdir(h) \/ bb_release(h) \/ bb_releasedir(h)
  \/ \E size \in 0 .. MAXSIZE : bb_ftruncate(h, size)
  \/ \E size \in 1 .. MAXSIZE, offset \in 0 .. MAXSIZE - 1 :
       bb_read(h, size, offset)
  \/ \E data \in BytesUpTo(MAXSIZE), offset \in 0 .. MAXSIZE - 1 :
       \E count \in 1 .. Len(data) : bb_write(h, data, offset, count)

Next ==
  \/ \E u \in Uids : Mount(u)
  \/ Exit
  \/ Fails
  \/ bb_mknod_close
  \/ \E n \in Names : OnName(n)
  \/ \E h \in given : OnHandle(h)
  \/ \E f \in Files \cup {Root}, h \in Handles : bb_opendir(f, h)

Spec == Init /\ [][Next]_vars

-----------------------------------------------------------------------------
(* Type correctness.                                                       *)
TypeOK ==
  /\ uid \in Uids \cup {Nobody}
  /\ dir \in [Names -> Files \cup {NoFile}]
  /\ kind \in [Files -> {"file", "dir", "other", NoFile}]
  /\ \A f \in Files : \A k \in 1 .. Len(raw[f]) : raw[f][k] \in Char
  /\ fds \in [Handles -> [ino : Files \cup {NoFile, Root},
                          use : Flags \cup Positions \cup {"closed"}]]
  /\ given \subseteq Handles
  /\ making \in Handles \cup {NoFile}
  /\ reply.ret \in Int
  /\ \A f \in Files :
       kind[f] = NoFile <=> f \notin Live(dir, fds)

(* Every descriptor that is open is in the hands of FUSE, or in a bb_mknod *)
(* that is about to close it: no sequence of calls, of any outcome, leaks  *)
(* one, and none is used after it was closed.                              *)
DescriptorsAccountedFor ==
  /\ given \cup ({making} \ {NoFile}) = {h \in Handles : fds[h] # Closed}
  /\ making \notin given

(* The README's example, for any sequence of mounts: what a mount of the   *)
(* right user wrote reads as it was written in every mount of the right    *)
(* user and is shifted in every other, and the other way round.            *)
ReadsBack ==
  uid # Nobody =>
    \A f \in Files : \A k \in DOMAIN wrote[f] :
      LET w == wrote[f][k]
      IN  w.by \in BOOLEAN => (Out(raw[f])[k] = w.byte <=> w.by = Allowed)

(* What programs see: the bytes of the files, the files they have handles  *)
(* on, and the byte that a 0 in rootdir reads as.                          *)
Content ==
  [f \in Files |-> IF kind[f] = "file" THEN Out(raw[f]) ELSE NoFile]
HandleOn ==
  [h \in Handles |-> IF fds[h].use \in Flags THEN fds[h].ino ELSE NoFile]
Fill == Out(<<0>>)[1]

Plain ==
  INSTANCE PlainFiles WITH content <- Content, handle <- HandleOn, fill <- Fill

(* Seen through a mount, the shifted files in rootdir are plain files: see *)
(* PlainFiles.                                                             *)
ImplementsPlainFiles == Plain!PlainSpec
=============================================================================
