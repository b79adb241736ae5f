# EECE4029: TLA+ models and proofs

The repository holds five independent operating-systems assignments. This
directory models all of them: the threaded token streams of `hw3_pthreads`, the
buddy allocator with its kernel module in `hw5_vmm`, the battery monitor
`hw2_battcheck`, the network driver `hw4_loopback` and the enciphering file system of
`hw7_fuse`. All are checked with TLC. Every safety property that a run finds to hold, four
refinements among them, is also proved with TLAPS, for all sizes.

## 1. Inventory

### hw3_pthreads: streams

| part | state | operations |
|---|---|---|
| library (`streams.c`, `streams.h`) | per stream: mutex `lock`, condition `notifier`, semaphore `empty`, ring `buffer` of `BUFFER_SIZE` pointers, `buffer_read_count` per slot, `put_idx`, `num_consumers`; per connection: cursor `buffer_idx` | `init_stream`, `stream_connect`, `stream_disconnect`, `get`, `put`, `kill_stream` (empty) |
| thread functions (`streams.c`) | locals: the tokens a thread holds, its place in its producer list | `successor`, `times`, `merge`, `consumer`, `consume_single` |
| programs (`main.c`, `tests/*.c`) | which function runs on which stream, the connections | create, join, cancel |
| GUI (`gui/gui.c`) | GTK widgets | drawing only |

Every thread puts into its own stream and gets from the streams it was connected
to. A slot is *unread* while `buffer_read_count[i] < num_consumers`; `put` may
overwrite a slot that is not, `get` may read a slot that is. The producer waits in
two places (the semaphore, then a loop on the condition), a consumer in two loops
on the same condition, and every `get` and `put` wakes **one** waiter.
`stream_connect` and `stream_disconnect` change the counts without the mutex, also
while the threads run. Hard: interleavings of any number of threads, which waiter a
signal wakes, spurious wakeups, two consumers of one ring, connections that come and go,
liveness. Correct means: the semaphore counts
the slots that may be overwritten, no slot is read before it was filled, each
consumer sees each token once and in order, and every consumer ends.

### hw5_vmm: buddy allocator and /dev/vmm

| part | state | operations |
|---|---|---|
| `buddy.c`, `buddy.h` | a binary tree of nodes (`FREE`, `SPLIT`, `ALLOC`; index; size), the pool | `buddy_init`, `buddy_alloc`, `buddy_free`, `buddy_size`, `buddy_print`, `buddy_kill` |
| `vmm.c` | the pool's bytes, globals `current_idx` and `read_size`, the device registration | six ioctls, `init_mod`, `exit_mod` |
| `vmm_test.c` | - | `get_mem`, `free_mem`, `write_mem`, `read_mem`, each one to three ioctls |
| `buddy_test.c` | - | a fixed sequence of calls |

Hard: orders of alloc and free, pools that are no power of two, an ioctl selects and
another acts, byte-by-byte loops without a lock. Correct means: pages are disjoint,
inside the pool and large enough, free space is coalesced, a request is refused only
when there is no room, a page reads back what was written to it, and nothing outside the
pool is written, not even by a program that takes the -1 of a refused request for a page.

### hw2_battcheck: battery monitor

State: the list of batteries, with for each the last `_BST` values, the ones of the
poll before and the percentage; the kernel thread; the `/proc` entry. `check_thread`
polls every battery through ACPI and reports five events by comparing with the last
poll, `read_proc` prints the percentages concurrently, `init_battcheck` and
`exit_battcheck` load and unload. Hard: failed or partial `_BST` packages, failures
in the middle of loading, unloading while the thread or a reader walks the list, a
stop request that comes as the thread goes to sleep. Correct means: nobody uses a freed
battery, a battery that becomes low is reported once, the percentage is right, and
`rmmod` ends.

### hw4_loopback: network driver

State: two devices, registered and opened or not, and the packets on their way.
`os_create_header` addresses a frame to the other device; `os_start_xmit` toggles the
third octet of both IP addresses, copies the packet, hands it to the other device
and frees the original; `os_open`, `os_stop`, `init_mod`, `exit_mod`. Hard: no memory
for the copy, a device that cannot be registered, devices that go down with packets
under way. Correct means: the two crossings of a request and its answer cancel
out, and every answer comes from the address that was pinged.

### hw7_fuse: enciphering file system

State: the uid given at the mount, and, in the operating system, the files of
`rootdir` and the open descriptors; FUSE keeps the descriptors it was given in
`fuse_file_info`. `bbfs.c` has 34 handlers, nearly all one system call each;
`bb_write` adds 1 to every byte and `bb_read` takes it away again, if the uid of the
mount is that of the process. `main` mounts, `log.c` only prints. Hard: arithmetic on
signed chars, short writes at any offset, bytes nobody wrote, files that are renamed or
unlinked while open, mounts for one user after mounts for another, system calls that
fail half way (`bb_mknod`). Correct means: through a mount of the right user the
shifted files are ordinary files, the right and the wrong user never read each
other's bytes as they were written, and no descriptor is lost.

`PROJECT.json` lists the hazards of all five, at their lines.

## 2. Modules

```
              Reconnect
                 |
Topology ---- Streams
   |             |   \
   |             |    SingleReader ---(refines)--> Channels
   |             |         |                          |
   +- Programs - StreamPrograms                 ChannelPrograms
                       \   |                          |
                 SingleReaderPrograms ---(refines)----+

Buddy ---(refines)--> AllocatorCalls        Bbfs ---(refines)--> PlainFiles
  |                         |                  \                     |
Pages ------------------ Allocator              +----- FileCalls -----+
                            |
                           Vmm              Battcheck             Loopback

Proofs (each extends the module it is named after):
  StreamsProof ----------+
  ChannelProgramsProof --+-- SingleReaderProof (with SingleReaderPrograms)
  BuddyProof    VmmProof    BattcheckProof    LoopbackProof    BbfsProof
```

* **Topology**: which streams there are and how they are connected. Every thread is
  handed one stream, so the two share a name.
* **Streams**: `get` and `put`. Variables carry the names of `streams.h`; `pc` says
  where in the two functions a thread is. One action per stretch between two
  synchronisation points: `CallGet`, `Acquire` (also the relocking in
  `pthread_cond_wait`), `GetAhead` and `GetFresh` (the two wait loops), `GetTake`
  (everything from the read to the unlock), `CallPut`, `SemWait`, `PutRoom`,
  `PutWrite`. A signal wakes any one sleeper; `SpuriousWakeup` is a wakeup without
  one. `LibSpec` is the library under its most general client: any thread calls
  `get` and `put` at any time.
* **Channels**: the abstract specification of a stream with one consumer, a bounded
  FIFO queue. **SingleReader** maps the ring to it: the queue is what lies between
  the consumer's cursor and the producer's.
* **Reconnect**: `stream_connect` and `stream_disconnect` called by the main thread of
  `tests/disconnect_reconnect.c` between its `consume_single`s, while the successor
  puts. They take no lock, so they are taken apart at every load and store that `get`
  or `put` can come between: the cursor, then the count of consumers; for each slot the
  load of its read count for the test, and the load and the store of the decrement. `old` records which tokens all had read when a
  consumer connected.
* **Programs**: the thread functions, as what each does between two calls; a thread
  is characterised by the tokens it holds (`held`), how many it has put (`sent`) and,
  for a consumer, what it has printed (`got`). **StreamPrograms** runs them on the
  library, **ChannelPrograms** on ideal queues, **SingleReaderPrograms** relates
  the two.
* **Pages**: intervals of the pool. **Allocator**: what `buddy.h` promises, as operations
  on a set of pages. **AllocatorCalls**: the same as seen by a caller, who asks and is
  answered later; a call takes effect once, for the argument it was made with.
  **Buddy**: the tree. Its recursive functions are a stack machine: `cur` is the node of
  the running call, `stack` its callers and the side each of them has called, `rt` what
  was returned. `_buddy_free` returns to every caller (`op = "back"`), which joins its
  halves; `_buddy_alloc` and `_buddy_size` leave no caller that has called its second
  side, since it returns what that call returns. `asked` records the requests, for
  `TightFit`. Under the refinement `buddy_free` takes effect when it marks the node, not
  when it returns. **Vmm**: the ioctls on any allocator that keeps the promises of
  `Allocator`, as `Buddy` does; a process between two ioctls, or between two bytes of one,
  is interleaved with the others. `get_mem` hands on what `IOCTL_ALLOC` returned and nobody
  looks at it (`vmm_test.c:62-67`), so the -1 of a refused request is in `own` like any
  page: it is selected, written, read and freed, and the tests of `vmm.c:75` and `96` are what
  refuses it. `want` and `text` record what was asked for and written, for the properties.
* **Battcheck**: `insmod`/`rmmod`, the thread and a reader of `/proc/battcheck` as three
  processes. A poll stores the first elements of the package or none of them, then
  everything up to the next battery is one step (`report`). The state word is the set
  of its bits. `lows` and `risen` record what was reported, for `LowToldOnce`.
* **Loopback**: the driver; the stack around it (pings, the backlog of `netif_rx`,
  delivery, answers) is external and does what `bringup.sh` and the README's
  `/etc/hosts` set it up to do.

* **FileCalls**: what `pread`, `pwrite` and `truncate` make of bytes. **PlainFiles**: what
  the file system promises, files of bytes and handles on them. **Bbfs**: the handlers
  of `bbfs.c`. Inodes, names and descriptors are those of the operating system
  (external); `given` are the descriptors FUSE holds, `making` the one a `bb_mknod` has
  open. Every handler is one action but `bb_mknod`, whose `open` and `close` others can
  come between. `Fails` is the failure of any handler's system call. `Encipher` and
  `Decipher` compute with C's `%` and conversion to `char`. `wrote` records who wrote each
  byte, as what. Under the refinement a file's content is what `bb_read` would return
  (`Out`), and the byte a gap reads as is what it makes of a 0.

The `MC*` modules give the constants their values. Definitions named `X_Something`
next to a definition `X` are faulty variants of it; no specification uses them. They are
there to show that a property can fail: with `X_Something` in the place of `X`, TLC
finds it violated (`PROJECT.json`, "mutants").

## 3. Runs

| run | what it checks |
|---|---|
| `streams` | three threads, stream `a` read by `b` and `c`, `b` read by `c`, ring of 2, spurious wakeups, any calls: the inductive invariant `LibInv`, `SemaphoreCountsFreeSlots`, `OnlyPutTokensAreTaken` |
| `merge_part` | two successors, merge and a consumer on the library, with spurious wakeups: every ring implements a FIFO (`FifoPerStream`), the unread slots are the ones between the cursors, `put` never sleeps after its semaphore; what is printed, refinement of the program on ideal queues, and `ImplementsIdealFairness`, that no thread that could go on there is left waiting |
| `two_successors` | the README's pipeline with two successors on ideal queues, its consumer reading a third successor too: the consumer prints both sequences in order, and ends |
| `main_program` | **violated**: `main.c`'s pipeline with one successor does not always print 5, 7, 10, 14, ... |
| `three_consumers` | **violated**: `tests/one_to_many.c` may hang |
| `reconnect` | **violated**: a consumer that connects while the producer runs does not only see fresh tokens |
| `buddy` | pools of 0, 1, 4, 6 and 7 bytes, all requests and indexes, the recursion call by call: refinement of `AllocatorCalls`, `Coalesced`, `TightFit`, `NeverRefusesInVain`, `OnlyPagesMatter` |
| `vmm_one` | any allocator that may refuse any request, one process that writes no more than it asked for: nothing outside the pool is written (`InsideThePool`), its pages stay intact (`PagesIntact`) and read back (`PageReadsBack`) |
| `vmm_two` | **violated**: with two processes a read may return another page (`PageReadsBack`) |
| `battcheck` | two batteries and another device, partial and failed polls, concurrent reader, loading that fails, unloading at any time: `NoUseAfterFree`, `LowToldOnce`, `PercentRounds`, `UnloadEnds` |
| `loopback` | three pings at a time on two devices that are opened, closed and unloaded, any packet dropped for lack of memory: `PingedAddressAnswers` |
| `bbfs` | two names, two inodes, two descriptors, every call in every order, every failure, short writes, mounts for either user: refinement of `PlainFiles`, `ReadsBack`, `DescriptorsAccountedFor` |

### What the violated runs show

* `main_program` and `three_consumers` have one root: a slot counts its reads, not
  its readers. A consumer that is a full ring ahead finds its old slot still unread
  (because the slower consumer has not read it) and reads it again, which uses up the
  slower one's read. With two times threads on one successor, one multiplies a token
  twice and the other misses it. With three consumers, in addition, the single
  `pthread_cond_signal` of a call may wake the one thread that has nothing to do,
  and all four threads end up asleep.
* `reconnect`: connecting raises `num_consumers`, and with it every slot that all had
  read, whose count is the old number, counts as unread again. The new consumer starts
  on such a slot, and `get` hands it a token that everyone had read. When it has read it
  the slot's count equals `num_consumers` once more, and the semaphore is posted a second
  time for the same slot.
* `vmm_two`: `current_idx` is one variable for all processes and the ioctls of
  `write_mem` and `read_mem` are not one step.

`vmm.c:75` tests `bytes > size` where its comment calls for `>=`. `Outside` models it as
it is: with `Careful = FALSE`, programs that write more than they asked for, a write
changes the first byte of the next page and `PagesIntact` fails. The runs of `Vmm`
keep to careful programs, for which the test matters only after a refused request: the
size of the page -1 is -1, and the first byte is refused.

### Bounds

`three_consumers` uses the source's 10 rounds and ring of 5. `two_successors` has 7
rounds, in which the merge alternates in both directions; `merge_part` has 2, and its
programs go round its ring of 2 because every producer runs ahead; its numbers reach 12,
more than a successor can put before the consumer ends. `reconnect` has a ring of 3 and
4 tokens, so that the ring is gone round once. Elsewhere the ring is 2: `BUFFER_SIZE` is a parameter of the
models and the proofs hold for every size; 2 is the smallest ring on which `get`'s
test for being ahead can fail, 3 the smallest on which the cursors can be apart
by neither 0 nor a neighbour. (A ring of 1 blocks every `get`: the slot before
`put_idx` is the only slot.) Tokens are the numbers the threads compute; in the
most general client one or two model values, since the library only copies them.
The buddy pools cover a power of two, an even and an odd size that are not, 1 and 0;
they split twice, so that joins go up two levels. The pool of 3 bytes in `vmm_one` has room
for three pages, or for two of different sizes in either order, at any place: the
allocator below is not only the buddy tree. The counterexample of `vmm_two` needs two pages
of one byte. The model's memory has one byte before the pool and a pool's length behind it,
more than any index and length of the runs add up to. Battery levels 0, 1, 2 and the -1
of a missing value lie on both sides of every threshold of the two batteries and on
it, and give percentages that are rounded up and down. Three pings put requests and
answers of both directions in the backlog at once.

In `bbfs` two names and two inodes are what renames over a file, second links and an
unlinked open file need, two descriptors what two handles on one file, or one next to a
`bb_mknod`, need. Files have up to 2 bytes, so that a write can leave a gap, be cut short
and overlap another. Programs write the byte 127: enciphered it wraps to -128, and the 0 of
a gap wraps the other way; `CipherInverse` is proved for all bytes. One `bb_mknod` is under
way at a time, files are opened for reading and writing, a system call fails with one
errno (1), and extended attributes have 0 or 1 bytes. Names, inodes and descriptors are
interchangeable (symmetry; the properties are safety properties).

### Fairness and deadlock

`FairSpec` asks for weak fairness of each thread: a thread that can run is
eventually scheduled. No fairness is assumed of the mutex or of the choice a signal
makes. It also asks for finitely many spurious wakeups in each
run (as many as one likes): with infinitely many, under weak fairness, a thread may
be woken for nothing for ever and keep taking the mutex from the others. `Battcheck`
asks that the thread runs and its timeout expires, that `rmmod` goes on when what it
waits for has happened, and that a reader that has begun ends; nobody is obliged to load,
unload or read. Deadlock is not checked for the stream programs, which stop when the
consumers have ended and `main` returns (`Joined`), nor for the most general client,
where two threads may wait for each other's tokens; a thread that hangs shows as
`ConsumersFinish` or `ImplementsIdealFairness` violated. In
`Reconnect` the producer stops after its last token. Deadlock is checked for the
allocator, the kernel module, the battery monitor, the network driver and the file
system.

## 4. Proofs

Everything here is proved for every value of the constants that the named assumptions
allow. Each inductive invariant was checked by TLC on the run's instance before it was
proved, and each proof has one lemma per action, or per kind of action. Invariants that
only the proofs need are defined at the head of the proof's module.

### Streams

`StreamsProof`, for every set of streams, connection relation, set of tokens and ring size
(`TopologyAssumption`, `StreamsAssumption`), and for any client of the library:
`TypeCorrect`, `LibInvariant`, `SemaphoreCorrect` and `TokensCorrect`.
`SemaphoreCountsFreeSlots` is not inductive: that `PutWrite` fills a slot that is not
unread needs what the wait loop established (`StillTrueAfterTheLoop`), which survives
the other threads' steps only because they need the mutex (`LockDiscipline`), and
that a `get` takes an unread slot needs the same of `GetFresh`. `OnlyPutTokensAreTaken`
needs `UnreadSlotsHoldTokens`. `LibInv` is the conjunction of these; the count of unread
slots changes by at most one because each action changes the read count of one slot. The
initial count 9999 enters as the assumption that a stream has at most that many consumers.

`SingleReaderProof` adds that a stream has at most one consumer
(`SingleReaderAssumption`), and proves, still for any client:

* `BacklogCorrect` (`UnreadIsTheBacklog`) and `PutWaitsOnce` (`PutNeverWaitsTwice`). The
  inductive invariant `ReaderInv` is `LibInv`, `UnreadIsTheBacklog`, that the read counts
  are compared with 1, and that whoever is inside `get` is the consumer whose cursor the
  backlog starts at. A full and an empty ring have the same cursors, so a step has to be
  followed through both cases and through the wrap of either cursor. That `put` never
  waits twice follows from `SemaphoreCountsFreeSlots`: with the slot it has claimed, a
  full backlog would be one slot too many.
* `FifoCorrect`: `LibSpec => FifoPerStream`. `GetTake` is the abstract receive, `PutWrite`
  the abstract send, every other step leaves the queues alone.

### Programs

Here tokens are the natural numbers (`Values = Nat`, a hypothesis of the theorems, since
the library itself takes any tokens), and the programs are pipelines as in `main.c`, the
README and the tests (`ProgramsAssumption`, `PipelineAssumption`).

`ChannelProgramsProof`: `IdealTypeCorrect` and `PrintsCorrect`
(`IdealSpec => []PrintsInOrder`), for any number of threads, any multipliers, any ring and
any number of rounds. The inductive invariant `ProgramInv` counts, for every stream, the
tokens its one reader has taken from it (`Taken`), and says what each thread function has
done with them: a queue holds the tokens that follow (`QueuesInOrder`), `times` has put all
but the one it holds, `consumer` has been at each producer equally often up to one
(`RoundRobin`), and `merge` has put all but those it holds. The heart is `MergeInStep`: the
last token that merge put of either producer is no larger than what comes next from the
other, without which the smaller of two tokens need not be the next one
(`SmallerIsNext`).

Back in `SingleReaderProof`: `IdealCorrect` (`Spec => ImplementsIdeal`), the program on the
library implements the program on ideal queues. Beyond `ReaderInv` this needs that a thread
inside a call is still in need of it (`CallsMatchPrograms`): the call was made steps ago, and
`Fetch` and `Pass` are one step. `LibraryPrintsInOrder` composes the two: with `queue` and
`received` standing for what the rings hold (`QueuesAreRings`), every consumer on the library
prints in order. The two variables occur neither in `Spec` nor in `PrintsInOrder`; they are
there because the proof system does not use the theorems of a module that is instantiated.

`main_program` and `three_consumers` show that with two consumers on a stream none of this
holds. The instance of `merge_part` has the tokens 0 to 12, because TLC enumerates them in
`FifoPerStream`; the one of `two_successors` has `Nat`.

### Network driver and battery monitor

`LoopbackProof`: `TypeCorrect` and `AnswersCorrect`, for any set of pings and any packets
dropped. The invariant `LoopInv` says of every
frame in the backlog exactly what it is (`FramesCross`): the request of a ping on the
other device than the one it was sent on, or its answer on that one, from the remote host
of that network to the local one, and at most one frame for each ping.

`BattcheckProof`: `TypeCorrect`, `UseAfterFreeCorrect`, `LowCorrect` and `PercentCorrect`, for any
devices, levels, capacities and warning levels (`BattcheckAssumption`: natural numbers, the
capacity not 0). In `BattInv`, `WhoIsAbout` relates the three processes: the thread and a
reader are there only in those states of `insmod` and `rmmod` in which every listed battery is
allocated, and that is why `rmmod` waits for both before it frees. `LevelTold` ties the
number of reports of a battery to the level of its last poll, whether the poll succeeded or
not; it holds of all batteries, listed or not, so that loading again starts from it.

### File system

`BbfsProof`, for any names, inodes, descriptors, bytes and errnos (`BbfsAssumption`, which
also keeps the model values for "no file" and "nobody" apart from everything else):

* `CipherInverse`: for every char, what `bb_write` stores is another char, and `bb_read`
  turns it back, and the other way round. It rests on what C's `%` and the conversion to
  `char` return, one lemma each, and a case for each end of the range.
* `DescriptorsNeverLeak`: `Spec => []DescriptorsAccountedFor`. The inductive invariant
  `DescriptorInv` adds the types of `dir`, `fds`, `given` and `making`: that a handler
  opens needs that the record it stores is not the one of a closed descriptor, and for a
  directory or a file that is so only by its `use`. The handlers fall into four kinds
  (descriptors untouched, opens and gives, closes what was given, `bb_mknod`), with a lemma
  each.
* `TypeCorrect` and `ReadsBackCorrect`. `ReadsBack` speaks of the present mount only; its
  invariant `FileInv` says of every byte in `rootdir`, whoever has mounted, that it is what
  the cipher made of the byte `wrote` records, or the byte itself if the wrong user wrote it,
  that the two sequences are equally long, and that an inode is free exactly when no name
  and no descriptor refers to it.

* `PlainFilesCorrect`, `Spec => ImplementsPlainFiles`, with a lemma for each kind of step:
  read, write (in part), cut, open, close, link and unlink, mount. Deciphering is applied
  byte by byte, so it commutes with `pread`, `pwrite` and `truncate`; what makes a write
  beyond the end work is that the 0 of a gap is deciphered to the byte `fill` that the
  abstract file is filled with.

### Buddy allocator

`BuddyProof`, for any pool sizes, requests of at least one byte and any indexes
(`PagesAssumption`). The code is recursive over trees, where one would argue by induction
over the tree; here the recursion is a stack machine, and the argument is the invariant
`BuddyInv` (theorem `BuddyInvariant`) of its single steps:

* `TreeOK`, the shape of the tree, in terms of intervals: of two nodes one lies inside a half
  of the other, which is split, or they are apart; a split has both its halves, and every
  node but the root is a half of a split. `WalkOK`: `cur` is a node and every caller on the
  stack is split.
* `CallersOK`: the callers of `_buddy_free` are the chain of nodes above `cur`, each a child
  of the next, with sizes that grow. Without it a join could remove a node that a caller
  further up, or `cur` itself, still refers to.
* `JoinsOK`: a split with two free halves is one of those callers, which has its join
  ahead of it, or is the node that `_buddy_alloc` has just split and goes down into. At
  the end of the call there is no caller, hence `CoalescedCorrect`.
* `SeekOK`: what a walk looks for (a free node that is large enough, the page that starts at
  or contains the index) is inside `cur` or inside a side that a caller has still to try. So a
  walk that ends without finding it has shown that it is nowhere in the tree. `FreedOK`:
  when `_buddy_free` has marked a node, no other page has that index.
* `AskedOK` (`TightFitCorrect`): a page's request is recorded and fits.

`AllocatorCorrect` (`BuddySpec => IsAllocator`) follows the steps: marking a node as allocated
is `Hand`, marking it as free is `TakeBack`, the return of `_buddy_size` is `Query`, each the
answer to the call that is pending, and all others change nothing a caller sees. That a
new page overlaps none is `TreeOK`; that -1 is the right answer to `buddy_free` and
`buddy_size` is `SeekOK`.

`NeverRefusesCorrect` and `OnlyPagesCorrect` relate the tree to the blocks that the pool can be
split into (`Level`, a recursive function on the depth). That `Level` satisfies its defining
equation is proved from explicit paths of halves (`Path`), and the inductions over size
and depth take a least counterexample. A block that is no node of the tree lies in a node
that is not split (`Placed`); a node that is split has a page in it, since nothing is left to
join (`PageIn`). So a block is split exactly if a page smaller than it lies in it, and after
a refusal a block that is large enough and without a page would lie in a free node that
is large enough, which `SeekOK` excludes.

### /dev/vmm

`VmmProof`, for any pool and any allocator that keeps the promises of `Allocator`
(`PagesAssumption`, `VmmAssumption`):

* `VmmTypeCorrect`, for any processes, careful or not, their requests refused or not: what
  they hold and select is -1 or lies at or behind the pool's start, and the device is
  registered as long as there is a pool.
* `InsideCorrect`, `PagesCorrect` and `PageReadsBackCorrect`, with two hypotheses: there is one process, and it is
  `Careful`. Neither can be dropped: `vmm_two` shows what a second process does, and section 3
  what `vmm.c:75` does to a careless one. The invariant `OneInv` says that pages are apart,
  inside the pool and large enough for their owner's request, that `current_idx` is what
  the call under way has selected (`Selects`), that `read_size` bytes from there are in some
  page (not always the one the call names: one byte behind -1 is the pool), that
  `IOCTL_WRITE` has found the size -1 if it is -1 that was selected, and what the loops have moved so far (`Moves`, `Reads`): a byte written goes
  to its own page, and the bytes before it are still there when the next one is written.

### Only model-checked

Liveness (`ConsumersFinish`, `ImplementsIdealFairness`, `UnloadEnds`), which is out of the
prover's reach. That every call of the allocator ends is not stated: the depth of the
recursion is bounded by the size of the pool, and `buddy_alloc(0)`, which does not end, is
excluded.

## 5. Not modelled

* Two consumers disconnected at once, and a consumer with several producers that
  disconnects: `stream_disconnect` leaves `prod_head` pointing at freed memory, and what
  the program does from then on is undefined unless the next `malloc` returns it.
* `tprintf`, `sleep`, memory that is never freed, `kill_stream` (empty), the GUI.
* Integer overflow of the tokens: the programs end after ten rounds.
* In the allocator: a request of 0 bytes (it splits for ever), a failed allocation
  of a node, two calls at once (one may free a node that the other is in). In the kernel
  module: calls of the allocator that are not atomic, unloading during an ioctl.
* In the battery monitor: a battery whose `_BIF` fails (its capacity of 0 is divided
  by), a thread that cannot be created, overflow of the percentage, the half-second
  period that the comment at `battcheck.c:229` calls 30 seconds. The -1 of a missing
  capacity is stored and compared as the code does, but no property says that it is not
  a level: the report of a low battery that it causes is right for `LowToldOnce`.
* In the network driver: packets that are not IPv4 (they are toggled all the same),
  padding, checksums, the memory of buffers (`loopback.c:104-107` tells the stack that the
  packet is gone and does not free it, a leak that is plain from the code), two processors in `os_start_xmit` at once, what the kernel does
  when `exit_mod` unregisters a device that never was registered.
* In the file system: permissions and attributes, extended attributes, targets of
  symbolic links, the entries of a listing and subdirectories' contents; two `bb_mknod`s at
  once; memory (the copy that `bb_write` never frees); `log.c`, which only prints. That
  `bb_truncate` and `bb_fsync` return -1 for every errno, and that `creat` gives a handle that
  cannot be read, is modelled, but no property is about it; `Fails` allows every failing
  handler both kinds of answer. Files are not opened with `O_APPEND`, with which `pwrite`
  ignores the offset. The byte that a gap reads as (-1 through the right user's mount,
  where a file system should give 0) is a parameter of `PlainFiles`, not something checked.

## 6. Plan

Done: streams and their programs, connecting and disconnecting at run time, allocator
and `/dev/vmm`, battery monitor, network driver, file system, and the proofs above. What
would come next, in this order:

1. The reports of a beginning charge or discharge, which compare whole state words,
   against the comments at `battcheck.c:256` and `266`.
2. The buddy tree with two ioctls walking it at once.
