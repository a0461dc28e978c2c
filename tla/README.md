# A TLA+ model of xv6

This directory holds TLA+ specifications of the xv6 kernel of this repository,
of the user programs whose correctness is not obvious, and of `mkfs`.  TLC
checks them on small instances (`MC*.tla`, `MC*.cfg`); TLAPS checks the proofs
of `LogRefinement` and the modules named `*Proofs`, which hold for every value of
the constants.
Names follow the source: the action `begin_op` models `begin_op()`.  A
definition whose comment begins with "Mutant" is not part of the model: it is a
plausible bug, used to see that a property notices it.  `PROJECT.json` says
which lines of the source each definition models.

## 1. The system and its parts

| Part | Source | Module | What is hard about it |
|---|---|---|---|
| Log | `log.c` | `Log` | crashes at any disk write, group commit, absorption |
| Buffer cache, sleep-locks | `bio.c`, `sleeplock.c` | `Bcache` | recycling a buffer that somebody is about to use, pins |
| Disk driver | `virtio_disk.c` | `VirtioDisk` | memory shared with a device, completions out of order, acknowledgement races |
| Blocks, file contents, `mkfs` | `fs.c`, `file.c`, `mkfs.c` | `Blocks` | a disk that runs full and copies that fail half-way, indirect blocks |
| Inodes, directories, names | `fs.c`, `sysfile.c` | `Inodes` | reference counts against link counts, reuse of inode numbers, lock order |
| Open files, descriptors | `file.c`, `sysfile.c`, `pipe.c` | `Files` | reference counts across `fork` and `exit`, failing halves of calls |
| Pipes | `pipe.c` | `Pipe` | several readers and writers, wrap-around, wakeups, close and kill |
| Processes, scheduler | `proc.c`, `trap.c`, `swtch.S` | `Proc` | locks handed over through `swtch()`, lost wakeups, orphans, kills |
| Memory, `exec` | `kalloc.c`, `vm.c`, `exec.c`, `proc.c` | `Memory` | rollback when memory runs out half-way |
| Console output | `uart.c`, `printf.c`, `console.c` | `Uart` | three ways to one register, two of them without the lock |
| Console input | `console.c` | `Console` | line editing under interrupts, a ring with three indices |
| Clock | `trap.c`, `sysproc.c` | `Clock` | a tick counter that wraps |
| Shell | `sh.c` | `ShellParser`, `Shell` | recursive descent; pipe ends over several processes |
| `malloc` | `umalloc.c` | `Umalloc` | a circular list, split and joined |
| `primes`, `grep` | `primes.c`, `grep.c` | `Sieve`, `Grep` | a pipeline that must end; lines cut up by `read()` |

How they interact.  System calls run on a process's kernel thread; they block
with `sleep()` and are woken by other processes or by interrupt handlers with
`wakeup()`.  File-system calls are bracketed by `begin_op()` and `end_op()`,
change blocks through the buffer cache, and leave it to the log to make the
changes durable.  The buffer cache moves blocks through the disk driver, whose
completions arrive as interrupts.  Pipes and inodes are reached through the file
table, whose references `fork()` makes and `exit()` drops.

## 2. Modules

A component is one module; where it promises something to its callers, that is
an abstract specification of its own, which the component is shown to implement:

| Detailed | Abstract | The promise |
|---|---|---|
| `Log` | `TxDisk` | a call's writes are on disk all or none, whenever the machine stops |
| `Bcache` | `BlockStore` | a block has one content and one holder |
| `VirtioDisk` | `DiskPort` | a call transfers its block, once, before it returns |
| `Blocks` | `FileStore` | a file is a sequence of bytes, read and written at an offset |
| `Pipe` | `ByteStream` | a bounded queue of bytes, with an end of file |
| `Memory` | `AddressSpaces` | a process has bytes of its own |
| `Console` | `LineInput` | lines, edited until they are entered |

The modules meet at these interfaces.  `Log` uses its cache as `BlockStore` has
it (a block has one content, a pinned block stays); `Bcache` uses the disk as
`DiskPort` has it (a transfer is one step); a step of `Blocks` and of `Inodes`
relies on the transaction around it, as `TxDisk` has it; `Shell` and `Sieve` use
pipes as `ByteStream` has them.

### Granularity

A section of code under one lock is one step, unless something the model speaks
of can change meanwhile without that lock.  So the scans of the process table go
slot by slot (each slot has its own lock), a pipe moves one byte per step and
tests `killed()` in a step of its own (`kill()` does not take `pi->lock`), and
the device may run between two iterations of `virtio_disk_intr()`.  Every disk
write of `Log` is a step, so that a crash can fall between any two.  A step of
`Blocks` is one transaction, which holds the inode's lock; of `Inodes`, one
section under `itable.lock` or inode locks; of `Memory`, one call, since calls
share nothing but the free list, and what others hold decides where they run
out.  `sleep()` is one step in all modules but `Proc`, which shows that it
misses no `wakeup()` made under the lock it is given.

### State and actions

* `Log`: `home`, `logd` and `head` are the disk, `cache` and `pins` what `log.c`
  needs of the buffer cache.  `boot` follows `initlog()`; `pc[p]` follows a
  process through `begin_op()`, its writes and, for the last one out,
  `commit()`.  `crash` keeps the disk only, may tear the block being written,
  and starts recovery, in which it may happen again.  The header is not torn:
  its 124 bytes are within one 512-byte sector.  `Stable`, what recovery would
  make of the present disk, and `Mem`, what a reader sees, map this to `TxDisk`:
  the one visible step is the write of the header.
* `Proc`: `plock[p]` and `wait_lock` name the CPU that holds the lock, because
  `p->lock` passes from a process's thread to the scheduler's through `swtch()`.
  `cpc[c]` says whether CPU `c` scans the table, runs `c->proc` or is on the way
  back.  Timer interrupts come wherever no lock is held.  Failure to allocate in
  `fork()` and to copy out in `wait()` is nondeterministic.
* `Pipe`: `rfile` and `wfile` are the processes that hold each end.  The
  counters wrap at `Word`, a multiple of `PIPESIZE` as 2^32 is of 512.
  `copyin()` and `copyout()` may fail at any byte.
* `Files`: the table, each process's descriptors, `struct pipe`'s open flags,
  and `iref`, the references that open files hold to inodes.  Every call is
  followed through its error paths; `me[p].ff` is the copy that `fileclose()`
  works on after it has freed the slot.
* `Bcache`: one action per section of `bget()`, `acquiresleep()`, `bread()`,
  `bwrite()`, `brelse()`.  Callers obey what `fs.c` and `log.c` obey: a changed
  buffer is written or pinned before it is released.
* `VirtioDisk`: descriptors, both rings, the interrupt bit and the driver's own
  state as they lie in memory.  The device is external: it fetches in order,
  completes in any order and reports no error.  The model separates the size of
  the rings, `RING`, from the number of descriptors, `NUM`, which keeps stale
  ring entries from multiplying the states.
* `Inodes`: dinodes and directory entries (`ondisk`), the table `ic` with its
  locks `lk`, and per process its position and local pointers.  `iput()` takes
  four steps, with `itable.lock` dropped where the code drops it.  `panicked`
  says that `iget()` found no entry, and nothing happens after that.
* `Blocks`: `fs` is the bitmap, the block contents and the in-memory inodes,
  `dinode` the inodes as written.  A transaction is a function from one `fs` to
  the next that also collects the blocks it logged.  The first `fs` is what
  `mkfs` writes.
* `Memory`: free list, page contents and page tables.  The operations are
  functions on that record, as in the code, with `ok` for their result and
  `panic` for their assertions.  `walk()` makes the tables of both levels one
  after the other, and `sys_exec()` a page for each argument string, which it
  frees after `exec()` or at its own failure.
* `Uart`: registers, FIFO and interrupt of the device, the ring, both locks, and
  each CPU's position between reading `LSR` and writing `THR`.  `printf()` reads
  `pr.locking` once, before it waits for `pr.lock`, as the code does.
* `Console`, `Clock`: the three indices and the line discipline; `ticks` modulo
  `TICKS`, and `passed`, how many went by, to compare with.
* `Shell`: the processes that `runcmd()` forks, with descriptors and parents, and
  what `fork()`, `exit()`, `dup()`, `close()` and `pipe()` of the kernel do to
  them.  The programs it starts are `cat` and `echo`, byte by byte.
  `ShellParser`: the parser's functions and, apart from them, the grammar.
* `Umalloc`, `Sieve`, `Grep`: the headers and `freep`, and `adrift`, the request
  after which `sbrk()` gave less than `morecore()` takes it to have given; every
  stage with the pipe ends it holds; the pattern, the buffer and what `read()` has
  yet to return.

## 3. Runs

| Run | Shows | Bounds |
|---|---|---|
| `log` | `Log` implements `TxDisk` (`AtomicDurable`); the log is written before home blocks (`WriteAhead`); one commits alone; blocks are pinned until installed; log space is reserved, for all of a call's blocks but the one that is missing on disk; no sleeper is without a waker; the invariant of the proofs holds | 2 processes, 3 blocks, 2 values, calls of 2 blocks, `LOGSIZE` 4, an on-disk log of 4 with its header, as `mkfs` makes it |
| `proc` | one CPU per kernel stack, what `sched()` asserts, the handshake of `wait()` and `exit()`, parents that can wait | 3 slots, 2 CPUs, 3 pids, kill of 1 and 2; orphans and reused slots occur |
| `proc_live` | runnable processes run, `wait()` returns, the killed exit | 3 slots, 1 CPU |
| `files` | `Pipe` implements `ByteStream`, no use after free, no writer asleep beside room, no reader beside bytes unless somebody was killed, never both asleep; references to files, pipe ends and inodes are exact, and a file in use stays open | pipe: 3 processes with any ends, one of which can be killed, ring of 2, counters modulo 4, calls of 2 bytes; files: 2 processes, 3 files, 2 descriptors each, 1 page for pipes: every allocation fails in some state |
| `bcache` | `Bcache` implements `BlockStore`; counts exact; one buffer per block; no sleeper without a holder; least recently used first | 3 processes, 3 blocks, 2 buffers |
| `virtio` | `VirtioDisk` implements `DiskPort`; no panic; no completion lost; descriptors have one owner | 2 processes, 8 descriptors, rings of 2, indices modulo 4 |
| `virtio_live` | every call returns | 3 processes, 4 descriptors: one request at a time |
| `inodes` | `ref` exact; the table is a cache of the disk; `iput()` never blocks under its spin lock; `iget()` panics only with every entry in use, and nothing else panics; `nlink` covers the names; no cycle of lock waiters; nothing in use is freed | 2 processes, 4 inodes, a table of 3 entries, 1 open file in the system, names `a` and `b`, the nine calls of `MCInodes` |
| `blocks` | `Blocks` implements `FileStore`; the bitmap is exact; no holes; `addrs` written back; a transaction fits in the log; `mkfs`'s regions are disjoint | blocks of 2 bytes, 2 direct and 2 indirect, 14 blocks of disk; 2 files, 2 processes |
| `memory` | `Memory` implements `AddressSpaces`; every page has one use; mapped is what `sz` says; copies across pages | 2 processes, 23 pages of 2 bytes, page tables of 2 entries, up to 2 argument strings; one `exec()` that runs and ten that fail at different points |
| `console` | output once and in order, whole messages, no writer asleep beside room, the ring drains, a panic is heard; `Console` implements `LineInput`, a full buffer can be read; `sleep()` lasts long enough and not longer | ring of 2, FIFO of 4, 2 writers, a printer and the interrupt; input buffer of 3, 2 readers; ticks modulo 4 |
| `user` | the parser is the grammar; every program has the right descriptors, the prompt returns, nothing in the foreground is left behind; `malloc` loses nothing, and takes less than it asked for only beyond what an `int` can say; primes are printed and the pipeline ends; `grep` prints the lines that match | all lines of up to 5 tokens; 5 sessions with up to 9 processes; a heap of 9 units of 2 bytes, an `int` of 64 values and sizes around its limits; numbers to 11; patterns and files of up to 3 characters |

Related invariants are checked under one name, which conjoins them with the
types of the module: `LogInv` (with `CommitAlone`, `PinnedUntilInstalled` and
`SleeperHasWaker` as parts or consequences, see section 4), `SwtchSafe` and `ParentsWait`
(`Proc`), `PipeInv`, `RefsExact` (`Files`), `BcacheInv`, `DriverInv`
(`VirtioDisk`), `TableExact` and `CallsGoOn` (`Inodes`), `Consistent` (`Blocks`),
`PagesAccounted` (`Memory`), `ConsoleInv` and `OutputFlows` (`MCConsole`),
`ShellRight` and `HeapRight` (`MCUser`).

`files`, `console` and `user` each check several modules that share no state:
`part` says which one a behaviour runs, so that their states add up.

Deadlock is checked except where the system may stop: all ends of a pipe may be
closed, and a program that reads a pipe whose write end it keeps open waits for
itself (`files`); `bget()` may panic (`bcache`); so may the kernel (`console`);
programs end (`user`).

The bounds are small, and chosen so that limits are reached: rings wrap, the
on-disk log fills, and the file table, descriptors, pages for pipes, buffers,
virtio descriptors (`virtio_live`), inode table, disk inodes, disk blocks,
physical memory and the heap run out; counters overflow; a file reaches its
largest size.  Not reached: `fork()` of `Shell` and `Sieve` fails
nondeterministically, with process slots to spare, as do `pipe()` and `open()`
there; one printer uses `printf()`, so that two CPUs never compete for `pr.lock`;
and the layout of `mkfs` is checked for one set of constants, not this
repository's.
The symmetric sets are processes, blocks and values of which the specification
names none.  `MCMemory` has a VIEW that identifies states which differ only in
which page serves for what; it does so only while `PagesOwned` and
`MappedToSize` hold, so a violation of them is seen as it is.  `MCInodes` has one
that identifies states which differ only in which entry of the table holds which
inode: `iget()` takes the first free entry, and nothing depends on its place.

### Fairness

* `proc_live`: a CPU executes instructions (weak fairness of `Run`); a timer
  interrupt that becomes possible again and again is taken (strong fairness of
  `Tick`: it stays pending while interrupts are off); a process that is
  scheduled again and again gets a step of its call done (strong fairness of
  `Advance`: a time slice is long compared with a step).  One CPU: with several,
  who wins a contended spin lock is up to the hardware.
* `virtio_live`: weak fairness of the callers, the interrupt and the device.
  `EveryCallReturns` only speaks of behaviours in which calls cease to be made;
  while they do not, others can take the descriptors a process waits for.
* `console`: weak fairness of the UART, which sends and interrupts, and of every
  CPU that is inside the kernel.  Nobody has to call `write()` or `printf()`.
* `user`: weak fairness of every process, which is what `proc_live` shows of the
  scheduler.

### Where code and comments or limits disagree

Met while modelling; the models do what the code does.

* `log.c:220`: `begin_op()` reserves from `LOGSIZE` blocks, but `mkfs.c:25` makes
  a log of `LOGSIZE` blocks including its header, so that `log_write()` panics
  with "too big a transaction" one block before the reservation is used up.  The
  test comes before absorption, so that a block that is already in a full log
  panics too.  `ReservedSpace` says what is left: a call can count on
  `MAXOPBLOCKS` blocks less the missing one.  No call of this kernel is known to
  write all of the `MAXOPBLOCKS` it reserves.
* `proc.c:604`: `kill(0)` matches a free slot, and the process that is made in
  it next is born killed.  Run `proc` leaves `kill(0)` out; the proofs cover any
  arguments of `kill()`.
* `proc.c:606`: a `kill()` on another CPU between a process's test of `killed()`
  and its `sleep()` is not noticed until something else wakes the process.  The
  same window is in pipes, the console and `sys_sleep()`.
* `pipe.c:84`: a writer that finds itself killed returns without waking readers,
  who may sleep beside the bytes it wrote; hence the form of
  `ReaderSleepsOnEmptyUnlessKill`.
* `pipe.c:124`, `console.c:112`: a byte whose `copyout()` fails is lost.
* `fs.c:266`: `iget()` panics when the table is full, and `NINODE` (50) is less
  than the open files (100) and current directories (64) there can be, so legal
  calls can bring the panic about.  Run `inodes` reaches it.
* `fs.c:314`: `..` of a removed current directory may name a free or reused
  inode; looking it up panics.  The calls of run `inodes` leave `..` out.
* `fs.c:345`: an inode that is open and has no name stays allocated after a
  crash; there is no pass that frees it.
* `mkfs.c:168` gives the root directory a block too much when its entries fill
  the last one exactly.
* `printf.c:168` "freeze uart output from other CPUs": `uartstart()` does not
  test `panicked`, so bytes of the ring still go out; and `uartputc()` tests it
  only on entry, so a writer that slept on a full ring goes on.
* `grep.c:18`: a line that fills `buf` ends the search without a message, and a
  last line without a newline is not searched.
* `umalloc.c:54`: `nu * sizeof(Header)` becomes the `int` of `sbrk()`: for requests
  of 2 GB and more it is negative or too small, and `sbrk()` succeeds without the
  bytes that `morecore()` then enters in the free list.
* `primes.c:45`: results of `pipe()` and `fork()` are not tested; when one fails
  the rest of the primes is missing without a message.

## 4. Proofs

| Module | About | Theorems | Assumed of the constants |
|---|---|---|---|
| `LogProofs` | `Log` | `LogInvariant`, and from it `LogTypeOK`, `CommitAloneHolds`, `PinnedHolds`, `SleeperHasWakerHolds`; `ReservedSpaceHolds` | finitely many processes; `MAXOPBLOCKS` in 1 .. `LOGSIZE`; `NotCached` is no content |
| `LogRefinement` | `Log` | `WriteAheadHolds` (an action property), `LogRefinesTxDisk` | the same |
| `BcacheProofs` | `Bcache` | `BcacheInvariant`, `RecyclesLruHolds` (an action property), `IsBlockStoreHolds` | a buffer at least; finitely many processes |
| `VirtioProofs` | `VirtioDisk` | `DriverInvHolds`, `IsDiskPortHolds` | 3 descriptors at least; rings with an entry for each request they allow; indices that wrap at a larger multiple of `RING` |
| `SwtchProofs` | `Proc` | `SwtchSafeHolds` | a slot at least; nothing about the CPUs |
| `ParentProofs` | `Proc` | `ParentsWaitHolds` | the same |
| `PipeProofs` | `Pipe` | `PipeInvariant`, `IsByteStreamHolds` | a byte of room at least; counters that wrap at a larger multiple of `PIPESIZE` |
| `ConsoleProofs` | `Clock`, `Console` | `SleptEnoughHolds`, `NoOversleepHolds`; `ConsoleSafe`, `IsLineInputHolds` | `sleep()`s shorter than the time `ticks` takes to wrap; a byte of room at least, and indices that wrap at twice that |

In all of them the null values (`NoProc`, `NoCPU`, `NoDesc`, `NoBlock`) are not
members of the sets they stand outside of.  The assumptions are the `ASSUME`s of
the modules, which the runs evaluate; for `Clock` and `Console` they are
hypotheses of the theorems, which `MCConsole` evaluates.

Each invariant is proved by one lemma per action, and the lemmas are put together
at the end of its section; a refinement by one lemma per action that the step is
a step of the abstract specification or a stutter.  What makes each of them go
through:

* `Log`.  That a crash is harmless depends on which copies of a block agree:
  before the header is written the home blocks are untouched (`HeadInv`,
  `CacheInv`); when it is written the log's copies equal the cached ones
  (`CommitInv`); while blocks are installed every slot of the log that the header
  names still holds what was committed; and recovery repeats that from the header
  alone (`RecoveryInv`).  `LogInv` says this for each phase.  The refinement then
  needs, for each action, what happens to `Stable` and `Mem`: only `write_head`
  changes `Stable`, to `Mem`; installing and erasing leave it alone because of
  `StableInstalled` and `StableFrame`; and a crash makes `Mem` equal to `Stable`.
* `ReservedSpace`.  What the calls in progress have used of their reservations is
  counted as one set of pairs, `Written`, instead of a sum over calls.  Then
  `log_write()` adds one pair for every block it adds to the log, absorbed writes
  add at most a pair, and `end_op()` takes away at most the `MAXOPBLOCKS` pairs
  of its call (`PartBounded`).  So a call that has not used its reservation finds
  less than `LOGSIZE` blocks logged (`OneRoom`), and one with `Missing` blocks more
  to spare finds room on disk too, where `Missing` is what the on-disk log is short
  of `LOGSIZE` blocks and a header (`MissingFits`).
* `Bcache`.  `bget()` may recycle a buffer because an unused one is clean
  (`CleanUnlessPinned`), and this is a matter of counting: an unused buffer has
  `refcnt` 0, `refcnt` is the number of processes that hold or wait for the buffer
  plus the pin (`RefcntExact`), so there is neither.  That the list is in the
  order of release, although `brelse()` moves a buffer only with its last
  reference, holds of the unused buffers only (`UnusedInOrder`), which is what
  `RecyclesLru` needs.
* `VirtioDisk`.  `DriverInv` follows chains of descriptors; the steps preserve
  `DInv`, which says the same of the three descriptors of each call
  (`ChainsBuilt`, `OwnedOnce`).  No ring overwrites an entry in use because each
  call is at one of four places (offered, in flight, completed, done) and has
  three descriptors (`CallsCounted`), so a ring never holds more than it has
  entries for.
* `Proc`.  `SInv` says where a thread in each state stopped (`ThreadsParked`),
  which process a CPU runs (`CpusRun`), and who holds each lock at each program
  point (`LocksHeld`); mutual exclusion of kernel stacks and what `sched()`
  asserts follow.  `PInv` rests on it: a process has a parent that is alive
  (`ParentsLive`), what the scan of `wait()` has passed is no zombie
  (`ScanHolds`), and `exit()` wakes its parent or is about to (`ExitWakes`,
  `ZombieWakes`), none of which is inductive without the others.
* `Pipe`.  `IInv` ties program points to what was last tested under `pi->lock`
  (`StillSo`) and to the ends that are open (`EndsHeld`).  For the refinement the
  queue is read off the ring by position: the slot of a byte being written is
  none of the slots in the queue (`OtherSlot`), also when the counters wrap.
* `Clock`, `Console`.  Sleepers see exactly the ticks that passed until their time
  is up, and are then awake (`SeesTime`); that is why the wrap of `ticks` does no
  harm.  The three indices of the console stay in order around the ring
  (`FullIsReadable`).  The entered bytes and the line being typed are slices of
  the ring, and every key and every read changes them at one end.

Where an argument needs induction (`consoleintr()` erases back to the beginning of
a line, `alloc3_desc()` looks for the first free descriptor) it is put as the
existence of a least element of a set of numbers, the form in which the library
states it without an operator as a parameter.

Only model-checked: all liveness, which this prover does not reach; what recursive
definitions compute (`ShellParser`, `Grep`, the folds of `Blocks` and `Memory`),
which needs induction over data; the invariants of `Files` (`RefsExact`,
`IoStaysOpen`), `Inodes`, `Blocks`, `Memory`, `Uart`, `Shell`, `Umalloc` and `Sieve`, and
the refinements of `FileStore` and `AddressSpaces`.

## 5. Not modelled

* Boot (`entry.S`, `start.c`, `main.c`), `plic.c`, `virtio_disk_init()` and the
  kernel page table: straight-line initialisation, whose result is the initial
  state of the modules.
* Saving and restoring registers (`trampoline.S`, `kernelvec.S`, `swtch.S`
  beyond whose stack is in use), `syscall()`'s table and the decoding of
  arguments; the counts of `push_off()` and `pop_off()`.
* RISC-V's memory order: memory is taken to be sequentially consistent between
  the fences of `acquire()`, `release()` and the driver.
* `string.c`, `ulib.c`, the formatting of both `printf()`s.
* `sys_mknod()`, which is `create()` with another type; `nulterminate()`, the
  scanning of characters and the built-in `cd` of the shell.
* How the log, the cache and the file system share `NBUF` buffers: whether
  `bget()` can find none depends on every call in progress at once.
* The small programs (`find`, `ls`, `pingpong`, `wlan_cfg`, `xargs`, ...),
  each a few system calls in a row, and the test programs.
