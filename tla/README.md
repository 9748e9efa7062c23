# TLA+ models of xv6 with MLFQ, LBS, alarms and counts, and of the network programs

The repository holds two programs: a kernel (`src/initial-xv6`: xv6-riscv with
`getSysCount`, `sigalarm`, a lottery and a multi-level feedback scheduler,
`waitx`) and socket programs (`src/networks`: tic-tac-toe over TCP and UDP, and
a chat that cuts messages into acknowledged chunks over UDP).  This directory
models their control: who holds which lock, who sleeps and who wakes whom, what
is on disk when the power fails, which message is on its way.  Data is reduced
to what the properties tell apart.

Run a check with `tlc -workers 2 -config X.cfg M`, a proof with `tlapm LogProofs.tla`;
the proofs about a module M are in MProofs (Log, Spinlock, Proc, Bcache, Xoxo),
those about Contents, Files and Tree in FileSystemProofs, those about Alarm, Mlfq, Lbs and
Ptime in PartsProofs, those about Virtio, Pipe, Console and Uart in DevicesProofs.
`PROJECT.json` lists runs, faulty variants, the lines every definition stands
for, findings, hazards and theorems.

`K/` below is `src/initial-xv6/src/kernel/`, `U/` is `src/initial-xv6/src/user/`.

## Inventory

| part | state | operations | what is hard | what makes it correct | module |
|---|---|---|---|---|---|
| log (`K/log.c`) | header in memory and on disk, log blocks, outstanding calls, committing | begin_op, log_write, end_op, commit, recovery | crash between any two disk writes; group commit; space reserved for calls that still write | atomic, durable groups; log never overflows; sleepers woken | Log |
| processes (`K/proc.c`, `K/trap.c`, `K/sysproc.c`) | process table, one lock per slot, wait_lock, tickslock, CPUs | scheduler, sched, yield, sleep, wakeup, fork, exit, wait, kill, sys_sleep | a process is runnable while still on its stack; lost wakeups; lock order; parents that exit | one CPU per stack, no stack freed in use, orphans reaped, killed processes exit | Proc |
| MLFQ (`K/proc.c`, `K/trap.c`) | four arrays with sizes, level, slice and ticks of a process | enqueue, dequeue, boost, demotion, scan | arrays without locks, changed while they are walked; slots reused | each process queued once; higher levels first; no starvation | Mlfq |
| LBS (`K/proc.c`) | tickets, arrival times, the scheduler's two walks | settickets, draw, pick | state changes between the walks; another CPU picks the same process | a winner exists, the earliest goes first | Lbs |
| system call counts (`K/syscall.c`, `K/proc.c`) | a counter per process and call | count, hand over to the parent on exit, read | unlocked increment against locked addition | no call lost | Syscount |
| alarms (`K/sysproc.c`, `K/trap.c`) | interval, elapsed ticks, page with the interrupted context | sigalarm, delivery, sigreturn | re-entry, lack of memory, exit in a handler | main program resumes as it was, handler called again and again | Alarm |
| times (`K/proc.c`) | ctime, etime, rtime | update_time, waitx | clock walks the table while other CPUs go on | wait time never negative | Ptime |
| buffer cache, sleeplocks (`K/bio.c`, `K/sleeplock.c`) | LRU list, counts, valid, locks | bget, bread, bwrite, brelse, bpin, bunpin | recycling against lookups | one locked copy of each block | Bcache |
| virtio disk (`K/virtio_disk.c`) | descriptors, two rings, sleeping requests | virtio_disk_rw, virtio_disk_intr | device completes in any order and while the handler runs; too few descriptors | the right block, once, for the right sleeper | Virtio |
| files and inodes (`K/file.c`, `K/fs.c`, `K/sysfile.c`) | file table, inode table, link counts, entries | open, create, dup, close, link, unlink, iput | references dropped in two stages; freed inode found again | counts are right, inode lives as long as it is used | Files |
| pipes (`K/pipe.c`, `K/sysfile.c`, `K/file.c`) | ring of bytes, two counters that wrap, open ends, who has them | pipe, pipewrite, piperead, dup, fork, close, exit | sleepers on both sides, closing, killing, bad addresses; pipe() fails half way | a FIFO of bytes; nobody asleep for ever; an end is open as long as somebody has it | Pipe, PipeEnds |
| tic-tac-toe (`src/networks/partA`) | board, player, two clients, messages | moves, play again | stale input, datagrams lost or reordered, both sides receiving | the server plays by the rules; nobody stuck | Xoxo |
| chunked chat (`src/networks/partB`) | chunks not acknowledged, chunks received, sockets | send, echo, print, prompt | role changes with datagrams in flight, retransmission | messages printed whole; acknowledged means arrived | Chunks |
| spinlocks (`K/spinlock.c`) | locks, interrupt enable bits, noff and intena of a CPU | acquire, release, push_off, pop_off, intr_on, intr_off, a trap | interrupts between any two accesses, whose handlers take locks | one holder, never interrupted; interrupts back as they were | Spinlock |
| contents of files (`K/fs.c`, `K/file.c`) | bitmap, blocks, addresses and sizes on disk and in memory, offsets | read, write in several transactions, open with O_TRUNC, bmap, itrunc, balloc, bfree | the disk fills up half way; two files take blocks at once; two offsets, one truncated file | files are sequences of bytes, each block is used once, a transaction fits | Contents |
| directories (`K/fs.c`, `K/sysfile.c`) | entries, "..", link counts, working directories | path walks, mkdir, mknod, chdir, unlink | locks along paths, removed directories still in use | a tree with right counts; no circle of waiting processes | Tree |
| mkfs (`src/initial-xv6/src/mkfs/mkfs.c`) | the image | files and entries put one after the other | indirect blocks | the state the kernel's file system starts from | Mkfs |
| copies (`K/vm.c`, `K/syscall.c`, `K/string.c`) | a page table, bytes | copyin, copyout, copyinstr, fetchaddr, fetchstr, memmove, safestrcpy | page boundaries, guard pages, wrap of addresses | exactly the bytes of the range, or a failure | Copy |
| shell (`U/sh.c`, `U/init.c`, `U/echo.c`, `U/cat.c`) | processes with descriptors, pipes, files | getcmd, runcmd for each kind of command, init's loop, the two programs | ends of pipes that stay open; fork that fails; orphans | a line is done, with its meaning, when the next prompt comes; the prompt comes | Shell, Parser |
| grep, malloc (`U/grep.c`, `U/umalloc.c`) | buffer of a line; ring of free blocks | read loop, matcher; malloc, free, sbrk | input in pieces; blocks that are joined | matching lines and no others; no unit lost or given twice | Grep, Umalloc |
| boot, trap vectors, PLIC, driver set-up | registers | | assembly | | not modelled |
| memory (`K/kalloc.c`, `K/vm.c`), exec | free list, page tables, sizes | kalloc, mappages, fork, exec, sbrk, freeproc and their error paths | memory ends half way through a call, while others allocate | every page free or owned once; exactly a process's size is mapped | Memory |
| console (`K/console.c`) | line buffer with three indices | consoleintr, consoleread | keys edit and fill the buffer while several read | lines handed over stay and are read once, in order | Console |
| uart (`K/uart.c`) | transmit ring, the device's queue | uartputc, uartstart, uartintr, uartputc_sync | echo writes to the device without the lock; a full ring waits for an interrupt | bytes leave in order, none lost; writers woken | Uart |
| other user programs, tests | | | | | not modelled |

How the parts meet: system calls (Files) run between begin_op and end_op (Log),
which read, write and pin buffers (Bcache), which transfer blocks (Virtio).
All of them wait through sleep and wakeup (Proc), which on a disk, a pipe, a
parent, the console or the clock look alike.  fork, exec, sbrk and wait take and
give back pages (Memory).  usertrap charges the running process (Mlfq,
Ptime), counts its calls (Syscount) and sends it to its handler (Alarm).
The programs of `U/` meet the kernel through system calls, of which Shell has
what its programs see of them (descriptors, pipes, wait); those of `src/networks`
share nothing with this kernel.

Each module replaces what lies below by what it promises: Log takes a cache
that never drops a pinned buffer and a disk that writes whole blocks (Bcache
shows the first), Bcache takes transfers that are one step (Virtio shows that a
request transfers its own block and ends), Files, Contents and Tree take steps that
the log makes durable, Proc takes the spinlocks of Spinlock.  Only abstractions with a module of their own are refined formally:
AtomicFS by Log, Blocks by Bcache, ByteFiles by Contents, Fifo by Pipe, by Uart
and by Console, TicTacToe by Xoxo.

## Modules

State variables and actions have the names of the code's fields and functions;
`map` in PROJECT.json gives the lines.  Definitions with a suffix
(`Admit_IgnoresItself`) are faulty variants that stand before the definition
they vary; putting one in its place must break the property that PROJECT.json
names, so that each property is known to be able to fail.

**Spinlock**.  One access is a step: the swap, the two fields of struct cpu, the
interrupt enable bit.  A CPU runs its main code or a handler, which may begin
whenever interrupts are on.  The main code takes any locks, in order, and turns
interrupts off and on between them.  Weak memory is not modelled: the fences are taken to work.

**Log** (refines **AtomicFS**).  A call is `out`, `sleep`, `woken`, `in` or
`commit`.  begin_op, log_write and end_op are one step each (log.lock is held);
commit and recovery are one step per disk write, because a crash may fall
between any two.  `Evict` is the cache dropping an unpinned buffer.
`Crash` loses all memory, at any moment, also during recovery.  AtomicFS has a
durable and a current image; the refinement maps durable to what recovery would
make of the disk *now* (`AfterRecovery`), which says that the header write is the
only commit point.

**Proc**.  Locks are explicit where two are held or where the holder switches
stacks: p->lock, wait_lock, tickslock.  A step is what runs under one
lock up to the next acquire, the next unprotected read or the next switch.
`leaving` is the set of CPUs in sched() still on the process's stack.  The
transfer of counts in exit(), which takes the parent's lock through p->parent,
is part of exit.

**Mlfq**.  Queues are arrays and sizes; the reads and writes of enqueue are
steps of their own, since no lock protects them.  ticks is kept modulo `BOOST`.
`ProcsExit`, `ProcsSleep` and `KernelTicks` say what processes do: exit, block,
be interrupted in the kernel.

**Lbs**.  Both walks of the scheduler go slot by slot, the second without
locks; wakeups, forks, exits and reuse of slots fall between.  rand() is free.

**Syscount**, **Alarm**, **Ptime**.  The few fields of struct proc each of
these features has, with the calls and traps that change them.

**Bcache** (refines **Blocks**).  Steps under bcache.lock, under a sleeplock's
spinlock, and the transfers.  Threads keep log.c's rules: a changed buffer is
written or pinned before it is released.

**Virtio**.  Threads submit and finish under vdisk_lock; the handler is two
steps because the device goes on in between.  The device is external: it takes
heads in order, completes in any order, never fails.

**Files**.  System calls are cut where they wait for a sleeplock or give up a
lock; iput() is four steps.  One directory, the root.

**Contents** (refines **ByteFiles**), on the image that **Mkfs** computes.  Each
block that a call takes, gives back or writes is a step, since the bitmap is
shared while each inode is locked by the call.  Blocks have BSIZE cells, which
are bytes or, in the indirect block, addresses.  Writing beyond the file's or the
disk's capacity fails as in the code, with what was written until then.
The refinement maps a file to the bytes in its blocks and an offset to what the
call under way has reached.

**Tree**.  A path is a sequence of elements; each element of a walk is a step,
with the directory locked, and unlink waits for an inode while it has the
directory.  `Removed` lets calls create entries in a directory that has been removed.

**Pipe** (refines **Fifo**).  A section under pi->lock is a step.  Counters wrap
at `UINT`.  `pipewrite_killed` is the write that is killed between two bytes.

**PipeEnds**.  pipe() in the order of the code: an entry, another one, a page, two
descriptors, with each failure and what it gives back.  dup, fork, close and
exit share and drop the ends; fileclose() and pipeclose() are two steps, since
the entry is free before the end is closed.

**Memory**.  A page table is the set of its table pages and the set of pages it
maps; the free list is its length.  Each kalloc() is a step and may find nothing;
what a call gives back at once is one step.  TRAMPOLINE and TRAPFRAME are mapped
at the top, so that every page table needs three pages before any user page.

**Copy** and **Parser** are functions, checked for every argument of a small
range against definitions that go byte by byte, or against a grammar that
generates the lines and trees it allows.  A line is a sequence of tokens.

**Shell**.  A process is its next step, its command and its descriptors; each
system call is a step.  A line that is typed adds to `meant` what
the grammar's tree of it would print and write if its parts ran one after
another; `shown` and `disk` are what the processes do.  Output of commands in the
background is left out of both (their order is not defined).  A word is the unit
of data; cat copies whatever is there.

**Grep**.  The matcher, and the loop with read() free to return any number of
characters.  **Umalloc**.  Headers and sizes in units; the program may also call
sbrk() in between, so that the heap has holes.

**Uart** (refines **Fifo**, with the echo taken out).  uartstart() is two steps,
the look at LSR and the write of THR, since uartputc_sync() may come between.
One caller of uartputc_sync() is modelled.  The device is external: a queue of
`FIFO` bytes that drops what does not fit.

**Console**.  A key, and a section of consoleread() under cons.lock, is a step.
A read has a length and a number of bytes after which its address is bad.

**Chunks**, **Xoxo** (refines **TicTacToe**).  The loops of the programs, cut
where they receive.  TCP connections are sequences of messages, UDP sockets
bags or sequences that may lose and reorder.  Duplication of datagrams is not
modelled: the kernels' loopback does not duplicate.

MC modules give instances.  Where several small components are checked in one
run (MCPerProcess, MCSchedulers, MCPrograms, MCStorage, MCDevices) a variable that never
changes says which instance a behaviour is about; the others keep their first
state, so that the state space is the sum and not the product.  Each of these
extends one component that is proved about (Alarm, Spinlock, Xoxo, Bcache, Virtio)
and instantiate the rest: the run checks the very formulas of the theorems,
and evaluates the assumptions they rest on.

## Runs

| run | instance | what it shows |
|---|---|---|
| `log` | 3 calls, 4 blocks, LOGSIZE 5, two workloads: two-block calls with new contents on two blocks, one-block calls on all | crashes anywhere: groups are atomic and durable (`ImplementsAtomicFS`), exactly the blocks not yet installed are pinned, the reservation of begin_op is enough (no panic), nobody is left asleep, a committed group is installed once crashes stop |
| `proc_live` | init and two slots, round robin, one CPU, fair | init keeps reaping, killed processes exit |
| `schedulers` | spinlocks: two CPUs, two locks, a handler that takes one; round robin: init and two slots, two CPUs; MLFQ with three sleepers, with two that reach the last queue, and with two that are interrupted in the kernel; LBS with three slots, and two slots on two CPUs; slots symmetric | `LocksHold`; `OneStack`: no stack shared or freed, nobody leaves the CPU with a spinlock, two draws at once never start one process twice; a parent for every process, no exit missed by wait; `QueuesOrdered`: each process queued once, best level first; `DrawDecides`: the draw has a winner, the earliest of equals |
| `per_process` | counts: a tree of five processes; alarms: three processes, one page, with handlers that only return and with handlers that set the alarm or fork; times: three slots RR, two MLFQ; memory: three slots, 16 pages; MLFQ: init and one slot that exits and is reused, boost every 12 ticks; copies: 3 pages of 2 bytes | no call lost, main program resumed as it was and its handler not entered twice, alarms come, wait time fits; no page lost or free twice whichever kalloc() fails, exactly the size of a process mapped, no panic of vm.c; the queues lose no process when slots are reused (`StateOK`, with the types); runnable processes run until an array overflows (`NotStarved`); copies are right (`CopiedRight`) |
| `storage` | cache: more and fewer buffers than blocks, with pins; files: two names, or two descriptors each; ends of pipes: two processes, 4 entries, 2 descriptors each, one page; contents: two growing files on an image with 3 free blocks, or one file with two offsets that is truncated; tree: two processes, root and two inodes | `ImplementsBlocks`; `ImplementsByteFiles`, each block used once (`SpaceKept`), transactions fit (`OpFits`); `Counted`, for files and for the ends of pipes; `TreeShape` (and nobody waits in a circle); `NoPanic` and `SleepsForReason` of the cache; the panics of the others are in the property of each |
| `devices` | disk: 3 threads for one request, 2 for two; pipe of 2 bytes, one reader, two writers; uart ring of 2, two writers and echo; console: 3 keys and one reader, 2 keys and two readers | `Transferred`, `SleepsForReason` of the disk; `BytesPass`: what passes keeps its order and is complete, nobody asleep without a reason; sleepers woken |
| `programs` | chats of 3 and 2 chunks; games over TCP, UDP, lossy UDP; shell with 8 lines in the foreground, 3 with background jobs, 3 with too few slots; all lines up to 5 tokens; grep; malloc | `EndsAgree`: messages printed whole, acknowledged means arrived, nobody stuck in a game; `Delivered`; `LegalGame`; `DoneAsSaid`, `PromptReturns`; `LinesRead` (parser and grep); `HeapWhole` |
| `proc_panic` | violation | release() of a lock not held, see findings |
| `mlfq_reuse` | violation | queue overflow after exits |
| `alarm_a0` | violation | sigreturn loses a0 |
| `iput_leak` | violation | an inode is never freed |
| `tree_panic` | violation | ".." of a removed directory is a freed inode |

`NotLost` of Mlfq, `KillWakes` of Proc and other properties that the code breaks
on several CPUs stand in their modules for the table of disagreements below.

### Bounds, and why they are enough

* Log: three calls, so that one may run, one wait and one commit; MAXOPBLOCKS 2
  and LOGSIZE 5 make begin_op refuse a call at two different fill levels, and a
  full log is one bad admission away.  Two values tell an old block from a new
  one.  Sizes in the kernel are 10 and 30; the theorems hold for all.
* Proc: three slots give grandparent, parent and child, and a CPU each for two
  that exit together.  The liveness run has one CPU because on two the code
  fails (below).
* Mlfq: BOOST is 2 or 12 and not 48; it only matters whether a boost falls
  before, in the middle of or after the demotions, which take 1, 2, 4 and 8
  ticks.  Three processes get to the third queue before a boost of 2, so that an
  entry leaves from the middle of an array; two get to the last one before a
  boost of 12.
* Lbs: `MaxTicks` 2 tells early, equal and late arrival apart.
* Syscount: MaxCalls 2 per process, so that an increment may be lost.  Ptime:
  MaxTicks 3, at which the run stops (no deadlock check).  Alarm: one page for
  two processes that want it; programs turn the alarm off before exec (with
  `ArmedExec` TRUE the code fails, below).  Where handlers set the alarm or fork
  (`Nested`), `NoReentry` and `MainNotLost` fail and only `Resumed` and
  `AlarmComes` are asked.
* Memory: a process has at least 7 pages, so that two fit into 16 and a call
  beside them fails after any number of pages; one process alone gets more than
  FAN = 4 user pages, hence a second table.  sbrk by 3, -2 and -9 units (2 to a
  page) ends inside and at pages, and below 0; a program has a segment before
  which there is a hole, and one that asks uvmalloc() to shrink.
* Storage: NBUF 2 and 3 blocks force recycling in each bread; with one thread
  and one pin or two threads and none, NBUF is exactly enough, so one buffer
  less would panic.
  One inode on disk is reused at once.
  Contents: BSIZE 2 with one direct and two indirect addresses gives files of up
  to 6 bytes (direct, first and second indirect block).  Writes of 3 bytes begin
  and end inside blocks, and are cut into transactions, since MAXOPBLOCKS is 6:
  one fewer and the code's own estimate (file.c:148) leaves no room to write.
  With a bitmap block for each block (BPB 1) `OpFits` meets its worst case; a
  truncation may free a whole file and needs one bitmap block, as on the real
  disk (BPB 8192, 2000 blocks).  7 and 8 blocks run out in the middle of a write.
  Tree: two inodes beside the root give a chain of depth two and siblings.
* Devices: four descriptors leave one that is given back in vain; seven allow
  two requests.  The pipe's counters wrap after 4, which is twice around a pipe
  of 2; so do the ring's and the line buffer's.  Writes of 3 bytes do not fit,
  and a read leaves the address space.  The uart's queue of 2 holds a byte of
  uartstart() and one of an echo that looked at the same time, 16 in the device.
* Spinlock: with two locks a CPU holds one, waits for another and is
  interrupted; the theorems hold for any number.
* Copies: 3 pages of 2 bytes, each mapped, guard or absent, addresses that wrap
  at 8: every pair of ends relative to page boundaries.
* Networks: three chunks allow a gap at the end and in the middle; what users
  type allows wins on either side, draws, taken cells, and lines that are not
  moves.  The UDP channel of Chunks holds 4 datagrams, Xoxo's one of each kind.
  The instances of Chunks lose nothing and no timer runs out early, so that no chunk
  is sent twice there; what loss and retransmission do is among the disagreements below.
* Shell: 7 slots are what the longest pipeline needs with init and the shell, 4
  fail in each of its forks; a pipe holds one word, so that writers wait; one
  background job at a time is on its way when the next line is typed.  The tables
  of descriptors and files never fill up, and cat never reads the console.
* PipeEnds: 4 entries and one page, so that a second pipe() may find no second
  entry, or both entries and no page.
* Parser: 5 tokens nest one list in parentheses in a pipeline; MAXARGS 3 is
  reached.  Grep: patterns of 3 with all operators, texts of 5, a buffer of 5.
  Umalloc: requests of at most 4 units, morecore of at least 3, memory of 10.

### Fairness, and why the code justifies it

* Log: committer and recovery go on; a call inside a transaction ends; a woken
  thread runs.  Nothing forces calls or writes.  `CommitInstalled` supposes that
  crashes stop.
* Proc: strong fairness for dispatching and for acquiring a spinlock, since the
  scan of the round-robin scheduler meets every slot and a spinlock is held for
  a bounded time; the clock ticks.  Programs need not exit.
* Mlfq: kernel code goes on, an idle CPU dispatches, timer interrupts come.
* Alarm: timer interrupts come; a handler calls sigreturn.
* Virtio: the device completes what it got and the handler runs; strong fairness
  of a thread that finds three free descriptors again and again (wakeup is not
  first come, first served, so weak fairness would not do; `devices` assumes it
  for one thread only).
* Pipe: a process that can run does; one that has an end open uses it or
  closes it.  Without that no pipe could wake anybody.
* Uart: the holder of uart_tx_lock goes on, the device sends, its interrupt is
  served, and echo and printf fall silent in the end (they could have the
  transmitter each time uartstart() looks).  Nobody has to type: Console
  promises no progress.
* Chunks: programs go on, timers run out, users type something.
* Mlfq in `per_process`: as above, one CPU.
* Shell: some process that can go on does (weak fairness of all steps together,
  not of each process): commands end because nothing else can happen, whatever
  the scheduler prefers.  The user may stop typing.

## Proofs

Each theorem holds for every value of the constants that satisfies the assumption in
the last column: the `ASSUME` of the module it extends, or a hypothesis that the
theorem states, which an MC module assumes of its instances.

| module | theorem | states | under |
|---|---|---|---|
| LogProofs | `LogInvariant`, `DiskInvariant` | the inductive invariants `LogInv`, `DiskInv` | `LogConstants` |
| | `TypeCorrect`, `SpaceIsReserved` | `TypeOK`, `SpaceReserved` | |
| | `LogNeverPanics` | `NoPanic` | and `CallsFit` |
| | `PinsAreRight` | `PinsMatchLog` | |
| | `Atomicity` | `ImplementsAtomicFS`, with crashes anywhere | |
| SpinlockProofs | `SpinInvariant` | the inductive invariant `SpinInv` | `SpinlockConstants` |
| | `MutualExclusion`, `InterruptsOff`, `LocksNeverPanic`, `InterruptsRestored` | `Exclusive`, `NotInterrupted`, `NoPanic`, `Restored` | |
| | `SpinlocksHold` | all four: `LocksHold` | |
| ProcProofs | `ProcInvariant`, `ProcTypes` | the inductive invariant `ProcInv`; `TypeOK` | `ProcConstants` |
| | `StacksNotShared`, `StacksNotFreed`, `LocksHeldRunning` | `OneCPU`, `NoFreedStack`, `HoldersOnCPU` | |
| | `ParentsAreAlive`, `NoExitIsLost` | `ParentAlive`, `NoLostExit` (parts of `OneStack`) | |
| | `StacksAndFamilies` | the five: `OneStack` | |
| PartsProofs | `AlarmInvariant`, `PagesAccounted` | the inductive invariant `AlarmInv`; `TypeOK` | `AlarmConstants` |
| | `MainResumes` | `Resumed` | no handler calls exec |
| | `MainComesBack` | `ComesBack`: an interrupted main program comes back unless its handler calls sigalarm | no handler calls exec |
| | `HandlersNotReentered` | `NoReentry` | and `Tame` |
| | `NobodyIsLost` | `NotLost` of Mlfq, with exits and reuse | `MlfqConstants`, one CPU |
| | `OverflowsWhenQueuedTwice` | an array overflows only if a slot is queued twice | the same |
| | `QueuesKept` | `QueuesOrdered` and `QueueFits` of Mlfq, with exits | the same, and while no slot is taken that is still queued |
| | `WinnerRunsOnce` | `OneCPU` of Lbs | `LbsConstants` |
| | `EarliestWins` | `EarliestFirst` of Lbs | and one CPU |
| | `WaitTimes` | `WaitTimeFits` of Ptime | `PtimeConstants`, one CPU, no MLFQ |
| BcacheProofs | `CacheInvariant` | the inductive invariant `CacheInv` | `BcacheConstants` |
| | `NoLostWakeup` | `SleepsForReason` | |
| | `PanicsOnlyWhenUsedUp` | a panic of bget() means that the threads with a buffer and the pins are NBUF or more | |
| | `OneCopyOfEachBlock` | `ImplementsBlocks` | |
| DevicesProofs | `VirtioInvariant` | the inductive invariant `DiskInv` | `VirtioConstants` |
| | `OwnBlockTransferred`, `NobodyOverslept` | `Transferred` (no panic either), `SleepsForReason` | |
| | `PipesAreFifos` | `ImplementsFifo` of Pipe | `PipeConstants` |
| | `LinesKept` | `KeepsLines`, `OneLine`, `SleepsForReason` of Console | `ConsoleConstants` |
| | `PrintedInOrder` | `ImplementsFifo`, `SleepsForReason` of Uart | `UartConstants`, FIFO >= 2 |
| FileSystemProofs | `ContentsInvariant` | the inductive invariant `ContentsInv` | `ContentsConstants` |
| | `SpaceIsKept`, `ContentsNeverPanic`, `TransactionsFit` | `SpaceKept`, `NoPanic`, `OpFits` of Contents | |
| | `FilesAreBytes` | `ImplementsByteFiles` | |
| | `FilesInvariant`, `FilesCounted` | the inductive invariant `FilesInv`; `Counted` of Files | `FilesConstants` |
| | `OpenFilesKept`, `PanicsOnlyWhenFull` | an open file's inode is allocated; only a full inode table panics | |
| | `TreeInvariant`, `DirectoriesAreATree` | the inductive invariant `TreeInv`; `TreeShape` of Tree | `TreeConstants` |
| | `UnlinkNeverDeadlocks` | `NoCircularWait` of Tree | |
| | `PanicsOnlyGoingUp` | `NoPanic` of Tree | and `Dotless`, no path with ".." |
| XoxoProofs | `PlaysByTheRules` | `LegalGame`, over TCP and UDP | `XoxoConstants` |
| | `NobodyStuckIfDelivered` | `NobodyStuck` of Xoxo (part of `EndsAgree`), over TCP and UDP | and no loss, no mistyped answer |
| | `EndsOfChatAgree` | `PrintedWhole` and `AckedArrived` of Chunks (part of `EndsAgree`) | `ChunksConstants`, no loss, no early timer |

There is one lemma (or step) per action, and under it one step per part of the
invariant.  TLC checked every invariant on small instances before it was proved.

**Log.**  SpaceReserved (blocks in the log, plus what the calls inside may still add, fit
in LOGSIZE) is not inductive by itself.  begin_op counts `outstanding` calls and
reserves MAXOPBLOCKS for each, so one needs that outstanding is the number of
calls inside (`PhaseInv`), that a call's writes are in the log already, hence do
not count twice (`WroteInv`), and that nobody is inside while the committer or
recovery changes the log.  `ReservationBound` is the counting
lemma (a reservation has at most calls * MAXOPBLOCKS elements); begin_op uses
it with the test of log.c:132, log_write moves one element from the reservation
to the log, end_op drops the rest, a crash empties both.

`CallsFit` is the slack log_write's own test wants: it refuses a block, even
one it would absorb, at LOGSIZE blocks and at NLOG - 1 (mkfs makes NLOG =
LOGSIZE).  The kernel's callers have it, because filewrite writes fewer than
MAXOPBLOCKS blocks.

For atomicity one must know what is on disk at each write of a commit and of a
recovery.  `DiskInv` says it: which log blocks are written already, that the header on
disk is empty until all of them are, which home blocks are installed, that
cached copies agree with the home block or are pinned.  The refinement maps
`durable` to `AfterRecovery`, so that only the header write changes
it; each other write of commit is shown to leave AfterRecovery as it was, and a
crash in the middle of recovery likewise.  `AfterRecovery` is a function of the
header and the two halves of the disk, so that this needs no induction.

**Spinlocks.**  None of the four is inductive.  That release() may turn interrupts on depends on
noff, so `DepthInv` says that noff is the number of locks that the running level
holds or has pushed for; `InterruptInv` that while noff is not 0 interrupts are
off and intena remembers what they were; `LevelInv` that a handler only interrupts
code that holds nothing and is at most about to turn interrupts off; `LockedInv` and
`HolderInv` that `locked` and `lk->cpu` agree with who holds; `OrderInv` that
locks are taken upwards, which keeps acquire() from finding its own lock.
`Counting` has the facts about cardinalities.

**Processes.**  `OneCPU` needs `CpuInv`: a CPU that is still on the stack of a process
that is no longer RUNNING holds that process's lock, so that neither scheduler()
nor wait() can touch it (proc.c's comment that p->lock is held across swtch).
`LockInv` says at which points wait_lock, tickslock and the lock of another process
are held, and that their holder runs; `ForkInv` that a USED slot belongs to one fork().
`ParentAlive` needs `FamilyInv` (init never exits, nobody is his own parent, who
has passed reparent() has no children) and that wait_lock is held from
reparent() to the state ZOMBIE.  `NoLostExit` needs `WakeInv`: from the scan of
wait() to its sleep no child becomes a zombie, since both hold wait_lock, and
whoever is about to become one has woken the parent.  The theorem holds for any number of
CPUs, and also with the unlocked hand-over of counts of exit() that may panic
(`proc_panic`): after a panic the model stops.

**Alarms.**  `Resumed` is about now, sigreturn about a page saved before: `SavedInv` says
what that page has in it.  Handlers may set the alarm, fork and be interrupted, and main may
call sigreturn; only exec in a handler is excluded, since the page of the old image stays
with the process and a sigreturn of the new one loads it (below).  `MainComesBack` says of
the same programs which steps may end the handler's run: back to main as it was, the
process's end, or sigalarm, which gives the saved page back.  That handlers are not reentered
holds for programs that are `Tame`: no handler calls sigalarm, and no process calls exec
with an alarm on (the code fails both ways, see below).  `TameInv` then says who
may have an alarm on without a saved context, in which the child of a handler is the
case that needs care.

**MLFQ.**  exit() leaves its slot in the queues, and the next fork() takes it and queues
it again, so that entries may be there twice, at other levels than their process's, until an array overflows
(`mlfq_reuse`).  What holds all the same is `NobodyIsLost`: a process that lives is in some array, or
between the two halves of enqueue() (`KeptInv`), since a removal in yield() takes out the
entry of the process that is being stored again, and a boost moves every entry.
`OverflowsWhenQueuedTwice` is a pigeonhole argument (`AtMostNPROC`): different
slots in a row are at most NPROC, in one array and in `Boosted`, the four one after the other.
`QueuesKept` says that nothing but this reuse spoils the order: `Once`, `Placing` (which
process is in no array because enqueue() has not stored it yet), `Levels` with `Changing` (which is in the
array of the level it has left) and `Doing` (the only CPU is at that place) are kept by all
steps but a fork() that takes a slot which is still queued.  On two CPUs all this fails (below).

**Lottery and times.**  `WinnerRunsOnce` holds for any number of CPUs: pick() takes the
lock and tests RUNNABLE again.  That the earliest arrival goes first is a promise of the
walk on one CPU: `WalkInv` says what `earliest` is after each slot.  `ChargeInv` compares
rtime with the ticks since ctime, less the tick that update_time has still to charge.

**Contents.**  `NamedOnce` says that the bitmap has just the blocks that some place of a
file names (an address, or an entry of an indirect block), and that each is named at one
place; `WholeInv` that the blocks below a size are there, except in a file that is being
truncated; `WriteInv` how far a write has come and that its offset is not beyond the end.
`LogInv` says what a transaction has logged: a write of k blocks logs at most k + 1 data
blocks with their bitmaps, the indirect block with its own, and the inode, 2k + 4 <=
MAXOPBLOCKS in all, and MaxWrite chooses k so; a truncation logs one bitmap block,
for which BPB > NBLOCKS is needed.  The refinement maps a file to its bytes below the
size: `Overwritten` says what a write does to them, and since the holder of the inode's
lock alone decides on length and offset, all other files keep theirs.  The image must
have no holes and its opened files must be made of one byte, as mkfs's are
(`ImageConstants`, which TLC evaluates for the image that Mkfs computes).

**Files.**  `Counted` has two parts, that ref of an inode is the number of open files
and calls that have it, and that nlink is the number of names, with exceptions between
two steps of link() and unlink().  To be inductive it needs that the table is a cache of
the disk (`TableInv`: an inode is in one entry, a valid entry agrees with the disk),
that what is open, named or in a call's hands is allocated (`UseInv`), that who frees an inode
is its only user and it has no name (`FreeInv`), that a new inode has no name until
create() stores it (`NewInv`), and where a name may disagree (`NameInv`).  The kernel
has 200 inodes and 50 entries, so that iget()'s panic is possible;
`PanicsOnlyWhenFull` says that no other panic is (ilock of a freed inode, iput, filedup).

**Tree.**  `TreeShape` speaks of what is reached from the root, but calls also work in
directories that have been removed, so `Shape` says of all inodes what holds of both: each
entry is the only one of an allocated inode (`Leads`, `Once`), a directory's link count
is its name, if it has one, and its subdirectories (`Linked`), and some numbering grows
along every entry (`Rooted`, there is no cycle).  Making an entry, removing one and freeing
inodes without links keep it (`NewShape`, `LessShape`, `FreeShape`), whatever process does
it.  `Alive` says that an inode without links is held by somebody, `Unlinks` that
nobody else changes the entry that unlink() has found while it waits, since it has the
directory locked (`DirsLocked`).  So whoever is waited for waits deeper down, and the
deepest one can go on.  That what has a name is reached
(`NamedReached`) goes up from a missing one of least depth; the walk of `Reachable` ends because each
step that is not the last finds another inode (`Spread`).  The theorems hold with and
without `Removed`.  A panic is reached through ".." only (`tree_panic`), in ilock();
unlink() itself never finds a free inode or one without links (`AtEntry`).

**Buffer cache.**  `CountInv` says that refcnt is the number of threads that have
the buffer in hand plus one for a pin.  So a buffer that bget() recycles has no
user and no pin, and its contents are those of the disk (`ValidInv`), which is what
makes recycling a stutter of Blocks.  A sleeper is woken with the lock (`OwnerInv`).
`PanicsOnlyWhenUsedUp` counts (`UsedUp`): if each buffer has a user or a pin, there are
NBUF of both, and the thread that calls bget() is not among them.  Nothing in the code
excludes that: with 30 buffers and 30 blocks of log it is how few processes hold
a buffer at a time that keeps bget() from its panic.

**Disk.**  A request is three descriptors that point to one another: `DescInv` says that
they are as virtio_disk_rw() wrote them, and neither free nor part of another request, so
that free_chain() frees what is not free and nothing else.  `RingInv` says that a head is in
the avail ring, with the device or in the used ring, once, and is the head of a thread
that waits: hence info[] names that thread when the handler gets there.  `DataInv`
says what buffer and block are before and after completion.  No order of
completions is assumed, nor when the handler runs.

**Rings.**  Pipe, console and uart each have a ring of SIZE places between counters
that wrap at UINT, a multiple of SIZE.  `Place` is the i-th place behind a counter; the
lemmas on remainders say that places less than SIZE apart differ (`OtherPlace`), that a
place is the same one seen from the other counter (`SamePlace`), and how the distance
of two counters changes when one moves, also past UINT (`Further`, `Nearer`).  So a
write behind the last byte touches no byte that waits, and a read takes the first ones:
in terms of Fifo, `\o` and SubSeq of the queue.  In the pipe one needs besides that no
more than PIPESIZE bytes are in the ring (`Counters`) and that a process in a call has
bytes left to transfer (`Buffers`).  In the console `Marks` orders r, w and e, which
backspace and kill-line move back as far as w, and `Requests` that a reader which goes
on has seen no end of line, so that no read returns more than one.

**Uart.**  uartstart() and uartputc_sync() each look at the transmitter and write later.
`OnTheLine` counts: who has found it idle finds at most the byte of the other in it, and
none if both are about to write.  So there are never more than two bytes in the device,
nothing is dropped (its FIFO has 16 places; with one, TLC shows the loss), and the byte
that leaves is the first one stored, or the echo.

**Tic-tac-toe.**  `GameInv` ties the server's place in its program to the board: a move
is awaited only on a board that is not decided, another game only on one that is.
`StuckInv` does the same for the dialogue: at each point where the server receives it says
which player has the question on its way, before the user or answered (`ToMove`, `ToAnswer`),
and that the other waits with nothing under way.  A client that has answered would take a
second question for the reply to its answer; that none comes needs that a game is not over
after one move (`OneMarkIsOpen`).

**Chat.**  `ChatInv` says which datagrams are in both sockets, in their order.  One end
speaks (`Speaks`): of its chunks, those below b have arrived and the echoes of those from a on are on
their way back.  Or the other has printed the message and may speak already, its chunks
behind the last echoes (`Answers`): as the sockets are FIFO, the first end has
read these, and so stopped sending, before it gets the next message.  Both ends may be in
`sending` then, and take any datagram for an echo; the order is all that protects them.  With
loss or an early timer the invariant fails, and so does the code (below).

Only model-checked, because out of the prover's reach: liveness (`SleepersWoken`,
`CommitInstalled`, `OrphansReaped`, `KilledExits`, `AlarmComes`, `NotStarved`,
`Delivered`, `PromptReturns`), which rests on fairness; what recursive functions
compute for every input (Copy, Parser, Grep, and the walk through the ring of Umalloc);
sums over a set of processes (`NoCallLost`, `EndsCounted`, the tickets of `SomebodyWins`,
the pages of Memory).  Only model-checked so far: PipeEnds and Shell.

## Findings

The five violation runs, each a disagreement between code and what the repository says of it:

* `proc_panic` (proc.c:483): exit() reads p->parent without wait_lock.  The
  parent exits between acquire(&p->parent->lock) and release(&p->parent->lock):
  reparent() has changed p->parent and release() panics.
* `mlfq_reuse` (proc.c:184): freeproc() leaves the slot in its queue, allocproc()
  adds it again; NPROC entries do not suffice.
* `alarm_a0` (syscall.c:152): the result of sys_sigreturn() overwrites the a0 it
  restored.
* `iput_leak` (fs.c:341): iput() frees the inode without itable.lock.  Before it
  drops its reference, another process takes the inode number with ialloc(),
  finds the same table entry, unlinks and closes the file; it sees ref 2 and
  frees nothing, and the first only drops its reference.  The inode stays
  allocated with no name.
* `tree_panic` (fs.c:315): after mkdir a, mkdir a/b, chdir a/b, unlink /a/b and
  unlink /a, the directory a is free while the ".." of the working directory
  names it; chdir .. reaches panic("ilock: no type").

## Disagreements noted

More places where the code does other than the repository says.  Definitions and
constants that show each (all others as in the run of the module):

| definition, module | instance | what happens |
|---|---|---|
| `LogHoldsLOGSIZE`, Log | LOGSIZE = NLOG = 4, OpBlocks = MAXOPBLOCKS = 2, 3 calls, 4 blocks | log_write panics with LOGSIZE - 1 blocks; param.h:10 "max data blocks in on-disk log" |
| `KillWakes`, Proc | two CPUs | kill() between the killed() test and sleep() of wait or sys_sleep: the victim sleeps on; proc.c:932 "Wake process from sleep()." |
| `BornAlive`, Proc | one CPU, KillsPidZero = TRUE | kill(0) marks a free slot and its next process exits at once |
| `SlicesAsDocumented`, Mlfq | init and one slot, BOOST 48, ProcsSleep = TRUE, nothing else | demotion after 1, 2 and 4 ticks in all; README.md:393 says slices of 1, 4, 8, 16 |
| `NoStarvation`, Mlfq | BOOST 6, ProcsSleep and KernelTicks = TRUE, no exits | a boost needs a user-mode tick that is a multiple of 48 |
| `NotLost`, Mlfq | two CPUs, four processes that sleep | two enqueues store into one entry |
| `NoCallLost`, Syscount | ParentsWait = FALSE, MaxCalls 1 | syscalls[num]++ without a lock races with a child's exit |
| `MainNotLost`, Alarm | HandlerCalls = {"sigalarm"} | a handler that uninstalls itself never gets back to the main program (alarmtest.c:168) |
| `MainNotLost`, Alarm | as `alarm_a0`, ArmedExec = TRUE | exec keeps alarm_on and alarm_handler (exec.c:122-131): the new image is interrupted at an address of the old one, where README.md:160 promises "the handler" |
| `Resumed`, Alarm | as `alarm_a0`, HandlerCalls = {"exec"}, ArmedExec = TRUE | exec in a handler keeps the saved page; sigreturn of the new image loads the registers of the old one (sysproc.c:173) |
| `NoReentry`, Alarm | HandlerCalls = {"sigalarm"} | a handler that sets the alarm again is entered again (alarmtest.c:113) |
| `WaitTimeFits`, Ptime | Mlfq = TRUE, 2 slots, MaxTicks 3 | a tick is charged twice and waitx's wait time wraps (`ChargedOnce` shows at most twice) |
| `WaitTimeFits`, Ptime | Mlfq = FALSE, two CPUs, 3 slots, MaxTicks 2 | a process made after ticks++ is charged for the tick before |
| `InBounds`, Lbs | NPROC 2, Tickets {1, 2} | the number of tickets indexes earliest_proc[NPROC] |
| `EveryoneRuns`, Lbs | NPROC 2, Tickets {1}, Busy = TRUE, FairSpec | the later of two busy processes with equal tickets never runs |
| `EarliestFirst`, Lbs | NPROC 3, two CPUs, Tickets {1} | the slot picked is reused before it is started |
| `PrintedWhole`, Chunks | Lossy = TRUE, 2 chunks | a lost chunk leaves a gap; server.c:198 meant to check |
| `AckedArrived`, Chunks | Early = TRUE, 2 chunks, Capacity 4 | a late copy of a chunk is taken for an acknowledgement |
| `SleepsForReason`, Pipe | as in `devices` | a writer killed after some bytes returns -1 without waking readers (pipe.c:84-87) |
| `TreeShape` without `\/ Removed`, Tree | one process, Removed = TRUE, paths `<<x>>` and `<<"/", x>>` | a directory created in a removed one has neither name nor reference and stays allocated (fs.c:329 "free the inode (and its content) on disk."); `storage` has Removed = FALSE |

Also seen, and not run: writei() leaves what it copied before a bad address in an unlogged
buffer (fs.c:524); mkfs writes the root's size one block too big when it is a
multiple of BSIZE already (`RootSize` of Mkfs); malloc() of 2^31 bytes and more
hands sbrk() a truncated, perhaps negative, int (umalloc.c:54).  In the shell, of
several redirections of one descriptor the first wins, `a & b` on one line is
refused as "leftovers", `>>` writes over the beginning of
the file (sh.c:393), and when the second fork of a
pipeline fails its left side goes on while the prompt returns.  grep stops
without a word at a line longer than its buffer, and does not look at a last
line without an end.  The server of the games reads board[row][col] before it tests
the range of row and col, so perhaps outside the board (udp/server.c:78); the model
tests the range first.

Also seen, part of the models and allowed by their properties: over TCP the
server keeps row and col of the last turn when a line holds no two numbers, so
that "garbage" plays a decremented old move (tcp/server.c:69-74; README.md:605
promises a message); over UDP a client's comparison with the prompt to move
again never matches (udp/client.c:47-52), and the server takes the answers to
"play again" in the order they arrive, which may swap the players
(udp/server.c:180-184).  A thread that finds too few descriptors gives some back
and so wakes the other waiters (virtio_disk.c:207-208).

## What is left out

* Formats: text, the layout of inodes and directory entries, printing.
* In modelled parts: virtio_disk_init; stat, the partial
  copy of a write before a bad address; references of exec to its inode, its arguments
  and registers; the kernel page table; printf;
  the order of CPU memory accesses (fences are taken to work).
* The composition of Files, Contents and Tree: a file's last reference frees it in
  Files and a directory's in Tree, with the blocks in Contents only.
* Not modelled: boot, assembly, device registers, ulib.c and printf.c of user/,
  small programs (ls, wc, kill, rm...), and the test programs (usertests.c,
  grind.c and others, a third of the code), which say what they expect
  of the kernel and keep no state of their own.

## Plan

1. Log, Proc, schedulers, spinlocks, per-process facilities, memory, copies,
   networks, storage with contents, directories and ends of pipes, devices, shell, grep,
   allocator: done.
2. References of exec to its inode; virtio_disk_init.
3. Files over Contents and Tree, with crashes (Log), as one composition.
4. Proofs, next: `DoneAsSaid` of Shell; the counts of PipeEnds.
