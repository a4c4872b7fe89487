# TLA+ models of the NTU OS 2025 machine problems

The repository holds four xv6 kernels, one for each machine problem, and what
each problem added to it:

| directory | what was added | the core of it |
|---|---|---|
| `mp1/xv6` | user-level threads with signals | `user/threads.c` |
| `mp2` | a slab allocator, used for `struct file` | `kernel/slab.c` |
| `mp3/xv6` | user-level scheduling on kernel timer upcalls | `user/threads.c`, `user/threads_sched.c`, `kernel/thrd.c` |
| `mp4` | RAID 1 under the buffer cache, symbolic links, file permissions | `kernel/bio.c`, `kernel/log.c`, `kernel/fs.c`, `kernel/sysfile.c` |

This directory models those parts in TLA+, checks the models with TLC on small
instances and proves their most important properties with TLAPS for every value
of the constants.  `PROJECT.json` lists components, runs, mutants (each the slip
in the code a property would catch), the source lines of every definition, the
hazards of the code, the findings and the theorems.

* [Inventory](#inventory)
* [Modules](#modules): how state and actions correspond to the code
* [Runs](#runs): what each one checks, with its bounds
* [Fairness](#fairness)
* [Proofs](#proofs)
* [Findings](#findings)
* [Abstractions and preconditions](#abstractions-and-preconditions)
* [Not modelled](#not-modelled)
* [Plan](#plan)

## Inventory

### Slab allocator (`mp2/kernel/slab.c`, over `kalloc.c`)

*State.* One `struct kmem_cache` at the head of a page; the rest of that page is
cut into "in-cache" objects with a freelist; slabs, one page each, with a
freelist and an in-use counter, are linked on `partial`, `full` or `free`;
`total_slabs` counts them.  `kmem.freelist` has the free pages of the machine.
*Operations.* `kmem_cache_create`, `_alloc`, `_free`, `_destroy`; `kalloc`,
`kfree`.  *Interaction.* `fileinit`/`filealloc`/`fileclose` of mp2 are the
client; all operations run under `cache->lock`, the page pops under `kmem.lock`.
*Hard.* Nothing runs inside an operation, but the state of a slab is kept in
three places (list, counter, freelist), and a long mix of operations must never
drive them apart; the threshold for giving pages back is computed by counting
lists the slab may itself be on.  *Correct when* no object has two owners, no
page has two owners, lists and counters match occupancy, and an idle cache has
given its memory back.

### Buffer cache and RAID 1 (`mp4/kernel/bio.c`)

*State.* `NBUF` buffers on an LRU list, each with `blockno`, `valid`, `refcnt`,
data and a sleep-lock; the disk image, whose second half mirrors the first; the
failure hooks `force_disk_fail_id` and `force_read_error_pbn`.  *Operations.*
`bget`, `bread`, `bwrite`, `brelse`, `bpin`, `bunpin`; the system calls
`force_disk_fail`, `force_fail`, `raw_read`, `raw_write`.  *Interaction.*
readers through `fs.c`, writers through `log_write`, the committer through
`write_log`/`install_trans`, the disk through `virtio_disk_rw`.  *Hard.*
Processes interleave at every sleep; `bread` and `bwrite` change `b->blockno` in
the middle of a call to address the mirror; flags are read once and acted on
after a transfer; buffers are recycled.  *Correct when* a block has at most one
buffer, a holder keeps its buffer, reads return the last write, logged changes
stay in memory, and both halves of the disk agree.

### Redo log (`mp4/kernel/log.c`)

*State.* `log.lh`, `outstanding`, `committing` in memory; log blocks and the
header block on two disks.  *Operations.* `begin_op`, `log_write`, `end_op`
with `commit()`, `initlog` with recovery.  *Interaction.* every file system call
runs between `begin_op` and `end_op`; `bpin` keeps logged buffers in the cache.
*Hard.* A crash between any two transfers, also of recovery, also between the
two transfers of one mirrored write; operations that share one commit; log space
reserved by `begin_op` and checked again, unlocked, by `log_write`; sleeping and
waking.  *Correct when* transactions are atomic and durable, the log never
overflows, pins are exact, and nobody sleeps beside free space.

### User-level threads of mp1 (`mp1/xv6/user/threads.c`)

*State.* `current_thread`, a ring of `next`/`previous` links, per thread the
flags of two `jmp_buf`s (`env`, `handler_env`), `suspended`, `signo` and two
handlers.  *Operations.* `thread_create`, `_add_runqueue`, `_start_threading`,
`_yield`, `_exit`, `_suspend`, `_resume`, `_kill`, `_register_handler`, and
`schedule`/`dispatch` inside.  *Hard.* Control moves by `longjmp`; a thread has
two contexts and the wrong one, or a stale one, may be resumed; a handler is
interrupted by a yield and goes on later; threads leave the ring while it turns.
*Correct when* the ring holds exactly the live threads, every jump finds the
context that was left, suspended threads wait, awake ones run, signals arrive.

### User-level threads and schedulers of mp3 (`mp3/xv6/user/threads.c`, `threads_sched.c`, `kernel/thrd.c`)

*State.* The run queue, the release queue of periodic tasks, `current`,
`allocated_time`, `threading_system_time`, and the fields of each `struct thread`; in
the kernel, per process, sixteen saved contexts, `thrdstop_ticks`, `thrdstop_delay` and
three flags that the way back to user space looks at.  *Operations.* `thread_create`,
`thread_add_at`, `thread_start_threading`, `thread_exit`, the handlers
`switch_handler` and `back_to_main_handler`; HRRN, priority round robin, DM and EDF
with a constant-bandwidth server; `thrdstop`, `cancelthrdstop`, `thrdresume` and the tick.
*Interaction.* The library sets an upcall for each time slice, the kernel saves the
user context and jumps to the handler.  *Hard.* A tick falls anywhere: into the exit of
the thread it interrupts, or between two system calls of the dispatcher; slots are
limited; a scheduler has to foresee the next release.  *Correct when* no queue
loses a thread, the thread the policy names runs, time and contexts are exact, and a
deadline is missed only by overload and never silently.  The code is not correct in all of
this: [Findings](#findings) says where, and the properties say that it goes wrong nowhere else.

### Inodes, paths and access control of mp4 (`fs.c`, `sysfile.c`)

*State.* `struct dinode`s, directories and links on the disk, the block bitmap, the
inode cache, current directories and open files.  *Operations.* `iget`, `ilock`,
`iput`, `namex` with symbolic links; `open`, `mkdir`, `symlink`, `link`, `unlink`,
`chmod`, `chdir`, `write`, `close`, `get_disk_lbn`.  *Interaction.* All of it runs in
transactions of the log, over the buffer cache.  *Hard.* Calls interleave at every
inode lock; the last `iput` races look-ups; `nlink` and entries change in separate locked
sections; `namex` reads `ip->type` before the inode is loaded.  *Correct when* nothing
reachable is freed and nothing unreachable kept, the cache agrees with the disk,
permissions hold, and every call returns.

### Processes (`mp4/kernel/proc.c`, `trap.c`)

*State.* The process table, a spin lock for each entry, `nextpid`.  *Operations.*
`fork`, `exit`, `wait`, `kill`, `sleep`, `wakeup`, `yield`, `sched`, `scheduler`.  *Hard.*
`exit` holds the parent's lock and acquires its own and its children's, by a parent
it has read without that lock; `wait` frees the stack of a thread that has
just been on it.  *Correct when* nobody waits for a lock in a circle, no wakeup is lost, the tree
stays a tree, and an entry is free only when its thread has left it.

### Pipes and shared files (`mp4/kernel/pipe.c`, `file.c`)

*State.* A ring of bytes with two wrapping counters, two flags for the ends, a
reference count for each end.  *Operations.* `pipealloc`, `pipewrite`, `piperead`,
`pipeclose`, `fileclose`, `filedup` by `fork`.  *Correct when* it is a bounded FIFO
channel, lives as long as anyone has an end, and nobody sleeps over what it waits for.

### Disk driver (`mp4/kernel/virtio_disk.c`)

*State.* Eight descriptors, the available and the used ring, `info`.  *Operations.*
`virtio_disk_rw`, `virtio_disk_intr`, and the device.  *Correct when* each request has
its own three descriptors, is in one place at a time and comes back.

### The rest of the kernels

Virtual memory, exec, console, UART, PLIC, boot code, system call dispatch and most of
the trap path are machine set-up or sequential code over memory layout, with no protocol
whose steps interleave: they are [not modelled](#not-modelled).  mp1 to mp3 carry
stock copies of `log.c`, `bio.c`, `proc.c`, `pipe.c` and `fs.c`; mp4's versions are modelled.

## Modules

```
ObjectPool <--refines-- Slab <-- MCSlab         Slab <-- SlabProofs
AtomicDisk <--refines-- Log <-- MCLog           Log <-- LogProofs
Bcache <-- MCBcache                             Bcache <-- BcacheProofs
UThreads <-- MCUThreads                         UThreads <-- UThreadsProofs
Proc <-- MCProc
Proc <-- Pipe --refines--> Channel              Pipe <-- PipeProofs (of Proc and Pipe)
Pipe <-- MCPipe
Thrdstop, Schedulers <-- ThrdSched <-- MCThrdSched
VirtioDisk <-- MCVirtioDisk                     VirtioDisk <-- VirtioProofs
Fs <-- MCFs                                     Fs <-- FsProofs <-- FsLinkProofs
```

`Bcache` and `Log` model the two halves of one mechanism.  `Bcache` has the
buffers, the sleep-locks and each transfer, and reduces the log to what it asks
of the cache: blocks to log, pins, and a committer that installs.  `Log` has the
log, both disks, crashes and recovery, and takes the cache to be coherent: `mem[b]`
is what every process sees.  `Bcache` says when that is so, and `Log`'s `Evict`
adds back the one thing coherence hides, that any buffer without a pin may be recycled, also
one that holds the only copy of a logged change; `lost`, a history variable, notes when that
happens.

**`Slab`.**  `kmem`, `others` partition the pages outside the cache; `cache` is the
page of the `kmem_cache` (a set of at most one); `partial`, `full`, `free` are the
lists, `freelist[s]` and `inUse[s]` the two records of occupancy, `cacheFreelist`
the in-cache objects, `held` what callers have.  An object is `<<page, slot>>`.
An operation is one action since it holds `cache->lock` throughout; its branches
are separate disjuncts: allocation in cache, from partial, from free, from a new
slab; a free in cache, into a slab still used, into one that becomes empty and is
kept or released.  `AvailableSlabs` counts exactly as the loop does.  Lists are
sets: the code takes the first member of a list, the model any, so what holds here
holds for every order.  `ObjectPool` is the promise to callers: memory is
allocated only if it overlaps nothing anyone holds.

**`Bcache`.**  Each process has a place in its call (`pc`), its buffer and its
argument.  `BgetHit`, `BgetRecycle`, `BgetPanic` are the section under
`bcache.lock`; `Acquire` the sleep-lock; `ReadStart`/`ReadDone`, `BwriteStart`,
`Write0Done`, `Write1Done` the transfers with the code's changes to `b->blockno`
around them; `LogWrite` logs and pins; `CommitStart`/`CommitEnd` are `end_op`;
`Bunpin` what `install_trans` does next; `RawRead`/`RawWrite` the raw calls; `BrelseUnlock`
and `BrelseUnref` the two halves of `brelse`; `ForceDiskFail`, `ForceFail` the
hooks.  `AcquireSleep` and `Acquire` are the two turns of the loop of `acquiresleep`, and
`Woken` what `releasesleep` makes runnable.  A raw write that fails in `copyin` leaves part
of the buffer overwritten (`RawWriteFails`).  Contents are version numbers, and `Blank` (-1)
the mirror as mkfs leaves it.  `current` is the version last stored by anyone.
`mishaps`, a history variable, notes the five things that the cache has no defence against:
a hook that fails a disk or block, or both copies of a block; `bget` asked for a block whose
buffer a transfer has renamed; a raw call that overwrites a logged change, a mirror or part
of a valid buffer; and one that writes a home no commit is going to write.  Each property says
which of them end it.

**`Log`.**  `BeginOp`/`BeginOpSleep` are one turn of `begin_op`'s loop,
`LogWriteCheck` the caller's change and the unlocked test (with its panic),
`LogWriteAppend` the locked part; `EndOpOther`, `EndOpLast`, `CommitDone` the
three ends of `end_op`.  The committer runs through `phase`: "log", "head",
"install", "clear", "done", with `tail` the block and `left` the disks the
current `bwrite` has still to reach; each step is one transfer.  Recovery runs the
same `InstallTrans` and `ClearHead` in `mode` "recovering", reading its contents
from the log on disk 0.  `Crash` empties memory and starts `initlog`.
`Recovered(d)` is what recovery would make of disk d; the refinement maps
AtomicDisk's durable state to `Recovered(0)` and its volatile state to `mem`.

**`UThreads`.**  `next` and `previous` are the links themselves.  A `jmp_buf` is
the activity it returns to: "body" or "handler".  `mode` says whether `main()`,
a thread, or `dispatch()` runs; `dispatch()` is an action of its own between the
call that chose a thread and the thread.  `Scheduled` is the loop of `schedule`,
`Successor` that of `thread_exit`.

**`Thrdstop`, `Schedulers`, `ThrdSched`.**  `Thrdstop` has one operator for each system
call and for the tick and the return from a trap, each mapping the `thrdstop` fields
of a `struct proc` to their next value.  `Schedulers` has one operator for each
`schedule_*` function: a walk over a list is a fold with the comparison of the code.
`ThrdSched` composes them.  `lib` holds the library's variables, `frame` where the user
code is, `trap` the system call in progress, `proc` the kernel's record.  User code up
to the next `ecall` is one step (`MainLoop`, `MainDispatch`, `SwitchHandler`,
`ThreadExited`, ...); `SysCall`, `TrapReturn` and `TimerInterrupt` are the kernel's.  A
program is a record chosen by `Init`: policy, tasks, arrivals, whether threads may
return early, and where ticks may fall: in a body, in `thread_exit`'s `cancelthrdstop`, or
in a `__dispatch` that has set the delay.  `cancelthrdstop` is two steps, since a tick may come
between its reading of the ticks and its clearing of the delay (`CancelRead`).  `clock`,
`unread` (the ticks such a call came too early to report), `strays` (the contexts saved in the
middle of the library), and `out`, `turns`, `missed` and `kept` of `lib` are history.  When a
stray context of `thread_exit` is resumed, or any that is not of the thread dispatched, the run
ends at the point "astray": what the program does from there, on a stack that may have been
given away, is below the model.

**`Fs`.**  A call is a walk through program points: `l.pc` of the locals
`l = proc[p]`.  `Lock(l, s)` and `Put(l, s)` insert an `ilock` or `iput` before the point,
so every inode lock and every reference dropped is a step of its own.  `Look`, `Link`,
`ReadLink` and `Follow` are the loop of `namex`, with `stack` the depth counters of the activations
that wait for a nested `namei`; `CreateOld`, `CreateNew`, `NewInode` and `Created` are
`create`; `OpenLink`, `OpenCheck` and `Install` `sys_open`; and so on, one action for
each stretch between two locks.  `Init` chooses an image and the calls of each process;
`SetupsAssumption` says what an image may be: a tree of directories, with exact link counts
and no block in two inodes, as mkfs writes one and a quiet system leaves it.

**`Proc`.**  The table `proc` has the fields that other processes read, with the spin
lock as a field; `thread` is where the kernel thread of each entry is, with its
locals.  A step goes from one `acquire` to the next, or to the next read of a
field whose lock is not held (`Scan` and `Reparent` read `parent` so).
`Dispatch`, `Yield` and `Sched` are the scheduler; its own acquisition of `p->lock` ends
where the process starts.  **`Pipe`** extends it with the pipe, the references of its two
ends and the locals of a call; `Sleep`, `Sleeping` and `WakeupOne` of `Proc` are used as
they are, so a wakeup goes through the table entry by entry while others move, and a kill
may fall between the test of `killed` and `sleep` (`ReadSleep`, `WriteSleep`).  `silent`, a
history variable, notes that a killed writer has left bytes without a wakeup of the readers.
`Channel` is the abstract FIFO.

**`VirtioDisk`.**  `Submit`, `Full` and `Finish` are the parts of `virtio_disk_rw`
between sleeps, under `vdisk_lock`; `IntrBegin`, `IntrOne`, `IntrLast` and `IntrAck` the
handler, whose loop the device can overtake; `Fetch` and `Complete` the device, in any order.

## Runs

Twelve runs, of which ten pass.  A property that conjoins several claims names them;
each claim has a comment in its module.

| run | instance | shows |
|---|---|---|
| `slab` | 6 pages, 3 objects a slab, 2 in-cache objects, MP2_MIN_AVAIL_SLAB = 2; 7 135 states | `PagesPartitioned`, `NoDoubleAllocation`, `ListsMatchOccupancy`, `MemoryReturned` and the refinement of `ObjectPool`, for every order of allocations, frees, creation, destruction and page traffic |
| `slab_release` | the same | violates `ReleaseLeavesMinAvail`: see [Findings](#findings) |
| `bcache` | 2 buffers for a reader of both blocks, an updater of block 0, the committer, and a raw user of block 0 and of its mirror; the hooks fail disk 0 or 1 at any time; 2 changes, 2 calls; 282 398 states | until the mishaps named in each: `BuffersExact` (references, holders, one buffer a block, `bget` panics only when all are in use or pinned), `ReadIsCurrent`, `NoLostUpdate`, `MirrorsAgree`, `WriteReachesADisk` (an installed change is on some disk); and `CallsEnd`: every call returns and every commit ends, unless `bget` has panicked, which is a real end of the system: so deadlock is not an error |
| `log` | 2 processes, 2 blocks, 3 changes, 2 crashes, any unpinned buffer is recycled; 44 306 states | the refinement of `AtomicDisk`, `CommittedIsDurable`, `MirrorCurrent`, each up to the first recycling of a logged block, and `LogLive`: operations, recoveries and sleeps end; a second crash falls into recovery at every transfer |
| `log_space` | 3 processes, 3 blocks, log of 4, 2 reserved an operation, disk 1 fails, any unpinned buffer is recycled; 97 852 states | `NoPanic`, `NoLostWakeup`, `OutstandingExact`, `PinsExact`; the third operation has to wait |
| `uthreads` | 3 threads, 1 signal, any program | `RunQueueSound` (one ring, every jump finds its context), `TurnsTaken` (suspended threads run last, awake ones run again), `SignalDelivered`; programs may end, so deadlock is not an error |
| `thrd_sched` | 3445 programs: the 20 graded ones with the output of their graders, and families of small ones under every policy; 5 contexts; 1 490 700 states | `ThreadsKept`, `PolicyKept`, `DeadlinesKept`, `TimeKept`, `MatchesGrader` |
| `fs` | 2 processes, 2 + 1 calls (or 3 of one process) out of sets of calls on files, directories, links, paths; 5 inodes, 5 blocks | `CacheSound`, `DiskSound`, `NoWriteWithoutPermission`, `CallsReturn` at every interleaving of the inode locks |
| `proc` | 3 entries, 2 CPUs, 3 forks, 1 kill; 60 719 states | `LocksSound` (no panic of `sched`, and no circle of lock waiters without a stale parent), `ProcessTree`, `NoLostWakeup`, `CallsEnd` |
| `proc_slots` | 4 entries, 3 CPUs, 4 forks | violates `StaleParentHarmless`: see [Findings](#findings) |
| `pipe` | init and 2 children on 2 CPUs; 2 cells, counters modulo 4, calls of 4 bytes, three in all between the children, 1 kill; 3 331 554 states | `SleepersHaveReason`, `PipeSound`, and the refinement of `Channel` |
| `virtio` | 8 descriptors, 3 callers | `RingsSound`, `RequestsComplete` |

*What the properties of `thrd_sched` except.*  Each exception is something the code does, with
its row under Findings, and the property says how far it reaches.  `ThreadsKept`: a slot whose
context was saved in the middle of the library is `Stray`; every other context, whatever ticks
come where, is where its thread was interrupted, belongs to it alone, and its slot is in use
exactly as long as the thread lives, but for the slots of threads that used up their time
(`SlotsAccounted`); and only a context saved in a `thread_exit` can lead into a foreign thread.
`TimeKept`: the time is exact but for the ticks between the two lines of `cancelthrdstop`.
`DeadlinesKept`: under DM nobody is dispatched beside a late thread; under EDF_CBS only a soft
thread that is late itself and has the least ID hides a hard thread's miss, and then the process
ends when the slice that was given instead is used up (`MissOnlyDelayed`), unless that thread returns
before.  That soft threads are isolated from hard ones is not stated.

*Why the bounds suffice.*  Slab: three objects a slab distinguish full, partial
and free with a partial slab that may both gain and lose; six pages allow four
slabs besides the header, two more than the threshold.  Bcache: four processes for two
buffers, three of them for the same block, so that sleep-locks are contended, buffers are
recycled in nearly every step, and `bget` may run out of them.  The disk is two blocks because
blocks interact only through buffers.  Log: two blocks distinguish partly installed from
installed; two crashes put one into the recovery from the other; the log of
`log_space` is small enough that reservations decide.  UThreads: with three threads a
thread leaves or joins a ring while two others remain, and a signal crosses a third.
ThrdSched: one thread more than there are contexts; periods and processing times up to
6 reach every order of releases, deadlines and slices of two or three tasks; `ExitTicks` has
three threads, so that the slot freed by a tick in an exit is taken by the third; `Overload`
has a soft thread of least ID and late hard ones.  Fs: two
calls race one, the third call meeting what a race has left; a directory, its entry and
its target are three inodes, and the cache is never the limit.  Proc: a parent, its child and
init are the three parties of `exit`, and a slot freed by `wait` is taken again by the third
fork; that a fourth process matters is what `proc_slots` shows, where the safety
properties of `proc` hold too, as the theorems say for every number, while `CallsEnd` fails
through the same circle of locks.  Pipe: the buffer is half a call, so writers and readers sleep,
each cell is used twice, and the counters wrap, which takes four bytes of one call; the
constraint `Focus` cuts behaviours with a fourth call of the children or with a call of `wait`,
which has no part in pipes.  VirtioDisk: two requests fit and the third has to wait.  The theorems
remove the bounds for the safety of `Slab`, `Log`, `Bcache`, `Proc`, `Pipe`, `UThreads`,
`VirtioDisk` and `Fs`.  `MaxVersion`, `MaxCrashes`,
`MaxThreads`, `MaxPid`, `MaxKills`, `MaxCalls` and the `left` of `Fs` are the only counters cut
off, and each is a guard of the action that counts.  The constraint `NotRenamed` of `bcache` cuts a
behaviour where `bget` has been asked for a renamed block: no property claims anything after
that, and `CallsEnd` is checked of the behaviours in which it does not happen.

Symmetry is used in runs without liveness properties, over pages, processes or blocks that the
model treats alike.  `CHECK_DEADLOCK FALSE` is in the
configurations whose programs may end or whose callers use up their calls.

## Fairness

Safety runs assume none.

* `Log` and `Bcache` assume weak fairness of a process that is inside a call: xv6's
  scheduler is round robin over `RUNNABLE` processes and the disk answers each request.
  Nothing forces a process to begin an operation, to write, to crash or to flip a hook.
  Nor are the sleep-locks of `Bcache` fair: a waiter is runnable after each release, but may
  find the lock taken again; it gets on since the calls of the others are bounded, as
  they are in the run.  `Fs` assumes strong fairness of its calls, which are transactions over
  sleep-locks (a waiter is woken at each release, and the lock is free again and again while it
  is runnable), and nothing of `Enter`.
* `UThreads` assumes that `dispatch()`, straight-line code, proceeds, and that a running
  thread yields again and again, which a cooperative library has to ask of its programs.
* `Proc`: every CPU goes round the table, so `Dispatch` is strongly fair, also with
  the lock free that the process needs next (CPUs do not run in step, so a spin lock
  that is free again and again is acquired); timer interrupts come (`Yield` weakly fair);
  a process in the kernel gets on, and one that was killed takes its next trap.
  Of user programs only init is asked to `wait` for ever.
* `VirtioDisk`: the device works on every request, interrupts are taken, and what is woken
  gets the lock.

## Proofs

TLAPS proves, for every value of the constants that the named assumptions of the
modules allow (positive sizes, finite sets):

**`SlabProofs`** (every set of pages and object layout).  The inductive invariant
`IInv` conjoins the types, `PagesPartitioned`, `NoDoubleAllocation`,
`ListsMatchOccupancy` and the locality of freelists; none of these is inductive
alone: that a released page is unreferenced needs the counter to be exact, that
the counter is exact needs the freelist to be the complement of what callers
hold, which needs pages to have one owner.  Lemmas on occupancy (`OccAdd` and the
like) rest on the library's theorems on finite sets.  From it follow
`SlabPagesPartitioned`, `SlabNoDoubleAllocation`, `SlabListsMatchOccupancy`, and
`SlabImplementsPool`, a step-by-step refinement of `ObjectPool`.
The last part adds `SpaceInv`: `total_slabs` is the number of slabs, and at most
`MinAvail` of them are empty.  Every step leaves the slabs, adds one, keeps an
empty one, releases one or destroys the cache.  It follows that an idle cache has returned its
pages: `SlabMemoryReturned`.

**`LogProofs`** (every number of processes, blocks, operations and crashes).

* `ControlInv` is about who is where.  Its centre is the reservation: `Granted` is
  the set of log blocks begin_op has granted, `MaxOp` to each active process, and
  `Reserved` those not yet used.  `Fits` says that the log and the unused grants
  together fit into LOGSIZE.  `Admissible` establishes it, since each process can
  then use its grants up; `LogWriteAppend` turns one reservation into one block;
  `end_op` only gives reservations back.  The invariant also carries
  `Operations` (what an operation has written is in the log), without which
  absorption could not be told from appending, and `Phases` (where commit and
  recovery are).  Theorems: `LogControl`, `LogTypeOK`, `LogOutstandingExact`,
  `LogNoLostWakeup`, and `LogNoPanic` under `OpWrites + 2 <= MaxOp` and
  `LogSize <= SbNlog`.  Both are what the code provides (`filewrite` bounds what
  one operation writes; mkfs sets `sb.nlog = LOGSIZE`), and both are needed:
  `log_write` tests the size before it looks for the block, and counts the header
  as a block of the log.
* `ContentInv` adds what the disks hold at each transfer: before the commit the
  header is empty and unlogged blocks are clean; from the header's first transfer
  on, recovery would give `mem`; during installation the blocks up to `tail` are
  home; in recovery `mem` follows the home blocks of disk 0.  One lemma per action
  shows what it does to `Recovered(0)`: nothing, except for the header's transfer
  to disk 0, which makes it `mem`.  That is the refinement:
  `LogImplementsAtomicDisk` and `LogCommittedIsDurable`, under the one hypothesis
  `0 \notin HookDisks` (disk 0 has not failed: recovery reads no other).  `bget` recycles
  whatever it likes: a buffer without a pin whose block is not in the log is current on disk 0,
  so that recycling it stutters.  Recycling the only copy of a logged block would not; the
  code's unpin in recovery makes it possible (see Findings), so the properties hold up to
  `lost`, and `LogIsAtomicDisk` gives the whole specification to behaviours without it.

The last part of `LogProofs` is about the other places a block may be in.

* `PinInv`: absorption keeps the log free of duplicates, so `install_trans` unpins
  a block that is nowhere else in the log; `LogPinsExact` follows, and that nothing in the log is
  ever recycled, as long as nothing has crashed, and whichever disk fails.  After a recovery
  both are false, which is the finding on recovery's unpin.
* `MirrorInv`: a block whose copies differ is one that `install_trans` has still to write to
  disk 1.  The commit may have been cut between the two transfers; then the header on disk 0
  still names the block, and the recovery writes it again.  `LogMirrorCurrent` assumes
  `HookDisks \subseteq {-1}`: a copy that a failed disk misses is never made up for.

**`BcacheProofs`** (every number of buffers, processes, blocks, calls and changes; readers,
updaters, the committer and raw users may share any block, and the hooks fail any disk and
block; only `BcacheAssumption` is assumed).  `IInv` has three layers, one for each way in which
the code can lose its footing:

* as long as `bget` is not asked for a block whose buffer a transfer has renamed (`Tidy`), the
  buffers are sound.  `Roles`, `Commits` and `Sleeplocks` say who is where and who holds which
  sleep-lock; `Numbers` which number a buffer carries, during a transfer too: one that is neither
  a logical nor a raw block number has a process in the middle of a transfer.  `Distinct`: no
  block is in two buffers, since a look-up that misses really misses.  `Counts` is `RefcntExact`.
  With `Distinct` it gives that a victim of recycling has no user and no logged change, on
  which `Numbers` rests, which in turn is needed for `Distinct`: none of them is inductive
  alone.  `BcacheBuffersExact` is this layer; that a panic of `bget` means that every buffer is in
  use or pinned is part of it.
* as long as, further, no raw call overwrites a logged change, a mirror or part of a valid buffer
  and never both copies of a block fail (`Survived`), `Kept` and `Reached` hold: a block logged
  and not installed is in memory in its last version, any other on a disk.  This is
  `BcacheNoLostUpdate` and `BcacheWriteReachesADisk`, while the hooks fail now one disk or
  block and now another.
* as long as, further, the hooks have failed nothing (`Healthy`), what is valid in memory, and
  what is on disk 0 of a block not in the log, is current (`CurrentBuffers`, `Written`,
  `Transfers`).  It gives `BcacheReadIsCurrent` and, unless a raw write has reached a home that
  no commit is going to write, `BcacheMirrorsAgree`.

**`PipeProofs`, first part: processes** (every number of entries, CPUs, processes and kills;
only `ProcAssumption` is assumed).  `ProcInvariant` is the inductive invariant:

* `Control` says which places of the code go with which state of the entry, `Locks`
  that a process holds exactly its own lock and its `original_parent`'s, by where it is.
  Both are needed before anything else, since the other parts speak of "the one that
  holds this lock".
* `Tree`: parents are alive, and have a smaller pid than their children.  Aliveness is
  not inductive alone: between `reparent()` and ZOMBIE no child may be added, and `wait`
  may free only what has no children.  `Exits` adds that: the children of an exiting
  process that `reparent()` has passed are init's, and its own parent is the one it read or init.
* `Looked` is what `wait` knows while it holds `p->lock`: none of the children that it
  has passed is a ZOMBIE.  `KilledAwake` is the same for `kill`.

`ProcProcessTree` and `ProcNoLostWakeup` follow at once.  `ProcLocksSound` needs an
argument: of the processes in a circle, take the one with the greatest pid that
holds a lock.  It waits in `exit` for its own lock, or for a child's; who holds that lock
is the child, or a process whose `original_parent` is that entry, hence, unless the
parent is stale, a child of it; each of these is younger.  This is the lock order
"parent, then child" of the code, and the proof breaks exactly at `Stale`, where
`proc_slots` finds the circle.

**`PipeProofs`, second part: pipes** (every number of processes, buffer size and size of a
call; the counters wrap at any multiple of `PIPESIZE`).  `Pipe` is `Proc` with more places to
sleep at.  So that the first part can be used and not repeated, its invariant admits the places of such callers
(`CallPoints`, the places of `pipe.c`, and the channels `CallChans` they sleep on; `Proc` alone
never reaches them), uses of them only that they are not its own, and lemmas such as
`SleepIInv` and `WakeupIInv` say that `sleep` and `wakeup` called from such a place keep
`IInv`.  `PipeInv` then has

* `PipeLocks`: who is in the code between `acquire` and `release` of the pipe's lock, a process
  on its way through `wakeup` included, is the one that holds it;
* `Calls`, `Closes`, `Files`: a process in `read`, `write` or `pipeclose` has the end open that it
  works on, or is the one that gave up its last reference, so that a freed pipe has no user;
* `Progress`, from which the end of file is exact: a reader that has read nothing and leaves
  has found the pipe empty and without a writer, and nobody else had the lock since;
* `Reasons`: whoever is asleep, or has decided to sleep, has a reason, or somebody who
  holds the pipe's lock is on the way to wake it: `wakeup` goes through the table entry by entry, and
  the ones it has still to reach are the ones that need no reason.  A writer in the middle of its
  loop (`Writing`) owes the readers a wakeup for what it has written; if it is killed it returns
  without, which sets `silent`, and until the next wakeup of the readers a reader may then sleep
  over bytes: the one exception of `PipeSleepersHaveReason`;
* `NextCell`: `nwrite % PIPESIZE` is the cell behind the last one, although the counters wrap:
  this needs `CountMod % PIPESIZE = 0`, which 2^32 and 512 satisfy.

`PipeSoundAlways` and `PipeSleepersHaveReason` follow.  `PipeImplementsChannel` maps the cells
between the counters to the queue of `Channel`: a byte written is a `Put`, since its cell is none
of those that are in use, a byte read is a `Get`, `pipeclose` a `Close`, and the rest stutters.
The proof found that a read of no bytes returns 0 without an end of file, as POSIX wants
it; `EofIsEof` speaks of reads of some bytes.

**`UThreadsProofs`** (every number of threads).  `RingIntegrity` speaks of the threads that
are so many links from the current one (`After`, a recursive function), which says
nothing about what a changed link does.  `RingInv` says instead that `next` and `previous` are
inverse on the queued threads (`Linked`) and that no part of them is closed under `next`
(`OneRing`): adding a thread and taking one out preserve both, and `RingCovered` shows that
following the links then leads round the whole ring.  `Contexts` (the contexts match what
the threads are doing) holds only if no thread signals itself, so `RunQueueStaysSound` has
the hypothesis `SelfKill = FALSE`, which is the finding on `threads.c:65`; `RingStaysIntact`,
about the queue, has none.  `SuspendedRunLast` is the action half of `TurnsTaken`: `schedule()`
goes round the whole ring before it settles for a suspended thread.

**`VirtioProofs`** (every number of descriptors and callers).  `Request` says that a
waiting caller has three linked descriptors of its own, `Shares` that all others are free,
`Rings` that each request of the device's is in exactly one place: the available ring, in
work, or the used ring.  The last conjunct counts them; since a request takes three
descriptors there are at most a third of `NUM`, so that no ring, whose indices are kept
modulo `NUM`, can overflow and look empty.  None of the three is inductive without the others.

**`FsProofs`** (every number of processes, inodes, cache entries, blocks and stack frames, any
calls on any paths).  `FsAssumption` asks for positive sizes, `SetupsAssumption` for an image as
above and for calls with the arguments the code accepts.  `FsInvariant` is the inductive
invariant `IInv`:

* `Controls` says which locals mean something at which place, what a call has locked and what
  it waits for; `Locks` that an inode is locked by exactly the process that is at such a place.
* `Refs`: the count of an entry is the number of pointers to it, over the six pointers of each
  process.  The lemmas count the own and the others' pointers apart, since a step moves only its
  own.  When `iput` finds `ref = 1`, hence, nobody else points to the entry, and freeing
  the inode disturbs nobody: none of the parts below is inductive without that.
* `Cached`, `Valids`, `Kinds`: no inode is in two entries, who works on an inode has
  read it, and it has the type that the call has tested.  `Contents`: names lead to inodes.
  `Currents`: what is valid is what is on the disk, unless `iput` has freed the inode and
  has still to mark the entry.
* `Permitted`: what `open` has found allowed is still so when it installs the file, the
  inode being locked in between.
* `Bmaps`: `get_disk_lbn` is called only in a setup that has such calls.

`FsEntriesExact` and `FsOpenKeepsPermissions` follow without a hypothesis, `FsCacheSound`
under `NoBmapCall`: no program calls `get_disk_lbn`, which gives a cached inode a block
and does not write the inode (`sysfile.c:679`).  `FsBlocksExact`, with the same hypothesis, is
about `BlocksOne`: blocks of different inodes are apart, the bitmap has exactly those, and a
free inode has none.  The proof found a gap that no run met: with a full disk `GetDiskLbn` took the least of
no blocks, where `balloc` panics.

**`FsLinkProofs`** (the same constants) is about names and link counts, under the hypothesis
`[]RemovedUnused`: nobody makes an entry in a directory that has been removed, or goes up
from one by `..` to one that has been removed, too.  These are the findings on
`sysfile.c:285` and `fs.c:318`, where the code does not look at `nlink` before it uses a
directory; what the theorems add is that they are the only two ways to go wrong.
In `fs` nearly every state satisfies it.  `LInv`, on top of `IInv`, has

* `Tree`: a directory has at most one name, in the directory that its `..` leads to, and
  one without a name is empty.  One lemma each says what making and erasing one entry
  does to the names and the links of every inode (`LinksOf`, on any disk).
* `Counted`: `nlink` is the number of links and of what calls still owe: `link` counts
  before it makes the entry, `unlink` erases before it counts.  `LinksExactWhenQuiet` is this when
  nobody owes anything.
* `Alone`: an inode that `create` has just made, or `iput` is freeing, is known to that
  process only.
* `Knowing`: the entry that `create` is going to make is not there, the one `unlink` is going to erase is.
* `Live`: a referenced inode is not free, and one without links is referenced, so it
  is freed by who drops it last.

`FsLinksExact` concludes that no name dangles and that links are exact.  `FsDiskSound` puts it
together with the blocks and adds `Goes`: the kernel has stopped only for `OutOfRoom`, that is, no inode,
cache entry, block or stack left, which are panics of the code on small machines.  "ilock: no
type", "sched locks" and "unlink: nlink < 1" never happen.  All of `DiskSound` therefore holds for
every value of the constants, except where one of the findings or a full machine is met.

Only model-checked:

* liveness under fairness, which is beyond this prover: `LogLive`, `CallsEnd`, the second half of
  `TurnsTaken`, `SignalDelivered`, `RequestsComplete`, `CallsReturn`;
* everything about `ThrdSched`: what it states is about what particular programs lead to, with
  queues folded over sequences, and most of it is an induction over that data, for which
  the library's theorems take an operator as a parameter that none of the installed provers
  instantiates.  (`After` of `UThreadsProofs` is an induction over numbers; it is done with a
  least counterexample instead.)
* in `Fs`, `CacheSound` with calls of `get_disk_lbn` and `DiskSound` where a removed directory is used
  harmlessly.

## Findings

Two have a run.  `slab_release`: `kmem_cache_free` starts its count of available slabs at 1, for
the slab that has become empty, and then finds it a second time on the partial list, which it
leaves only at `slab.c:268`.  With `MP2_MIN_AVAIL_SLAB` = 2 it so releases a slab when only one other is
left, while `param.h:23` calls that number "Minimal numbers of available (partial/free) slabs", and
`mp2/doc/mp2-spec.md:633` has a slab released when "the total number of available slabs
(`partial + free`) exceeds `MP2_MIN_AVAIL_SLAB`".  `slab` checks what an idle cache gives back instead,
which does not depend on the count.

`proc_slots`: `exit` copies `p->parent`, releases `p->lock` and
locks the copy (`proc.c:380-385`).  In between the parent may exit and be freed by init, and
`fork` may give its entry to a child of a child of `p`.  `p` then holds the lock of its
grandchild and its own, and waits in `reparent` for its child's; the child is in `wait`,
holds its own lock and waits for the grandchild's.  Both spin with interrupts off.  The
comment above the code (`proc.c:376`) says that the race with an exiting parent can only
end in "a harmless spurious wakeup to a dead or wrong process".  It takes four entries,
which is why `proc`, whose liveness is checked with three, does not meet it.

The models show more places where the code differs from its documents or from what its
callers expect.  A passing run excludes each by a precondition or an exception of the
property, named here with what brings it back.

| where | what happens | to see it |
|---|---|---|
| `mp4/kernel/bio.c:136` | `bwrite` renames the buffer to the mirror's number without `bcache.lock`; a reader that looks the block up meanwhile gets a second buffer, and the copies part | without `CONSTRAINT NotRenamed` in `MCBcache.cfg`, `BuffersSound` fails |
| `mp4/kernel/bio.c:92` | mkfs writes disk 0 only and nothing copies it: a block not rewritten since reads as zeroes when disk 0 fails | `ReadIsCurrent` without its premise fails in `MCBcache.cfg` |
| `mp4/kernel/sysfile.c:645` | `raw_read` reads from the disk into a buffer that holds a logged change, which is lost | `NoLostUpdate` without its premise fails in `MCBcache.cfg` |
| `mp4/kernel/sysfile.c:709` | a `copyin` that fails in `raw_write` leaves part of a cached buffer overwritten and `valid` unchanged | `ReadIsCurrent` without its premise |
| `mp4/kernel/log.c:80` | recovery unpins what nothing pinned; the next `log_write` pins back to zero and the buffer may be recycled before the commit | `CommittedIsDurable` without `~lost`, or `ImplementsAtomicDisk` without `lost'`, in `MCLog.cfg` |
| `mp4/kernel/log.c:114` | what commits while disk 0 is failed is on disk 1 only, which recovery never reads | `HookDisks` with -1 and 0 in `MCLog.cfg`: `CommittedIsDurable` fails |
| `mp1/xv6/user/threads.c:65` | a thread that signals itself and yields has its body saved as the handler's context | `SelfKill = TRUE` in `MCUThreads.cfg`: `RunQueueSound` fails |
| `mp4/kernel/fs.c:691` | `namex` tests `ip->type` of a cache entry that `iget` has recycled and nobody has read: `namei` does not follow a link that is not cached, `sys_open` follows it, and takes the target, in the same entry, for a link, so the open fails; `mp4-markdown.md:199`: links "must always be followed" | `Setups <- OpenOfLink` in `MCFs.cfg`: `LinkFollowed` fails |
| `mp4/kernel/proc.c:370` | `exit` wakes init before the child is init's zombie: "init may miss this wakeup, but that seems harmless" (`proc.c:368`), yet the zombie stays until another exit | `PROPERTY OrphansReaped` in `MCProc.cfg` |
| `mp4/kernel/pipe.c:91` | a killed writer returns without waking the readers of what it wrote | `SleepersHaveReason` without `silent` fails |
| `mp4/kernel/pipe.c:117`, `:90` | a kill between the test of `killed` and `sleep` is lost: the process sleeps on until somebody writes, reads or closes | both are steps of `Pipe` (`ReadSleep`, `WriteSleep`): "no killed process is asleep" as an invariant of `MCPipe.cfg` fails |
| `mp4/kernel/proc.c:644` | `kill(0)` finds the first unused entry, marks it killed, and `allocproc` does not clear it: the next child of `fork` is born killed | `Kill` of `Proc` may choose an UNUSED entry (`FirstWithPid`), and `Fork` keeps the flag |
| `mp4/kernel/virtio_disk.c:274` | the interrupt is acknowledged after the last look at the ring: a request completed in between waits for the next interrupt | `RequestsComplete` without its second disjunct fails |
| `mp4/kernel/sysfile.c:348` | the read permission is tested with `omode & O_RDONLY`, which is 0: it is never denied | in `Denied`, only writing is |
| `mp4/kernel/sysfile.c:362` | `O_NOACCESS` on a directory is refused, `mp4-markdown.md:209` needs it for `ls` | `Denied` for a `DIR` with any mode |
| `mp4/kernel/sysfile.c:285` | `create` or `link` in a directory removed since the look-up writes into an inode about to be freed | add `Open(Abs(<<"d", "e">>), {"CREATE"})` to `DirCalls`: `DiskSound` fails |
| `mp4/kernel/fs.c:318` | `..` of a current directory that was removed, with its parent, locks a free inode: "ilock: no type" | a relative `..` in such a setup of `MCFs`: `DiskSound` fails |
| `mp4/kernel/sysfile.c:679` | `get_disk_lbn` calls `bmap` outside a transaction: allocating panics "log_write outside of trans" | `GetDiskLbn` on an empty file opened for reading |
| `mp4/kernel/fs.c:696` | each nested `namei` starts its own depth counter: a cycle of links overflows the kernel stack | a cycle in the image of `MCFs`: `DiskSound` fails at `KernelFrames` |
| `mp3/xv6/user/threads_sched.c:343` | the bandwidth test compares with a negated time to the deadline and is always true: a soft thread's deadline is postponed at each dispatch | `SchedulableMeetsDeadlines` is stated for hard threads only |
| `mp3/xv6/user/threads_sched.c:299` | `__check_deadline_miss` reports the late thread of least ID and only that one is tested for being hard: a late soft thread of smaller ID hides a hard thread's miss for a slice, or for good when the thread dispatched instead returns | the programs `Overload`: `NoMissUnnoticed` with `hidden = {}` for its last part fails |
| `mp3/xv6/user/threads_sched.c:370` | when all are throttled the time to sleep looks at the deadlines of those that are not | no property is about when a throttled thread is replenished |
| `mp3/xv6/user/threads.c:132` | a thread that ends by its time keeps its context slot: the seventeenth thread finds none | the programs `TooMany` end at "no context" |
| `mp3/xv6/user/threads_sched.c:106` | the priority, 100 unless it is set, indexes an array of sixteen tiers | the programs set priorities below 16 |
| `mp3/xv6/kernel/trap.c:186` | a tick in the dispatcher, between `thrdstop` and `thrdresume`, that ends the slice saves a place in the library as the thread's context | `ContextsKept` without `Stray` fails for the programs with ticks in "dispatch" |
| `mp3/xv6/user/threads.c:111` | a tick in the `cancelthrdstop` of a thread that exits, when it ends the slice, makes the upcall and saves the middle of `thread_exit` as the thread's context, whose slot has just been given back: the thread stays in the queue and is resumed there later, or in whatever another thread has put into the slot, and its slice is counted twice | some of the programs `ExitTicks` end at "astray" |
| `mp3/xv6/kernel/thrd.c:75` | a tick between this line and the next is counted by the kernel and not reported | `TimeIsExact` without `unread` fails |

## Abstractions and preconditions

* `Slab`: one cache; callers free only what they hold, and destroy a cache when
  they hold nothing of it; an address is a page and a slot.
* `Bcache`: `NBUF` and the disk are small; the log is the set of blocks logged; a
  process has one role and holds one buffer at a time, except that the committer's log blocks
  are left out.  `b->disk` and interrupts are the end of a transfer, which is atomic.
* `Log`: a caller changes a block holding its sleep-lock, so two operations never
  pass the same block at once; the copy of a block into the log is atomic with its
  transfer, and a crash falls between transfers.  The log blocks' own buffers are not
  modelled.
* `UThreads`: the program creates, adds and starts threads and passes only threads
  that exist; it adds a thread once; threads do not signal themselves.  Stacks and
  their release are below the model.
* `ThrdSched`: handlers are one step up to their next `ecall`, since a tick changes
  nothing while no delay is set; the code of a thread is a spin that may return; a
  context is where it was saved, and stacks are below the model, so that a run ends where a
  stack may be gone ("astray").
* `Fs`: what a process does under inode locks between two `ilock`/`iput` is one step; a
  file has at most one block and a directory or link exactly one; names are symbols; one
  descriptor a process; every call is in a transaction that fits (`Log` is about that);
  devices, `exec` and `fstat` are left out.
* `Proc`: `fork` fails only for want of entries; `wait`'s address is good; init is not
  killed, which would panic; the unlocked test of a process's own `killed` in `usertrap` is one
  step with what a `fork` or `kill` does first, and a step of its own before `wait`; a timer interrupt is taken where no spin lock is held, since
  `acquire` turns interrupts off.
* `Pipe`: one pipe, made by init before it forks; the `filedup`s of one `fork` are a single step,
  while the parent holds a reference throughout; `copyin` and `copyout` succeed (a
  failing `copyout` loses the byte that was taken, `pipe.c:128`).
* `VirtioDisk`: transfers succeed; what has been read from a ring is forgotten, so a
  stale entry, which the driver never reads, is not kept.

## Not modelled

`vm.c`, `exec.c`, `console.c`, `uart.c`, `plic.c`, `start.c`, `main.c`, `syscall.c`, the
assembly, `printf.c`, `string.c` and the user programs: sequential code over memory
layout, formatted text and device registers, whose correctness is about addresses and
bytes rather than about the order of steps.  `sleeplock.c` and `spinlock.c` appear as
guards of the actions that take them.  The kernels of mp1, mp2 and mp3 outside the parts above
are stock xv6 and repeat what mp4's modules model, in older versions.

## Plan

Done: the modules, the four refinements with their proofs, and the other proofs above.  Worth
doing next, in this order:

1. `FileTable` (mp2): `filealloc`, `filedup`, `fileclose` as clients of `ObjectPool`,
   so that `Slab`'s refinement carries over; several pipes and inode files in one table.
2. `Fs` over `Log`: crashes between the transactions of a call, so that what is
   reachable after recovery is exact but for inodes unlinked while open.
3. Proofs: `ContextsKept` of `ThrdSched`.
4. `vm.c`: `uvmcopy` and `uvmunmap` as operators on page tables, with the pages of
   `kalloc` conserved by `fork`, `exec` and `exit`.

Each module keeps the form of the present ones: named assumptions on constants,
one action an operation, invariants as conjunctions of named parts, and no
RECURSIVE operator in a module that is proved about.
