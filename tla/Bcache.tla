------------------------------- MODULE Bcache -------------------------------
(***************************************************************************)
(* The buffer cache of mp4 (kernel/bio.c) and its RAID 1 simulation.       *)
(*                                                                         *)
(* Readers read blocks (fileread, outside any transaction).  Updaters read *)
(* a block, change it and hand it to log_write, which pins the buffer; the *)
(* committer later writes every logged block to its home location and      *)
(* unpins it (install_trans).  Raw users call sys_raw_read/sys_raw_write.  *)
(* All may work on the same blocks.                                        *)
(*                                                                         *)
(* bget's look-up and recycling happen under bcache.lock and are one step; *)
(* falling asleep on the sleep-lock, taking it, each disk transfer and the *)
(* two halves of brelse are steps of their own.  Logical block k lives at  *)
(* physical block k of disk 0 and k + DiskSize of disk 1, and bread and    *)
(* bwrite store the physical number they want into b->blockno while the    *)
(* transfer runs, holding the sleep-lock but not bcache.lock.              *)
(***************************************************************************)
EXTENDS Integers, FiniteSets, SequencesExt

CONSTANTS
  Bufs,         \* bcache.buf, NBUF of them
  DiskSize,     \* LOGICAL_DISK_SIZE
  Readers, Updaters, Committers, RawUsers,   \* processes by what they do
  ReadBlocks, WriteBlocks, RawBlocks,        \* the blocks they do it to
  HookDisks,    \* arguments force_disk_fail is called with
  HookBlocks,   \* arguments force_fail is called with
  MaxVersion,   \* bound: number of changes to blocks
  MaxCalls,     \* bound: number of calls by readers and raw users
  None          \* "no process", "no buffer"

Procs == Readers \cup Updaters \cup Committers \cup RawUsers
Logical == 0..(DiskSize - 1)
Physical == 0..(2 * DiskSize - 1)
Mirror(k) == k + DiskSize      \* pbn0 + DISK1_START_BLOCK
NoBlock == -1                  \* dev = 0 in a buffer never used: matches no block

ASSUME BcacheAssumption ==
  /\ IsFiniteSet(Procs) /\ IsFiniteSet(Bufs)
  /\ Readers \cap (Updaters \cup Committers \cup RawUsers) = {}
  /\ Updaters \cap (Committers \cup RawUsers) = {} /\ Committers \cap RawUsers = {}
  /\ \A c, d \in Committers : c = d      \* log.committing admits one
  /\ DiskSize \in Nat \ {0} /\ MaxVersion \in Nat /\ MaxCalls \in Nat
  /\ ReadBlocks \subseteq Logical /\ WriteBlocks \subseteq Logical
  /\ RawBlocks \subseteq Physical
  /\ HookDisks \subseteq -1..1 /\ HookBlocks \subseteq -1..(DiskSize - 1)
  /\ None \notin Procs /\ None \notin Bufs

VARIABLES
  lru,        \* the list headed by bcache.head, most recently used first
  blockno, valid, refcnt, data,   \* the fields of each buffer
  owner,      \* holder of each buffer's sleep-lock
  asleep,     \* processes asleep in acquiresleep
  disk,       \* the version each physical block holds; 0: as mkfs left it
  failDisk, failBlock,  \* force_disk_fail_id, force_read_error_pbn
  pc, buf,    \* where each process is, the buffer it works on
  want,       \* the blockno argument of its call
  mirrorToo,  \* bwrite's decision to write pbn1, made when it starts
  logged,     \* log.lh: blocks logged and not yet installed
  toInstall,  \* those the running commit has still to install
  committing, \* log.committing
  current,    \* current[k]: the version last stored in block k by anyone
  version,    \* the last version used
  calls,      \* calls begun by readers and raw users
  mishaps,    \* what has happened that the cache does not survive (see Note)
  panicked    \* "bget: no available buffers", with bcache.lock held for good

locks == <<owner, asleep>>
bufVars == <<lru, blockno, valid, refcnt, data, locks>>
procVars == <<pc, buf, want, mirrorToo>>
logVars == <<logged, toInstall, committing>>
hookVars == <<failDisk, failBlock>>
ghostVars == <<current, version, calls, mishaps>>
vars == <<bufVars, disk, hookVars, procVars, logVars, ghostVars, panicked>>

(* The block buffer b is for: during a transfer, which the holder of its   *)
(* sleep-lock makes, it may carry the number of the mirror instead.        *)
InTransfer(p) == pc[p] \in {"reading", "write0", "write1"}
Home(b) == IF owner[b] # None /\ InTransfer(owner[b]) THEN want[owner[b]] ELSE blockno[b]

(* Mutants: plausible slips in the definitions below.                      *)
MutantVictimAt ==                                          \* any unlocked buffer
  SelectLastInSeq(lru, LAMBDA b : owner[b] = None)
MutantRecycle(b, k) ==                                     \* valid not cleared
  /\ blockno' = [blockno EXCEPT ![b] = k]
  /\ refcnt' = [refcnt EXCEPT ![b] = 1]
  /\ UNCHANGED valid
MutantRecord(b) ==                                         \* no bpin
  logged' = logged \cup {blockno[b]} /\ UNCHANGED refcnt
MutantGoOn(p, second) ==                                   \* pbn1 never set
  /\ pc' = [pc EXCEPT ![p] = IF second THEN "write1" ELSE "written"]
  /\ UNCHANGED blockno
MutantSkipPbn1 == failDisk # -1                            \* any failed disk
MutantWoken(b) == {}                                       \* no wakeup
-----------------------------------------------------------------------------
(* mkfs writes the file system to the first half of the image only; the    *)
(* other half is zeroes, shown here as version -1.                         *)
Blank == -1

Init ==
  /\ lru \in {s \in [1..Cardinality(Bufs) -> Bufs] : IsInjective(s)}
  /\ blockno = [b \in Bufs |-> NoBlock]
  /\ valid = [b \in Bufs |-> FALSE]
  /\ refcnt = [b \in Bufs |-> 0]
  /\ data = [b \in Bufs |-> 0]
  /\ owner = [b \in Bufs |-> None] /\ asleep = {}
  /\ disk = [n \in Physical |-> IF n < DiskSize THEN 0 ELSE Blank]
  /\ failDisk = -1 /\ failBlock = -1
  /\ pc = [p \in Procs |-> "idle"]
  /\ buf = [p \in Procs |-> None]
  /\ want = [p \in Procs |-> NoBlock]
  /\ mirrorToo = [p \in Procs |-> FALSE]
  /\ logged = {} /\ toInstall = {} /\ committing = FALSE
  /\ current = [k \in Logical |-> 0] /\ version = 0 /\ calls = 0 /\ mishaps = {}
  /\ panicked = FALSE

(* The code does nothing against five things that some of its promises do  *)
(* not survive.  The model only notes that they have happened:             *)
(*   "failure"      a test hook has failed a disk or a block;              *)
(*   "both"         it has failed both copies of a block at once;          *)
(*   "renamed"      bget was asked for a block, by its own number or its   *)
(*                  mirror's, while a transfer had renamed its buffer;     *)
(*   "overwritten"  a raw call wrote over the only copy of a logged change,*)
(*                  over a part of a valid buffer, or over the mirror;     *)
(*   "unmirrored"   a raw call wrote to the home of a block that no commit *)
(*                  is going to write to both disks.                       *)
Mishaps == {"failure", "both", "renamed", "overwritten", "unmirrored"}
Note(mishap, happens) == mishaps' = IF happens THEN mishaps \cup {mishap} ELSE mishaps

(* The test hooks (sysproc.c) set the failure flags at any time.           *)
Failure(d, n) ==
  mishaps' = mishaps \cup (IF d # -1 \/ n # -1 THEN {"failure"} ELSE {})
                     \cup (IF d = 1 /\ n # -1 THEN {"both"} ELSE {})

ForceDiskFail(d) ==
  /\ failDisk' = d
  /\ Failure(d, failBlock)
  /\ UNCHANGED <<bufVars, disk, failBlock, procVars, logVars, current, version, calls,
                 panicked>>

ForceFail(n) ==
  /\ failBlock' = n
  /\ Failure(failDisk, n)
  /\ UNCHANGED <<bufVars, disk, failDisk, procVars, logVars, current, version, calls,
                 panicked>>

-----------------------------------------------------------------------------
(* Logged changes that have not reached their home.                        *)
Outstanding == IF committing THEN toInstall ELSE logged

(* Changes started and not yet made; with version they bound the run.      *)
Pending == {q \in Updaters \cup RawUsers :
              pc[q] \in {"locking", "locked", "raw", "reading", "held"}}
MayChange == version + Cardinality(Pending) < MaxVersion

(* Which block process p may ask for now.  An updater runs inside          *)
(* begin_op/end_op, which the log never lets overlap with a commit.        *)
MayAsk(p, k) ==
  \/ p \in Readers /\ k \in ReadBlocks /\ calls < MaxCalls
  \/ p \in Updaters /\ k \in WriteBlocks /\ ~committing /\ MayChange
  \/ p \in Committers /\ k \in toInstall
  \/ p \in RawUsers /\ k \in RawBlocks /\ calls < MaxCalls /\ MayChange

CountCall(p) == calls' = IF p \in Readers \cup RawUsers THEN calls + 1 ELSE calls

HitAt(k) == SelectInSeq(lru, LAMBDA b : blockno[b] = k)
VictimAt == SelectLastInSeq(lru, LAMBDA b : refcnt[b] = 0)

(* While a transfer runs, the buffer of process q may carry the number of  *)
(* the mirror and not the one q asked for.                                 *)
Renamed(k) ==
  \E q \in Procs : /\ InTransfer(q) /\ blockno[buf[q]] # want[q]
                   /\ k \in {want[q], blockno[buf[q]]}

(* bget's first loop: the first buffer of the list with this number.       *)
BgetHit(p, k) ==
  /\ pc[p] = "idle" /\ MayAsk(p, k) /\ ~panicked
  /\ HitAt(k) # 0
  /\ LET b == lru[HitAt(k)] IN
       /\ refcnt' = [refcnt EXCEPT ![b] = @ + 1]
       /\ buf' = [buf EXCEPT ![p] = b]
  /\ want' = [want EXCEPT ![p] = k]
  /\ pc' = [pc EXCEPT ![p] = "locking"]
  /\ CountCall(p) /\ Note("renamed", Renamed(k))
  /\ UNCHANGED <<lru, blockno, valid, data, locks, disk, hookVars, mirrorToo,
                 logVars, current, version, panicked>>

(* Its second loop: the least recently used buffer nobody refers to.       *)
Recycle(b, k) ==
  /\ blockno' = [blockno EXCEPT ![b] = k]
  /\ valid' = [valid EXCEPT ![b] = FALSE]
  /\ refcnt' = [refcnt EXCEPT ![b] = 1]

BgetRecycle(p, k) ==
  /\ pc[p] = "idle" /\ MayAsk(p, k) /\ ~panicked
  /\ HitAt(k) = 0 /\ VictimAt # 0
  /\ Recycle(lru[VictimAt], k)
  /\ buf' = [buf EXCEPT ![p] = lru[VictimAt]]
  /\ want' = [want EXCEPT ![p] = k]
  /\ pc' = [pc EXCEPT ![p] = "locking"]
  /\ CountCall(p) /\ Note("renamed", Renamed(k))
  /\ UNCHANGED <<lru, data, locks, disk, hookVars, mirrorToo, logVars, current,
                 version, panicked>>

BgetPanic(p, k) ==
  /\ pc[p] = "idle" /\ MayAsk(p, k) /\ ~panicked
  /\ HitAt(k) = 0 /\ VictimAt = 0
  /\ panicked' = TRUE
  /\ Note("renamed", Renamed(k))
  /\ UNCHANGED <<bufVars, disk, hookVars, procVars, logVars, current, version, calls>>

(* acquiresleep: asleep while the lock is held, woken by releasesleep to   *)
(* look again.  sleep() and wakeup() hold the lock's spin-lock.            *)
AcquireSleep(p) ==
  /\ pc[p] = "locking" /\ p \notin asleep
  /\ owner[buf[p]] # None
  /\ asleep' = asleep \cup {p}
  /\ UNCHANGED <<lru, blockno, valid, refcnt, data, owner, disk, hookVars, procVars,
                 logVars, ghostVars, panicked>>

Acquire(p) ==
  /\ pc[p] = "locking" /\ p \notin asleep
  /\ owner[buf[p]] = None
  /\ owner' = [owner EXCEPT ![buf[p]] = p]
  /\ pc' = [pc EXCEPT ![p] = IF p \in RawUsers THEN "raw" ELSE "locked"]
  /\ UNCHANGED <<lru, blockno, valid, refcnt, data, asleep, disk, hookVars, buf, want,
                 mirrorToo, logVars, ghostVars, panicked>>

-----------------------------------------------------------------------------
(* bread with the buffer locked.                                           *)
ReadCached(p) ==
  /\ pc[p] = "locked" /\ valid[buf[p]]
  /\ pc' = [pc EXCEPT ![p] = "held"]
  /\ UNCHANGED <<bufVars, disk, hookVars, buf, want, mirrorToo, logVars, ghostVars,
                 panicked>>

(* Which physical block bread transfers; NoBlock when both are failed.     *)
ReadSource(k) ==
  IF failDisk # 0 /\ failBlock # k THEN k
  ELSE IF failDisk # 1 THEN Mirror(k) ELSE NoBlock

ReadStart(p) ==
  /\ pc[p] = "locked" /\ ~valid[buf[p]]
  /\ IF ReadSource(want[p]) = NoBlock
       THEN /\ blockno' = [blockno EXCEPT ![buf[p]] = want[p]]
            /\ pc' = [pc EXCEPT ![p] = "held"]
       ELSE /\ blockno' = [blockno EXCEPT ![buf[p]] = ReadSource(want[p])]
            /\ pc' = [pc EXCEPT ![p] = "reading"]
  /\ UNCHANGED <<lru, valid, refcnt, data, locks, disk, hookVars, buf, want,
                 mirrorToo, logVars, ghostVars, panicked>>

ReadDone(p) ==
  /\ pc[p] = "reading"
  /\ data' = [data EXCEPT ![buf[p]] = disk[blockno[buf[p]]]]
  /\ valid' = [valid EXCEPT ![buf[p]] = TRUE]
  /\ blockno' = [blockno EXCEPT ![buf[p]] = want[p]]
  /\ pc' = [pc EXCEPT ![p] = "held"]
  /\ UNCHANGED <<lru, refcnt, locks, disk, hookVars, buf, want, mirrorToo, logVars,
                 ghostVars, panicked>>

-----------------------------------------------------------------------------
(* bpin, for a block not yet in the log.                                   *)
Record(b) ==
  IF blockno[b] \in logged
    THEN UNCHANGED <<logged, refcnt>>
    ELSE /\ logged' = logged \cup {blockno[b]}
         /\ refcnt' = [refcnt EXCEPT ![b] = @ + 1]

(* An updater changes the block it holds and calls log_write.              *)
LogWrite(p) ==
  /\ pc[p] = "held" /\ p \in Updaters /\ ~panicked
  /\ version' = version + 1
  /\ data' = [data EXCEPT ![buf[p]] = version']
  /\ current' = [current EXCEPT ![want[p]] = version']
  /\ Record(buf[p])
  /\ pc' = [pc EXCEPT ![p] = "done"]
  /\ UNCHANGED <<lru, blockno, valid, locks, disk, hookVars, buf, want, mirrorToo,
                 toInstall, committing, calls, mishaps, panicked>>

(* end_op by the last updater: nobody is between begin_op and end_op.      *)
CommitStart ==
  /\ ~committing /\ logged # {}
  /\ \A p \in Updaters : pc[p] = "idle"
  /\ committing' = TRUE
  /\ toInstall' = logged
  /\ UNCHANGED <<bufVars, disk, hookVars, procVars, logged, ghostVars, panicked>>

CommitEnd ==
  /\ committing /\ toInstall = {}
  /\ \A p \in Committers : pc[p] = "idle"
  /\ committing' = FALSE /\ logged' = {}
  /\ UNCHANGED <<bufVars, disk, hookVars, procVars, toInstall, ghostVars, panicked>>

-----------------------------------------------------------------------------
(* bwrite, called by the committer with the buffer locked.  The flags are  *)
(* read once, when it starts.                                              *)
SkipPbn0(k) == failDisk = 0 \/ failBlock = k
SkipPbn1 == failDisk = 1

(* Next comes the write of pbn1, or the end of bwrite, which restores      *)
(* b->blockno.                                                             *)
GoOn(p, second) ==
  /\ blockno' = [blockno EXCEPT ![buf[p]] = IF second THEN Mirror(want[p]) ELSE want[p]]
  /\ pc' = [pc EXCEPT ![p] = IF second THEN "write1" ELSE "written"]

BwriteStart(p) ==
  /\ pc[p] = "held" /\ p \in Committers
  /\ mirrorToo' = [mirrorToo EXCEPT ![p] = ~SkipPbn1]
  /\ IF SkipPbn0(want[p])
       THEN GoOn(p, ~SkipPbn1)
       ELSE pc' = [pc EXCEPT ![p] = "write0"] /\ UNCHANGED blockno
  /\ UNCHANGED <<lru, valid, refcnt, data, locks, disk, hookVars, buf, want, logVars,
                 ghostVars, panicked>>

Write0Done(p) ==
  /\ pc[p] = "write0"
  /\ disk' = [disk EXCEPT ![blockno[buf[p]]] = data[buf[p]]]
  /\ GoOn(p, mirrorToo[p])
  /\ UNCHANGED <<lru, valid, refcnt, data, locks, hookVars, buf, want, mirrorToo,
                 logVars, ghostVars, panicked>>

Write1Done(p) ==
  /\ pc[p] = "write1"
  /\ disk' = [disk EXCEPT ![blockno[buf[p]]] = data[buf[p]]]
  /\ GoOn(p, FALSE)
  /\ UNCHANGED <<lru, valid, refcnt, data, locks, hookVars, buf, want, mirrorToo,
                 logVars, ghostVars, panicked>>

(* install_trans then calls bunpin.                                        *)
Bunpin(p) ==
  /\ pc[p] = "written" /\ ~panicked
  /\ refcnt' = [refcnt EXCEPT ![buf[p]] = @ - 1]
  /\ toInstall' = toInstall \ {want[p]}
  /\ pc' = [pc EXCEPT ![p] = "done"]
  /\ UNCHANGED <<lru, blockno, valid, data, locks, disk, hookVars, buf, want, mirrorToo,
                 logged, committing, ghostVars, panicked>>

-----------------------------------------------------------------------------
(* sys_raw_read transfers from the very block it names and leaves b->valid *)
(* alone; sys_raw_write copies into the buffer, sets b->valid and transfers*)
(* to that block, unless copyin fails, perhaps after a part of the copy.   *)
RawRead(p) ==
  /\ pc[p] = "raw"
  /\ data' = [data EXCEPT ![buf[p]] = disk[blockno[buf[p]]]]
  /\ Note("overwritten", want[p] \in Outstanding)
  /\ pc' = [pc EXCEPT ![p] = "done"]
  /\ UNCHANGED <<lru, blockno, valid, refcnt, locks, disk, hookVars, buf, want,
                 mirrorToo, logVars, current, version, calls, panicked>>

RawWrite(p) ==
  /\ pc[p] = "raw"
  /\ version' = version + 1
  /\ data' = [data EXCEPT ![buf[p]] = version']
  /\ valid' = [valid EXCEPT ![buf[p]] = TRUE]
  /\ disk' = [disk EXCEPT ![blockno[buf[p]]] = version']
  /\ current' = IF want[p] \in Logical THEN [current EXCEPT ![want[p]] = version']
                ELSE current
  /\ IF want[p] \in Logical THEN Note("unmirrored", want[p] \notin Outstanding)
                           ELSE Note("overwritten", TRUE)
  /\ pc' = [pc EXCEPT ![p] = "done"]
  /\ UNCHANGED <<lru, blockno, refcnt, locks, hookVars, buf, want, mirrorToo, logVars,
                 calls, panicked>>

Torn == -2      \* a mix of two contents

RawWriteFails(p) ==
  /\ pc[p] = "raw"
  /\ \E d \in {data[buf[p]], Torn} :
       /\ data' = [data EXCEPT ![buf[p]] = d]
       /\ Note("overwritten", valid[buf[p]] /\ d = Torn)
  /\ pc' = [pc EXCEPT ![p] = "done"]
  /\ UNCHANGED <<lru, blockno, valid, refcnt, locks, disk, hookVars, buf, want,
                 mirrorToo, logVars, current, version, calls, panicked>>

-----------------------------------------------------------------------------
(* brelse: first releasesleep, then the reference under bcache.lock; a     *)
(* buffer nobody refers to any more moves to the front of the list.        *)
Woken(b) == {q \in asleep : buf[q] = b}

BrelseUnlock(p) ==
  /\ pc[p] = "done" \/ (pc[p] = "held" /\ p \in Readers)
  /\ owner' = [owner EXCEPT ![buf[p]] = None]
  /\ asleep' = asleep \ Woken(buf[p])
  /\ pc' = [pc EXCEPT ![p] = "releasing"]
  /\ UNCHANGED <<lru, blockno, valid, refcnt, data, disk, hookVars, buf, want,
                 mirrorToo, logVars, ghostVars, panicked>>

MoveToFront(b) == <<b>> \o RemoveAt(lru, SelectInSeq(lru, LAMBDA c : c = b))

BrelseUnref(p) ==
  /\ pc[p] = "releasing" /\ ~panicked
  /\ refcnt' = [refcnt EXCEPT ![buf[p]] = @ - 1]
  /\ lru' = IF refcnt'[buf[p]] = 0 THEN MoveToFront(buf[p]) ELSE lru
  /\ pc' = [pc EXCEPT ![p] = "idle"]
  /\ buf' = [buf EXCEPT ![p] = None]
  /\ want' = [want EXCEPT ![p] = NoBlock]
  /\ mirrorToo' = [mirrorToo EXCEPT ![p] = FALSE]
  /\ UNCHANGED <<blockno, valid, data, locks, disk, hookVars, logVars, ghostVars,
                 panicked>>

-----------------------------------------------------------------------------
Bget(p, k) == BgetHit(p, k) \/ BgetRecycle(p, k) \/ BgetPanic(p, k)
Bread(p) == ReadCached(p) \/ ReadStart(p) \/ ReadDone(p)
Bwrite(p) == BwriteStart(p) \/ Write0Done(p) \/ Write1Done(p)
Brelse(p) == BrelseUnlock(p) \/ BrelseUnref(p)
RawCall(p) == RawRead(p) \/ RawWrite(p) \/ RawWriteFails(p)

Hook == \/ \E d \in HookDisks : ForceDiskFail(d)
        \/ \E n \in HookBlocks : ForceFail(n)

Next ==
  \/ \E p \in Procs : \/ \E k \in Physical : Bget(p, k)
                      \/ AcquireSleep(p) \/ Acquire(p) \/ Bread(p) \/ LogWrite(p)
                      \/ Bwrite(p) \/ Bunpin(p) \/ Brelse(p)
                      \/ RawCall(p)
  \/ CommitStart \/ CommitEnd \/ Hook

Spec == Init /\ [][Next]_vars

(* A process inside a call of the cache keeps being scheduled, also one    *)
(* that releasesleep has made runnable, and the disk answers.  The locks   *)
(* are not fair: a waiter may find the lock taken again each time it wakes.*)
Fairness ==
  /\ \A p \in Procs :
       /\ WF_vars(\/ AcquireSleep(p) \/ Acquire(p) \/ Bread(p) \/ LogWrite(p)
                  \/ Bwrite(p) \/ Bunpin(p) \/ Brelse(p) \/ RawCall(p))
       /\ WF_vars(p \in Committers /\ \E k \in Physical : Bget(p, k))
  /\ WF_vars(CommitStart \/ CommitEnd)

FairSpec == Spec /\ Fairness

-----------------------------------------------------------------------------
Contents == Torn..MaxVersion

TypeOK ==
  /\ Len(lru) = Cardinality(Bufs) /\ ToSet(lru) = Bufs
  /\ blockno \in [Bufs -> Physical \cup {NoBlock}]
  /\ valid \in [Bufs -> BOOLEAN]
  /\ refcnt \in [Bufs -> Int]
  /\ data \in [Bufs -> Contents]
  /\ owner \in [Bufs -> Procs \cup {None}] /\ asleep \subseteq Procs
  /\ disk \in [Physical -> Contents]
  /\ failDisk \in -1..1 /\ failBlock \in -1..(DiskSize - 1)
  /\ pc \in [Procs -> {"idle", "locking", "locked", "raw", "reading", "held",
                       "write0", "write1", "written", "done", "releasing"}]
  /\ buf \in [Procs -> Bufs \cup {None}]
  /\ want \in [Procs -> Physical \cup {NoBlock}]
  /\ mirrorToo \in [Procs -> BOOLEAN]
  /\ logged \subseteq Logical /\ toInstall \subseteq logged /\ committing \in BOOLEAN
  /\ current \in [Logical -> 0..MaxVersion] /\ version \in 0..MaxVersion
  /\ calls \in 0..MaxCalls /\ panicked \in BOOLEAN
  /\ mishaps \subseteq Mishaps

Users(b) == {p \in Procs : buf[p] = b}

(* b->refcnt is the number of processes between bget and the end of brelse *)
(* plus one if the buffer is pinned by the log.                            *)
RefcntExact ==
  \A b \in Bufs :
    refcnt[b] = Cardinality(Users(b)) + (IF Home(b) \in Outstanding THEN 1 ELSE 0)

(* A process that got a buffer keeps it: until the end of its brelse the   *)
(* buffer is not recycled for another block, and outside a transfer it     *)
(* carries the number the process asked for.                               *)
HolderKeepsBlock ==
  \A p \in Procs : buf[p] # None =>
    /\ Home(buf[p]) = want[p]
    /\ owner[buf[p]] = p /\ ~InTransfer(p) => blockno[buf[p]] = want[p]

(* No block is cached in two buffers.                                      *)
OneBufferPerBlock ==
  \A b, c \in Bufs : b # c /\ Home(b) # NoBlock => Home(b) # Home(c)

(* bget panics only when a process works on every buffer or the log pins it. *)
PanicMeansFull == panicked => \A b \in Bufs : Users(b) # {} \/ Home(b) \in Outstanding

(* Until bget is asked for a renamed block, the buffers are sound: counts  *)
(* are exact, holders keep their blocks, no block is cached twice, and     *)
(* bget panics only for want of a buffer.                                  *)
BuffersSound == RefcntExact /\ HolderKeepsBlock /\ OneBufferPerBlock /\ PanicMeansFull
BuffersExact == "renamed" \notin mishaps => TypeOK /\ BuffersSound

(* Unless one of the other things has happened, what bread hands to its    *)
(* caller is the version last stored in the block, also while the block is *)
(* changed, logged and installed by others.                                *)
ReadIsCurrent ==
  mishaps \subseteq {"unmirrored"} =>
    \A p \in Readers \cup Updaters \cup Committers :
      pc[p] = "held" => valid[buf[p]] /\ data[buf[p]] = current[want[p]]

(* A change that is logged but not installed is in memory, in a buffer     *)
(* that cannot be recycled, whatever single disk or block fails.           *)
NoLostUpdate ==
  mishaps \subseteq {"unmirrored", "failure"} =>
    \A k \in Outstanding :
      \E b \in Bufs : Home(b) = k /\ refcnt[b] > 0 /\ valid[b] /\ data[b] = current[k]

(* Unless one of the five things has happened, a block that has been       *)
(* installed, and not logged again, is the same on both disks.             *)
MirrorsAgree ==
  mishaps = {} =>
    \A k \in Logical \ logged :
      current[k] > 0 => disk[k] = current[k] /\ disk[Mirror(k)] = current[k]

(* Whatever single disk or block fails, and however often that changes, a  *)
(* block that is not in the log has its last version on at least one disk. *)
WriteReachesADisk ==
  mishaps \subseteq {"unmirrored", "failure"} =>
    \A k \in Logical \ logged :
      current[k] > 0 => current[k] \in {disk[k], disk[Mirror(k)]}

(* Every call of the cache returns, though others wait for the same        *)
(* buffer, and a logged change reaches the disk, unless bget runs out of   *)
(* buffers and stops the system.                                           *)
CallsReturn == \A p \in Procs \ Committers : pc[p] # "idle" ~> pc[p] = "idle" \/ panicked
EveryCommitEnds == committing ~> ~committing \/ panicked
CallsEnd == CallsReturn /\ EveryCommitEnds
=============================================================================
