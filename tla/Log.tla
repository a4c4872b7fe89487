-------------------------------- MODULE Log --------------------------------
(***************************************************************************)
(* The redo log of mp4 (kernel/log.c) over the mirrored disks of bio.c:    *)
(* group commit, log absorption, reservation of log space, crashes at any  *)
(* disk transfer and recovery.                                             *)
(*                                                                         *)
(* The buffer cache is taken to be coherent here (Bcache says when it is): *)
(* mem[b] is what any process sees in block b.  A block carries a version  *)
(* number.  A bwrite is one transfer to disk 0 and one to disk 1, leaving  *)
(* out the disk the hook says has failed, and the system can crash between *)
(* any two transfers; a transfer itself is atomic.                         *)
(***************************************************************************)
EXTENDS Integers, Sequences, FiniteSets

CONSTANTS
  Procs,        \* processes running file system calls
  Blocks,       \* home blocks
  MaxOp,        \* MAXOPBLOCKS: what begin_op reserves
  LogSize,      \* LOGSIZE: what begin_op thinks the log holds
  SbNlog,       \* sb->nlog: blocks of the log area, its header included
  OpWrites,     \* the most distinct blocks an operation writes
  HookDisks,    \* arguments force_disk_fail is called with
  MaxVersion,   \* bound: number of block changes
  MaxCrashes    \* bound: number of crashes

ASSUME LogAssumption ==
  /\ IsFiniteSet(Procs)
  /\ MaxOp \in Nat \ {0} /\ LogSize \in Nat /\ SbNlog \in Nat \ {0}
  /\ OpWrites \in 0..MaxOp /\ MaxOp <= LogSize
  /\ MaxVersion \in Nat /\ MaxCrashes \in Nat /\ HookDisks \subseteq -1..1

Disks == {0, 1}
NoOne == "none"
NoBlock == "none"

VARIABLES
  mem,          \* contents of the blocks in the cache
  home,         \* home[d][b]: contents of block b at its home on disk d
  logBlk,       \* logBlk[d][i]: contents of log block i on disk d
  head,         \* head[d]: the header block on disk d, a sequence of blocks
  lh,           \* log.lh, the header in memory
  outstanding, committing,
  pins,         \* references to the buffer of a block held by the log
  opc,          \* where each process is with respect to the log
  target,       \* the block it is passing to log_write
  written,      \* the blocks its operation has passed so far
  phase, tail,  \* progress of commit() or recover_from_log()
  left,         \* disks the current bwrite has still to write; {}: not begun
  mode,         \* "up", "recovering" or "panic"
  failDisk,     \* force_disk_fail_id
  version, crashes,
  lost          \* history: bget has recycled the only copy of a logged block

diskVars == <<home, logBlk, head>>
opVars == <<opc, target, written>>
stepVars == <<phase, tail, left>>
vars == <<mem, diskVars, lh, outstanding, committing, pins, opVars, stepVars, mode,
          failDisk, version, crashes, lost>>

(* What recovery would make of disk d.                                     *)
Recovered(d) ==
  [b \in Blocks |->
     IF \E i \in 1..Len(head[d]) : head[d][i] = b
       THEN logBlk[d][CHOOSE i \in 1..Len(head[d]) : head[d][i] = b]
       ELSE home[d][b]]

(* mkfs: an empty log and no mirror (contents -1) of the blocks.           *)
Init ==
  /\ mem = [b \in Blocks |-> 0]
  /\ home = [d \in Disks |-> [b \in Blocks |-> IF d = 0 THEN 0 ELSE -1]]
  /\ logBlk = [d \in Disks |-> [i \in 1..LogSize |-> 0]]
  /\ head = [d \in Disks |-> <<>>]
  /\ lh = <<>> /\ outstanding = 0 /\ committing = FALSE
  /\ pins = [b \in Blocks |-> 0]
  /\ opc = [p \in Procs |-> "out"]
  /\ target = [p \in Procs |-> NoBlock]
  /\ written = [p \in Procs |-> {}]
  /\ phase = "idle" /\ tail = 1 /\ left = {}
  /\ mode = "up" /\ failDisk = -1
  /\ version = 0 /\ crashes = 0 /\ lost = FALSE

-----------------------------------------------------------------------------
(* begin_op.                                                               *)
MutantAdmissible == ~committing /\ Len(lh) + outstanding * MaxOp <= LogSize

Admissible == ~committing /\ Len(lh) + (outstanding + 1) * MaxOp <= LogSize

BeginOp(p) ==
  /\ mode = "up" /\ opc[p] \in {"out", "woken"}
  /\ Admissible
  /\ outstanding' = outstanding + 1
  /\ opc' = [opc EXCEPT ![p] = "in"]
  /\ UNCHANGED <<mem, diskVars, lh, committing, pins, target, written, stepVars, mode,
                 failDisk, version, crashes, lost>>

MutantBeginOpSleep(p) ==
  /\ mode = "up" /\ opc[p] \in {"out", "woken"}
  /\ ~Admissible
  /\ outstanding' = outstanding + 1
  /\ opc' = [opc EXCEPT ![p] = "sleep"]
  /\ UNCHANGED <<mem, diskVars, lh, committing, pins, target, written, stepVars, mode,
                 failDisk, version, crashes, lost>>

BeginOpSleep(p) ==
  /\ mode = "up" /\ opc[p] \in {"out", "woken"}
  /\ ~Admissible
  /\ opc' = [opc EXCEPT ![p] = "sleep"]
  /\ UNCHANGED <<mem, diskVars, lh, outstanding, committing, pins, target, written,
                 stepVars, mode, failDisk, version, crashes, lost>>

MutantWakeAll(p, where) == opc' = [opc EXCEPT ![p] = where]

(* wakeup(&log), after process p has moved to place where.                 *)
WakeAll(p, where) ==
  opc' = [q \in Procs |-> IF q = p THEN where
                          ELSE IF opc[q] = "sleep" THEN "woken" ELSE opc[q]]

-----------------------------------------------------------------------------
(* A caller has changed a block and calls log_write, which first looks at  *)
(* log.lh.n without the lock ...                                           *)
LogFull == Len(lh) >= LogSize \/ Len(lh) >= SbNlog - 1

LogWriteCheck(p, b) ==
  /\ mode = "up" /\ opc[p] = "in"
  /\ Cardinality(written[p] \cup {b}) <= OpWrites
  /\ \A q \in Procs : target[q] # b      \* p holds the buffer's sleep-lock
  /\ version < MaxVersion
  /\ version' = version + 1
  /\ mem' = [mem EXCEPT ![b] = version']
  /\ IF LogFull
       THEN mode' = "panic" /\ UNCHANGED opVars
       ELSE /\ opc' = [opc EXCEPT ![p] = "append"]
            /\ target' = [target EXCEPT ![p] = b]
            /\ written' = [written EXCEPT ![p] = @ \cup {b}]
            /\ UNCHANGED mode
  /\ UNCHANGED <<diskVars, lh, outstanding, committing, pins, stepVars, failDisk, crashes, lost>>

InLog(b) == \E i \in 1..Len(lh) : lh[i] = b

MutantRepin(p) ==
  /\ mode = "up" /\ opc[p] = "append"
  /\ lh' = IF InLog(target[p]) THEN lh ELSE Append(lh, target[p])
  /\ pins' = [pins EXCEPT ![target[p]] = @ + 1]
  /\ opc' = [opc EXCEPT ![p] = "in"]
  /\ target' = [target EXCEPT ![p] = NoBlock]
  /\ UNCHANGED <<mem, diskVars, outstanding, committing, written, stepVars, mode,
                 failDisk, version, crashes, lost>>

(* ... and then, with the lock, absorbs the block or appends and pins it.  *)
LogWriteAppend(p) ==
  /\ mode = "up" /\ opc[p] = "append"
  /\ IF InLog(target[p])
       THEN UNCHANGED <<lh, pins>>
       ELSE /\ lh' = Append(lh, target[p])
            /\ pins' = [pins EXCEPT ![target[p]] = @ + 1]
  /\ opc' = [opc EXCEPT ![p] = "in"]
  /\ target' = [target EXCEPT ![p] = NoBlock]
  /\ UNCHANGED <<mem, diskVars, outstanding, committing, written, stepVars, mode,
                 failDisk, version, crashes, lost>>

-----------------------------------------------------------------------------
MutantEndOpOther(p) ==
  /\ mode = "up" /\ opc[p] = "in" /\ outstanding > 1
  /\ outstanding' = outstanding - 1
  /\ opc' = [opc EXCEPT ![p] = "out"]
  /\ written' = [written EXCEPT ![p] = {}]
  /\ UNCHANGED <<mem, diskVars, lh, committing, pins, target, stepVars, mode, failDisk,
                 version, crashes, lost>>

(* end_op: the last operation commits, another one wakes up the waiters.   *)
EndOpOther(p) ==
  /\ mode = "up" /\ opc[p] = "in" /\ outstanding > 1
  /\ outstanding' = outstanding - 1
  /\ WakeAll(p, "out")
  /\ written' = [written EXCEPT ![p] = {}]
  /\ UNCHANGED <<mem, diskVars, lh, committing, pins, target, stepVars, mode, failDisk,
                 version, crashes, lost>>

EndOpWith(p, start) ==
  /\ mode = "up" /\ opc[p] = "in" /\ outstanding = 1
  /\ outstanding' = 0
  /\ committing' = TRUE
  /\ phase' = start
  /\ tail' = 1
  /\ opc' = [opc EXCEPT ![p] = "commit"]
  /\ written' = [written EXCEPT ![p] = {}]
  /\ UNCHANGED <<mem, diskVars, lh, pins, target, left, mode, failDisk, version, crashes, lost>>

MutantInstallFirst(p) == EndOpWith(p, IF lh = <<>> THEN "done" ELSE "install")
EndOpLast(p) == EndOpWith(p, IF lh = <<>> THEN "done" ELSE "log")

CommitDone(p) ==
  /\ mode = "up" /\ opc[p] = "commit" /\ phase = "done"
  /\ committing' = FALSE
  /\ phase' = "idle"
  /\ WakeAll(p, "out")
  /\ UNCHANGED <<mem, diskVars, lh, outstanding, pins, target, written, tail, left, mode,
                 failDisk, version, crashes, lost>>

-----------------------------------------------------------------------------
MutantNoPrimary == IF left = {} THEN {1} ELSE left
MutantNoMirror == IF left = {} THEN {0} ELSE left

(* bwrite: one transfer, to disk 0 first; the hook is read when it starts. *)
Remaining == IF left = {} THEN Disks \ {failDisk} ELSE left
NextDisk == IF 0 \in Remaining THEN 0 ELSE 1
LastTransfer == Remaining = {NextDisk}
Transfer == left' = Remaining \ {NextDisk}

(* write_log: the cached block goes to log block number tail.              *)
WriteLog ==
  /\ phase = "log"
  /\ Transfer
  /\ logBlk' = [logBlk EXCEPT ![NextDisk][tail] = mem[lh[tail]]]
  /\ IF LastTransfer
       THEN IF tail = Len(lh) THEN phase' = "head" /\ tail' = 1
                              ELSE tail' = tail + 1 /\ UNCHANGED phase
       ELSE UNCHANGED <<phase, tail>>
  /\ UNCHANGED <<mem, home, head, lh, outstanding, committing, pins, opVars, mode, failDisk,
                 version, crashes, lost>>

(* write_head of a full header: the transfer to the disk that recovery     *)
(* reads is the commit.                                                    *)
WriteHead ==
  /\ phase = "head"
  /\ Transfer
  /\ head' = [head EXCEPT ![NextDisk] = lh]
  /\ phase' = IF LastTransfer THEN "install" ELSE phase
  /\ UNCHANGED <<mem, home, logBlk, lh, outstanding, committing, pins, opVars, tail, mode,
                 failDisk, version, crashes, lost>>

(* The log block install_trans copies from: in a commit it is the cached   *)
(* copy just written, in recovery it is read from disk 0.                  *)
LogContents(i) == IF mode = "recovering" THEN logBlk[0][i] ELSE mem[lh[i]]

(* install_trans, followed by bunpin in both of its uses.                  *)
InstallTrans ==
  /\ phase = "install"
  /\ Transfer
  /\ home' = [home EXCEPT ![NextDisk][lh[tail]] = LogContents(tail)]
  /\ mem' = [mem EXCEPT ![lh[tail]] = LogContents(tail)]
  /\ IF LastTransfer
       THEN /\ pins' = [pins EXCEPT ![lh[tail]] = @ - 1]
            /\ IF tail = Len(lh) THEN phase' = "clear" /\ tail' = 1 /\ lh' = <<>>
                                 ELSE tail' = tail + 1 /\ UNCHANGED <<phase, lh>>
       ELSE UNCHANGED <<pins, phase, tail, lh>>
  /\ UNCHANGED <<logBlk, head, outstanding, committing, opVars, mode, failDisk, version,
                 crashes, lost>>

(* write_head of the emptied header.                                       *)
ClearHead ==
  /\ phase = "clear"
  /\ Transfer
  /\ head' = [head EXCEPT ![NextDisk] = <<>>]
  /\ IF ~LastTransfer THEN UNCHANGED <<phase, mode>>
     ELSE IF mode = "recovering" THEN phase' = "idle" /\ mode' = "up"
     ELSE phase' = "done" /\ UNCHANGED mode
  /\ UNCHANGED <<mem, home, logBlk, lh, outstanding, committing, pins, opVars, tail,
                 failDisk, version, crashes, lost>>

-----------------------------------------------------------------------------
(* A crash loses all memory; initlog then reads the header of disk 0 and   *)
(* runs install_trans and write_head before any other file system call.    *)
Crash ==
  /\ crashes < MaxCrashes
  /\ crashes' = crashes + 1
  /\ mem' = home[0]
  /\ lh' = head[0]
  /\ phase' = IF head[0] = <<>> THEN "clear" ELSE "install"
  /\ tail' = 1 /\ left' = {}
  /\ mode' = "recovering"
  /\ outstanding' = 0 /\ committing' = FALSE
  /\ pins' = [b \in Blocks |-> 0]
  /\ opc' = [p \in Procs |-> "out"]
  /\ target' = [p \in Procs |-> NoBlock]
  /\ written' = [p \in Procs |-> {}]
  /\ failDisk' = -1
  /\ UNCHANGED <<diskVars, version, lost>>

ForceDiskFail(d) ==
  /\ mode = "up" /\ failDisk # d
  /\ failDisk' = d
  /\ UNCHANGED <<mem, diskVars, lh, outstanding, committing, pins, opVars, stepVars, mode,
                 version, crashes, lost>>

(* Block b is in the log and not yet installed.                            *)
Pinned(b) == \E i \in 1..Len(lh) : lh[i] = b /\ (phase = "install" => i >= tail)

(* bget recycles the buffer of a block nothing refers to, and a later      *)
(* bread reads the block again.  Nothing keeps it from one that is in the  *)
(* log: only its pin does.                                                 *)
Evict(b) ==
  /\ mode = "up" /\ pins[b] = 0
  /\ \A q \in Procs : target[q] # b
  /\ mem' = [mem EXCEPT ![b] = home[IF failDisk = 0 THEN 1 ELSE 0][b]]
  /\ lost' = (lost \/ Pinned(b))
  /\ UNCHANGED <<diskVars, lh, outstanding, committing, pins, opVars, stepVars, mode,
                 failDisk, version, crashes>>

(* commit() of end_op, or recover_from_log() when the system starts.       *)
CommitStep == WriteLog \/ WriteHead \/ InstallTrans \/ ClearHead

EndOp(p) == EndOpOther(p) \/ EndOpLast(p)

Next ==
  \/ \E p \in Procs : \/ BeginOp(p) \/ BeginOpSleep(p)
                      \/ \E b \in Blocks : LogWriteCheck(p, b)
                      \/ LogWriteAppend(p)
                      \/ EndOp(p) \/ CommitDone(p)
  \/ CommitStep
  \/ Crash
  \/ \E d \in HookDisks : ForceDiskFail(d)
  \/ \E b \in Blocks : Evict(b)

Spec == Init /\ [][Next]_vars

(* A process inside a file system call keeps running, one that wakeup made *)
(* runnable is scheduled (round robin), and so is the committer.  Nothing  *)
(* forces a process to begin or to write, nor a crash or a hook.           *)
Resume(p) == opc[p] = "woken" /\ (BeginOp(p) \/ BeginOpSleep(p))

FairSpec ==
  /\ Spec
  /\ WF_vars(CommitStep)
  /\ \A p \in Procs : /\ WF_vars(Resume(p)) /\ WF_vars(LogWriteAppend(p))
                      /\ WF_vars(EndOp(p)) /\ WF_vars(CommitDone(p))

-----------------------------------------------------------------------------
(* The types of the variables.                                             *)
Contents == -1..MaxVersion

TypeOK ==
  /\ mem \in [Blocks -> Contents]
  /\ home \in [Disks -> [Blocks -> Contents]]
  /\ logBlk \in [Disks -> [1..LogSize -> Contents]]
  /\ head \in [Disks -> Seq(Blocks)]
  /\ lh \in Seq(Blocks) /\ Len(lh) <= LogSize
  /\ outstanding \in 0..Cardinality(Procs) /\ committing \in BOOLEAN
  /\ pins \in [Blocks -> Int]
  /\ opc \in [Procs -> {"out", "sleep", "woken", "in", "append", "commit"}]
  /\ target \in [Procs -> Blocks \cup {NoBlock}]
  /\ written \in [Procs -> SUBSET Blocks]
  /\ phase \in {"idle", "log", "head", "install", "clear", "done"}
  /\ tail \in 1..(LogSize + 1) /\ left \subseteq Disks
  /\ mode \in {"up", "recovering", "panic"} /\ failDisk \in -1..1
  /\ version \in 0..MaxVersion /\ crashes \in 0..MaxCrashes /\ lost \in BOOLEAN

(* Transactions are atomic and durable: whatever transfer of write_log,    *)
(* write_head, install_trans or recovery a crash (or a crash of the        *)
(* recovery) falls into, the blocks come back as they were at the last     *)
(* moment no operation was in progress that reached write_head on disk 0,  *)
(* whatever buffers bget recycles.  Each step is one of the atomic disk    *)
(* until bget recycles the only copy of a logged block, which install_trans*)
(* makes possible after a crash: it unpins in recovery what nobody pinned. *)
Vol == IF mode = "recovering" THEN Recovered(0) ELSE mem
Running == {p \in Procs : opc[p] \in {"in", "append"}}

Disk == INSTANCE AtomicDisk WITH
          Versions <- 0..MaxVersion,
          initial <- [b \in Blocks |-> 0],
          vol <- Vol,
          dur <- Recovered(0),
          active <- Running,
          crashes <- crashes

ImplementsAtomicDisk ==
  Disk!Init /\ [][lost' \/ Disk!Next]_<<Vol, Recovered(0), Running, crashes>>

(* Nothing is running and the last end_op has committed.                   *)
Quiescent == mode = "up" /\ outstanding = 0 /\ phase \in {"idle", "done"}

(* Once end_op has committed, a crash would bring every block back as it   *)
(* is in memory, and the log is empty, unless the only copy of a logged    *)
(* block has been recycled.                                                *)
CommittedIsDurable == Quiescent /\ ~lost => Recovered(0) = mem /\ lh = <<>>

(* ... and, while no disk has failed, the mirror on disk 1 holds every     *)
(* block that was ever installed, whatever crashes came in between the two *)
(* transfers of a bwrite.                                                  *)
MirrorCurrent ==
  Quiescent /\ ~lost => /\ head[1] = <<>>
                        /\ \A b \in Blocks : \/ home[1][b] = mem[b]
                                             \/ home[1][b] = -1 /\ mem[b] = 0

(* As long as the system has not recovered from a crash, log_write and     *)
(* install_trans keep exactly one pin on each block that is in the log and *)
(* not installed, so that bget never recycles its only copy.               *)
PinsExact ==
  crashes = 0 => /\ \A b \in Blocks : pins[b] = IF Pinned(b) THEN 1 ELSE 0
                 /\ ~lost

(* The space begin_op reserves is enough: log_write, which checks the size *)
(* of the log without its lock, never finds it too small.                  *)
NoPanic == mode # "panic"

(* No process sleeps in begin_op while the log would admit it: each change *)
(* that makes room is followed by a wakeup.                                *)
NoLostWakeup == \A p \in Procs : opc[p] = "sleep" => ~Admissible

(* The in-memory counters agree with the processes: end_op never finds a   *)
(* commit in progress (its panic), and only one process commits.           *)
OutstandingExact ==
  /\ outstanding = Cardinality({p \in Procs : opc[p] \in {"in", "append"}})
  /\ committing <=> \E p \in Procs : opc[p] = "commit"
  /\ committing => outstanding = 0

(* A process sleeping in begin_op is woken, an operation that has begun    *)
(* ends, and a recovery ends.                                              *)
SleeperWoken == \A p \in Procs : opc[p] = "sleep" ~> opc[p] # "sleep"
OperationEnds == \A p \in Procs : opc[p] \in {"in", "append", "commit"} ~> opc[p] = "out"
RecoveryEnds == mode = "recovering" ~> mode = "up"

(* Nobody waits for ever: a sleeper is woken, operations and recoveries end.*)
LogLive == SleeperWoken /\ OperationEnds /\ RecoveryEnds
=============================================================================
