-------------------------------- MODULE Proc --------------------------------
(***************************************************************************)
(* Processes of mp4 (mp4/kernel/proc.c): fork, exit, wait, kill, sleep,    *)
(* wakeup and the scheduler, on several CPUs.                              *)
(*                                                                         *)
(* The spin lock of each entry of the process table is a field of it, and  *)
(* a step is what the code does from one acquire() to the next, or to the  *)
(* next read of a field whose lock it does not hold.  A process that       *)
(* leaves its CPU leaves its lock, as scheduler() releases it.             *)
(***************************************************************************)
EXTENDS Integers, Sequences, FiniteSets

CONSTANTS
    NPROC,     \* entries of the process table, the first one being init's
    NCPU,
    MaxPid,    \* no fork() gives out a greater one
    MaxKills   \* kill() is called no more often

ASSUME ProcAssumption == NPROC \in Nat \ {0} /\ NCPU \in Nat \ {0} /\ MaxPid \in Nat /\ MaxKills \in Nat

VARIABLES
    proc,      \* the process table
    thread,    \* what each entry's kernel thread does: where it is, and its locals
    nextpid,
    kills,     \* how often kill() was called
    panicked   \* the argument of panic(), or "no"

procvars == <<proc, thread, nextpid, kills, panicked>>

Procs == 1 .. NPROC
initproc == 1
None == 0
NoChan == <<>>
WaitChan(p) == <<"wait", p>>      \* wait() sleeps on its own struct proc

Unused == [state |-> "UNUSED", parent |-> None, chan |-> NoChan, killed |-> FALSE, pid |-> 0, lock |-> None]
NoThread == [pc |-> "none", scan |-> 1, havekids |-> FALSE, original_parent |-> None,
             chan |-> NoChan, then |-> "none"]
User == [NoThread EXCEPT !.pc = "user"]

-----------------------------------------------------------------------------

At(p, point) == panicked = "no" /\ proc[p].state = "RUNNING" /\ thread[p].pc = point
Free(q) == proc[q].lock = None
Held(p) == {q \in Procs : proc[q].lock = p}
Children(p) == {q \in Procs : proc[q].parent = p}

Acquired(t, q, p) == [t EXCEPT ![q].lock = p]
Released(t, q) == [t EXCEPT ![q].lock = None]
Runnable(t, q) == [t EXCEPT ![q].state = "RUNNABLE"]

\* p's thread goes on as l, with the process table t
Step(p, l, t) ==
    /\ proc' = t
    /\ thread' = [thread EXCEPT ![p] = l]
    /\ UNCHANGED <<nextpid, kills, panicked>>

Panic(why) == panicked' = why /\ UNCHANGED <<proc, thread, nextpid, kills>>

\* sched(): p leaves its CPU, in the state that t gives it, to go on as l
Sched(p, l, t) ==
    IF proc[p].lock # p THEN Panic("sched p->lock")
    ELSE IF Held(p) # {p} THEN Panic("sched locks")
    ELSE IF t[p].state = "RUNNING" THEN Panic("sched running")
    ELSE Step(p, l, Released(t, p))

\* scheduler(): an entry that is RUNNABLE gets a CPU.  It goes on in sleep() if it was
\* there, and with its own lock if that is what it slept with.
Dispatch(p) ==
    /\ panicked = "no" /\ proc[p].state = "RUNNABLE" /\ Free(p)
    /\ Cardinality({q \in Procs : proc[q].state = "RUNNING"}) < NCPU
    /\ LET slept == thread[p].pc = "asleep"
           t == [proc EXCEPT ![p].state = "RUNNING", ![p].chan = IF slept THEN NoChan ELSE @]
           pc == IF slept THEN thread[p].then ELSE thread[p].pc
       IN Step(p, [thread[p] EXCEPT !.pc = pc, !.then = IF slept THEN "none" ELSE @], IF pc = "scan" THEN Acquired(t, p, p) ELSE t)

\* a timer interrupt, in user mode or in the kernel where no lock is held: yield()
Yield(p) ==
    /\ panicked = "no" /\ proc[p].state = "RUNNING" /\ Held(p) = {} /\ Free(p)
    /\ Step(p, thread[p], Runnable(proc, p))

-----------------------------------------------------------------------------
(* fork() and kill()                                                       *)

\* allocproc() takes the first entry that is UNUSED, and leaves killed as it is.  (A fork()
\* for which there is none, or no memory, changes nothing but nextpid.)
Fork(p) ==
    /\ At(p, "user") /\ ~proc[p].killed /\ nextpid <= MaxPid
    /\ LET unused == {q \in Procs : proc[q].state = "UNUSED"}
           np == CHOOSE q \in unused : \A r \in unused : q <= r
       IN /\ unused # {} /\ Free(np)
          /\ proc' = [proc EXCEPT ![np] = [Unused EXCEPT !.state = "RUNNABLE", !.parent = p, !.pid = nextpid,
                                                              !.killed = proc[np].killed]]
          /\ thread' = [thread EXCEPT ![np] = User]
    /\ nextpid' = nextpid + 1
    /\ UNCHANGED <<kills, panicked>>

\* the entry that kill() finds for a pid; for 0, which nobody forbids, an UNUSED one
FirstWithPid(q) == \A r \in Procs : r < q => proc[r].pid # proc[q].pid

\* a sleeping victim is left asleep
MutantKill(p) ==
    /\ At(p, "user") /\ ~proc[p].killed /\ kills < MaxKills
    /\ \E q \in Procs \ {initproc} :
        FirstWithPid(q) /\ Free(q) /\ proc' = [proc EXCEPT ![q].killed = TRUE]
    /\ kills' = kills + 1
    /\ UNCHANGED <<thread, nextpid, panicked>>

\* of any process but init, whose end is a panic.  (The test of p's own killed in
\* usertrap() is part of the step, here and in fork(): a call is as good as not made
\* when its caller is killed before it does anything.)
Kill(p) ==
    /\ At(p, "user") /\ ~proc[p].killed /\ kills < MaxKills
    /\ \E q \in Procs \ {initproc} :
        /\ FirstWithPid(q) /\ Free(q)
        /\ proc' = [proc EXCEPT ![q].killed = TRUE,
                                ![q].state = IF @ = "SLEEPING" THEN "RUNNABLE" ELSE @]
    /\ kills' = kills + 1
    /\ UNCHANGED <<thread, nextpid, panicked>>

-----------------------------------------------------------------------------
(* exit()                                                                  *)

\* called by the program, or by usertrap() because the process was killed
Exit(p) ==
    /\ At(p, "user")
    /\ proc[p].killed \/ p # initproc
    /\ IF p = initproc THEN Panic("init exiting")
       ELSE Step(p, [thread[p] EXCEPT !.pc = "exit"], proc)

\* when its files are closed
WakeInit(p) ==
    /\ At(p, "exit") /\ Free(initproc)
    /\ LET sleeps == proc[initproc].state = "SLEEPING" /\ proc[initproc].chan = WaitChan(initproc)
       IN Step(p, [thread[p] EXCEPT !.pc = "readparent"], IF sleeps THEN Runnable(proc, initproc) ELSE proc)

\* a copy of p->parent, under p->lock, which is released
ReadParent(p) ==
    /\ At(p, "readparent") /\ Free(p)
    /\ Step(p, [thread[p] EXCEPT !.pc = "lockparent", !.original_parent = proc[p].parent], proc)

\* the child's lock first
MutantLockParent(p) ==
    /\ At(p, "lockparent")
    /\ LET op == thread[p].original_parent
       IN IF proc[p].lock # p THEN Free(p) /\ Step(p, thread[p], Acquired(proc, p, p))
          ELSE Free(op) /\ Step(p, [thread[p] EXCEPT !.pc = "reparent"], Acquired(proc, op, p))

LockParent(p) ==
    /\ At(p, "lockparent") /\ Free(thread[p].original_parent)
    /\ Step(p, [thread[p] EXCEPT !.pc = "lockself"], Acquired(proc, thread[p].original_parent, p))

LockSelf(p) ==
    /\ At(p, "lockself") /\ Free(p)
    /\ Step(p, [thread[p] EXCEPT !.pc = "reparent"], Acquired(proc, p, p))

\* each child is locked and given to init
Reparent(p) ==
    /\ At(p, "reparent")
    /\ LET left == {q \in Children(p) : q >= thread[p].scan}
           pp == CHOOSE q \in left : \A r \in left : q <= r
       IN IF left = {} THEN Step(p, [thread[p] EXCEPT !.pc = "zombie", !.scan = 1], proc)
          ELSE /\ Free(pp)
               /\ Step(p, [thread[p] EXCEPT !.scan = pp + 1], [proc EXCEPT ![pp].parent = initproc])

\* wakeup1() of the parent, ZOMBIE, and the parent's lock is released
Zombie(p) ==
    /\ At(p, "zombie")
    /\ LET op == thread[p].original_parent
           t == [proc EXCEPT ![p].state = "ZOMBIE"]
           sleeps == proc[op].state = "SLEEPING" /\ proc[op].chan = WaitChan(op)
       IN Step(p, [thread[p] EXCEPT !.pc = "dying"], Released(IF sleeps THEN Runnable(t, op) ELSE t, op))

\* the last that a thread does is to leave its stack
Die(p) ==
    /\ panicked = "no" /\ thread[p].pc = "dying"
    /\ Sched(p, NoThread, proc)

-----------------------------------------------------------------------------
(* wait()                                                                  *)

\* usertrap() looks at killed without a lock
WaitCall(p) ==
    /\ At(p, "user") /\ ~proc[p].killed
    /\ Step(p, [thread[p] EXCEPT !.pc = "wait"], proc)

Wait(p) ==
    /\ At(p, "wait") /\ Free(p)
    /\ Step(p, [thread[p] EXCEPT !.pc = "scan", !.scan = 1, !.havekids = FALSE], Acquired(proc, p, p))

\* without np->lock
MutantScan(p) ==
    /\ At(p, "scan") /\ thread[p].scan <= NPROC
    /\ LET zombies == {q \in Children(p) : proc[q].state = "ZOMBIE"}
       IN IF zombies = {} THEN Step(p, [thread[p] EXCEPT !.scan = NPROC + 1, !.havekids = Children(p) # {}], proc)
          ELSE \E np \in zombies : Step(p, User, Released([proc EXCEPT ![np] = Unused], p))

\* np->parent is read without np->lock; a child is locked, and freed if it is a ZOMBIE
Scan(p) ==
    /\ At(p, "scan") /\ thread[p].scan <= NPROC
    /\ LET left == {q \in Children(p) : q >= thread[p].scan}
           np == CHOOSE q \in left : \A r \in left : q <= r
       IN IF left = {} THEN Step(p, [thread[p] EXCEPT !.scan = NPROC + 1], proc)
          ELSE /\ Free(np)
               /\ IF proc[np].state = "ZOMBIE" THEN Step(p, User, Released([proc EXCEPT ![np] = Unused], p))
                  ELSE Step(p, [thread[p] EXCEPT !.scan = np + 1, !.havekids = TRUE], proc)

\* p->killed is not looked at
MutantWaitSleep(p) ==
    /\ At(p, "scan") /\ thread[p].scan > NPROC
    /\ IF ~thread[p].havekids THEN Step(p, User, Released(proc, p))
       ELSE Sched(p, [thread[p] EXCEPT !.pc = "asleep", !.then = "scan", !.scan = 1, !.havekids = FALSE],
                  [proc EXCEPT ![p].state = "SLEEPING", ![p].chan = WaitChan(p)])

\* no child has exited: -1, or sleep(p, &p->lock)
WaitSleep(p) ==
    /\ At(p, "scan") /\ thread[p].scan > NPROC
    /\ IF ~thread[p].havekids \/ proc[p].killed THEN Step(p, User, Released(proc, p))
       ELSE Sched(p, [thread[p] EXCEPT !.pc = "asleep", !.then = "scan", !.scan = 1, !.havekids = FALSE],
                  [proc EXCEPT ![p].state = "SLEEPING", ![p].chan = WaitChan(p)])

-----------------------------------------------------------------------------
(* sleep() with another lock than p->lock, and wakeup(); the modules whose  *)
(* processes sleep say what happens to that other lock.                    *)

\* p->lock is acquired, the other lock is released ...
Sleep(p, chan, then) ==
    /\ Free(p)
    /\ Step(p, [thread[p] EXCEPT !.pc = "sleep", !.chan = chan, !.then = then], Acquired(proc, p, p))

\* ... and SLEEPING
Sleeping(p) ==
    /\ At(p, "sleep")
    /\ Sched(p, [thread[p] EXCEPT !.pc = "asleep", !.chan = NoChan],
             [proc EXCEPT ![p].state = "SLEEPING", ![p].chan = thread[p].chan])

\* the loop of wakeup(), which starts at scan = 1, and what follows it
Wakeup(p, chan, then) == [thread[p] EXCEPT !.pc = "wakeup", !.scan = 1, !.chan = chan, !.then = then]

WakeupOne(p) ==
    /\ At(p, "wakeup")
    /\ LET q == thread[p].scan
           sleeps == proc[q].state = "SLEEPING" /\ proc[q].chan = thread[p].chan
           next == IF q = NPROC THEN [thread[p] EXCEPT !.pc = thread[p].then, !.then = "none", !.scan = 1, !.chan = NoChan]
                   ELSE [thread[p] EXCEPT !.scan = q + 1]
       IN Free(q) /\ Step(p, next, IF sleeps THEN Runnable(proc, q) ELSE proc)

-----------------------------------------------------------------------------

\* the entry whose lock p is after
Wants(p) ==
    CASE thread[p].pc = "exit" -> initproc
      [] thread[p].pc = "lockparent" -> thread[p].original_parent
      [] thread[p].pc = "lockself" -> p
      [] thread[p].pc \in {"reparent", "scan"} ->
            LET left == {q \in Children(p) : q >= thread[p].scan}
            IN IF left = {} THEN None ELSE CHOOSE q \in left : \A r \in left : q <= r
      [] thread[p].pc = "wakeup" -> thread[p].scan
      [] OTHER -> None

Init ==
    /\ proc = [p \in Procs |-> IF p = initproc THEN [Unused EXCEPT !.state = "RUNNABLE", !.pid = 1] ELSE Unused]
    /\ thread = [p \in Procs |-> IF p = initproc THEN User ELSE NoThread]
    /\ nextpid = 2
    /\ kills = 0
    /\ panicked = "no"

\* what a process does until the call it is in returns, or it has exited
Kernel(p) ==
    \/ WakeInit(p) \/ ReadParent(p) \/ LockParent(p) \/ LockSelf(p) \/ Reparent(p) \/ Zombie(p) \/ Die(p)
    \/ Wait(p) \/ Scan(p) \/ WaitSleep(p)

Next ==
    \E p \in Procs : \/ Dispatch(p) \/ Yield(p) \/ Fork(p) \/ Kill(p) \/ Exit(p) \/ WaitCall(p) \/ Kernel(p)

Spec == Init /\ [][Next]_procvars

\* Every CPU goes round the table, so that what is RUNNABLE again and again runs again
\* and again, and gets on in the kernel between two timer interrupts; a spin lock that
\* is free again and again is acquired, since the CPUs do not run in step.  In user mode
\* a process that was killed takes its next trap, and init waits; any other program does
\* as it likes.
Fairness(p) ==
    /\ SF_procvars(Dispatch(p) /\ (Wants(p) = None \/ Free(Wants(p))))
    /\ WF_procvars(Yield(p))
    /\ SF_procvars(Kernel(p) \/ (proc[p].killed /\ Exit(p)))

FairSpec == Spec /\ SF_procvars(WaitCall(initproc)) /\ \A p \in Procs : Fairness(p)
-----------------------------------------------------------------------------
(* Properties.                                                             *)

Live(p) == proc[p].state \notin {"UNUSED", "ZOMBIE"}

TypeOK ==
    \A p \in Procs :
        /\ proc[p].state \in {"UNUSED", "SLEEPING", "RUNNABLE", "RUNNING", "ZOMBIE"}
        /\ proc[p].parent \in 0 .. NPROC /\ proc[p].killed \in BOOLEAN
        /\ thread[p].scan \in 1 .. NPROC + 1
        /\ proc[p].lock \in {q \in Procs : thread[q].pc \notin {"none", "user", "asleep"}} \cup {None}

\* None of the assertions of sched() and exit() fails: a process leaves its CPU with its
\* own lock and no other, and init never exits.
NoPanic == panicked = "no"

\* p locks a process that was its parent when it looked
Stale(p) == thread[p].original_parent \notin {None, proc[p].parent}

Blocked(waiting) == \A p \in waiting : Wants(p) # None /\ proc[Wants(p)].lock \in waiting

\* exit() and wait() hold a lock while they acquire another, by a parent or a child read
\* without that lock.  Processes wait for each other's locks in a circle only if one of
\* them has found a parent that exited before it was locked.
NoLockCycle == \A waiting \in (SUBSET Procs) \ {{}} : Blocked(waiting) => \E p \in waiting : Stale(p)

\* Not even then: "we may then race with an exiting parent, but the result will be a
\* harmless spurious wakeup to a dead or wrong process" (proc.c:376).  It is false as
\* soon as the parent's entry is used again, for a grandchild.
StaleParentHarmless == \A waiting \in (SUBSET Procs) \ {{}} : ~Blocked(waiting)

LocksSound == TypeOK /\ NoPanic /\ NoLockCycle

\* The parent of a process is alive, whoever exits at the same time; and an entry is free
\* only when its thread has left its stack and nobody takes it for a parent.
ProcessTree ==
    /\ \A p \in Procs \ {initproc} : Live(p) => proc[p].parent # None /\ Live(proc[p].parent)
    /\ \A p \in Procs : proc[p].state = "UNUSED" => thread[p] = NoThread /\ Children(p) = {}

\* A parent does not sleep in wait() over a child that has exited, or after it was
\* killed: exit() and kill() cannot come between its last look and its sleep.  (Not so
\* init, which exit() wakes too early.)
NoLostWakeup ==
    \A p \in Procs \ {initproc} :
        proc[p].state = "SLEEPING" /\ proc[p].chan = WaitChan(p) =>
            ~proc[p].killed /\ \A q \in Children(p) : proc[q].state # "ZOMBIE"

\* What was killed exits; what exits ends, though its parent and its children hold locks
\* and wait for others; and a parent that waits for a child that exits goes on.  (As long
\* as no entry is used again for a grandchild while an exit() still has it for a parent:
\* StaleParentHarmless.)
KilledEnds == \A p \in Procs : proc[p].killed ~> ~Live(p)
ExitEnds == \A p \in Procs : thread[p].pc = "exit" ~> ~Live(p)
WaitReturns ==
    \A p \in Procs \ {initproc} :
        proc[p].state = "SLEEPING" /\ (\E q \in Children(p) : thread[q].pc = "exit") ~> thread[p].pc # "asleep"
CallsEnd == KilledEnds /\ ExitEnds /\ WaitReturns

\* init reaps what was left to it; "init may miss this wakeup, but that seems harmless"
\* (proc.c:368).
OrphansReaped ==
    \A p \in Procs : proc[p].state = "ZOMBIE" /\ proc[p].parent = initproc ~> proc[p].state = "UNUSED"
=============================================================================
