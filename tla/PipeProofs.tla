----------------------------- MODULE PipeProofs -----------------------------
(***************************************************************************)
(* The process table of mp4 and its pipe, for every number of entries, of  *)
(* CPUs and of processes, every buffer size and every size of a read or    *)
(* write.  First the table: exit() and wait() agree on who holds which     *)
(* lock, so that the process tree stays a tree, no parent sleeps over a    *)
(* child that exited, and locks are waited for in a circle only through a  *)
(* stale parent.  Then the pipe: its files' references are exact, nobody   *)
(* sleeps over what it waits for, and it is a bounded channel.             *)
(***************************************************************************)
EXTENDS Pipe, FiniteSetTheorems, SequenceTheorems, WellFoundedInduction, TLAPS

-----------------------------------------------------------------------------
(* The process table: its inductive invariant.                             *)

States == {"UNUSED", "SLEEPING", "RUNNABLE", "RUNNING", "ZOMBIE"}
Points == {"none", "user", "exit", "wait", "readparent", "lockparent", "lockself", "reparent",
           "zombie", "dying", "scan", "asleep", "sleep", "wakeup"}

\* The places in calls that sleep and wake others, which Proc leaves to the modules that
\* extend it, and what is slept on there.  Proc alone has no such calls; Pipe has.
CallPoints == {"readlock", "read", "readsleep", "copy", "writelock", "write", "writesleep", "return",
               "pipeclose", "closing", "closed"}
CallChans == {<<"nread">>, <<"nwrite">>}

Chans == {NoChan} \cup CallChans \cup {WaitChan(p) : p \in Procs}

Entry == [state : States, parent : 0 .. NPROC, chan : Chans,
          killed : BOOLEAN, pid : Nat, lock : 0 .. NPROC]
Locals == [pc : Points \cup CallPoints, scan : 1 .. NPROC + 1, havekids : BOOLEAN,
           original_parent : 0 .. NPROC, chan : {NoChan} \cup CallChans,
           then : {"none", "scan"} \cup CallPoints]
Table == [Procs -> Entry]
Threads == [Procs -> Locals]

Types ==
    /\ proc \in Table /\ thread \in Threads
    /\ nextpid \in Nat
    /\ panicked = "no"

\* Where the thread of an entry may be, by the state of the entry.
PointsOf(state) ==
    CASE state = "UNUSED" -> {"none"}
      [] state = "ZOMBIE" -> {"dying", "none"}
      [] state = "SLEEPING" -> {"asleep"}
      [] state = "RUNNABLE" -> {"user", "exit", "wait", "readparent", "lockparent", "asleep", "wakeup"} \cup CallPoints
      [] OTHER -> {"user", "exit", "wait", "readparent", "lockparent", "lockself", "reparent", "zombie", "scan",
                   "sleep", "wakeup"} \cup CallPoints

Control ==
    \A p \in Procs :
        /\ thread[p].pc \in PointsOf(proc[p].state)
        /\ thread[p].pc = "none" => thread[p] = NoThread
        /\ thread[p].pc = "asleep" => thread[p].then \in {"scan"} \cup CallPoints
        /\ thread[p].pc \in {"sleep", "wakeup"} => thread[p].then \in CallPoints
        /\ thread[p].pc = "sleep" => thread[p].chan \in CallChans
        /\ thread[p].pc = "wakeup" => thread[p].scan \in Procs
        /\ thread[p].pc \notin {"reparent", "scan", "wakeup"} => thread[p].scan = 1
        /\ thread[p].pc \in {"lockparent", "lockself", "reparent", "zombie"} =>
              thread[p].original_parent \in Procs \ {p}

\* init is never killed, and never in exit().
InitStays ==
    /\ thread[initproc].pc \in {"user", "wait", "scan", "asleep", "sleep", "wakeup"} \cup CallPoints
    /\ proc[initproc].parent = None /\ ~proc[initproc].killed

\* p holds its own lock, or that of the parent it read, and no other.
Holds(p, q) ==
    \/ q = p /\ thread[p].pc \in {"reparent", "zombie", "dying", "scan", "sleep"}
    \/ q = thread[p].original_parent /\ thread[p].pc \in {"lockself", "reparent", "zombie"}

Locks == \A p \in Procs, q \in Procs : proc[q].lock = p <=> Holds(p, q)

\* Parents are alive, and older than their children.
Tree ==
    /\ \A p \in Procs : proc[p].state = "UNUSED" => proc[p].parent = None
    /\ \A p \in Procs \ {initproc} :
          proc[p].state # "UNUSED" =>
              /\ proc[p].parent \in Procs /\ Live(proc[p].parent)
              /\ proc[proc[p].parent].pid < proc[p].pid
              /\ proc[initproc].pid < proc[p].pid
    /\ \A p \in Procs : proc[p].pid < nextpid

\* A process in exit() is still the child of the parent it read, or has become init's; and
\* the children that reparent() has passed are init's.
Exits ==
    /\ \A p \in Procs : thread[p].pc \in {"lockparent", "lockself", "reparent", "zombie"} =>
          proc[p].parent \in {thread[p].original_parent, initproc}
    /\ \A p \in Procs, q \in Procs : proc[q].parent = p =>
          /\ thread[p].pc = "reparent" => q >= thread[p].scan
          /\ thread[p].pc # "zombie"

\* None of the children that wait() has passed is a ZOMBIE, and none whose parent sleeps.
Looked ==
    \A p \in Procs \ {initproc}, q \in Procs :
        proc[q].parent = p /\ proc[q].state = "ZOMBIE" =>
            /\ thread[p].pc = "scan" => q >= thread[p].scan
            /\ ~(proc[p].state = "SLEEPING" /\ proc[p].chan = WaitChan(p))

KilledAwake ==
    \A p \in Procs : proc[p].state = "SLEEPING" /\ proc[p].chan = WaitChan(p) => ~proc[p].killed

IInv == Types /\ Control /\ InitStays /\ Locks /\ Tree /\ Exits /\ Looked /\ KilledAwake

-----------------------------------------------------------------------------

\* The places in other calls are none of Proc's, and what is slept on there is not slept on
\* in wait().
LEMMA CallFacts ==
    /\ \A point \in CallPoints : point \notin Points
    /\ \A point \in CallPoints :
          point \notin {"none", "user", "exit", "wait", "readparent", "lockparent", "lockself", "reparent",
                       "zombie", "dying", "scan", "asleep", "sleep", "wakeup"}
    /\ \A p \in Procs : WaitChan(p) \notin CallChans /\ NoChan \notin CallChans
<1>1. \A p \in Procs : WaitChan(p) \notin CallChans /\ NoChan \notin CallChans
  BY DEF CallChans, WaitChan, NoChan
<1>2. \A point \in CallPoints : point \notin Points
  BY DEF CallPoints, Points
<1> QED BY <1>1, <1>2 DEF Points

LEMMA UnusedFacts ==
    /\ Unused \in Entry
    /\ Unused.state = "UNUSED" /\ Unused.parent = None /\ ~Unused.killed /\ Unused.pid = 0 /\ Unused.lock = None
BY ProcAssumption DEF ProcAssumption, Unused, Entry, States, Chans, None

LEMMA ThreadFacts ==
    /\ NoThread \in Locals /\ NoThread.pc = "none" /\ NoThread.scan = 1
    /\ User \in Locals /\ User.pc = "user" /\ User.scan = 1
<1>1. NoThread \in Locals
  BY ProcAssumption DEF ProcAssumption, NoThread, Locals, Points, None
<1>2. NoThread.pc = "none" /\ NoThread.scan = 1
  BY DEF NoThread
<1>3. User \in Locals
  BY <1>1 DEF User, Locals, Points
<1>4. User.pc = "user" /\ User.scan = 1
  BY <1>1, <1>2 DEF User, Locals
<1> QED BY <1>1, <1>2, <1>3, <1>4

LEMMA InitIInv == Init => IInv
<1> SUFFICES ASSUME Init PROVE IInv
  OBVIOUS
<1> USE ProcAssumption DEF ProcAssumption, Procs, initproc, None
<1>1. proc \in Table
  BY UnusedFacts DEF Init, Table, Entry, States
<1>2. thread \in Threads
  BY ThreadFacts DEF Init, Threads
<1>3. /\ nextpid = 2 /\ panicked = "no"
      /\ proc[initproc].state = "RUNNABLE" /\ proc[initproc].pid = 1
      /\ \A p \in Procs \ {initproc} : proc[p].state = "UNUSED" /\ proc[p].pid = 0
      /\ \A p \in Procs : proc[p].lock = None /\ proc[p].parent = None /\ proc[p].killed = FALSE
  <2>1. proc[initproc] = [Unused EXCEPT !.state = "RUNNABLE", !.pid = 1]
    BY DEF Init
  <2>2. \A p \in Procs \ {initproc} : proc[p] = Unused
    BY DEF Init
  <2>3. /\ proc[initproc].state = "RUNNABLE" /\ proc[initproc].pid = 1
        /\ proc[initproc].lock = None /\ proc[initproc].parent = None /\ proc[initproc].killed = FALSE
    BY <2>1, UnusedFacts DEF Entry
  <2>4. nextpid = 2 /\ panicked = "no"
    BY DEF Init
  <2> QED BY <2>2, <2>3, <2>4, UnusedFacts
<1>4. /\ \A p \in Procs : /\ thread[p].scan = 1
                         /\ thread[p].pc = IF p = initproc THEN "user" ELSE "none"
      /\ \A p \in Procs \ {initproc} : thread[p] = NoThread
  BY ThreadFacts DEF Init
<1>5. Types
  BY <1>1, <1>2, <1>3 DEF Types
<1>6. Control
  <2> SUFFICES ASSUME NEW p \in Procs
               PROVE  /\ thread[p].pc \in PointsOf(proc[p].state)
                      /\ thread[p].pc = "none" => thread[p] = NoThread
                      /\ thread[p].pc \in {"none", "user"} /\ thread[p].scan = 1
    BY DEF Control
  <2>1. CASE p = initproc
    BY <2>1, <1>3, <1>4 DEF PointsOf
  <2>2. CASE p # initproc
    <3>1. thread[p] = NoThread /\ thread[p].pc = "none" /\ thread[p].scan = 1
      BY <2>2, <1>4
    <3>2. proc[p].state = "UNUSED"
      BY <2>2, <1>3
    <3> QED BY <3>1, <3>2 DEF PointsOf
  <2> QED BY <2>1, <2>2
<1>7. /\ initproc \in Procs
      /\ \A p \in Procs : thread[p].pc \in {"none", "user"}
      /\ \A p \in Procs : p \notin {None} /\ proc[p].state \notin {"SLEEPING", "ZOMBIE"}
      /\ \A p \in Procs : proc[p].lock = None /\ proc[p].parent = None
      /\ \A p \in Procs \ {initproc} : proc[p].state = "UNUSED"
      /\ \A p \in Procs : proc[p].pid < nextpid
  <2>1. \A p \in Procs : thread[p].pc \in {"none", "user"}
    BY <1>4
  <2>2. \A p \in Procs : proc[p].state \notin {"SLEEPING", "ZOMBIE"} /\ proc[p].pid < nextpid
    BY <1>3
  <2> QED BY <2>1, <2>2, <1>3
<1>8. InitStays
  <2>1. thread[initproc].pc = "user"
    BY <1>4
  <2> QED BY <2>1, <1>3 DEF InitStays
<1>9. Locks /\ Tree
  BY <1>7 DEF Locks, Holds, Tree
<1>10. Exits /\ Looked /\ KilledAwake
  BY <1>7 DEF Exits, Looked, KilledAwake
<1> QED BY <1>5, <1>6, <1>8, <1>9, <1>10 DEF IInv

LEMMA DispatchIInv == ASSUME IInv, NEW p \in Procs, Dispatch(p) PROVE IInv'
<1> USE ProcAssumption DEF ProcAssumption, IInv, Procs, initproc, None
<1> DEFINE slept == thread[p].pc = "asleep"
           pc == IF slept THEN thread[p].then ELSE thread[p].pc
           to == IF slept THEN "none" ELSE thread[p].then
           ch == IF slept THEN NoChan ELSE proc[p].chan
           t == [proc EXCEPT ![p].state = "RUNNING", ![p].chan = ch]
<1>1. /\ proc[p].state = "RUNNABLE" /\ proc[p].lock = None
      /\ nextpid' = nextpid /\ panicked' = panicked
      /\ thread' = [thread EXCEPT ![p] = [thread[p] EXCEPT !.pc = pc, !.then = to]]
  BY DEF Dispatch, Free, Step
<1>2. proc' = IF pc = "scan" THEN Acquired(t, p, p) ELSE t
  <2>1. [proc EXCEPT ![p].state = "RUNNING", ![p].chan = IF slept THEN NoChan ELSE @] = t
    BY DEF Types, Table, Entry
  <2> QED BY <2>1 DEF Dispatch, Step
<1>3. /\ ch \in Chans /\ pc \in {"user", "exit", "wait", "readparent", "lockparent", "scan", "wakeup"} \cup CallPoints
      /\ to \in {"none", "scan"} \cup CallPoints
      /\ pc = "scan" <=> slept /\ thread[p].then = "scan"
      /\ thread[p].pc \in {"user", "exit", "wait", "readparent", "lockparent", "asleep", "wakeup"} \cup CallPoints
      /\ ~slept => pc = thread[p].pc /\ to = thread[p].then
      /\ slept => pc \in {"scan"} \cup CallPoints
  <2>1. thread[p].pc \in {"user", "exit", "wait", "readparent", "lockparent", "asleep", "wakeup"} \cup CallPoints
    BY <1>1 DEF Control, PointsOf
  <2>2. thread[p].then \in {"none", "scan"} \cup CallPoints /\ proc[p].chan \in Chans /\ NoChan \in Chans
    BY DEF Types, Threads, Locals, Table, Entry, Chans
  <2>3. slept => thread[p].then \in {"scan"} \cup CallPoints
    BY DEF Control
  <2> QED BY <2>1, <2>2, <2>3, CallFacts
<1> HIDE DEF pc, to, ch
<1>4. /\ proc' \in Table
      /\ \A q \in Procs \ {p} : proc'[q] = proc[q]
      /\ proc'[p].state = "RUNNING" /\ proc'[p].parent = proc[p].parent
      /\ proc'[p].killed = proc[p].killed /\ proc'[p].pid = proc[p].pid
      /\ proc'[p].lock = IF pc = "scan" THEN p ELSE None
  <2>1. /\ t \in Table
        /\ \A q \in Procs \ {p} : t[q] = proc[q]
        /\ t[p].state = "RUNNING" /\ t[p].parent = proc[p].parent
        /\ t[p].killed = proc[p].killed /\ t[p].pid = proc[p].pid
        /\ t[p].lock = None
    BY ZenonT(30), <1>1, <1>3 DEF Types, Table, Entry, States
  <2> HIDE DEF t
  <2>2. CASE pc = "scan"
    <3> DEFINE n == p
    <3>1. n \in 0 .. NPROC /\ proc' = [t EXCEPT ![p].lock = n]
      BY <1>2, <2>2 DEF Acquired
    <3> HIDE DEF n
    <3>2. /\ proc' \in Table
          /\ \A q \in Procs \ {p} : proc'[q] = t[q]
          /\ proc'[p].state = t[p].state /\ proc'[p].parent = t[p].parent
          /\ proc'[p].killed = t[p].killed /\ proc'[p].pid = t[p].pid
          /\ proc'[p].lock = n
      BY <2>1, <3>1 DEF Table, Entry
    <3> QED BY <2>1, <2>2, <3>2 DEF n
  <2>3. CASE pc # "scan"
    BY <1>2, <2>1, <2>3
  <2> QED BY <2>2, <2>3
<1>5. /\ thread' \in Threads
      /\ \A q \in Procs \ {p} : thread'[q] = thread[q]
      /\ thread'[p].scan = thread[p].scan /\ thread'[p].original_parent = thread[p].original_parent
      /\ thread'[p].chan = thread[p].chan /\ thread'[p].pc = pc /\ thread'[p].then = to
  <2>1. pc \in Points \cup CallPoints
    BY <1>3 DEF Points
  <2> QED BY ZenonT(30), <1>1, <1>3, <2>1 DEF Types, Threads, Locals
<1> HIDE DEF t
<1>7. Types'
  BY <1>1, <1>4, <1>5 DEF Types
<1>8. Control'
  <2>1. thread'[p].pc \in PointsOf(proc'[p].state)
    BY <1>3, <1>4, <1>5 DEF PointsOf
  <2>2. /\ pc \notin {"none", "asleep", "sleep", "lockself", "reparent", "zombie"}
        /\ pc # "scan" => pc # "asleep"
    BY <1>3, CallFacts
  <2>3. pc \in {"wakeup", "lockparent"} => ~slept /\ pc = thread[p].pc /\ to = thread[p].then
    BY <1>3, CallFacts
  <2>4. pc \notin {"reparent", "scan", "wakeup"} => thread[p].scan = 1
    BY <1>3, CallFacts DEF Control
  <2> QED BY <1>4, <1>5, <2>1, <2>2, <2>3, <2>4 DEF Control
<1>9. InitStays'
  BY <1>3, <1>4, <1>5, CallFacts DEF InitStays
<1>6. Locks'
  <2>1. /\ thread[p].pc \notin {"reparent", "zombie", "dying", "scan", "sleep", "lockself"}
        /\ pc \notin {"reparent", "zombie", "dying", "sleep", "lockself"}
    BY <1>3, CallFacts
  <2> QED BY <1>1, <1>4, <1>5, <2>1 DEF Locks, Holds
<1>10. Tree'
  BY <1>1, <1>4, <1>5 DEF Types, Tree, Live
<1>11. Exits'
  <2>1. pc \in {"lockparent", "lockself", "reparent", "zombie"} => thread[p].pc = pc
    BY <1>3, CallFacts
  <2>2. pc # "reparent" /\ pc # "zombie"
    BY <1>3, CallFacts
  <2> QED BY <1>1, <1>4, <1>5, <2>1, <2>2 DEF Types, Exits
<1>12. Looked' /\ KilledAwake'
  <2>1. pc = "scan" => thread[p].scan = 1
    BY <1>3, CallFacts DEF Control
  <2> QED BY <1>1, <1>4, <1>5, <2>1 DEF Types, Looked, KilledAwake
<1> QED BY <1>6, <1>7, <1>8, <1>9, <1>10, <1>11, <1>12

\* The locals of a thread that begins to scan the table, in wait().
LEMMA ScanLocals ==
  ASSUME NEW l \in Locals
  PROVE  LET s == [l EXCEPT !.pc = "scan", !.scan = 1, !.havekids = FALSE]
         IN s \in Locals /\ s.pc = "scan" /\ s.scan = 1
<1>1. ASSUME NEW b \in BOOLEAN, NEW n \in 1 .. NPROC + 1
      PROVE  LET s == [l EXCEPT !.pc = "scan", !.scan = n, !.havekids = b]
             IN s \in Locals /\ s.pc = "scan" /\ s.scan = n
  BY DEF Locals, Points
<1>2. 1 \in 1 .. NPROC + 1 /\ FALSE \in BOOLEAN
  BY ProcAssumption DEF ProcAssumption
<1> QED BY <1>1, <1>2


LEMMA LeastExists ==
  ASSUME NEW S \in SUBSET Procs, S # {}
  PROVE  \E q \in S : \A r \in S : q <= r
<1> DEFINE R == OpToRel(<, Nat)
<1>1. IsWellFoundedOn(R, Nat)
  BY NatLessThanWellFounded
<1>2. S \subseteq Nat
  BY ProcAssumption DEF ProcAssumption, Procs
<1>3. PICK q \in S : \A r \in S : ~(<<r, q>> \in R)
  BY <1>1, <1>2, WFMin
<1>4. \A r \in S : ~(r < q)
  BY <1>2, <1>3 DEF OpToRel
<1>5. \A r \in S : q <= r
  BY <1>2, <1>4
<1> QED BY <1>5

LEMMA YieldIInv == ASSUME IInv, NEW p \in Procs, Yield(p) PROVE IInv'
<1> USE ProcAssumption DEF ProcAssumption, IInv, Procs, initproc, None
<1>1. proc' = [proc EXCEPT ![p].state = "RUNNABLE"]
  BY DEF Yield, Step, Runnable
<1>2. thread' = thread /\ nextpid' = nextpid /\ panicked' = panicked
  BY DEF Yield, Step, Types, Threads
<1>3. proc[p].state = "RUNNING" /\ thread[p].pc \notin {"lockself", "reparent", "zombie", "scan", "sleep"}
  BY CallFacts DEF Yield, Held, Locks, Holds, Control
<1>4. /\ proc' \in Table
      /\ \A q \in Procs : q # p => proc'[q] = proc[q]
      /\ proc'[p].state = "RUNNABLE" /\ proc'[p].parent = proc[p].parent /\ proc'[p].killed = proc[p].killed
      /\ proc'[p].pid = proc[p].pid /\ proc'[p].lock = proc[p].lock
  BY <1>1 DEF Types, Table, Entry, States
<1>5. Types'
  BY <1>2, <1>3, <1>4 DEF Types
<1>6. Control'
  <2>1. thread[p].pc \in PointsOf("RUNNABLE")
    BY <1>3 DEF Control, PointsOf
  <2> QED BY <1>2, <1>3, <1>4, <2>1 DEF Control
<1>7. InitStays'
  BY CallFacts, <1>2, <1>3, <1>4 DEF Types, InitStays
<1>8. Locks'
  BY CallFacts, <1>2, <1>3, <1>4 DEF Types, Locks, Holds
<1>9. Tree'
  BY <1>2, <1>3, <1>4 DEF Types, Tree, Live
<1>10. Exits'
  BY CallFacts, <1>2, <1>3, <1>4 DEF Types, Exits
<1>11. Looked'
  BY CallFacts, <1>2, <1>3, <1>4 DEF Types, Looked
<1>12. KilledAwake'
  BY <1>2, <1>3, <1>4 DEF Types, KilledAwake
<1> QED BY <1>5, <1>6, <1>7, <1>8, <1>9, <1>10, <1>11, <1>12

LEMMA ExitIInv == ASSUME IInv, NEW p \in Procs, Exit(p) PROVE IInv'
<1> USE ProcAssumption DEF ProcAssumption, IInv, Procs, initproc, None
<1>1. p # initproc /\ proc[p].state = "RUNNING" /\ thread[p].pc = "user"
  BY CallFacts DEF Exit, At, InitStays
<1>2. thread' = [thread EXCEPT ![p] = [thread[p] EXCEPT !.pc = "exit"]]
  BY <1>1 DEF Exit, Step
<1>3. proc' = proc /\ nextpid' = nextpid /\ panicked' = panicked
  BY <1>1 DEF Exit, Step
<1>4. /\ thread' \in Threads
      /\ \A q \in Procs : q # p => thread'[q] = thread[q]
      /\ thread'[p].pc = "exit" /\ thread'[p].scan = thread[p].scan
  BY <1>2 DEF Types, Threads, Locals, Points
<1>5. Types'
  BY <1>1, <1>3, <1>4 DEF Types
<1>6. Control'
  BY CallFacts, <1>1, <1>3, <1>4 DEF Types, Control, PointsOf
<1>7. InitStays'
  BY CallFacts, <1>1, <1>3, <1>4 DEF Types, InitStays
<1>8. Locks'
  BY CallFacts, <1>1, <1>3, <1>4 DEF Types, Locks, Holds
<1>9. Tree'
  BY <1>1, <1>3, <1>4 DEF Types, Tree, Live
<1>10. Exits'
  BY CallFacts, <1>1, <1>3, <1>4 DEF Types, Exits
<1>11. Looked'
  BY CallFacts, <1>1, <1>3, <1>4 DEF Types, Looked
<1>12. KilledAwake'
  BY <1>1, <1>3, <1>4 DEF Types, KilledAwake
<1> QED BY <1>5, <1>6, <1>7, <1>8, <1>9, <1>10, <1>11, <1>12

LEMMA WakeInitIInv == ASSUME IInv, NEW p \in Procs, WakeInit(p) PROVE IInv'
<1> USE ProcAssumption DEF ProcAssumption, IInv, Procs, initproc, None
<1>1. p # initproc /\ proc[p].state = "RUNNING" /\ thread[p].pc = "exit"
  BY CallFacts DEF WakeInit, At, InitStays
<1>2. thread' = [thread EXCEPT ![p] = [thread[p] EXCEPT !.pc = "readparent"]]
  BY DEF WakeInit, Step
<1>3. \/ proc' = proc
      \/ proc' = [proc EXCEPT ![initproc].state = "RUNNABLE"] /\ proc[initproc].state = "SLEEPING"
  BY DEF WakeInit, Step, Runnable
<1>4. nextpid' = nextpid /\ panicked' = panicked
  BY DEF WakeInit, Step
<1>5. /\ thread' \in Threads
      /\ \A q \in Procs : q # p => thread'[q] = thread[q]
      /\ thread'[p].pc = "readparent" /\ thread'[p].scan = thread[p].scan
  BY <1>2 DEF Types, Threads, Locals, Points
<1>6. /\ proc' \in Table
      /\ \A q \in Procs : q # initproc => proc'[q] = proc[q]
      /\ proc'[initproc].parent = proc[initproc].parent /\ proc'[initproc].killed = proc[initproc].killed
      /\ proc'[initproc].pid = proc[initproc].pid /\ proc'[initproc].lock = proc[initproc].lock
      /\ \/ proc'[initproc].state = proc[initproc].state /\ proc'[initproc].chan = proc[initproc].chan
         \/ proc'[initproc].state = "RUNNABLE" /\ proc[initproc].state = "SLEEPING"
  <2>1. CASE proc' = proc
    BY <2>1 DEF Types
  <2>2. CASE proc' = [proc EXCEPT ![initproc].state = "RUNNABLE"] /\ proc[initproc].state = "SLEEPING"
    BY ZenonT(30), <2>2 DEF Types, Table, Entry, States
  <2> QED BY <1>3, <2>1, <2>2
<1>7. Types'
  BY <1>1, <1>4, <1>5, <1>6 DEF Types
<1>8. Control'
  BY CallFacts, <1>1, <1>4, <1>5, <1>6 DEF Types, Control, PointsOf
<1>9. InitStays'
  BY CallFacts, <1>1, <1>4, <1>5, <1>6 DEF Types, InitStays
<1>10. Locks'
  BY CallFacts, <1>1, <1>4, <1>5, <1>6 DEF Types, Locks, Holds
<1>11. Tree'
  BY <1>1, <1>4, <1>5, <1>6 DEF Types, Tree, Live
<1>12. Exits'
  BY CallFacts, <1>1, <1>4, <1>5, <1>6 DEF Types, Exits
<1>13. Looked'
  BY CallFacts, <1>1, <1>4, <1>5, <1>6 DEF Types, Looked
<1>14. KilledAwake'
  BY <1>1, <1>4, <1>5, <1>6 DEF Types, KilledAwake
<1> QED BY <1>7, <1>8, <1>9, <1>10, <1>11, <1>12, <1>13, <1>14

LEMMA ReadParentIInv == ASSUME IInv, NEW p \in Procs, ReadParent(p) PROVE IInv'
<1> USE ProcAssumption DEF ProcAssumption, IInv, Procs, initproc, None
<1>1. proc[p].state = "RUNNING" /\ thread[p].pc = "readparent" /\ p # initproc
  BY CallFacts DEF ReadParent, At, InitStays
<1>2. proc[p].parent \in Procs /\ proc[p].parent # p
  BY <1>1 DEF Tree, Types, Table, Entry
<1>3. proc' = proc /\ nextpid' = nextpid /\ panicked' = panicked
  BY DEF ReadParent, Step
<1>4. /\ thread' \in Threads
      /\ \A q \in Procs : q # p => thread'[q] = thread[q]
      /\ thread'[p].pc = "lockparent" /\ thread'[p].scan = thread[p].scan
      /\ thread'[p].original_parent = proc[p].parent
  <2> DEFINE op == proc[p].parent
  <2>1. /\ op \in 0 .. NPROC
        /\ thread' = [thread EXCEPT ![p] = [thread[p] EXCEPT !.pc = "lockparent", !.original_parent = op]]
    BY <1>2 DEF ReadParent, Step
  <2> HIDE DEF op
  <2>2. /\ thread' \in Threads
        /\ \A q \in Procs : q # p => thread'[q] = thread[q]
        /\ thread'[p].pc = "lockparent" /\ thread'[p].scan = thread[p].scan
        /\ thread'[p].original_parent = op
    BY <2>1 DEF Types, Threads, Locals, Points
  <2> QED BY <2>2 DEF op
<1>5. Types'
  BY <1>1, <1>2, <1>3, <1>4 DEF Types
<1>6. Control'
  BY CallFacts, <1>1, <1>2, <1>3, <1>4 DEF Types, Control, PointsOf
<1>7. InitStays'
  BY CallFacts, <1>1, <1>2, <1>3, <1>4 DEF Types, InitStays
<1>8. Locks'
  BY CallFacts, <1>1, <1>2, <1>3, <1>4 DEF Types, Locks, Holds
<1>9. Tree'
  BY <1>1, <1>2, <1>3, <1>4 DEF Types, Tree, Live
<1>10. Exits'
  BY CallFacts, <1>1, <1>2, <1>3, <1>4 DEF Types, Exits
<1>11. Looked'
  BY CallFacts, <1>1, <1>2, <1>3, <1>4 DEF Types, Looked
<1>12. KilledAwake'
  BY <1>1, <1>2, <1>3, <1>4 DEF Types, KilledAwake
<1> QED BY <1>5, <1>6, <1>7, <1>8, <1>9, <1>10, <1>11, <1>12

LEMMA LockParentIInv == ASSUME IInv, NEW p \in Procs, LockParent(p) PROVE IInv'
<1> USE ProcAssumption DEF ProcAssumption, IInv, Procs, initproc, None
<1>1. PICK op \in Procs : op = thread[p].original_parent /\ op # p
  BY CallFacts DEF LockParent, At, Control
<1>2. proc[p].state = "RUNNING" /\ thread[p].pc = "lockparent" /\ p # initproc /\ proc[op].lock = None
  BY CallFacts, <1>1 DEF LockParent, At, InitStays, Free
<1>3. thread' = [thread EXCEPT ![p] = [thread[p] EXCEPT !.pc = "lockself"]]
  BY DEF LockParent, Step
<1>4. proc' = [proc EXCEPT ![op].lock = p]
  BY <1>1 DEF LockParent, Step, Acquired
<1>5. nextpid' = nextpid /\ panicked' = panicked
  BY DEF LockParent, Step
<1>6. /\ thread' \in Threads
      /\ \A q \in Procs : q # p => thread'[q] = thread[q]
      /\ thread'[p].pc = "lockself" /\ thread'[p].scan = thread[p].scan
      /\ thread'[p].original_parent = thread[p].original_parent
  BY <1>3 DEF Types, Threads, Locals, Points
<1>7. /\ proc' \in Table
      /\ \A q \in Procs : q # op => proc'[q] = proc[q]
      /\ proc'[op].parent = proc[op].parent /\ proc'[op].killed = proc[op].killed
      /\ proc'[op].pid = proc[op].pid /\ proc'[op].state = proc[op].state
      /\ proc'[op].chan = proc[op].chan /\ proc'[op].lock = p
  <2> DEFINE n == p
  <2>1. n \in 0 .. NPROC /\ proc' = [proc EXCEPT ![op].lock = n]
    BY <1>4
  <2> HIDE DEF n
  <2>2. /\ proc' \in Table
        /\ \A q \in Procs : q # op => proc'[q] = proc[q]
        /\ proc'[op].parent = proc[op].parent /\ proc'[op].killed = proc[op].killed
        /\ proc'[op].pid = proc[op].pid /\ proc'[op].state = proc[op].state
        /\ proc'[op].chan = proc[op].chan /\ proc'[op].lock = n
    BY <2>1 DEF Types, Table, Entry
  <2> QED BY <2>2 DEF n
<1>8. Types'
  BY <1>1, <1>2, <1>5, <1>6, <1>7 DEF Types
<1>9. Control'
  BY CallFacts, <1>1, <1>2, <1>5, <1>6, <1>7 DEF Types, Control, PointsOf
<1>10. InitStays'
  BY CallFacts, <1>1, <1>2, <1>5, <1>6, <1>7 DEF Types, InitStays
<1>11. Locks'
  BY CallFacts, <1>1, <1>2, <1>5, <1>6, <1>7 DEF Types, Locks, Holds
<1>12. Tree'
  BY <1>1, <1>2, <1>5, <1>6, <1>7 DEF Types, Tree, Live
<1>13. Exits'
  BY CallFacts, <1>1, <1>2, <1>5, <1>6, <1>7 DEF Types, Exits
<1>14. Looked'
  BY CallFacts, <1>1, <1>2, <1>5, <1>6, <1>7 DEF Types, Looked
<1>15. KilledAwake'
  BY <1>1, <1>2, <1>5, <1>6, <1>7 DEF Types, KilledAwake
<1> QED BY <1>8, <1>9, <1>10, <1>11, <1>12, <1>13, <1>14, <1>15

LEMMA LockSelfIInv == ASSUME IInv, NEW p \in Procs, LockSelf(p) PROVE IInv'
<1> USE ProcAssumption DEF ProcAssumption, IInv, Procs, initproc, None
<1>1. proc[p].state = "RUNNING" /\ thread[p].pc = "lockself" /\ p # initproc /\ proc[p].lock = None
  BY CallFacts DEF LockSelf, At, InitStays, Free
<1>2. thread' = [thread EXCEPT ![p] = [thread[p] EXCEPT !.pc = "reparent"]]
  BY DEF LockSelf, Step
<1>3. proc' = [proc EXCEPT ![p].lock = p]
  BY DEF LockSelf, Step, Acquired
<1>4. nextpid' = nextpid /\ panicked' = panicked /\ thread[p].scan = 1
  BY CallFacts, <1>1 DEF LockSelf, Step, Control
<1>5. /\ thread' \in Threads
      /\ \A q \in Procs : q # p => thread'[q] = thread[q]
      /\ thread'[p].pc = "reparent" /\ thread'[p].scan = thread[p].scan
      /\ thread'[p].original_parent = thread[p].original_parent
  BY <1>2 DEF Types, Threads, Locals, Points
<1>6. /\ proc' \in Table
      /\ \A q \in Procs : q # p => proc'[q] = proc[q]
      /\ proc'[p].parent = proc[p].parent /\ proc'[p].killed = proc[p].killed
      /\ proc'[p].pid = proc[p].pid /\ proc'[p].state = proc[p].state
      /\ proc'[p].lock = p
  BY SMTT(20), <1>3 DEF Types, Table, Entry
<1>7. Types'
  BY <1>1, <1>4, <1>5, <1>6 DEF Types
<1>8. Control'
  BY CallFacts, <1>1, <1>4, <1>5, <1>6 DEF Types, Control, PointsOf
<1>9. InitStays'
  BY CallFacts, <1>1, <1>4, <1>5, <1>6 DEF Types, InitStays
<1>10. Locks'
  BY CallFacts, <1>1, <1>4, <1>5, <1>6 DEF Types, Locks, Holds
<1>11. Tree'
  BY <1>1, <1>4, <1>5, <1>6 DEF Types, Tree, Live
<1>12. Exits'
  BY CallFacts, <1>1, <1>4, <1>5, <1>6 DEF Types, Exits
<1>13. Looked'
  BY CallFacts, <1>1, <1>4, <1>5, <1>6 DEF Types, Looked
<1>14. KilledAwake'
  BY <1>1, <1>4, <1>5, <1>6 DEF Types, KilledAwake
<1> QED BY <1>7, <1>8, <1>9, <1>10, <1>11, <1>12, <1>13, <1>14

LEMMA WaitCallIInv == ASSUME IInv, NEW p \in Procs, WaitCall(p) PROVE IInv'
<1> USE ProcAssumption DEF ProcAssumption, IInv, Procs, initproc, None
<1>1. proc[p].state = "RUNNING" /\ thread[p].pc = "user"
  BY DEF WaitCall, At
<1>2. thread' = [thread EXCEPT ![p] = [thread[p] EXCEPT !.pc = "wait"]]
  BY <1>1 DEF WaitCall, Step
<1>3. proc' = proc /\ nextpid' = nextpid /\ panicked' = panicked
  BY <1>1 DEF WaitCall, Step
<1>4. /\ thread' \in Threads
      /\ \A q \in Procs : q # p => thread'[q] = thread[q]
      /\ thread'[p].pc = "wait" /\ thread'[p].scan = thread[p].scan
  BY <1>2 DEF Types, Threads, Locals, Points
<1>5. Types'
  BY <1>1, <1>3, <1>4 DEF Types
<1>6. Control'
  BY CallFacts, <1>1, <1>3, <1>4 DEF Types, Control, PointsOf
<1>7. InitStays'
  BY CallFacts, <1>1, <1>3, <1>4 DEF Types, InitStays
<1>8. Locks'
  BY CallFacts, <1>1, <1>3, <1>4 DEF Types, Locks, Holds
<1>9. Tree'
  BY <1>1, <1>3, <1>4 DEF Types, Tree, Live
<1>10. Exits'
  BY CallFacts, <1>1, <1>3, <1>4 DEF Types, Exits
<1>11. Looked'
  BY CallFacts, <1>1, <1>3, <1>4 DEF Types, Looked
<1>12. KilledAwake'
  BY <1>1, <1>3, <1>4 DEF Types, KilledAwake
<1> QED BY <1>5, <1>6, <1>7, <1>8, <1>9, <1>10, <1>11, <1>12

LEMMA WaitIInv == ASSUME IInv, NEW p \in Procs, Wait(p) PROVE IInv'
<1> USE ProcAssumption DEF ProcAssumption, IInv, Procs, initproc, None
<1>1. proc[p].state = "RUNNING" /\ thread[p].pc = "wait" /\ proc[p].lock = None
  BY DEF Wait, At, Free
<1>2. proc' = [proc EXCEPT ![p].lock = p]
  BY DEF Wait, Step, Acquired
<1>3. nextpid' = nextpid /\ panicked' = panicked
  BY DEF Wait, Step
<1>4. /\ thread' \in Threads
      /\ \A q \in Procs : q # p => thread'[q] = thread[q]
      /\ thread'[p].pc = "scan" /\ thread'[p].scan = 1
  BY ScanLocals DEF Wait, Step, Types, Threads
<1>5. /\ proc' \in Table
      /\ \A q \in Procs : q # p => proc'[q] = proc[q]
      /\ proc'[p].parent = proc[p].parent /\ proc'[p].killed = proc[p].killed
      /\ proc'[p].pid = proc[p].pid /\ proc'[p].state = proc[p].state
      /\ proc'[p].lock = p
  BY <1>2 DEF Types, Table, Entry
<1>6. Types'
  BY <1>1, <1>3, <1>4, <1>5 DEF Types
<1>7. Control'
  BY CallFacts, <1>1, <1>3, <1>4, <1>5 DEF Types, Control, PointsOf
<1>8. InitStays'
  BY CallFacts, <1>1, <1>3, <1>4, <1>5 DEF Types, InitStays
<1>9. Locks'
  BY CallFacts, <1>1, <1>3, <1>4, <1>5 DEF Types, Locks, Holds
<1>10. Tree'
  BY <1>1, <1>3, <1>4, <1>5 DEF Types, Tree, Live
<1>11. Exits'
  BY CallFacts, <1>1, <1>3, <1>4, <1>5 DEF Types, Exits
<1>12. Looked'
  BY CallFacts, <1>1, <1>3, <1>4, <1>5 DEF Types, Looked
<1>13. KilledAwake'
  BY <1>1, <1>3, <1>4, <1>5 DEF Types, KilledAwake
<1> QED BY <1>6, <1>7, <1>8, <1>9, <1>10, <1>11, <1>12, <1>13

LEMMA KillIInv == ASSUME IInv, NEW p \in Procs, Kill(p) PROVE IInv'
<1> USE ProcAssumption DEF ProcAssumption, IInv, Procs, initproc, None
<1>1. proc[p].state = "RUNNING" /\ thread' = thread /\ nextpid' = nextpid /\ panicked' = panicked
  BY DEF Kill, At
<1>2. PICK victim \in Procs :
         /\ victim # initproc
         /\ proc' = [proc EXCEPT ![victim].killed = TRUE,
                                 ![victim].state = IF @ = "SLEEPING" THEN "RUNNABLE" ELSE @]
  BY DEF Kill
<1>3. /\ proc' \in Table
      /\ \A q \in Procs : q # victim => proc'[q] = proc[q]
      /\ proc'[victim].parent = proc[victim].parent /\ proc'[victim].pid = proc[victim].pid
      /\ proc'[victim].lock = proc[victim].lock
      /\ \/ proc'[victim].state = proc[victim].state /\ proc[victim].state # "SLEEPING"
         \/ proc'[victim].state = "RUNNABLE" /\ proc[victim].state = "SLEEPING"
  <2> DEFINE yes == TRUE
             st == IF proc[victim].state = "SLEEPING" THEN "RUNNABLE" ELSE proc[victim].state
  <2>1. /\ yes \in BOOLEAN /\ st \in States
        /\ proc' = [proc EXCEPT ![victim].killed = yes, ![victim].state = st]
    BY <1>2 DEF Types, Table, Entry, States
  <2>2. \/ st = proc[victim].state /\ proc[victim].state # "SLEEPING"
        \/ st = "RUNNABLE" /\ proc[victim].state = "SLEEPING"
    OBVIOUS
  <2> HIDE DEF yes, st
  <2> QED BY <2>1, <2>2 DEF Types, Table, Entry
<1>4. victim # initproc
  BY <1>2
<1>5. Types'
  BY <1>1, <1>3, <1>4 DEF Types
<1>6. Control'
  BY CallFacts, <1>1, <1>3, <1>4 DEF Types, Control, PointsOf
<1>7. InitStays'
  BY CallFacts, <1>1, <1>3, <1>4 DEF Types, InitStays
<1>8. Locks'
  BY CallFacts, <1>1, <1>3, <1>4 DEF Types, Locks, Holds
<1>9. Tree'
  BY <1>1, <1>3, <1>4 DEF Types, Tree, Live
<1>10. Exits'
  BY CallFacts, <1>1, <1>3, <1>4 DEF Types, Exits
<1>11. Looked'
  BY CallFacts, <1>1, <1>3, <1>4 DEF Types, Looked
<1>12. KilledAwake'
  BY <1>1, <1>3, <1>4 DEF Types, KilledAwake
<1> QED BY <1>5, <1>6, <1>7, <1>8, <1>9, <1>10, <1>11, <1>12

LEMMA DieIInv == ASSUME IInv, NEW p \in Procs, Die(p) PROVE IInv'
<1> USE ProcAssumption DEF ProcAssumption, IInv, Procs, initproc, None
<1>1. thread[p].pc = "dying" /\ proc[p].state = "ZOMBIE" /\ p # initproc
  BY CallFacts DEF Die, Control, PointsOf, InitStays
<1>2. proc[p].lock = p /\ Held(p) = {p}
  BY CallFacts, <1>1 DEF Locks, Holds, Held
<1>3. proc' = [proc EXCEPT ![p].lock = 0]
  BY <1>1, <1>2 DEF Die, Sched, Step, Released
<1>4. thread' = [thread EXCEPT ![p] = NoThread]
  BY <1>1, <1>2 DEF Die, Sched, Step
<1>5. nextpid' = nextpid /\ panicked' = panicked
  BY <1>1, <1>2 DEF Die, Sched, Step
<1>6. /\ thread' \in Threads /\ thread'[p] = NoThread
      /\ \A q \in Procs : q # p => thread'[q] = thread[q]
      /\ thread'[p].pc = "none" /\ thread'[p].scan = 1
  BY <1>4, ThreadFacts DEF Types, Threads
<1>7. /\ proc' \in Table
      /\ \A q \in Procs : q # p => proc'[q] = proc[q]
      /\ proc'[p].parent = proc[p].parent /\ proc'[p].killed = proc[p].killed
      /\ proc'[p].pid = proc[p].pid /\ proc'[p].state = proc[p].state
      /\ proc'[p].lock = 0
  BY SMTT(20), <1>3 DEF Types, Table, Entry
<1>8. Types'
  BY <1>1, <1>2, <1>5, <1>6, <1>7 DEF Types
<1>9. Control'
  BY CallFacts, <1>1, <1>2, <1>5, <1>6, <1>7 DEF Types, Control, PointsOf
<1>10. InitStays'
  BY CallFacts, <1>1, <1>2, <1>5, <1>6, <1>7 DEF Types, InitStays
<1>11. Locks'
  BY CallFacts, <1>1, <1>2, <1>5, <1>6, <1>7 DEF Types, Locks, Holds
<1>12. Tree'
  BY <1>1, <1>2, <1>5, <1>6, <1>7 DEF Types, Tree, Live
<1>13. Exits'
  BY CallFacts, <1>1, <1>2, <1>5, <1>6, <1>7 DEF Types, Exits
<1>14. Looked'
  BY CallFacts, <1>1, <1>2, <1>5, <1>6, <1>7 DEF Types, Looked
<1>15. KilledAwake'
  BY <1>1, <1>2, <1>5, <1>6, <1>7 DEF Types, KilledAwake
<1> QED BY <1>8, <1>9, <1>10, <1>11, <1>12, <1>13, <1>14, <1>15

LEMMA ZombieIInv == ASSUME IInv, NEW p \in Procs, Zombie(p) PROVE IInv'
<1> USE ProcAssumption DEF ProcAssumption, IInv, Procs, initproc, None
<1>1. PICK op \in Procs : op = thread[p].original_parent /\ op # p
  BY CallFacts DEF Zombie, At, Control
<1>2. /\ proc[p].state = "RUNNING" /\ thread[p].pc = "zombie" /\ p # initproc
      /\ proc[p].parent \in {op, initproc} /\ proc[op].lock = p /\ proc[p].lock = p
  BY CallFacts, <1>1 DEF Zombie, At, InitStays, Exits, Locks, Holds
<1>3. thread' = [thread EXCEPT ![p] = [thread[p] EXCEPT !.pc = "dying"]]
  BY DEF Zombie, Step
<1>4. nextpid' = nextpid /\ panicked' = panicked
  BY DEF Zombie, Step
<1>5. /\ thread' \in Threads
      /\ \A q \in Procs : q # p => thread'[q] = thread[q]
      /\ thread'[p].pc = "dying" /\ thread'[p].scan = thread[p].scan
  BY <1>3 DEF Types, Threads, Locals, Points
<1>6. /\ proc' \in Table
      /\ \A q \in Procs : q # p /\ q # op => proc'[q] = proc[q]
      /\ proc'[p].state = "ZOMBIE" /\ proc'[p].lock = p
      /\ proc'[p].parent = proc[p].parent /\ proc'[p].killed = proc[p].killed /\ proc'[p].pid = proc[p].pid
      /\ proc'[op].parent = proc[op].parent /\ proc'[op].killed = proc[op].killed
      /\ proc'[op].pid = proc[op].pid /\ proc'[op].chan = proc[op].chan
      /\ proc'[op].lock = None
      /\ \/ proc'[op].state = proc[op].state /\ ~(proc[op].state = "SLEEPING" /\ proc[op].chan = WaitChan(op))
         \/ proc'[op].state = "RUNNABLE" /\ proc[op].state = "SLEEPING"
  <2> DEFINE t == [proc EXCEPT ![p].state = "ZOMBIE"]
             sleeps == proc[op].state = "SLEEPING" /\ proc[op].chan = WaitChan(op)
             u == IF sleeps THEN Runnable(t, op) ELSE t
  <2>1. proc' = Released(u, op)
    BY <1>1 DEF Zombie, Step
  <2>2. /\ t \in Table
        /\ \A q \in Procs : q # p => t[q] = proc[q]
        /\ t[p].state = "ZOMBIE" /\ t[p].lock = proc[p].lock
        /\ t[p].parent = proc[p].parent /\ t[p].killed = proc[p].killed /\ t[p].pid = proc[p].pid
    BY DEF Types, Table, Entry, States
  <2> HIDE DEF t
  <2>3. /\ u \in Table
        /\ \A q \in Procs : q # op => u[q] = t[q]
        /\ u[op].lock = t[op].lock /\ u[op].chan = t[op].chan
        /\ u[op].parent = t[op].parent /\ u[op].killed = t[op].killed /\ u[op].pid = t[op].pid
        /\ u[op].state = IF sleeps THEN "RUNNABLE" ELSE t[op].state
    <3>1. CASE sleeps
      BY <2>2, <3>1 DEF Table, Entry, States, Runnable
    <3>2. CASE ~sleeps
      BY <2>2, <3>2
    <3> QED BY <3>1, <3>2
  <2> HIDE DEF u
  <2>4. /\ proc' \in Table
        /\ \A q \in Procs : q # op => proc'[q] = u[q]
        /\ proc'[op].lock = None /\ proc'[op].chan = u[op].chan /\ proc'[op].state = u[op].state
        /\ proc'[op].parent = u[op].parent /\ proc'[op].killed = u[op].killed /\ proc'[op].pid = u[op].pid
    BY <2>1, <2>3 DEF Table, Entry, Released
  <2>5. t[op] = proc[op] /\ u[p] = t[p] /\ proc'[p] = u[p]
    BY <1>1, <2>2, <2>3, <2>4
  <2>6. \A q \in Procs : q # p /\ q # op => proc'[q] = proc[q]
    BY <2>2, <2>3, <2>4
  <2>7. /\ proc'[p].state = "ZOMBIE" /\ proc'[p].lock = p
        /\ proc'[p].parent = proc[p].parent /\ proc'[p].killed = proc[p].killed /\ proc'[p].pid = proc[p].pid
    BY <1>2, <2>2, <2>5
  <2>8. /\ proc'[op].parent = proc[op].parent /\ proc'[op].killed = proc[op].killed
        /\ proc'[op].pid = proc[op].pid /\ proc'[op].chan = proc[op].chan
        /\ proc'[op].state = IF sleeps THEN "RUNNABLE" ELSE proc[op].state
    BY <2>3, <2>4, <2>5
  <2> QED BY <2>4, <2>6, <2>7, <2>8
<1>7. /\ \A q \in Procs : proc'[q].parent = proc[q].parent /\ proc'[q].pid = proc[q].pid
      /\ \A q \in Procs : q # p => (proc'[q].state = "ZOMBIE" <=> proc[q].state = "ZOMBIE")
      /\ \A q \in Procs : q # p => (proc'[q].state = "UNUSED" <=> proc[q].state = "UNUSED")
      /\ \A q \in Procs : proc[q].parent # p
  BY CallFacts, <1>2, <1>6 DEF Exits
<1>8. ~(proc'[op].state = "SLEEPING" /\ proc'[op].chan = WaitChan(op)) /\ thread[op].pc # "scan"
  BY CallFacts, <1>1, <1>2, <1>6 DEF Locks, Holds
<1>9. \A q \in Procs : q # p /\ q # op => proc'[q].state = proc[q].state /\ proc'[q].chan = proc[q].chan
  BY <1>6
<1>10. Types'
  BY <1>1, <1>2, <1>4, <1>5, <1>6 DEF Types
<1>11. Control'
  BY CallFacts, <1>1, <1>2, <1>4, <1>5, <1>6 DEF Types, Control, PointsOf
<1>12. InitStays'
  BY CallFacts, <1>1, <1>2, <1>4, <1>5, <1>6 DEF Types, InitStays
<1>13. Locks'
  BY CallFacts, <1>1, <1>2, <1>4, <1>5, <1>6 DEF Types, Locks, Holds
<1>14. Tree'
  BY <1>2, <1>4, <1>6, <1>7 DEF Types, Tree, Live
<1>15. Exits'
  BY CallFacts, <1>1, <1>2, <1>4, <1>5, <1>6 DEF Types, Exits
<1>16. Looked'
  <2> SUFFICES ASSUME NEW r \in Procs, r # initproc, NEW q \in Procs,
                      proc'[q].parent = r, proc'[q].state = "ZOMBIE"
               PROVE  /\ thread'[r].pc = "scan" => q >= thread'[r].scan
                      /\ ~(proc'[r].state = "SLEEPING" /\ proc'[r].chan = WaitChan(r))
    BY CallFacts DEF Looked
  <2>1. r # p /\ thread'[r] = thread[r] /\ proc[q].parent = r
    BY <1>5, <1>7
  <2>2. CASE r = op
    BY <2>1, <2>2, <1>8
  <2>3. CASE r # op
    <3>1. q # p
      BY <2>1, <2>3, <1>2
    <3>2. proc[q].state = "ZOMBIE"
      BY <3>1, <1>7
    <3> QED BY <2>1, <2>3, <3>2, <1>9 DEF Looked
  <2> QED BY <2>2, <2>3
<1>17. KilledAwake'
  BY <1>1, <1>2, <1>4, <1>5, <1>6 DEF Types, KilledAwake
<1> QED BY <1>10, <1>11, <1>12, <1>13, <1>14, <1>15, <1>16, <1>17

LEMMA ForkIInv == ASSUME IInv, NEW p \in Procs, Fork(p) PROVE IInv'
<1> USE ProcAssumption DEF ProcAssumption, IInv, Procs, initproc, None
<1> DEFINE unused == {q \in Procs : proc[q].state = "UNUSED"}
<1>1. PICK np \in Procs :
         /\ proc[np].state = "UNUSED" /\ proc[np].lock = None
         /\ proc' = [proc EXCEPT ![np] = [Unused EXCEPT !.state = "RUNNABLE", !.parent = p, !.pid = nextpid, !.killed = proc[np].killed]]
         /\ thread' = [thread EXCEPT ![np] = User]
  <2>1. unused # {}
    BY DEF Fork
  <2>2. \E q \in unused : \A r \in unused : q <= r
    BY <2>1, LeastExists
  <2> DEFINE np == CHOOSE q \in unused : \A r \in unused : q <= r
  <2>3. np \in unused
    BY <2>2
  <2>4. /\ proc' = [proc EXCEPT ![np] = [Unused EXCEPT !.state = "RUNNABLE", !.parent = p, !.pid = nextpid, !.killed = proc[np].killed]]
        /\ thread' = [thread EXCEPT ![np] = User] /\ proc[np].lock = None
    BY DEF Fork, Free
  <2> HIDE DEF np
  <2> QED BY <2>3, <2>4
<1> HIDE DEF unused
<1>2. thread[np].pc = "none" /\ np # initproc
  BY CallFacts, <1>1 DEF Control, PointsOf, InitStays
<1>3. proc[p].state = "RUNNING" /\ thread[p].pc = "user" /\ p # np /\ p \in 0 .. NPROC
  BY <1>1 DEF Fork, At
<1>4. nextpid' = nextpid + 1 /\ panicked' = panicked
  BY DEF Fork
<1>5. thread' \in Threads /\ thread'[np].pc = "user" /\ thread'[np].scan = 1
      /\ \A q \in Procs : q # np => thread'[q] = thread[q]
  BY <1>1, ThreadFacts DEF Types, Threads
<1>6. /\ proc' \in Table
      /\ \A q \in Procs : q # np => proc'[q] = proc[q]
      /\ proc'[np].state = "RUNNABLE" /\ proc'[np].parent = p /\ proc'[np].pid = nextpid
      /\ proc'[np].lock = None
  <2> DEFINE e == [Unused EXCEPT !.state = "RUNNABLE", !.parent = p, !.pid = nextpid, !.killed = proc[np].killed]
  <2>1. e \in Entry /\ e.state = "RUNNABLE" /\ e.parent = p /\ e.pid = nextpid /\ e.lock = None
    BY <1>3, UnusedFacts DEF Types, Table, Entry, States
  <2>2. proc' = [proc EXCEPT ![np] = e]
    BY <1>1
  <2> HIDE DEF e
  <2> QED BY <2>1, <2>2 DEF Types, Table
<1>7. proc[np].parent = None /\ \A q \in Procs : proc[q].parent # np
  BY CallFacts, <1>1 DEF Tree, InitStays, Live, None
<1>8. thread[np].pc = "none" /\ np # initproc /\ proc[np].state = "UNUSED" /\ proc[np].lock = None
  BY <1>1, <1>2
<1>9. nextpid \in Nat /\ \A q \in Procs : proc[q].pid \in Nat
  BY DEF Types, Table, Entry
<1>10. Types'
  BY <1>3, <1>4, <1>5, <1>6, <1>7, <1>8 DEF Types
<1>11. Control'
  BY CallFacts, <1>3, <1>4, <1>5, <1>6, <1>7, <1>8 DEF Types, Control, PointsOf
<1>12. InitStays'
  BY CallFacts, <1>3, <1>4, <1>5, <1>6, <1>7, <1>8 DEF Types, InitStays
<1>13. Locks'
  BY CallFacts, <1>3, <1>4, <1>5, <1>6, <1>7, <1>8 DEF Types, Locks, Holds
<1>14. Tree'
  <2>1. ASSUME NEW q \in Procs, q # initproc, proc'[q].state # "UNUSED"
        PROVE  /\ proc'[q].parent \in Procs /\ proc'[proc'[q].parent].state \notin {"UNUSED", "ZOMBIE"}
               /\ proc'[proc'[q].parent].pid < proc'[q].pid
               /\ proc'[initproc].pid < proc'[q].pid
    <3>1. CASE q = np
      <4>1. proc[p].state = "RUNNING" /\ proc'[p] = proc[p]
        BY <1>3, <1>6
      <4>2. proc[initproc].pid < nextpid /\ proc[p].pid < nextpid /\ proc'[initproc] = proc[initproc]
        BY <1>6, <1>8 DEF Tree
      <4> QED BY <3>1, <4>1, <4>2, <1>6
    <3>2. CASE q # np
      <4>1. proc'[q] = proc[q] /\ proc'[initproc] = proc[initproc]
        BY <3>2, <1>6, <1>8
      <4>2. /\ proc[q].parent \in Procs /\ proc[proc[q].parent].state \notin {"UNUSED", "ZOMBIE"}
            /\ proc[proc[q].parent].pid < proc[q].pid
            /\ proc[initproc].pid < proc[q].pid
        BY <2>1, <4>1 DEF Tree, Live
      <4>3. proc'[proc[q].parent] = proc[proc[q].parent]
        BY <4>2, <1>6, <1>7
      <4> QED BY <4>1, <4>2, <4>3
    <3> QED BY <3>1, <3>2
  <2>2. \A q \in Procs : proc'[q].state = "UNUSED" => proc'[q].parent = None
    BY <1>6 DEF Tree
  <2>3. \A q \in Procs : proc'[q].pid < nextpid'
    BY <1>4, <1>6, <1>9 DEF Tree
  <2> QED BY <2>1, <2>2, <2>3 DEF Tree, Live
<1>15. Exits'
  BY CallFacts, <1>3, <1>4, <1>5, <1>6, <1>7, <1>8 DEF Types, Exits
<1>16. Looked'
  BY CallFacts, <1>3, <1>4, <1>5, <1>6, <1>7, <1>8 DEF Types, Looked
<1>17. KilledAwake'
  BY <1>3, <1>4, <1>5, <1>6, <1>7, <1>8 DEF Types, KilledAwake
<1> QED BY <1>10, <1>11, <1>12, <1>13, <1>14, <1>15, <1>16, <1>17

LEMMA ReparentNoneIInv == ASSUME IInv, NEW p \in Procs,
             At(p, "reparent"), {q \in Children(p) : q >= thread[p].scan} = {},
             Step(p, [thread[p] EXCEPT !.pc = "zombie", !.scan = 1], proc)
       PROVE IInv'
<1> USE ProcAssumption DEF ProcAssumption, IInv, Procs, initproc, None
<1>1. proc[p].state = "RUNNING" /\ thread[p].pc = "reparent" /\ p # initproc
  BY CallFacts DEF At, InitStays
<1>2. \A q \in Procs : proc[q].parent # p
  BY CallFacts, <1>1 DEF Exits, Children
<1>3. thread' = [thread EXCEPT ![p] = [thread[p] EXCEPT !.pc = "zombie", !.scan = 1]]
  BY DEF Step
<1>4. proc' = proc /\ nextpid' = nextpid /\ panicked' = panicked
  BY DEF Step
<1>5. /\ thread' \in Threads
      /\ \A q \in Procs : q # p => thread'[q] = thread[q]
      /\ thread'[p].pc = "zombie" /\ thread'[p].scan = 1
      /\ thread'[p].original_parent = thread[p].original_parent
  <2> DEFINE n == 1
  <2>1. n \in 1 .. NPROC + 1 /\ thread' = [thread EXCEPT ![p] = [thread[p] EXCEPT !.pc = "zombie", !.scan = n]]
    BY <1>3
  <2> HIDE DEF n
  <2>2. /\ thread' \in Threads
        /\ \A q \in Procs : q # p => thread'[q] = thread[q]
        /\ thread'[p].pc = "zombie" /\ thread'[p].scan = n
        /\ thread'[p].original_parent = thread[p].original_parent
    BY <2>1 DEF Types, Threads, Locals, Points
  <2> QED BY <2>2 DEF n
<1>6. Types'
  BY <1>1, <1>2, <1>4, <1>5 DEF Types
<1>7. Control'
  BY CallFacts, <1>1, <1>2, <1>4, <1>5 DEF Types, Control, PointsOf
<1>8. InitStays'
  BY CallFacts, <1>1, <1>2, <1>4, <1>5 DEF Types, InitStays
<1>9. Locks'
  BY CallFacts, <1>1, <1>2, <1>4, <1>5 DEF Types, Locks, Holds
<1>10. Tree'
  BY <1>1, <1>2, <1>4, <1>5 DEF Types, Tree, Live
<1>11. Exits'
  BY CallFacts, <1>1, <1>2, <1>4, <1>5 DEF Types, Exits
<1>12. Looked'
  BY CallFacts, <1>1, <1>2, <1>4, <1>5 DEF Types, Looked
<1>13. KilledAwake'
  BY <1>1, <1>2, <1>4, <1>5 DEF Types, KilledAwake
<1> QED BY <1>6, <1>7, <1>8, <1>9, <1>10, <1>11, <1>12, <1>13

LEMMA ReparentOneIInv == ASSUME IInv, NEW p \in Procs,
             At(p, "reparent"), NEW pp \in Procs,
             pp \in Children(p) /\ pp >= thread[p].scan,
             \A q \in Children(p) : q >= thread[p].scan => pp <= q,
             Step(p, [thread[p] EXCEPT !.scan = pp + 1], [proc EXCEPT ![pp].parent = initproc])
       PROVE IInv'
<1> USE ProcAssumption DEF ProcAssumption, IInv, Procs, initproc, None
<1>1. proc[p].state = "RUNNING" /\ thread[p].pc = "reparent" /\ p # initproc
  BY CallFacts DEF At, InitStays
<1>2. /\ proc[pp].parent = p /\ pp # initproc /\ pp # p /\ proc[pp].state # "UNUSED"
      /\ proc[initproc].pid < proc[pp].pid
  <2>1. proc[pp].parent = p /\ pp # initproc
    BY CallFacts, <1>1 DEF Children, InitStays
  <2>2. proc[pp].state # "UNUSED"
    BY <2>1 DEF Tree
  <2>3. proc[p].pid < proc[pp].pid /\ proc[initproc].pid < proc[pp].pid
    BY <2>1, <2>2 DEF Tree
  <2>4. p # pp
    BY <2>3 DEF Types, Table, Entry
  <2> QED BY <2>1, <2>2, <2>3, <2>4
<1>3. Live(initproc) /\ thread[initproc].pc \notin {"reparent", "zombie"}
  BY CallFacts DEF InitStays, Control, PointsOf, Live
<1>4. proc' = [proc EXCEPT ![pp].parent = 1]
  BY DEF Step
<1>5. nextpid' = nextpid /\ panicked' = panicked
  BY DEF Step
<1>6. /\ thread' \in Threads
      /\ \A q \in Procs : q # p => thread'[q] = thread[q]
      /\ thread'[p].pc = "reparent" /\ thread'[p].scan = pp + 1
      /\ thread'[p].original_parent = thread[p].original_parent
  <2> DEFINE n == pp + 1
  <2>1. n \in 1 .. NPROC + 1 /\ thread' = [thread EXCEPT ![p] = [thread[p] EXCEPT !.scan = n]]
    BY DEF Step
  <2> HIDE DEF n
  <2>2. /\ thread' \in Threads
        /\ \A q \in Procs : q # p => thread'[q] = thread[q]
        /\ thread'[p].pc = thread[p].pc /\ thread'[p].scan = n
        /\ thread'[p].original_parent = thread[p].original_parent
    BY <2>1 DEF Types, Threads, Locals, Points
  <2> QED BY <2>2, <1>1 DEF n
<1>7. /\ proc' \in Table
      /\ \A q \in Procs : q # pp => proc'[q] = proc[q]
      /\ proc'[pp].parent = initproc /\ proc'[pp].killed = proc[pp].killed /\ proc'[pp].pid = proc[pp].pid
      /\ proc'[pp].lock = proc[pp].lock /\ proc'[pp].state = proc[pp].state /\ proc'[pp].chan = proc[pp].chan
  <2> DEFINE n == 1
  <2>1. n \in 0 .. NPROC /\ proc' = [proc EXCEPT ![pp].parent = n]
    BY <1>4
  <2> HIDE DEF n
  <2>2. /\ proc' \in Table
        /\ \A q \in Procs : q # pp => proc'[q] = proc[q]
        /\ proc'[pp].parent = n /\ proc'[pp].killed = proc[pp].killed /\ proc'[pp].pid = proc[pp].pid
        /\ proc'[pp].lock = proc[pp].lock /\ proc'[pp].state = proc[pp].state /\ proc'[pp].chan = proc[pp].chan
    BY <2>1 DEF Types, Table, Entry
  <2> QED BY <2>2 DEF n
<1>8. \A q \in Procs : proc[q].parent = p /\ q # pp => q >= pp + 1
  BY CallFacts, <1>1 DEF Exits, Children, Types, Threads, Locals
<1>9. Types'
  BY <1>1, <1>2, <1>3, <1>5, <1>6, <1>7, <1>8 DEF Types
<1>10. Control'
  BY CallFacts, <1>1, <1>2, <1>3, <1>5, <1>6, <1>7, <1>8 DEF Types, Control, PointsOf
<1>11. InitStays'
  BY CallFacts, <1>1, <1>2, <1>3, <1>5, <1>6, <1>7, <1>8 DEF Types, InitStays
<1>12. Locks'
  BY CallFacts, <1>1, <1>2, <1>3, <1>5, <1>6, <1>7, <1>8 DEF Types, Locks, Holds
<1>13. Tree'
  BY <1>1, <1>2, <1>3, <1>5, <1>6, <1>7, <1>8 DEF Types, Tree, Live
<1>14. Exits'
  BY CallFacts, <1>1, <1>2, <1>3, <1>5, <1>6, <1>7, <1>8 DEF Types, Exits
<1>15. Looked'
  BY CallFacts, <1>1, <1>2, <1>3, <1>5, <1>6, <1>7, <1>8 DEF Types, Looked
<1>16. KilledAwake'
  BY <1>1, <1>2, <1>3, <1>5, <1>6, <1>7, <1>8 DEF Types, KilledAwake
<1> QED BY <1>9, <1>10, <1>11, <1>12, <1>13, <1>14, <1>15, <1>16

LEMMA ReparentIInv == ASSUME IInv, NEW p \in Procs, Reparent(p) PROVE IInv'
<1> DEFINE left == {q \in Children(p) : q >= thread[p].scan}
           pp == CHOOSE q \in left : \A r \in left : q <= r
<1>1. CASE left = {}
  BY <1>1, ReparentNoneIInv DEF Reparent
<1>2. CASE left # {}
  <2>1. left \in SUBSET Procs
    BY DEF Children
  <2>2. \E q \in left : \A r \in left : q <= r
    BY <1>2, <2>1, LeastExists
  <2>3. pp \in left /\ \A r \in left : pp <= r
    BY <2>2
  <2>4. At(p, "reparent") /\ Step(p, [thread[p] EXCEPT !.scan = pp + 1], [proc EXCEPT ![pp].parent = initproc])
    BY <1>2 DEF Reparent
  <2> HIDE DEF pp
  <2> QED BY <2>1, <2>3, <2>4, ReparentOneIInv
<1> QED BY <1>1, <1>2

LEMMA ScanOnIInv == ASSUME IInv, NEW p \in Procs,
             At(p, "scan"), NEW n \in 1 .. NPROC + 1, NEW b \in BOOLEAN,
             \A q \in Children(p) : q >= thread[p].scan /\ q < n => proc[q].state # "ZOMBIE",
             Step(p, [thread[p] EXCEPT !.scan = n, !.havekids = b], proc)
       PROVE IInv'
<1> USE ProcAssumption DEF ProcAssumption, IInv, Procs, initproc, None
<1>1. proc[p].state = "RUNNING" /\ thread[p].pc = "scan"
  BY DEF At
<1>2. proc' = proc /\ nextpid' = nextpid /\ panicked' = panicked
  BY DEF Step
<1>3. /\ thread' \in Threads
      /\ \A q \in Procs : q # p => thread'[q] = thread[q]
      /\ thread'[p].pc = "scan" /\ thread'[p].scan = n
  <2>1. thread' = [thread EXCEPT ![p] = [thread[p] EXCEPT !.scan = n, !.havekids = b]]
    BY DEF Step
  <2>2. /\ thread' \in Threads
        /\ \A q \in Procs : q # p => thread'[q] = thread[q]
        /\ thread'[p].pc = thread[p].pc /\ thread'[p].scan = n
    BY <2>1 DEF Types, Threads, Locals
  <2> QED BY <2>2, <1>1
<1>4. \A q \in Procs : proc[q].parent = p /\ proc[q].state = "ZOMBIE" /\ q >= thread[p].scan => q >= n
  BY DEF Children
<1>5. Types'
  BY <1>1, <1>2, <1>3, <1>4 DEF Types
<1>6. Control'
  BY CallFacts, <1>1, <1>2, <1>3, <1>4 DEF Types, Control, PointsOf
<1>7. InitStays'
  BY CallFacts, <1>1, <1>2, <1>3, <1>4 DEF Types, InitStays
<1>8. Locks'
  BY CallFacts, <1>1, <1>2, <1>3, <1>4 DEF Types, Locks, Holds
<1>9. Tree'
  BY <1>1, <1>2, <1>3, <1>4 DEF Types, Tree, Live
<1>10. Exits'
  BY CallFacts, <1>1, <1>2, <1>3, <1>4 DEF Types, Exits
<1>11. Looked'
  <2> SUFFICES ASSUME NEW r \in Procs, r # initproc, NEW q \in Procs,
                      proc[q].parent = r, proc[q].state = "ZOMBIE"
               PROVE  /\ thread'[r].pc = "scan" => q >= thread'[r].scan
                      /\ ~(proc[r].state = "SLEEPING" /\ proc[r].chan = WaitChan(r))
    BY CallFacts, <1>2 DEF Looked
  <2>1. CASE r = p
    BY CallFacts, <2>1, <1>1, <1>3, <1>4 DEF Looked
  <2>2. CASE r # p
    BY CallFacts, <2>2, <1>3 DEF Looked
  <2> QED BY <2>1, <2>2
<1>12. KilledAwake'
  BY <1>1, <1>2, <1>3, <1>4 DEF Types, KilledAwake
<1> QED BY <1>5, <1>6, <1>7, <1>8, <1>9, <1>10, <1>11, <1>12

LEMMA WaitReturnIInv == ASSUME IInv, NEW p \in Procs, At(p, "scan"), Step(p, User, Released(proc, p)) PROVE IInv'
<1> USE ProcAssumption DEF ProcAssumption, IInv, Procs, initproc, None
<1>1. proc[p].state = "RUNNING" /\ thread[p].pc = "scan"
  BY DEF At
<1>2. proc' = [proc EXCEPT ![p].lock = 0]
  BY DEF Step, Released
<1>3. nextpid' = nextpid /\ panicked' = panicked
  BY DEF Step
<1>4. /\ thread' \in Threads /\ thread'[p].pc = "user" /\ thread'[p].scan = 1
      /\ \A q \in Procs : q # p => thread'[q] = thread[q]
  BY ThreadFacts DEF Step, Types, Threads
<1>5. /\ proc' \in Table
      /\ \A q \in Procs : q # p => proc'[q] = proc[q]
      /\ proc'[p].parent = proc[p].parent /\ proc'[p].killed = proc[p].killed
      /\ proc'[p].pid = proc[p].pid /\ proc'[p].state = proc[p].state
      /\ proc'[p].lock = 0
  <2> DEFINE n == 0
  <2>1. n \in 0 .. NPROC /\ proc' = [proc EXCEPT ![p].lock = n]
    BY <1>2
  <2> HIDE DEF n
  <2>2. /\ proc' \in Table
        /\ \A q \in Procs : q # p => proc'[q] = proc[q]
        /\ proc'[p].parent = proc[p].parent /\ proc'[p].killed = proc[p].killed
        /\ proc'[p].pid = proc[p].pid /\ proc'[p].state = proc[p].state
        /\ proc'[p].lock = n
    BY <2>1 DEF Types, Table, Entry
  <2> QED BY <2>2 DEF n
<1>6. Types'
  BY <1>1, <1>3, <1>4, <1>5 DEF Types
<1>7. Control'
  BY CallFacts, <1>1, <1>3, <1>4, <1>5 DEF Types, Control, PointsOf
<1>8. InitStays'
  BY CallFacts, <1>1, <1>3, <1>4, <1>5 DEF Types, InitStays
<1>9. Locks'
  BY CallFacts, <1>1, <1>3, <1>4, <1>5 DEF Types, Locks, Holds
<1>10. Tree'
  BY <1>1, <1>3, <1>4, <1>5 DEF Types, Tree, Live
<1>11. Exits'
  BY CallFacts, <1>1, <1>3, <1>4, <1>5 DEF Types, Exits
<1>12. Looked'
  BY CallFacts, <1>1, <1>3, <1>4, <1>5 DEF Types, Looked
<1>13. KilledAwake'
  BY <1>1, <1>3, <1>4, <1>5 DEF Types, KilledAwake
<1> QED BY <1>6, <1>7, <1>8, <1>9, <1>10, <1>11, <1>12, <1>13

LEMMA WaitReapIInv == ASSUME IInv, NEW p \in Procs,
             At(p, "scan"), NEW np \in Children(p), proc[np].lock = None, proc[np].state = "ZOMBIE",
             Step(p, User, Released([proc EXCEPT ![np] = Unused], p))
       PROVE IInv'
<1> USE ProcAssumption DEF ProcAssumption, IInv, Procs, initproc, None
<1>0. np \in Procs /\ proc[np].parent = p
  BY DEF Children
<1>1. proc[p].state = "RUNNING" /\ thread[p].pc = "scan" /\ proc[p].lock = p
  BY CallFacts DEF At, Locks, Holds
<1>2. np # p /\ np # initproc /\ thread[np].pc = "none"
  BY CallFacts, <1>0, <1>1 DEF InitStays, Control, PointsOf, Locks, Holds
<1>3. thread' = [thread EXCEPT ![p] = User] /\ nextpid' = nextpid /\ panicked' = panicked
  BY DEF Step
<1>4. /\ thread' \in Threads /\ thread'[p].pc = "user" /\ thread'[p].scan = 1
      /\ \A q \in Procs : q # p => thread'[q] = thread[q]
  BY <1>3, ThreadFacts DEF Types, Threads
<1>5. /\ proc' \in Table
      /\ \A q \in Procs : q # p /\ q # np => proc'[q] = proc[q]
      /\ proc'[p].parent = proc[p].parent /\ proc'[p].killed = proc[p].killed
      /\ proc'[p].pid = proc[p].pid /\ proc'[p].state = proc[p].state
      /\ proc'[p].lock = None
      /\ proc'[np].lock = None /\ proc'[np].parent = None /\ proc'[np].state = "UNUSED"
      /\ ~proc'[np].killed /\ proc'[np].pid = 0
  <2> DEFINE t == [proc EXCEPT ![np] = Unused]
             n == None
  <2>1. n \in 0 .. NPROC /\ proc' = [t EXCEPT ![p].lock = n]
    BY DEF Step, Released
  <2>2. t \in Table /\ t[np] = Unused /\ \A q \in Procs : q # np => t[q] = proc[q]
    BY <1>0, UnusedFacts DEF Types, Table
  <2> HIDE DEF t, n
  <2>3. /\ proc' \in Table
        /\ \A q \in Procs : q # p => proc'[q] = t[q]
        /\ proc'[p].parent = t[p].parent /\ proc'[p].killed = t[p].killed
        /\ proc'[p].pid = t[p].pid /\ proc'[p].state = t[p].state
        /\ proc'[p].lock = n
    BY <2>1, <2>2 DEF Table, Entry
  <2>4. proc'[np] = Unused /\ t[p] = proc[p]
    BY <1>0, <1>2, <2>2, <2>3
  <2>5. \A q \in Procs : q # p /\ q # np => proc'[q] = proc[q]
    BY <2>2, <2>3
  <2>6. /\ proc'[p].parent = proc[p].parent /\ proc'[p].killed = proc[p].killed
        /\ proc'[p].pid = proc[p].pid /\ proc'[p].state = proc[p].state
        /\ proc'[p].lock = None
    BY <2>3, <2>4 DEF n
  <2>7. /\ proc'[np].lock = None /\ proc'[np].parent = None /\ proc'[np].state = "UNUSED"
        /\ ~proc'[np].killed /\ proc'[np].pid = 0
    BY <1>0, <2>4, UnusedFacts
  <2> QED BY <2>3, <2>5, <2>6, <2>7
<1>6. proc[np].lock = None /\ proc[np].state = "ZOMBIE" /\ \A q \in Procs : proc[q].parent # np
  BY CallFacts, <1>0, <1>2 DEF Tree, InitStays, Live
<1>7. nextpid > 0
  BY DEF Types, Table, Entry, Tree
<1>8. Types'
  BY <1>0, <1>1, <1>2, <1>3, <1>4, <1>5, <1>6, <1>7 DEF Types
<1>9. Control'
  BY CallFacts, <1>0, <1>1, <1>2, <1>3, <1>4, <1>5, <1>6, <1>7 DEF Types, Control, PointsOf
<1>10. InitStays'
  BY CallFacts, <1>0, <1>1, <1>2, <1>3, <1>4, <1>5, <1>6, <1>7 DEF Types, InitStays
<1>11. Locks'
  BY CallFacts, <1>0, <1>1, <1>2, <1>3, <1>4, <1>5, <1>6, <1>7 DEF Types, Locks, Holds
<1>12. Tree'
  BY <1>0, <1>1, <1>2, <1>3, <1>4, <1>5, <1>6, <1>7 DEF Types, Tree, Live
<1>13. Exits'
  BY CallFacts, <1>0, <1>1, <1>2, <1>3, <1>4, <1>5, <1>6, <1>7 DEF Types, Exits
<1>14. Looked'
  BY CallFacts, <1>0, <1>1, <1>2, <1>3, <1>4, <1>5, <1>6, <1>7 DEF Types, Looked
<1>15. KilledAwake'
  BY <1>0, <1>1, <1>2, <1>3, <1>4, <1>5, <1>6, <1>7 DEF Types, KilledAwake
<1> QED BY <1>8, <1>9, <1>10, <1>11, <1>12, <1>13, <1>14, <1>15

LEMMA WaitSleepsIInv == ASSUME IInv, NEW p \in Procs,
             At(p, "scan"), thread[p].scan > NPROC, ~proc[p].killed,
             Sched(p, [thread[p] EXCEPT !.pc = "asleep", !.then = "scan", !.scan = 1, !.havekids = FALSE],
                   [proc EXCEPT ![p].state = "SLEEPING", ![p].chan = WaitChan(p)])
       PROVE IInv'
<1> USE ProcAssumption DEF ProcAssumption, IInv, Procs, initproc, None
<1>1. proc[p].state = "RUNNING" /\ thread[p].pc = "scan" /\ proc[p].lock = p /\ Held(p) = {p}
  BY CallFacts DEF At, Locks, Holds, Held
<1>2. \A q \in Procs : p # initproc /\ proc[q].parent = p => proc[q].state # "ZOMBIE"
  BY CallFacts, <1>1 DEF Looked, Types, Threads, Locals
<1> DEFINE t == [proc EXCEPT ![p].state = "SLEEPING", ![p].chan = WaitChan(p)]
<1>3. /\ t \in Table /\ t[p].state = "SLEEPING"
      /\ \A q \in Procs : q # p => t[q] = proc[q]
      /\ t[p].parent = proc[p].parent /\ t[p].killed = proc[p].killed
      /\ t[p].pid = proc[p].pid
  <2> DEFINE c == WaitChan(p)
  <2>1. c \in Chans
    BY DEF Chans
  <2> HIDE DEF c
  <2> QED BY <2>1 DEF Types, Table, Entry, States
<1> HIDE DEF t
<1>4. /\ proc' = Released(t, p) /\ nextpid' = nextpid /\ panicked' = panicked
      /\ thread' = [thread EXCEPT ![p] = [thread[p] EXCEPT !.pc = "asleep", !.then = "scan", !.scan = 1, !.havekids = FALSE]]
  BY <1>1, <1>3 DEF Sched, Step, t
<1>5. /\ thread' \in Threads /\ thread'[p].pc = "asleep" /\ thread'[p].scan = 1 /\ thread'[p].then = "scan"
      /\ \A q \in Procs : q # p => thread'[q] = thread[q]
  <2> DEFINE n == 1
             b == FALSE
  <2>1. /\ n \in 1 .. NPROC + 1 /\ b \in BOOLEAN
        /\ thread' = [thread EXCEPT ![p] = [thread[p] EXCEPT !.pc = "asleep", !.then = "scan", !.scan = n, !.havekids = b]]
    BY <1>4
  <2> HIDE DEF n, b
  <2>2. /\ thread' \in Threads /\ thread'[p].pc = "asleep" /\ thread'[p].scan = n /\ thread'[p].then = "scan"
        /\ \A q \in Procs : q # p => thread'[q] = thread[q]
    BY <2>1 DEF Types, Threads, Locals, Points
  <2> QED BY <2>2 DEF n
<1>6. /\ proc' \in Table
      /\ \A q \in Procs : q # p => proc'[q] = t[q]
      /\ proc'[p].state = t[p].state /\ proc'[p].parent = t[p].parent /\ proc'[p].killed = t[p].killed
      /\ proc'[p].pid = t[p].pid /\ proc'[p].lock = None
  BY <1>3, <1>4 DEF Table, Entry, Released
<1>7. /\ proc' \in Table
      /\ \A q \in Procs : q # p => proc'[q] = proc[q]
      /\ proc'[p].state = "SLEEPING" /\ proc'[p].parent = proc[p].parent /\ proc'[p].killed = proc[p].killed
      /\ proc'[p].pid = proc[p].pid /\ proc'[p].lock = None
  BY <1>3, <1>6
<1>8. nextpid' = nextpid /\ panicked' = panicked
  BY <1>4
<1>9. Types'
  BY <1>1, <1>2, <1>5, <1>7, <1>8 DEF Types
<1>10. Control'
  BY CallFacts, <1>1, <1>2, <1>5, <1>7, <1>8 DEF Types, Control, PointsOf
<1>11. InitStays'
  BY CallFacts, <1>1, <1>2, <1>5, <1>7, <1>8 DEF Types, InitStays
<1>12. Locks'
  BY CallFacts, <1>1, <1>2, <1>5, <1>7, <1>8 DEF Types, Locks, Holds
<1>13. Tree'
  BY <1>1, <1>2, <1>5, <1>7, <1>8 DEF Types, Tree, Live
<1>14. Exits'
  BY CallFacts, <1>1, <1>2, <1>5, <1>7, <1>8 DEF Types, Exits
<1>15. Looked'
  BY CallFacts, <1>1, <1>2, <1>5, <1>7, <1>8 DEF Types, Looked
<1>16. KilledAwake'
  BY <1>1, <1>2, <1>5, <1>7, <1>8 DEF Types, KilledAwake
<1> QED BY <1>9, <1>10, <1>11, <1>12, <1>13, <1>14, <1>15, <1>16

LEMMA WaitSleepIInv == ASSUME IInv, NEW p \in Procs, WaitSleep(p) PROVE IInv'
<1>1. CASE ~thread[p].havekids \/ proc[p].killed
  BY <1>1, WaitReturnIInv DEF WaitSleep
<1>2. CASE ~(~thread[p].havekids \/ proc[p].killed)
  BY <1>2, WaitSleepsIInv DEF WaitSleep
<1> QED BY <1>1, <1>2

LEMMA ScanIInv == ASSUME IInv, NEW p \in Procs, Scan(p) PROVE IInv'
<1> DEFINE left == {q \in Children(p) : q >= thread[p].scan}
           np == CHOOSE q \in left : \A r \in left : q <= r
<1>1. At(p, "scan") /\ thread[p] \in Locals /\ thread[p].scan \in Nat /\ left \in SUBSET Procs
  BY ProcAssumption DEF ProcAssumption, Scan, IInv, Types, Threads, Locals, Children
<1>2. CASE left = {}
  <2> DEFINE n == NPROC + 1
             b == thread[p].havekids
  <2>1. n \in 1 .. NPROC + 1 /\ b \in BOOLEAN
    BY <1>1, ProcAssumption DEF ProcAssumption, Locals
  <2>2. [thread[p] EXCEPT !.scan = n, !.havekids = b] = [thread[p] EXCEPT !.scan = n]
    BY <1>1, <2>1 DEF Locals
  <2>3. Step(p, [thread[p] EXCEPT !.scan = n, !.havekids = b], proc)
    BY <1>2, <2>2 DEF Scan
  <2>4. \A q \in Children(p) : q >= thread[p].scan /\ q < n => proc[q].state # "ZOMBIE"
    BY <1>2
  <2> HIDE DEF n, b
  <2> QED BY <1>1, <2>1, <2>3, <2>4, ScanOnIInv
<1>3. CASE left # {}
  <2>1. \E q \in left : \A r \in left : q <= r
    BY <1>1, <1>3, LeastExists
  <2>2. np \in left /\ \A r \in left : np <= r
    BY <2>1
  <2>3. /\ proc[np].lock = None
        /\ IF proc[np].state = "ZOMBIE" THEN Step(p, User, Released([proc EXCEPT ![np] = Unused], p))
           ELSE Step(p, [thread[p] EXCEPT !.scan = np + 1, !.havekids = TRUE], proc)
    BY <1>3 DEF Scan, Free
  <2> HIDE DEF np
  <2>4. np \in Children(p) /\ np \in Procs
    BY <1>1, <2>2
  <2>5. CASE proc[np].state = "ZOMBIE"
    BY <1>1, <2>3, <2>4, <2>5, WaitReapIInv
  <2>6. CASE proc[np].state # "ZOMBIE"
    <3>1. np + 1 \in 1 .. NPROC + 1 /\ TRUE \in BOOLEAN
      BY <2>4, ProcAssumption DEF ProcAssumption, Procs
    <3>2. ASSUME NEW q \in Children(p), q >= thread[p].scan, q < np + 1
          PROVE  proc[q].state # "ZOMBIE"
      <4>1. q \in left /\ q \in Procs
        BY <3>2 DEF Children
      <4>2. np <= q
        BY <4>1, <2>2
      <4>3. q = np
        BY <4>1, <4>2, <2>4, <3>2, ProcAssumption DEF ProcAssumption, Procs
      <4> QED BY <4>3, <2>6
    <3>3. Step(p, [thread[p] EXCEPT !.scan = np + 1, !.havekids = TRUE], proc)
      BY <2>3, <2>6
    <3> QED BY <1>1, <3>1, <3>2, <3>3, ScanOnIInv
  <2> QED BY <2>5, <2>6
<1> QED BY <1>2, <1>3

\* A process goes on between two places where Proc's code does nothing: in user mode, at
\* the start of exit(), or in a call of another module.
LEMMA GoIInv ==
  ASSUME IInv, NEW p \in Procs, proc[p].state = "RUNNING",
         thread[p].pc \in {"user", "exit"} \cup CallPoints,
         NEW to \in {"user", "exit"} \cup CallPoints, to = "exit" => p # initproc,
         Step(p, [thread[p] EXCEPT !.pc = to], proc)
  PROVE  IInv'
<1> USE ProcAssumption DEF ProcAssumption, IInv, Procs, initproc, None
<1>1. proc' = proc /\ nextpid' = nextpid /\ panicked' = panicked
  BY DEF Step
<1>2. /\ thread' \in Threads /\ thread'[p].pc = to /\ thread'[p].scan = thread[p].scan
      /\ \A q \in Procs : q # p => thread'[q] = thread[q]
  BY DEF Step, Types, Threads, Locals, Points
<1>3. /\ to \notin {"none", "lockparent", "lockself", "reparent", "zombie", "dying", "scan", "sleep", "wakeup", "asleep"}
      /\ thread[p].pc \notin {"none", "lockself", "reparent", "zombie", "dying", "scan", "sleep", "wakeup"}
  BY CallFacts
<1>4. Types' /\ Tree' /\ KilledAwake'
  BY <1>1, <1>2 DEF Types, Tree, Live, KilledAwake
<1>5. Control'
  <2>1. to \in PointsOf("RUNNING")
    BY DEF PointsOf
  <2>2. thread[p].scan = 1
    BY <1>3 DEF Control
  <2> QED BY <1>1, <1>2, <1>3, <2>1, <2>2 DEF Control
<1>6. InitStays'
  BY <1>1, <1>2 DEF InitStays
<1>7. Locks'
  BY <1>1, <1>2, <1>3 DEF Locks, Holds
<1>8. Exits' /\ Looked'
  BY <1>1, <1>2, <1>3 DEF Exits, Looked
<1> QED BY <1>4, <1>5, <1>6, <1>7, <1>8

\* sleep() on a channel of another module, with that module's lock: p->lock is taken ...
LEMMA SleepIInv ==
  ASSUME IInv, NEW p \in Procs, proc[p].state = "RUNNING", thread[p].pc \in CallPoints,
         NEW chan \in CallChans, NEW then \in CallPoints, Sleep(p, chan, then)
  PROVE  IInv'
<1> USE ProcAssumption DEF ProcAssumption, IInv, Procs, initproc, None
<1>1. proc' = [proc EXCEPT ![p].lock = p] /\ nextpid' = nextpid /\ panicked' = panicked /\ proc[p].lock = None
  BY DEF Sleep, Step, Acquired, Free
<1>2. /\ thread' \in Threads /\ thread'[p].pc = "sleep" /\ thread'[p].scan = thread[p].scan
      /\ thread'[p].chan = chan /\ thread'[p].then = then
      /\ \A q \in Procs : q # p => thread'[q] = thread[q]
  BY DEF Sleep, Step, Types, Threads, Locals, Points
<1>3. /\ proc' \in Table
      /\ \A q \in Procs : q # p => proc'[q] = proc[q]
      /\ proc'[p].parent = proc[p].parent /\ proc'[p].killed = proc[p].killed
      /\ proc'[p].pid = proc[p].pid /\ proc'[p].state = proc[p].state /\ proc'[p].chan = proc[p].chan
      /\ proc'[p].lock = p
  BY <1>1 DEF Types, Table, Entry
<1>4. thread[p].pc \notin {"none", "lockparent", "lockself", "reparent", "zombie", "dying", "scan", "sleep", "wakeup"}
  BY CallFacts
<1>5. Types' /\ Tree' /\ KilledAwake'
  BY <1>1, <1>2, <1>3 DEF Types, Tree, Live, KilledAwake
<1>6. Control'
  <2>1. "sleep" \in PointsOf("RUNNING")
    BY DEF PointsOf
  <2>2. thread[p].scan = 1
    BY <1>4 DEF Control
  <2> QED BY <1>2, <1>3, <2>1, <2>2 DEF Control
<1>7. InitStays'
  BY <1>2, <1>3 DEF InitStays
<1>8. Locks'
  BY <1>1, <1>2, <1>3, <1>4 DEF Types, Locks, Holds
<1>9. Exits' /\ Looked'
  BY <1>2, <1>3, <1>4 DEF Exits, Looked
<1> QED BY <1>5, <1>6, <1>7, <1>8, <1>9

\* ... and the process leaves its CPU, with that lock and no other.
LEMMA SleepingIInv == ASSUME IInv, NEW p \in Procs, Sleeping(p) PROVE IInv'
<1> USE ProcAssumption DEF ProcAssumption, IInv, Procs, initproc, None
<1> DEFINE chan == thread[p].chan
           t == [proc EXCEPT ![p].state = "SLEEPING", ![p].chan = chan]
<1>1. /\ proc[p].state = "RUNNING" /\ thread[p].pc = "sleep" /\ proc[p].lock = p /\ Held(p) = {p}
      /\ chan \in CallChans /\ thread[p].then \in CallPoints /\ thread[p].scan = 1
  BY DEF Sleeping, At, Locks, Holds, Held, Control
<1> HIDE DEF chan
<1>2. /\ t \in Table /\ t[p].state = "SLEEPING" /\ t[p].chan = chan
      /\ \A q \in Procs : q # p => t[q] = proc[q]
      /\ t[p].parent = proc[p].parent /\ t[p].killed = proc[p].killed
      /\ t[p].pid = proc[p].pid
  <2>1. chan \in Chans
    BY <1>1 DEF Chans
  <2> QED BY <2>1 DEF Types, Table, Entry, States
<1>3. Sched(p, [thread[p] EXCEPT !.pc = "asleep", !.chan = NoChan], t)
  BY DEF Sleeping, chan
<1> HIDE DEF t
<1>4. /\ proc' = Released(t, p) /\ nextpid' = nextpid /\ panicked' = panicked
      /\ thread' = [thread EXCEPT ![p] = [thread[p] EXCEPT !.pc = "asleep", !.chan = NoChan]]
  BY <1>1, <1>2, <1>3 DEF Sched, Step
<1>5. /\ thread' \in Threads /\ thread'[p].pc = "asleep" /\ thread'[p].scan = thread[p].scan
      /\ thread'[p].then = thread[p].then
      /\ \A q \in Procs : q # p => thread'[q] = thread[q]
  <2> DEFINE c == NoChan
  <2>1. c \in {NoChan} \cup CallChans /\ thread' = [thread EXCEPT ![p] = [thread[p] EXCEPT !.pc = "asleep", !.chan = c]]
    BY <1>4
  <2> HIDE DEF c
  <2> QED BY <2>1 DEF Types, Threads, Locals, Points
<1>6. /\ proc' \in Table
      /\ \A q \in Procs : q # p => proc'[q] = t[q]
      /\ proc'[p].state = t[p].state /\ proc'[p].parent = t[p].parent /\ proc'[p].killed = t[p].killed
      /\ proc'[p].pid = t[p].pid /\ proc'[p].lock = None /\ proc'[p].chan = t[p].chan
  <2> DEFINE n == 0
  <2>1. n \in 0 .. NPROC /\ proc' = [t EXCEPT ![p].lock = n]
    BY <1>4 DEF Released
  <2> HIDE DEF n
  <2>2. /\ proc' \in Table
        /\ \A q \in Procs : q # p => proc'[q] = t[q]
        /\ proc'[p].state = t[p].state /\ proc'[p].parent = t[p].parent /\ proc'[p].killed = t[p].killed
        /\ proc'[p].pid = t[p].pid /\ proc'[p].lock = n /\ proc'[p].chan = t[p].chan
    BY <1>2, <2>1 DEF Table, Entry
  <2> QED BY <2>2 DEF n
<1>7. /\ proc' \in Table
      /\ \A q \in Procs : q # p => proc'[q] = proc[q]
      /\ proc'[p].state = "SLEEPING" /\ proc'[p].parent = proc[p].parent /\ proc'[p].killed = proc[p].killed
      /\ proc'[p].pid = proc[p].pid /\ proc'[p].lock = None /\ proc'[p].chan = chan
  BY <1>2, <1>6
<1>8. nextpid' = nextpid /\ panicked' = panicked /\ chan # WaitChan(p)
  BY <1>1, <1>4, CallFacts
<1>9. Types' /\ Tree' /\ KilledAwake'
  BY <1>1, <1>5, <1>7, <1>8 DEF Types, Tree, Live, KilledAwake
<1>10. Control'
  BY <1>1, <1>5, <1>7, CallFacts DEF Control, PointsOf
<1>11. InitStays'
  BY <1>5, <1>7 DEF InitStays
<1>12. Locks'
  BY <1>1, <1>5, <1>7 DEF Types, Locks, Holds
<1>13. Exits' /\ Looked'
  BY <1>1, <1>5, <1>7, <1>8 DEF Exits, Looked
<1> QED BY <1>9, <1>10, <1>11, <1>12, <1>13

\* wakeup() on such a channel begins ...
LEMMA WakeupIInv ==
  ASSUME IInv, NEW p \in Procs, proc[p].state = "RUNNING", thread[p].pc \in CallPoints,
         NEW chan \in CallChans, NEW then \in CallPoints, Step(p, Wakeup(p, chan, then), proc)
  PROVE  IInv'
<1> USE ProcAssumption DEF ProcAssumption, IInv, Procs, initproc, None
<1>1. proc' = proc /\ nextpid' = nextpid /\ panicked' = panicked
  BY DEF Step
<1>2. /\ thread' \in Threads /\ thread'[p].pc = "wakeup" /\ thread'[p].scan = 1 /\ thread'[p].then = then
      /\ \A q \in Procs : q # p => thread'[q] = thread[q]
  <2> DEFINE n == 1
  <2>1. /\ n \in 1 .. NPROC + 1
        /\ thread' = [thread EXCEPT ![p] = [thread[p] EXCEPT !.pc = "wakeup", !.scan = n, !.chan = chan, !.then = then]]
    BY DEF Step, Wakeup
  <2> HIDE DEF n
  <2>2. /\ thread' \in Threads /\ thread'[p].pc = "wakeup" /\ thread'[p].scan = n /\ thread'[p].then = then
        /\ \A q \in Procs : q # p => thread'[q] = thread[q]
    BY <2>1 DEF Types, Threads, Locals, Points
  <2> QED BY <2>2 DEF n
<1>3. thread[p].pc \notin {"none", "lockself", "reparent", "zombie", "dying", "scan", "sleep", "wakeup"}
  BY CallFacts
<1>4. Types' /\ Tree' /\ KilledAwake'
  BY <1>1, <1>2 DEF Types, Tree, Live, KilledAwake
<1>5. Control'
  <2>1. "wakeup" \in PointsOf("RUNNING") /\ 1 \in Procs
    BY DEF PointsOf
  <2> QED BY <1>1, <1>2, <2>1 DEF Control
<1>6. InitStays'
  BY <1>1, <1>2 DEF InitStays
<1>7. Locks'
  BY <1>1, <1>2, <1>3 DEF Locks, Holds
<1>8. Exits' /\ Looked'
  BY <1>1, <1>2, <1>3 DEF Exits, Looked
<1> QED BY <1>4, <1>5, <1>6, <1>7, <1>8

\* ... and goes round the table.
LEMMA WakeupOneIInv == ASSUME IInv, NEW p \in Procs, WakeupOne(p) PROVE IInv'
<1> USE ProcAssumption DEF ProcAssumption, IInv, Procs, initproc, None
<1>1. PICK q \in Procs : q = thread[p].scan
  BY DEF WakeupOne, At, Control
<1>2. /\ proc[p].state = "RUNNING" /\ thread[p].pc = "wakeup" /\ proc[q].lock = None
      /\ thread[p].then \in CallPoints /\ nextpid' = nextpid /\ panicked' = panicked
  BY <1>1 DEF WakeupOne, At, Control, Free, Step
<1>3. /\ thread' \in Threads
      /\ \A r \in Procs : r # p => thread'[r] = thread[r]
      /\ \/ thread'[p].pc = "wakeup" /\ thread'[p].then = thread[p].then /\ thread'[p].scan \in Procs
         \/ thread'[p].pc \in CallPoints /\ thread'[p].scan = 1
  <2>1. CASE q = NPROC
    <3> DEFINE n == 1
               c == NoChan
               pc == thread[p].then
    <3>1. /\ n \in 1 .. NPROC + 1 /\ c \in {NoChan} \cup CallChans /\ pc \in CallPoints
          /\ thread' = [thread EXCEPT ![p] = [thread[p] EXCEPT !.pc = pc, !.then = "none", !.scan = n, !.chan = c]]
      BY <1>1, <1>2, <2>1 DEF WakeupOne, Step
    <3> HIDE DEF n, c, pc
    <3>2. /\ thread' \in Threads /\ thread'[p].pc = pc /\ thread'[p].scan = n
          /\ \A r \in Procs : r # p => thread'[r] = thread[r]
      BY <3>1 DEF Types, Threads, Locals
    <3> QED BY <3>1, <3>2 DEF n
  <2>2. CASE q # NPROC
    <3> DEFINE n == q + 1
    <3>1. /\ n \in 1 .. NPROC + 1 /\ n \in Procs
          /\ thread' = [thread EXCEPT ![p] = [thread[p] EXCEPT !.scan = n]]
      BY <1>1, <2>2 DEF WakeupOne, Step
    <3> HIDE DEF n
    <3>2. /\ thread' \in Threads /\ thread'[p].pc = thread[p].pc /\ thread'[p].scan = n
          /\ thread'[p].then = thread[p].then
          /\ \A r \in Procs : r # p => thread'[r] = thread[r]
      BY <3>1 DEF Types, Threads, Locals
    <3> QED BY <3>1, <3>2, <1>2
  <2> QED BY <2>1, <2>2
<1>4. /\ proc' \in Table
      /\ \A r \in Procs : r # q => proc'[r] = proc[r]
      /\ proc'[q].parent = proc[q].parent /\ proc'[q].killed = proc[q].killed
      /\ proc'[q].pid = proc[q].pid /\ proc'[q].lock = proc[q].lock
      /\ \/ proc'[q].state = proc[q].state /\ proc'[q].chan = proc[q].chan
         \/ proc'[q].state = "RUNNABLE" /\ proc[q].state = "SLEEPING"
  <2> DEFINE sleeps == proc[q].state = "SLEEPING" /\ proc[q].chan = thread[p].chan
  <2>1. proc' = IF sleeps THEN Runnable(proc, q) ELSE proc
    BY <1>1 DEF WakeupOne, Step
  <2>2. CASE sleeps
    BY <2>1, <2>2 DEF Types, Table, Entry, States, Runnable
  <2>3. CASE ~sleeps
    BY <2>1, <2>3 DEF Types
  <2> QED BY <2>2, <2>3
<1>5. Types' /\ KilledAwake'
  BY <1>2, <1>3, <1>4 DEF Types, KilledAwake
<1>6. Tree'
  BY <1>2, <1>4 DEF Types, Tree, Live
<1>7. Control'
  <2>1. "wakeup" \in PointsOf("RUNNING") /\ CallPoints \subseteq PointsOf("RUNNING")
    BY DEF PointsOf
  <2>2. "asleep" \in PointsOf("RUNNABLE") /\ PointsOf("SLEEPING") = {"asleep"}
    BY DEF PointsOf
  <2>3. \A r \in Procs : r # p => thread'[r].pc \in PointsOf(proc'[r].state)
    BY <1>2, <1>3, <1>4, <2>2 DEF Control
  <2>4. proc'[p].state = "RUNNING"
    BY <1>2, <1>4
  <2>5. thread'[p].pc \in PointsOf(proc'[p].state)
    BY <1>3, <2>1, <2>4
  <2> QED BY <1>2, <1>3, <2>3, <2>5, CallFacts DEF Control
<1>8. InitStays'
  BY <1>2, <1>3, <1>4 DEF InitStays
<1>9. Locks'
  <2>1. \A r \in Procs : proc'[r].lock = proc[r].lock
    BY <1>4
  <2>2. /\ thread[p].pc \notin {"lockself", "reparent", "zombie", "dying", "scan", "sleep"}
        /\ thread'[p].pc \notin {"lockself", "reparent", "zombie", "dying", "scan", "sleep"}
    BY <1>2, <1>3, CallFacts
  <2> QED BY <1>3, <2>1, <2>2 DEF Locks, Holds
<1>10. Exits' /\ Looked'
  <2>1. /\ thread[p].pc \notin {"lockparent", "lockself", "reparent", "zombie", "scan"}
        /\ thread'[p].pc \notin {"lockparent", "lockself", "reparent", "zombie", "scan"}
    BY <1>2, <1>3, CallFacts
  <2>2. /\ \A r \in Procs : proc'[r].parent = proc[r].parent
        /\ \A r \in Procs : proc'[r].state = "ZOMBIE" <=> proc[r].state = "ZOMBIE"
        /\ \A r \in Procs : proc'[r].state = "SLEEPING" => proc'[r].state = proc[r].state /\ proc'[r].chan = proc[r].chan
    BY <1>4
  <2>3. Exits'
    BY <1>3, <2>1, <2>2 DEF Exits
  <2>4. Looked'
    BY <1>3, <2>1, <2>2 DEF Looked
  <2> QED BY <2>3, <2>4
<1> QED BY <1>5, <1>6, <1>7, <1>8, <1>9, <1>10

LEMMA KernelIInv == ASSUME IInv, NEW p \in Procs, Kernel(p) PROVE IInv'
<1>1. CASE WakeInit(p)
  BY <1>1, WakeInitIInv
<1>2. CASE ReadParent(p)
  BY <1>2, ReadParentIInv
<1>3. CASE LockParent(p)
  BY <1>3, LockParentIInv
<1>4. CASE LockSelf(p)
  BY <1>4, LockSelfIInv
<1>5. CASE Reparent(p)
  BY <1>5, ReparentIInv
<1>6. CASE Zombie(p)
  BY <1>6, ZombieIInv
<1>7. CASE Die(p)
  BY <1>7, DieIInv
<1>8. CASE Scan(p)
  BY <1>8, ScanIInv
<1>9. CASE WaitSleep(p)
  BY <1>9, WaitSleepIInv
<1>10. CASE Wait(p)
  BY <1>10, WaitIInv
<1> QED BY <1>1, <1>2, <1>3, <1>4, <1>5, <1>6, <1>7, <1>8, <1>9, <1>10 DEF Kernel

LEMMA NextIInv == IInv /\ [Next]_procvars => IInv'
<1> SUFFICES ASSUME IInv, [Next]_procvars PROVE IInv'
  OBVIOUS
<1>1. ASSUME NEW p \in Procs, Dispatch(p) PROVE IInv'
  BY <1>1, DispatchIInv
<1>2. ASSUME NEW p \in Procs, Yield(p) PROVE IInv'
  BY <1>2, YieldIInv
<1>3. ASSUME NEW p \in Procs, Fork(p) PROVE IInv'
  BY <1>3, ForkIInv
<1>4. ASSUME NEW p \in Procs, Kill(p) PROVE IInv'
  BY <1>4, KillIInv
<1>5. ASSUME NEW p \in Procs, Exit(p) PROVE IInv'
  BY <1>5, ExitIInv
<1>6. ASSUME NEW p \in Procs, WaitCall(p) PROVE IInv'
  BY <1>6, WaitCallIInv
<1>7. ASSUME NEW p \in Procs, Kernel(p) PROVE IInv'
  BY <1>7, KernelIInv
<1>8. CASE UNCHANGED procvars
  <2>1. proc' = proc /\ thread' = thread /\ nextpid' = nextpid /\ panicked' = panicked
    BY <1>8 DEF procvars
  <2> QED BY <2>1 DEF IInv, Types, Control, InitStays, Locks, Holds, Tree, Live, Exits, Looked, KilledAwake
<1> QED BY <1>1, <1>2, <1>3, <1>4, <1>5, <1>6, <1>7, <1>8 DEF Next

THEOREM ProcInvariant == Spec => []IInv
BY InitIInv, NextIInv, PTL DEF Spec

-----------------------------------------------------------------------------
(* What follows from it.                                                   *)

LEMMA IInvProcessTree == IInv => ProcessTree
<1> SUFFICES ASSUME IInv PROVE ProcessTree
  OBVIOUS
<1> USE ProcAssumption DEF ProcAssumption, IInv, Procs, initproc, None
<1>1. ASSUME NEW p \in Procs \ {initproc}, Live(p)
      PROVE  proc[p].parent # None /\ Live(proc[p].parent)
  BY <1>1 DEF Tree, Live
<1>2. ASSUME NEW p \in Procs, proc[p].state = "UNUSED"
      PROVE  thread[p] = NoThread /\ Children(p) = {}
  <2>1. thread[p].pc = "none"
    BY <1>2 DEF Control, PointsOf
  <2>2. \A q \in Procs : proc[q].parent # p
    BY <1>2 DEF Tree, Live, InitStays
  <2> QED BY <2>1, <2>2 DEF Control, Children
<1> QED BY <1>1, <1>2 DEF ProcessTree

\* Whatever the number of entries and of CPUs, and whoever exits, forks, waits and is
\* killed at the same time: the parent of a process is alive, and an entry that is free has
\* no thread and no children (exit(), reparent(), wait() and freeproc() together).
THEOREM ProcProcessTree == Spec => []ProcessTree
BY ProcInvariant, IInvProcessTree, PTL

LEMMA IInvNoLostWakeup == IInv => NoLostWakeup
BY DEF IInv, NoLostWakeup, Looked, KilledAwake, Children

\* No parent sleeps in wait() over a child that has exited, or after it was killed: since
\* wait() holds p->lock from its first look at a child until it sleeps, and exit() holds it
\* from reparent() to wakeup1().
THEOREM ProcNoLostWakeup == Spec => []NoLostWakeup
BY ProcInvariant, IInvNoLostWakeup, PTL

\* What a thread is after in each of the loops and calls that it is in.
LEMMA WantsFacts ==
  ASSUME IInv, NEW p \in Procs, Wants(p) # None
  PROVE  /\ Wants(p) \in Procs
         /\ thread[p].pc \notin {"zombie", "dying", "sleep"}
         /\ thread[p].pc = "lockself" => Wants(p) = p
         /\ thread[p].pc \in {"reparent", "scan"} => proc[Wants(p)].parent = p
<1> USE ProcAssumption DEF ProcAssumption, IInv, Procs, initproc, None
<1>1. thread[p].pc \in Points \cup CallPoints
  BY DEF Types, Threads, Locals
<1>2. CASE thread[p].pc \in {"reparent", "scan"}
  <2> DEFINE left == {q \in Children(p) : q >= thread[p].scan}
  <2>1. Wants(p) = IF left = {} THEN None ELSE CHOOSE q \in left : \A r \in left : q <= r
    BY <1>2 DEF Wants
  <2>2. left # {} /\ left \in SUBSET Procs
    BY <2>1 DEF Children
  <2>3. \E q \in left : \A r \in left : q <= r
    BY <2>2, LeastExists
  <2>4. Wants(p) \in left
    BY <2>1, <2>2, <2>3
  <2> QED BY <1>2, <2>4 DEF Children
<1>3. CASE thread[p].pc = "exit"
  BY <1>3 DEF Wants
<1>4. CASE thread[p].pc = "lockparent"
  BY <1>4 DEF Wants, Control
<1>5. CASE thread[p].pc = "lockself"
  BY <1>5 DEF Wants
<1>6. CASE thread[p].pc \in {"none", "user", "wait", "readparent", "zombie", "dying", "asleep", "sleep"} \cup CallPoints
  BY <1>6, CallFacts DEF Wants
<1>7. CASE thread[p].pc = "wakeup"
  BY <1>7 DEF Wants, Control
<1> QED BY <1>1, <1>2, <1>3, <1>4, <1>5, <1>6, <1>7 DEF Points

\* A child is younger than its parent ...
LEMMA ChildYounger ==
  ASSUME IInv, NEW q \in Procs, proc[q].parent # None
  PROVE  proc[q].parent \in Procs /\ proc[proc[q].parent].pid < proc[q].pid
BY ProcAssumption DEF ProcAssumption, IInv, InitStays, Tree, Procs, initproc, None

\* ... and who holds the lock of another entry holds its parent's, unless that is stale.
LEMMA HolderYounger ==
  ASSUME IInv, NEW q \in Procs, NEW g \in Procs, proc[q].lock = g, ~Stale(g), g # q
  PROVE  proc[q].pid < proc[g].pid
<1>1. q = thread[g].original_parent
  BY DEF IInv, Locks, Holds
<1>2. proc[g].parent = q
  BY <1>1, ProcAssumption DEF Stale, ProcAssumption, Procs, None
<1>3. proc[g].parent # None
  BY <1>2, ProcAssumption DEF ProcAssumption, Procs, None
<1> QED BY <1>2, <1>3, ChildYounger

\* Of the processes that hold a lock and wait for one, the youngest waits for a younger one.
LEMMA IInvNoLockCycle == IInv => NoLockCycle
<1> SUFFICES ASSUME IInv, NEW waiting \in (SUBSET Procs) \ {{}}, Blocked(waiting),
                    ~ \E p \in waiting : Stale(p)
             PROVE  FALSE
  BY DEF NoLockCycle
<1>0. waiting \in SUBSET Procs /\ waiting # {} /\ \A p \in waiting : ~Stale(p)
  OBVIOUS
<1> DEFINE H == {h \in waiting : \E q \in Procs : proc[q].lock = h}
<1>1. \A p \in waiting : Wants(p) \in Procs /\ proc[Wants(p)].lock \in H
  BY <1>0, WantsFacts DEF Blocked
<1>2. PICK h \in H : \A g \in H : proc[g].pid <= proc[h].pid
  <2> DEFINE age(g) == nextpid - proc[g].pid
             ages == {age(g) : g \in H}
             R == OpToRel(<, Nat)
  <2>1. \A g \in Procs : age(g) \in Nat /\ proc[g].pid \in Nat
    BY DEF IInv, Types, Table, Entry, Tree
  <2>2. ages # {} /\ ages \subseteq Nat
    BY <1>0, <1>1, <2>1
  <2>3. IsWellFoundedOn(R, Nat)
    BY NatLessThanWellFounded
  <2>4. PICK a \in ages : \A b \in ages : ~(<<b, a>> \in R)
    BY <2>2, <2>3, WFMin
  <2>5. PICK h \in H : a = age(h)
    OBVIOUS
  <2>6. ASSUME NEW g \in H PROVE proc[g].pid <= proc[h].pid
    <3>1. age(g) \in Nat /\ age(h) \in Nat
      BY <2>1
    <3>2. ~(age(g) < age(h))
      BY <2>4, <2>5, <3>1 DEF OpToRel
    <3>3. proc[g].pid \in Nat /\ proc[h].pid \in Nat /\ nextpid \in Nat
      BY <2>1 DEF IInv, Types
    <3> QED BY <3>2, <3>3
  <2> QED BY <2>6
<1> DEFINE c == Wants(h)
           g == proc[c].lock
<1>3. /\ h \in Procs /\ c \in Procs /\ c # None /\ g \in H /\ g \in Procs /\ ~Stale(g)
      /\ proc[h].pid \in Nat /\ proc[c].pid \in Nat /\ proc[g].pid \in Nat
  BY <1>0, <1>1 DEF Blocked, IInv, Types, Table, Entry
<1>4. thread[h].pc \in {"lockself", "reparent", "scan"}
  BY <1>3, WantsFacts DEF IInv, Locks, Holds
<1> HIDE DEF H, c, g
<1>5. CASE thread[h].pc = "lockself"
  <2>1. c = h
    BY <1>3, <1>5, WantsFacts DEF c
  <2>2. g # h
    BY <1>3, <1>5, <2>1, ProcAssumption DEF g, IInv, Control, Locks, Holds
  <2>3. proc[h].pid < proc[g].pid
    BY <1>3, <2>1, <2>2, HolderYounger DEF g
  <2> QED BY <1>2, <1>3, <2>3
<1>6. CASE thread[h].pc \in {"reparent", "scan"}
  <2>1. proc[c].parent = h
    BY <1>3, <1>6, WantsFacts DEF c
  <2>2. proc[h].pid < proc[c].pid
    BY <1>3, <2>1, ChildYounger, ProcAssumption DEF ProcAssumption, Procs, None
  <2>3. CASE g = c
    BY <1>2, <1>3, <2>2, <2>3
  <2>4. CASE g # c
    <3>1. proc[c].pid < proc[g].pid
      BY <1>3, <2>4, HolderYounger DEF g
    <3> QED BY <1>2, <1>3, <2>2, <3>1
  <2> QED BY <2>3, <2>4
<1> QED BY <1>4, <1>5, <1>6

LEMMA IInvTypeOK == IInv => TypeOK
<1> SUFFICES ASSUME IInv, NEW p \in Procs
             PROVE  /\ proc[p].state \in States
                    /\ proc[p].parent \in 0 .. NPROC /\ proc[p].killed \in BOOLEAN
                    /\ thread[p].scan \in 1 .. NPROC + 1
                    /\ proc[p].lock \in {q \in Procs : thread[q].pc \notin {"none", "user", "asleep"}} \cup {None}
  BY DEF TypeOK, States
<1>1. /\ proc[p].state \in States /\ proc[p].parent \in 0 .. NPROC /\ proc[p].killed \in BOOLEAN
      /\ thread[p].scan \in 1 .. NPROC + 1 /\ proc[p].lock \in 0 .. NPROC
  BY DEF IInv, Types, Table, Entry, Threads, Locals
<1>2. CASE proc[p].lock = None
  BY <1>1, <1>2
<1>3. CASE proc[p].lock # None
  <2>1. proc[p].lock \in Procs
    BY <1>1, <1>3, ProcAssumption DEF ProcAssumption, Procs, None
  <2>2. thread[proc[p].lock].pc \notin {"none", "user", "asleep"}
    BY <2>1 DEF IInv, Locks, Holds
  <2> QED BY <1>1, <2>1, <2>2
<1> QED BY <1>2, <1>3

\* No thread leaves its CPU without its own lock or with another, init never exits, and a
\* circle of processes that wait for each other's locks goes through one that read its
\* parent in exit() before that parent exited (the lock order is "parent, then child").
THEOREM ProcLocksSound == Spec => []LocksSound
<1>1. IInv => LocksSound
  BY IInvTypeOK, IInvNoLockCycle DEF LocksSound, NoPanic, IInv, Types
<1> QED BY <1>1, ProcInvariant, PTL

-----------------------------------------------------------------------------
(* The pipe: its inductive invariant.                                      *)

Bytes == Procs \X Nat
Cells == 0 .. PIPESIZE - 1
Counters == 0 .. CountMod - 1

PipeRecord == [lock : 0 .. NPROC, data : [Cells -> Bytes \cup {<<>>}], nread : Counters, nwrite : Counters,
               readopen : BOOLEAN, writeopen : BOOLEAN, freed : BOOLEAN]
IoRecord == [n : Nat, i : Nat, end : Ends, ret : {"user", "exit"}, calls : Nat, sent : Nat]

PipeTypes ==
    /\ pipe \in PipeRecord /\ ref \in [Ends -> Nat] /\ fds \in [Procs -> SUBSET Ends]
    /\ io \in [Procs -> IoRecord]
    /\ Count \in 0 .. PIPESIZE
    /\ silent \in BOOLEAN

\* Where a process is, or will be when it has slept or woken the others.
Place(p) == IF thread[p].pc \in {"asleep", "sleep", "wakeup"} THEN thread[p].then ELSE thread[p].pc

\* Who is between acquire(&pi->lock) and its release.
Locked(p) == thread[p].pc \in {"read", "readsleep", "copy", "write", "writesleep", "return", "closing", "closed", "wakeup"}
PipeLocks == \A p \in Procs : pipe.lock = p <=> Locked(p)

\* What is slept on, and who is woken, in which call.
SleepsOn(then, chan) ==
    \/ then = "readlock" /\ chan = Nread
    \/ then = "writelock" /\ chan = Nwrite
Wakes(then, chan) ==
    \/ chan = Nread /\ then \in {"writesleep", "return", "closed"}
    \/ chan = Nwrite /\ then \in {"return", "closed"}
Thens ==
    \A p \in Procs :
        /\ thread[p].pc = "sleep" => SleepsOn(thread[p].then, thread[p].chan)
        /\ thread[p].pc = "asleep" => thread[p].then \in {"readlock", "writelock", "scan"}
        /\ thread[p].pc = "asleep" /\ proc[p].state = "SLEEPING" =>
              \/ SleepsOn(thread[p].then, proc[p].chan)
              \/ thread[p].then = "scan" /\ proc[p].chan = WaitChan(p)
        /\ thread[p].pc = "wakeup" => Wakes(thread[p].then, thread[p].chan)
        /\ thread[p].pc \notin {"asleep", "sleep", "wakeup"} => thread[p].then = "none"

\* The references are exact, an end with references is open, and who has closed its files,
\* or never had a thread, has none.
Openers(e) == {p \in Procs : e \in fds[p]}
Open(e) == IF e = "w" THEN pipe.writeopen ELSE pipe.readopen
Closed == {"none", "readparent", "lockparent", "lockself", "reparent", "zombie", "dying"}
Files ==
    /\ \A e \in Ends : ref[e] = Cardinality(Openers(e)) /\ (ref[e] > 0 => Open(e))
    /\ \A p \in Procs : thread[p].pc \in Closed => fds[p] = {}

\* A call keeps open the end that it was made on.
Calls ==
    \A p \in Procs :
        /\ Place(p) \in {"readlock", "read", "readsleep", "copy"} => "r" \in fds[p]
        /\ Place(p) \in {"writelock", "write", "writesleep"} => "w" \in fds[p]
        /\ Place(p) = "return" => fds[p] # {}

\* The last close() of an end is on its way to pipeclose(), alone; the pipe is freed after
\* both, when nobody is in pipeclose() any more.
Closes ==
    /\ \A p \in Procs : thread[p].pc \in {"pipeclose", "closing"} =>
          /\ ref[io[p].end] = 0 /\ Open(io[p].end)
          /\ \A q \in Procs \ {p} : thread[q].pc \in {"pipeclose", "closing"} => io[q].end # io[p].end
    /\ \A p \in Procs : Place(p) = "closed" => ~pipe.freed
    /\ pipe.freed => ~pipe.readopen /\ ~pipe.writeopen
    /\ io[initproc].ret = "user"

\* How far a read() or write() is.
Progress ==
    \A p \in Procs :
        /\ io[p].i <= io[p].n
        /\ Place(p) \notin {"copy", "writelock", "write", "writesleep", "return"} => io[p].i = 0
        /\ thread[p].pc = "copy" /\ io[p].i = 0 /\ Empty => ~pipe.writeopen
        /\ thread[p].pc = "wakeup" /\ thread[p].then = "return" /\ thread[p].chan = Nwrite /\ io[p].n > 0 /\ io[p].i = 0 =>
              Empty /\ ~pipe.writeopen
        /\ Place(p) = "writesleep" => Full /\ pipe.readopen
        /\ Place(p) = "readsleep" => Empty /\ pipe.writeopen

\* A process that sleeps, or is about to and has given the pipe's lock back, has a reason
\* to; or the one with the lock is changing that, or in the wakeup that will come to it.
Waiting(p, chan) == Asleep(p, chan) \/ (thread[p].pc = "sleep" /\ thread[p].chan = chan)
Writing(h) == thread[h].pc = "write" /\ io[h].i > 0
Waking(h, p, chan) == thread[h].pc = "wakeup" /\ thread[h].chan = chan /\ thread[h].scan <= p

ReadReason == pipe.writeopen /\ (Empty \/ silent)
WriteReason == Full /\ pipe.readopen

Reasons ==
    \A p \in Procs :
        /\ Waiting(p, Nread) =>
              ReadReason \/ \E h \in Procs : Writing(h) \/ Waking(h, p, Nread)
        /\ Waiting(p, Nwrite) =>
              WriteReason \/ \E h \in Procs : thread[h].pc = "copy" \/ Waking(h, p, Nwrite)

PipeInv == PipeTypes /\ PipeLocks /\ Thens /\ Files /\ Calls /\ Closes /\ Progress /\ Reasons

-----------------------------------------------------------------------------
(* Counting modulo CountMod.                                               *)

LEMMA CounterFacts ==
  ASSUME NEW a \in Counters, NEW b \in Counters
  PROVE  /\ (b - a) % CountMod = IF a <= b THEN b - a ELSE b - a + CountMod
         /\ (a + 1) % CountMod = (IF a = CountMod - 1 THEN 0 ELSE a + 1)
         /\ (a + 1) % CountMod \in Counters
BY PipeAssumption DEF PipeAssumption, Counters

LEMMA FullFacts ==
  ASSUME NEW a \in Counters
  PROVE  (a + PIPESIZE) % CountMod = IF a + PIPESIZE < CountMod THEN a + PIPESIZE ELSE a + PIPESIZE - CountMod
BY PipeAssumption DEF PipeAssumption, Counters

\* The two tests of the code are tests of the number of bytes in the buffer ...
LEMMA FullEmpty ==
  ASSUME PipeTypes
  PROVE  (Full <=> Count = PIPESIZE) /\ (Empty <=> Count = 0)
<1> DEFINE a == pipe.nread
           b == pipe.nwrite
<1>1. a \in Counters /\ b \in Counters
  BY DEF PipeTypes, PipeRecord
<1>2. Count = (IF a <= b THEN b - a ELSE b - a + CountMod) /\ Count \in 0 .. PIPESIZE
  BY <1>1, CounterFacts DEF Count, PipeTypes
<1>3. Full <=> b = IF a + PIPESIZE < CountMod THEN a + PIPESIZE ELSE a + PIPESIZE - CountMod
  BY <1>1, FullFacts DEF Full
<1>4. Empty <=> a = b
  BY DEF Empty
<1> HIDE DEF a, b
<1> QED BY <1>1, <1>2, <1>3, <1>4, PipeAssumption DEF PipeAssumption, Counters

\* ... which a write adds one to, and a read takes one from.
LEMMA CountUp ==
  ASSUME NEW a \in Counters, NEW b \in Counters, (b - a) % CountMod < PIPESIZE
  PROVE  (((b + 1) % CountMod) - a) % CountMod = ((b - a) % CountMod) + 1
<1> DEFINE c == (b + 1) % CountMod
<1>1. c = (IF b = CountMod - 1 THEN 0 ELSE b + 1) /\ c \in Counters
  BY CounterFacts
<1> HIDE DEF c
<1>2. /\ (b - a) % CountMod = IF a <= b THEN b - a ELSE b - a + CountMod
      /\ (c - a) % CountMod = IF a <= c THEN c - a ELSE c - a + CountMod
  BY <1>1, CounterFacts
<1>3. (c - a) % CountMod = ((b - a) % CountMod) + 1
  BY <1>1, <1>2, PipeAssumption DEF PipeAssumption, Counters
<1> QED BY <1>3 DEF c

LEMMA CountDown ==
  ASSUME NEW a \in Counters, NEW b \in Counters, a # b
  PROVE  (b - ((a + 1) % CountMod)) % CountMod = ((b - a) % CountMod) - 1
<1> DEFINE c == (a + 1) % CountMod
<1>1. c = (IF a = CountMod - 1 THEN 0 ELSE a + 1) /\ c \in Counters
  BY CounterFacts
<1> HIDE DEF c
<1>2. /\ (b - a) % CountMod = IF a <= b THEN b - a ELSE b - a + CountMod
      /\ (b - c) % CountMod = IF c <= b THEN b - c ELSE b - c + CountMod
  BY <1>1, CounterFacts
<1>3. (b - c) % CountMod = ((b - a) % CountMod) - 1
  BY <1>1, <1>2, PipeAssumption DEF PipeAssumption, Counters
<1> QED BY <1>3 DEF c

-----------------------------------------------------------------------------
(* Places and channels.                                                    *)

LEMMA ChanFacts ==
    /\ Nread \in CallChans /\ Nwrite \in CallChans /\ Nread # Nwrite
    /\ \A c \in CallChans : c = Nread \/ c = Nwrite
    /\ \A p \in Procs : WaitChan(p) # Nread /\ WaitChan(p) # Nwrite
BY DEF CallChans, Nread, Nwrite, WaitChan

\* Only a reader sleeps until there is something to read, and only a writer until there is room.
LEMMA WaitingFacts ==
  ASSUME IInv, PipeInv, NEW p \in Procs
  PROVE  /\ Waiting(p, Nread) => "r" \in fds[p] /\ thread[p].pc \in {"sleep", "asleep"} /\ thread[p].then = "readlock"
         /\ Waiting(p, Nwrite) => "w" \in fds[p] /\ thread[p].pc \in {"sleep", "asleep"} /\ thread[p].then = "writelock"
<1>1. Asleep(p, Nread) \/ Asleep(p, Nwrite) => thread[p].pc = "asleep"
  BY DEF IInv, Control, PointsOf, Asleep
<1>2. Waiting(p, Nread) => thread[p].pc \in {"sleep", "asleep"} /\ thread[p].then = "readlock"
  BY <1>1, ChanFacts DEF Waiting, Asleep, PipeInv, Thens, SleepsOn
<1>3. Waiting(p, Nwrite) => thread[p].pc \in {"sleep", "asleep"} /\ thread[p].then = "writelock"
  BY <1>1, ChanFacts DEF Waiting, Asleep, PipeInv, Thens, SleepsOn
<1> QED BY <1>2, <1>3 DEF PipeInv, Calls, Place

\* An end that somebody has open is open in the pipe.
LEMMA OpenersFinite ==
  ASSUME NEW e
  PROVE  IsFiniteSet(Openers(e)) /\ Cardinality(Openers(e)) \in Nat
<1>1. IsFiniteSet(Procs)
  BY FS_Interval, ProcAssumption DEF Procs, ProcAssumption
<1> QED BY <1>1, FS_Subset, FS_CardinalityType DEF Openers

LEMMA HasOpen ==
  ASSUME PipeInv, NEW p \in Procs, NEW e \in fds[p]
  PROVE  e \in Ends /\ ref[e] > 0 /\ Open(e)
<1>1. e \in Ends
  BY DEF PipeInv, PipeTypes
<1>2. p \in Openers(e)
  BY DEF Openers
<1>3. Cardinality(Openers(e)) > 0
  BY <1>2, OpenersFinite, FS_EmptySet
<1> QED BY <1>1, <1>3 DEF PipeInv, Files

LEMMA StringFacts ==
  /\ \A point \in {"readlock", "read", "readsleep", "copy", "writelock", "write", "writesleep", "return", "pipeclose", "closing", "closed"} :
        point \in CallPoints
  /\ \A point \in CallPoints :
        point \in {"readlock", "read", "readsleep", "copy", "writelock", "write", "writesleep", "return", "pipeclose", "closing", "closed"}
BY DEF CallPoints

\* A step of the processes that leaves the pipe and its files alone.
LEMMA QuietStep ==
  ASSUME PipeInv, UNCHANGED pipevars, Thens',
         \A q \in Procs : Locked(q)' <=> Locked(q),
         \A q \in Procs : thread'[q].pc \in Closed => fds[q] = {},
         \A q \in Procs : Place(q) \in CallPoints \/ Place(q)' \in CallPoints => Place(q)' = Place(q),
         \A q \in Procs : thread'[q].pc = "wakeup" =>
             thread[q].pc = "wakeup" /\ thread'[q].then = thread[q].then /\ thread'[q].chan = thread[q].chan,
         \A q \in Procs : \A c \in {Nread, Nwrite} : Waiting(q, c)' => Waiting(q, c),
         \A q \in Procs, h \in Procs : \A c \in {Nread, Nwrite} : Waking(h, q, c) /\ Waiting(q, c)' => Waking(h, q, c)'
  PROVE  PipeInv'
<1>1. /\ pipe' = pipe /\ ref' = ref /\ fds' = fds /\ io' = io /\ silent' = silent
      /\ Count' = Count /\ (Full' <=> Full) /\ (Empty' <=> Empty) /\ \A e : Openers(e)' = Openers(e) /\ (Open(e)' <=> Open(e))
  BY DEF pipevars, Count, Full, Empty, Openers, Open
<1>2. PipeTypes' /\ PipeLocks'
  BY <1>1 DEF PipeInv, PipeTypes, PipeLocks
<1>3. Files'
  BY <1>1 DEF PipeInv, Files
<1>4. Calls'
  BY <1>1, StringFacts DEF PipeInv, Calls
<1>5. \A q \in Procs : \A point \in {"pipeclose", "closing", "copy", "write"} :
         thread'[q].pc = point <=> thread[q].pc = point
  <2> SUFFICES ASSUME NEW q \in Procs, NEW point \in {"pipeclose", "closing", "copy", "write"}
               PROVE  thread'[q].pc = point <=> thread[q].pc = point
    OBVIOUS
  <2>1. thread[q].pc = point <=> Place(q) = point
    BY DEF PipeInv, Thens, SleepsOn, Wakes, Place
  <2>2. thread'[q].pc = point <=> Place(q)' = point
    BY DEF Thens, SleepsOn, Wakes, Place
  <2>3. point \in CallPoints
    BY StringFacts
  <2> QED BY <2>1, <2>2, <2>3
<1>6. Closes'
  BY <1>1, <1>5, StringFacts DEF PipeInv, Closes
<1>7. Progress'
  BY <1>1, <1>5, StringFacts DEF PipeInv, Progress
<1>8. Reasons'
  <2> SUFFICES ASSUME NEW p \in Procs
               PROVE  /\ Waiting(p, Nread)' => ReadReason' \/ \E h \in Procs : Writing(h)' \/ Waking(h, p, Nread)'
                      /\ Waiting(p, Nwrite)' => WriteReason' \/ \E h \in Procs : thread'[h].pc = "copy" \/ Waking(h, p, Nwrite)'
    BY DEF Reasons
  <2>1. (ReadReason => ReadReason') /\ (WriteReason => WriteReason')
    BY <1>1 DEF ReadReason, WriteReason
  <2>2. \A h \in Procs : Writing(h) => Writing(h)'
    BY <1>1, <1>5 DEF Writing
  <2>3. \A h \in Procs : thread[h].pc = "copy" => thread'[h].pc = "copy"
    BY <1>5
  <2>4. /\ Waiting(p, Nread) => ReadReason \/ \E h \in Procs : Writing(h) \/ Waking(h, p, Nread)
        /\ Waiting(p, Nwrite) => WriteReason \/ \E h \in Procs : thread[h].pc = "copy" \/ Waking(h, p, Nwrite)
    BY DEF PipeInv, Reasons
  <2> QED BY <2>1, <2>2, <2>3, <2>4
<1> QED BY <1>2, <1>3, <1>4, <1>6, <1>7, <1>8 DEF PipeInv

-----------------------------------------------------------------------------
(* The steps of Proc.                                                      *)

Plain == Points \ {"asleep", "sleep", "wakeup"}

\* What the loops of exit() and wait() change of a thread's locals.
LEMMA LoopLocals ==
  ASSUME NEW l \in Locals, NEW n
  PROVE  /\ LET z == [l EXCEPT !.pc = "zombie", !.scan = 1] IN z.pc = "zombie" /\ z.then = l.then
         /\ LET s == [l EXCEPT !.scan = n, !.havekids = TRUE] IN s.pc = l.pc /\ s.then = l.then
         /\ LET w == [l EXCEPT !.pc = "scan", !.scan = 1, !.havekids = FALSE] IN w.pc = "scan" /\ w.then = l.then
<1>1. ASSUME NEW b, NEW m, NEW point
      PROVE  /\ LET z == [l EXCEPT !.pc = point, !.scan = m] IN z.pc = point /\ z.then = l.then
             /\ LET s == [l EXCEPT !.scan = n, !.havekids = b] IN s.pc = l.pc /\ s.then = l.then
             /\ LET w == [l EXCEPT !.pc = point, !.scan = m, !.havekids = b] IN w.pc = point /\ w.then = l.then
  BY DEF Locals
<1> QED BY <1>1

LEMMA NewLocals == NoThread.then = "none" /\ User.then = "none"
<1>1. NoThread.then = "none"
  BY DEF NoThread
<1>2. User.then = NoThread.then
  <2>1. ASSUME NEW point PROVE [NoThread EXCEPT !.pc = point].then = NoThread.then
    BY DEF NoThread
  <2> QED BY <2>1 DEF User
<1> QED BY <1>1, <1>2

\* No entry falls asleep.
Awake ==
    \A q \in Procs : proc'[q].state = "SLEEPING" => proc[q].state = "SLEEPING" /\ proc'[q].chan = proc[q].chan

LEMMA PlainStep ==
  ASSUME IInv, PipeInv, UNCHANGED pipevars, NEW p \in Procs,
         \A q \in Procs \ {p} : thread'[q] = thread[q],
         \/ thread'[p] = thread[p]
         \/ thread[p].pc \in Plain /\ thread'[p].pc \in Plain /\ (thread'[p].pc \in Closed => fds[p] = {})
            /\ thread'[p].then \in {thread[p].then, "none"},
         Awake
  PROVE  PipeInv'
<1>1. \A q \in Procs : thread'[q] = thread[q] \/ (thread[q].pc \in Plain /\ thread'[q].pc \in Plain)
  OBVIOUS
<1>2. \A q \in Procs : thread[q].pc \in Plain => ~Locked(q) /\ Place(q) = thread[q].pc /\ thread[q].pc \notin CallPoints
  BY CallFacts DEF Plain, Points, Locked, Place
<1>3. \A q \in Procs : thread'[q].pc \in Plain => ~Locked(q)' /\ Place(q)' = thread'[q].pc /\ thread'[q].pc \notin CallPoints
  BY CallFacts DEF Plain, Points, Locked, Place
<1>4. Thens'
  BY <1>1 DEF PipeInv, Thens, Awake, Plain, SleepsOn, Wakes
<1>5. \A q \in Procs : Locked(q)' <=> Locked(q)
  BY <1>1, <1>2, <1>3 DEF Locked
<1>6. \A q \in Procs : thread'[q].pc \in Closed => fds[q] = {}
  BY DEF PipeInv, Files
<1>7. \A q \in Procs : Place(q) \in CallPoints \/ Place(q)' \in CallPoints => Place(q)' = Place(q)
  BY <1>1, <1>2, <1>3 DEF Place
<1>8. \A q \in Procs : thread'[q].pc \in {"wakeup", "sleep", "asleep"} => thread'[q] = thread[q]
  BY <1>1 DEF Plain
<1>9. \A q \in Procs : \A c \in {Nread, Nwrite} : Waiting(q, c)' => Waiting(q, c)
  BY <1>8 DEF Waiting, Asleep, Awake
<1>10. \A q \in Procs, h \in Procs : \A c \in {Nread, Nwrite} : Waking(h, q, c) => Waking(h, q, c)'
  BY <1>1 DEF Waking, Plain
<1> QED BY <1>4, <1>5, <1>6, <1>7, <1>8, <1>9, <1>10, QuietStep

LEMMA YieldPipe == ASSUME IInv, PipeInv, UNCHANGED pipevars, NEW p \in Procs, Yield(p) PROVE PipeInv'
<1>1. Awake /\ thread' = thread
  BY DEF IInv, Types, Table, Entry, Threads, Yield, Step, Runnable, Awake
<1> QED BY <1>1, PlainStep

LEMMA ExitPipe == ASSUME IInv, PipeInv, UNCHANGED pipevars, NEW p \in Procs, Exit(p) PROVE PipeInv'
<1>1. p # initproc
  BY DEF Exit, IInv, InitStays
<1>2. /\ thread' = [thread EXCEPT ![p] = [thread[p] EXCEPT !.pc = "exit"]] /\ thread[p].pc = "user"
      /\ proc' = proc
  BY <1>1 DEF Exit, At, Step
<1>3. /\ \A q \in Procs \ {p} : thread'[q] = thread[q]
      /\ thread'[p].pc = "exit"
  BY <1>2 DEF IInv, Types, Threads, Locals
<1> QED BY <1>2, <1>3, PlainStep DEF Awake, Plain, Points, Closed

LEMMA WaitCallPipe == ASSUME IInv, PipeInv, UNCHANGED pipevars, NEW p \in Procs, WaitCall(p) PROVE PipeInv'
<1>1. /\ thread' = [thread EXCEPT ![p] = [thread[p] EXCEPT !.pc = "wait"]] /\ thread[p].pc = "user"
      /\ proc' = proc
  BY DEF WaitCall, At, Step
<1>2. /\ \A q \in Procs \ {p} : thread'[q] = thread[q]
      /\ thread'[p].pc = "wait" /\ thread'[p].then = thread[p].then
  BY <1>1 DEF IInv, Types, Threads, Locals
<1> QED BY <1>1, <1>2, PlainStep DEF Awake, Plain, Points, Closed

LEMMA WaitPipe == ASSUME IInv, PipeInv, UNCHANGED pipevars, NEW p \in Procs, Wait(p) PROVE PipeInv'
<1>1. thread[p].pc = "wait" /\ proc' = [proc EXCEPT ![p].lock = p]
  BY DEF Wait, At, Step, Acquired
<1>2. /\ \A q \in Procs \ {p} : thread'[q] = thread[q]
      /\ thread'[p].pc = "scan" /\ thread'[p].then = thread[p].then
  <2>1. thread[p] \in Locals /\ thread \in Threads
    BY DEF IInv, Types, Threads
  <2>2. thread' = [thread EXCEPT ![p] = [thread[p] EXCEPT !.pc = "scan", !.scan = 1, !.havekids = FALSE]]
    BY DEF Wait, Step
  <2> DEFINE w == [thread[p] EXCEPT !.pc = "scan", !.scan = 1, !.havekids = FALSE]
  <2>3. w.pc = "scan" /\ w.then = thread[p].then
    BY <2>1, LoopLocals, Zenon
  <2> HIDE DEF w
  <2>4. thread'[p] = w /\ \A q \in Procs \ {p} : thread'[q] = thread[q]
    BY <2>1, <2>2 DEF Threads, w
  <2> QED BY <2>3, <2>4
<1>3. Awake
  BY <1>1 DEF IInv, Types, Table, Entry, Awake
<1> QED BY <1>1, <1>2, <1>3, PlainStep DEF Plain, Points, Closed

LEMMA KillPipe == ASSUME IInv, PipeInv, UNCHANGED pipevars, NEW p \in Procs, Kill(p) PROVE PipeInv'
<1>1. thread' = thread
  BY DEF Kill
<1>2. \A q \in Procs : proc'[q].state = "SLEEPING" => proc[q].state = "SLEEPING" /\ proc'[q].chan = proc[q].chan
  <2>1. PICK v \in Procs : proc' = [proc EXCEPT ![v].killed = TRUE,
                                                ![v].state = IF @ = "SLEEPING" THEN "RUNNABLE" ELSE @]
    BY DEF Kill
  <2>2. proc'[v].state # "SLEEPING" /\ \A q \in Procs \ {v} : proc'[q] = proc[q]
    BY <2>1 DEF IInv, Types, Table, Entry
  <2> QED BY <2>2
<1>3. Thens'
  BY <1>1, <1>2 DEF PipeInv, Thens
<1>4. \A q \in Procs : \A c \in {Nread, Nwrite} : Waiting(q, c)' => Waiting(q, c)
  BY <1>1, <1>2 DEF Waiting, Asleep
<1>5. \A q \in Procs, h \in Procs : \A c \in {Nread, Nwrite} : Waking(h, q, c) => Waking(h, q, c)'
  BY <1>1 DEF Waking
<1>6. \A q \in Procs : (Locked(q)' <=> Locked(q)) /\ Place(q)' = Place(q)
  BY <1>1 DEF Locked, Place
<1>7. \A q \in Procs : thread'[q].pc \in Closed => fds[q] = {}
  BY <1>1 DEF PipeInv, Files
<1> QED BY <1>1, <1>3, <1>4, <1>5, <1>6, <1>7, QuietStep

\* A thread goes on after sleep(), wherever it was called.
LEMMA DispatchPipe == ASSUME IInv, PipeInv, UNCHANGED pipevars, NEW p \in Procs, Dispatch(p) PROVE PipeInv'
<1> DEFINE slept == thread[p].pc = "asleep"
           pc == IF slept THEN thread[p].then ELSE thread[p].pc
           to == IF slept THEN "none" ELSE thread[p].then
           t == [proc EXCEPT ![p].state = "RUNNING", ![p].chan = IF slept THEN NoChan ELSE @]
<1>1. /\ thread' = [thread EXCEPT ![p] = [thread[p] EXCEPT !.pc = pc, !.then = to]]
      /\ proc' = (IF pc = "scan" THEN Acquired(t, p, p) ELSE t)
      /\ proc[p].state = "RUNNABLE"
  BY DEF Dispatch, Step
<1>2. Awake
  <2>1. \A q \in Procs \ {p} : t[q] = proc[q]
    BY DEF IInv, Types, Table
  <2>2. t[p].state = "RUNNING" /\ DOMAIN t = Procs
    BY DEF IInv, Types, Table, Entry
  <2>3. t[p] = [proc[p] EXCEPT !.state = "RUNNING", !.chan = IF slept THEN NoChan ELSE @]
    BY DEF IInv, Types, Table
  <2>4. t[p].state = "RUNNING" /\ DOMAIN t[p] = DOMAIN proc[p]
        /\ "lock" \in DOMAIN proc[p]
    BY <2>2, <2>3 DEF IInv, Types, Table, Entry
  <2> HIDE DEF t
  <2>5. /\ \A q \in Procs \ {p} : proc'[q] = proc[q]
        /\ proc'[p].state = "RUNNING"
    BY <1>1, <2>1, <2>2, <2>4 DEF Acquired, IInv, Types, Table, Entry
  <2> QED BY <2>5 DEF Awake
<1> HIDE DEF t
<1>3. /\ \A q \in Procs \ {p} : thread'[q] = thread[q]
      /\ thread'[p].pc = pc /\ thread'[p].then = to /\ thread'[p].chan = thread[p].chan /\ thread'[p].scan = thread[p].scan
  BY <1>1 DEF IInv, Types, Threads, Locals
<1>4. proc'[p].state # "SLEEPING"
  BY <1>1, <1>2 DEF Awake
<1>5. CASE slept
  <2>1. pc \in {"readlock", "writelock", "scan"} /\ thread'[p].pc = pc /\ thread[p].pc = "asleep"
    BY <1>3, <1>5 DEF PipeInv, Thens
  <2>2. pc \notin {"asleep", "sleep", "wakeup", "none"} /\ pc \notin Closed
    BY <2>1 DEF Closed
  <2>3. Place(p)' = Place(p) /\ ~Locked(p) /\ ~Locked(p)'
    BY <2>1 DEF Place, Locked
  <2>4. Thens'
    BY <1>2, <1>3, <2>1, <2>2 DEF PipeInv, Thens, SleepsOn, Wakes, Awake
  <2>5. \A q \in Procs : (Locked(q)' <=> Locked(q)) /\ Place(q)' = Place(q)
    BY <1>3, <2>3 DEF Locked, Place
  <2>6. \A q \in Procs : thread'[q].pc \in Closed => fds[q] = {}
    BY <1>3, <2>1, <2>2 DEF PipeInv, Files
  <2>7. \A q \in Procs : thread'[q].pc \in {"wakeup", "sleep", "asleep"} => thread'[q] = thread[q]
    BY <1>3, <2>1, <2>2
  <2>8. \A q \in Procs : \A c \in {Nread, Nwrite} : Waiting(q, c)' => Waiting(q, c)
    BY <1>2, <2>7 DEF Waiting, Asleep, Awake
  <2>9. \A q \in Procs, h \in Procs : \A c \in {Nread, Nwrite} : Waking(h, q, c) => Waking(h, q, c)'
    BY <1>3, <2>1 DEF Waking
  <2> QED BY <2>4, <2>5, <2>6, <2>7, <2>8, <2>9, QuietStep
<1>6. CASE ~slept
  <2>1. thread'[p] = thread[p]
    BY <1>1, <1>6 DEF IInv, Types, Threads, Locals
  <2> QED BY <1>1, <1>2, <1>3, <2>1, PlainStep
<1> QED BY <1>5, <1>6

\* What a step of p does to the threads.
LEMMA StepThread ==
  ASSUME IInv, NEW p \in Procs, NEW l, NEW t, Step(p, l, t)
  PROVE  thread'[p] = l /\ (\A q \in Procs \ {p} : thread'[q] = thread[q]) /\ proc' = t
BY DEF Step, IInv, Types, Threads

LEMMA AwakeFacts ==
  ASSUME IInv, NEW q \in Procs, proc' = Runnable(proc, q) \/ proc' = proc
  PROVE  Awake
BY DEF Runnable, Awake, IInv, Types, Table, Entry

LEMMA WakeInitPipe == ASSUME IInv, PipeInv, UNCHANGED pipevars, NEW p \in Procs, fds[p] = {}, WakeInit(p) PROVE PipeInv'
<1>1. thread[p].pc = "exit" /\ Step(p, [thread[p] EXCEPT !.pc = "readparent"], proc')
  BY DEF WakeInit, At, Step
<1>2. (proc' = Runnable(proc, initproc) \/ proc' = proc) /\ initproc \in Procs
  BY ProcAssumption DEF WakeInit, Step, ProcAssumption, Procs, initproc
<1>3. Awake
  BY <1>2, AwakeFacts
<1>4. thread'[p].pc = "readparent" /\ thread'[p].then = thread[p].then
  BY <1>1, StepThread DEF IInv, Types, Threads, Locals
<1> QED BY <1>1, <1>3, <1>4, StepThread, PlainStep DEF Plain, Points

LEMMA ReadParentPipe == ASSUME IInv, PipeInv, UNCHANGED pipevars, NEW p \in Procs, ReadParent(p) PROVE PipeInv'
<1>1. /\ thread[p].pc = "readparent"
      /\ Step(p, [thread[p] EXCEPT !.pc = "lockparent", !.original_parent = proc[p].parent], proc)
  BY DEF ReadParent, At
<1>2. Awake
  BY <1>1 DEF Step, Awake
<1>3. thread'[p].pc = "lockparent" /\ thread'[p].then = thread[p].then /\ fds[p] = {}
  BY ZenonT(30), <1>1, StepThread DEF IInv, Types, Threads, Locals, PipeInv, Files, Closed
<1> QED BY <1>1, <1>2, <1>3, StepThread, PlainStep DEF Plain, Points

LEMMA LockParentPipe == ASSUME IInv, PipeInv, UNCHANGED pipevars, NEW p \in Procs, LockParent(p) PROVE PipeInv'
<1>1. /\ thread[p].pc = "lockparent" /\ proc' = Acquired(proc, thread[p].original_parent, p)
      /\ Step(p, [thread[p] EXCEPT !.pc = "lockself"], proc')
  BY DEF LockParent, At, Step
<1>2. Awake
  BY <1>1 DEF Acquired, Awake, IInv, Types, Table, Entry
<1>3. thread'[p].pc = "lockself" /\ thread'[p].then = thread[p].then /\ fds[p] = {}
  BY <1>1, StepThread DEF IInv, Types, Threads, Locals, PipeInv, Files, Closed
<1> QED BY <1>1, <1>2, <1>3, StepThread, PlainStep DEF Plain, Points

LEMMA LockSelfPipe == ASSUME IInv, PipeInv, UNCHANGED pipevars, NEW p \in Procs, LockSelf(p) PROVE PipeInv'
<1>1. /\ thread[p].pc = "lockself" /\ proc' = Acquired(proc, p, p)
      /\ Step(p, [thread[p] EXCEPT !.pc = "reparent"], proc')
  BY DEF LockSelf, At, Step
<1>2. Awake
  BY <1>1 DEF Acquired, Awake, IInv, Types, Table, Entry
<1>3. thread'[p].pc = "reparent" /\ thread'[p].then = thread[p].then /\ fds[p] = {}
  BY <1>1, StepThread DEF IInv, Types, Threads, Locals, PipeInv, Files, Closed
<1> QED BY <1>1, <1>2, <1>3, StepThread, PlainStep DEF Plain, Points

LEMMA ReparentPipe == ASSUME IInv, PipeInv, UNCHANGED pipevars, NEW p \in Procs, Reparent(p) PROVE PipeInv'
<1> DEFINE left == {q \in Children(p) : q >= thread[p].scan}
           pp == CHOOSE q \in left : \A r \in left : q <= r
<1>1. thread[p].pc = "reparent" /\ fds[p] = {}
  BY DEF Reparent, At, PipeInv, Files, Closed
<1>2. CASE left = {}
  <2>1. Step(p, [thread[p] EXCEPT !.pc = "zombie", !.scan = 1], proc)
    BY <1>2 DEF Reparent
  <2>2. thread'[p] = [thread[p] EXCEPT !.pc = "zombie", !.scan = 1]
    BY <2>1, StepThread, Zenon
  <2>3. thread'[p].pc = "zombie" /\ thread'[p].then = thread[p].then
    <3>1. thread[p] \in Locals
      BY DEF IInv, Types, Threads
    <3>2. LET z == [thread[p] EXCEPT !.pc = "zombie", !.scan = 1] IN z.pc = "zombie" /\ z.then = thread[p].then
      BY <3>1, LoopLocals
    <3> QED BY <2>2, <3>2, Zenon
  <2>4. Awake
    BY <2>1 DEF Step, Awake
  <2> QED BY <1>1, <2>1, <2>3, <2>4, StepThread, PlainStep DEF Plain, Points
<1>3. CASE left # {}
  <2>1. Step(p, [thread[p] EXCEPT !.scan = pp + 1], [proc EXCEPT ![pp].parent = initproc])
    BY <1>3 DEF Reparent
  <2> HIDE DEF pp
  <2>2. thread'[p].pc = "reparent" /\ thread'[p].then = thread[p].then
    BY <1>1, <2>1, StepThread DEF IInv, Types, Threads, Locals
  <2>3. Awake
    BY <2>1 DEF Step, Awake, IInv, Types, Table, Entry
  <2> QED BY <1>1, <2>1, <2>2, <2>3, StepThread, PlainStep DEF Plain, Points
<1> QED BY <1>2, <1>3

LEMMA ZombiePipe == ASSUME IInv, PipeInv, UNCHANGED pipevars, NEW p \in Procs, Zombie(p) PROVE PipeInv'
<1> DEFINE op == thread[p].original_parent
           t == [proc EXCEPT ![p].state = "ZOMBIE"]
           u == IF proc[op].state = "SLEEPING" /\ proc[op].chan = WaitChan(op) THEN Runnable(t, op) ELSE t
<1>1. thread[p].pc = "zombie" /\ Step(p, [thread[p] EXCEPT !.pc = "dying"], Released(u, op))
  BY DEF Zombie, At
<1>2. thread'[p].pc = "dying" /\ thread'[p].then = thread[p].then /\ fds[p] = {}
  BY <1>1, StepThread DEF IInv, Types, Threads, Locals, PipeInv, Files, Closed
<1>3. Awake
  <2>1. \A q \in Procs : (t[q].state = "SLEEPING" => proc[q].state = "SLEEPING") /\ t[q].chan = proc[q].chan
    BY DEF IInv, Types, Table, Entry
  <2>2. t \in Table
    BY DEF IInv, Types, Table, Entry, States
  <2> HIDE DEF t
  <2>3. \A q \in Procs : (u[q].state = "SLEEPING" => t[q].state = "SLEEPING") /\ u[q].chan = t[q].chan
    BY <2>2 DEF Runnable, Table, Entry
  <2>4. u \in Table
    BY ZenonT(30), <2>2 DEF Runnable, Table, Entry, States
  <2> HIDE DEF u
  <2>5. \A q \in Procs : proc'[q].state = u[q].state /\ proc'[q].chan = u[q].chan
    BY <1>1, <2>4 DEF Step, Released, Table, Entry
  <2> QED BY <2>1, <2>3, <2>5 DEF Awake
<1> QED BY <1>1, <1>2, <1>3, StepThread, PlainStep DEF Plain, Points

\* sched() does not panic.
LEMMA SchedStep ==
  ASSUME panicked' = "no", NEW p, NEW l, NEW t, Sched(p, l, t)
  PROVE  Step(p, l, Released(t, p))
BY DEF Sched, Panic

LEMMA DiePipe == ASSUME IInv, IInv', PipeInv, UNCHANGED pipevars, NEW p \in Procs, Die(p) PROVE PipeInv'
<1>1. thread[p].pc = "dying" /\ Step(p, NoThread, Released(proc, p))
  BY SchedStep DEF Die, IInv, Types
<1>2. thread'[p].pc = "none" /\ thread'[p].then = "none" /\ fds[p] = {}
  BY <1>1, StepThread, ThreadFacts, NewLocals DEF PipeInv, Files, Closed
<1>3. Awake
  BY <1>1 DEF Step, Released, Awake, IInv, Types, Table, Entry
<1> QED BY <1>1, <1>2, <1>3, StepThread, PlainStep DEF Plain, Points

LEMMA ScanPipe == ASSUME IInv, PipeInv, UNCHANGED pipevars, NEW p \in Procs, Scan(p) PROVE PipeInv'
<1> DEFINE left == {q \in Children(p) : q >= thread[p].scan}
           np == CHOOSE q \in left : \A r \in left : q <= r
<1>1. thread[p].pc = "scan"
  BY DEF Scan, At
<1>2. ASSUME Step(p, thread'[p], proc), thread'[p].pc = "scan", thread'[p].then = thread[p].then
      PROVE  PipeInv'
  <2>1. Awake
    BY <1>2 DEF Step, Awake
  <2> QED BY <1>1, <1>2, <2>1, StepThread, PlainStep DEF Plain, Points, Closed
<1>3. CASE left = {}
  <2>1. Step(p, [thread[p] EXCEPT !.scan = NPROC + 1], proc)
    BY <1>3 DEF Scan
  <2>2. thread'[p] = [thread[p] EXCEPT !.scan = NPROC + 1] /\ thread'[p].pc = "scan" /\ thread'[p].then = thread[p].then
    BY <1>1, <2>1, StepThread DEF IInv, Types, Threads, Locals
  <2> QED BY <1>2, <2>1, <2>2
<1>4. CASE left # {} /\ proc[np].state = "ZOMBIE"
  <2>1. Step(p, User, Released([proc EXCEPT ![np] = Unused], p))
    BY <1>4 DEF Scan
  <2> HIDE DEF np
  <2>2. Awake
    <3> DEFINE t == [proc EXCEPT ![np] = Unused]
    <3>1. t \in Table
      BY UnusedFacts DEF IInv, Types, Table
    <3>2. \A q \in Procs : t[q] = proc[q] \/ t[q] = Unused
      BY DEF IInv, Types, Table
    <3> HIDE DEF t
    <3>3. \A q \in Procs : proc'[q].state = t[q].state /\ proc'[q].chan = t[q].chan
      BY <2>1, <3>1 DEF Step, Released, Table, Entry, t
    <3> QED BY <3>2, <3>3, UnusedFacts DEF Awake
  <2> QED BY <1>1, <2>1, <2>2, StepThread, ThreadFacts, NewLocals, PlainStep DEF Plain, Points, Closed
<1>5. CASE left # {} /\ proc[np].state # "ZOMBIE"
  <2>1. Step(p, [thread[p] EXCEPT !.scan = np + 1, !.havekids = TRUE], proc)
    BY <1>5 DEF Scan
  <2> HIDE DEF np
  <2>2. thread'[p] = [thread[p] EXCEPT !.scan = np + 1, !.havekids = TRUE]
    BY <2>1, StepThread, Zenon
  <2>3. thread[p] \in Locals
    BY DEF IInv, Types, Threads
  <2>4. LET s == [thread[p] EXCEPT !.scan = np + 1, !.havekids = TRUE] IN s.pc = thread[p].pc /\ s.then = thread[p].then
    BY <2>3, LoopLocals, Zenon
  <2>5. thread'[p].pc = "scan" /\ thread'[p].then = thread[p].then
    BY <1>1, <2>2, <2>4, Zenon
  <2> QED BY <1>2, <2>1, <2>2, <2>5, Zenon
<1> QED BY <1>3, <1>4, <1>5

\* A process in sleep() or in wait() is asleep, on what it said it would sleep on.
LEMMA AsleepPipe ==
  ASSUME IInv, PipeInv, UNCHANGED pipevars, NEW p \in Procs, thread[p].pc \in {"sleep", "scan"},
         NEW chan, chan = IF thread[p].pc = "sleep" THEN thread[p].chan ELSE WaitChan(p),
         \A q \in Procs \ {p} : thread'[q] = thread[q] /\ proc'[q] = proc[q],
         thread'[p].pc = "asleep", thread'[p].then = IF thread[p].pc = "sleep" THEN thread[p].then ELSE "scan",
         proc'[p].state = "SLEEPING", proc'[p].chan = chan
  PROVE  PipeInv'
<1>1. thread[p].pc = "sleep" => SleepsOn(thread[p].then, chan)
  BY DEF PipeInv, Thens
<1>2. Thens'
  BY <1>1 DEF PipeInv, Thens, SleepsOn
<1>3. \A q \in Procs : Locked(q)' <=> Locked(q)
  BY DEF Locked
<1>4. \A q \in Procs : thread'[q].pc \in Closed => fds[q] = {}
  BY DEF PipeInv, Files, Closed
<1>5. \A q \in Procs : Place(q)' = Place(q)
  BY DEF Place
<1>6. \A q \in Procs : thread'[q].pc = "wakeup" => thread'[q] = thread[q]
  OBVIOUS
<1>7. \A q \in Procs : \A c \in {Nread, Nwrite} : Waiting(q, c)' => Waiting(q, c)
  BY ChanFacts DEF Waiting, Asleep
<1>8. \A q \in Procs, h \in Procs : \A c \in {Nread, Nwrite} : Waking(h, q, c) => Waking(h, q, c)'
  BY DEF Waking
<1> QED BY <1>2, <1>3, <1>4, <1>5, <1>6, <1>7, <1>8, QuietStep

LEMMA WaitSleepPipe == ASSUME IInv, IInv', PipeInv, UNCHANGED pipevars, NEW p \in Procs, WaitSleep(p) PROVE PipeInv'
<1>1. thread[p].pc = "scan"
  BY DEF WaitSleep, At
<1>2. CASE ~thread[p].havekids \/ proc[p].killed
  <2>1. Step(p, User, Released(proc, p))
    BY <1>2 DEF WaitSleep
  <2>2. Awake
    BY <2>1 DEF Step, Released, Awake, IInv, Types, Table, Entry
  <2> QED BY <1>1, <2>1, <2>2, StepThread, ThreadFacts, NewLocals, PlainStep DEF Plain, Points, Closed
<1>3. CASE ~(~thread[p].havekids \/ proc[p].killed)
  <2> DEFINE l == [thread[p] EXCEPT !.pc = "asleep", !.then = "scan", !.scan = 1, !.havekids = FALSE]
             t == [proc EXCEPT ![p].state = "SLEEPING", ![p].chan = WaitChan(p)]
  <2>1. Sched(p, l, t) /\ panicked' = "no"
    BY <1>3 DEF WaitSleep, IInv, Types
  <2>2. l.pc = "asleep" /\ l.then = "scan"
    <3>1. ASSUME NEW b, NEW n PROVE LET m == [thread[p] EXCEPT !.pc = "asleep", !.then = "scan", !.scan = n, !.havekids = b]
                                    IN m.pc = "asleep" /\ m.then = "scan"
      BY DEF IInv, Types, Threads, Locals
    <3> QED BY <3>1
  <2>3. /\ \A q \in Procs \ {p} : t[q] = proc[q]
        /\ t[p].state = "SLEEPING" /\ t[p].chan = WaitChan(p)
        /\ DOMAIN t = Procs
    BY DEF IInv, Types, Table, Entry
  <2>4. t[p] \in [state : States, parent : 0 .. NPROC, chan : Chans, killed : BOOLEAN, pid : Nat, lock : 0 .. NPROC]
    BY DEF IInv, Types, Table, Entry, States, Chans
  <2> HIDE DEF l, t
  <2>5. Step(p, l, Released(t, p))
    BY <2>1, SchedStep
  <2>6. /\ \A q \in Procs \ {p} : proc'[q] = proc[q]
        /\ proc'[p].state = "SLEEPING" /\ proc'[p].chan = WaitChan(p)
    BY <2>3, <2>4, <2>5 DEF Step, Released
  <2> QED BY <1>1, <2>2, <2>5, <2>6, StepThread, AsleepPipe
<1> QED BY <1>2, <1>3

LEMMA SleepingPipe == ASSUME IInv, IInv', PipeInv, UNCHANGED pipevars, NEW p \in Procs, Sleeping(p) PROVE PipeInv'
<1> DEFINE l == [thread[p] EXCEPT !.pc = "asleep", !.chan = NoChan]
           t == [proc EXCEPT ![p].state = "SLEEPING", ![p].chan = thread[p].chan]
<1>1. thread[p].pc = "sleep" /\ Sched(p, l, t) /\ panicked' = "no"
  BY DEF Sleeping, At, IInv, Types
<1>2. l.pc = "asleep" /\ l.then = thread[p].then
  BY DEF IInv, Types, Threads, Locals
<1>3. /\ \A q \in Procs \ {p} : t[q] = proc[q]
      /\ t[p].state = "SLEEPING" /\ t[p].chan = thread[p].chan
      /\ DOMAIN t = Procs
  BY DEF IInv, Types, Table, Entry
<1>4. t[p] \in [state : States, parent : 0 .. NPROC, chan : Chans, killed : BOOLEAN, pid : Nat, lock : 0 .. NPROC]
  BY DEF IInv, Types, Table, Entry, States, Chans, Threads, Locals
<1> HIDE DEF l, t
<1>5. Step(p, l, Released(t, p))
  BY <1>1, SchedStep
<1>6. /\ \A q \in Procs \ {p} : proc'[q] = proc[q]
      /\ proc'[p].state = "SLEEPING" /\ proc'[p].chan = thread[p].chan
  BY <1>3, <1>4, <1>5 DEF Step, Released
<1> QED BY <1>1, <1>2, <1>5, <1>6, StepThread, AsleepPipe

\* Whoever slept where wakeup() has passed is awake.
LEMMA WakeupOnePipe == ASSUME IInv, PipeInv, UNCHANGED pipevars, NEW p \in Procs, WakeupOne(p) PROVE PipeInv'
<1>1. PICK q \in Procs : q = thread[p].scan
  BY DEF WakeupOne, At, IInv, Control
<1> DEFINE chan == thread[p].chan
           sleeps == proc[q].state = "SLEEPING" /\ proc[q].chan = chan
           last == [thread[p] EXCEPT !.pc = thread[p].then, !.then = "none", !.scan = 1, !.chan = NoChan]
           more == [thread[p] EXCEPT !.scan = q + 1]
           next == IF q = NPROC THEN last ELSE more
<1>2. /\ thread[p].pc = "wakeup" /\ Wakes(thread[p].then, chan) /\ proc[q].lock = None
      /\ Step(p, next, IF sleeps THEN Runnable(proc, q) ELSE proc)
  BY <1>1 DEF WakeupOne, At, Free, PipeInv, Thens
<1>3. /\ q # NPROC => next.pc = "wakeup" /\ next.then = thread[p].then /\ next.chan = chan /\ next.scan = q + 1
      /\ q = NPROC => next.pc = thread[p].then /\ next.then = "none"
  <2>1. last.pc = thread[p].then /\ last.then = "none"
    <3>1. ASSUME NEW n, NEW c, NEW x
          PROVE  LET m == [thread[p] EXCEPT !.pc = thread[p].then, !.then = x, !.scan = n, !.chan = c]
                 IN m.pc = thread[p].then /\ m.then = x
      BY DEF IInv, Types, Threads, Locals
    <3> QED BY <3>1
  <2>2. more.pc = "wakeup" /\ more.then = thread[p].then /\ more.chan = chan /\ more.scan = q + 1
    BY <1>2 DEF IInv, Types, Threads, Locals
  <2> QED BY <2>1, <2>2
<1>4. thread[p].then \in {"writesleep", "return", "closed"}
  BY <1>2 DEF Wakes
<1>5. Awake /\ ~(proc'[q].state = "SLEEPING" /\ proc'[q].chan = chan)
  <2>1. Awake
    BY <1>2, AwakeFacts DEF Step
  <2>2. sleeps => proc'[q].state = "RUNNABLE"
    BY <1>2 DEF Step, Runnable, IInv, Types, Table, Entry
  <2>3. ~sleeps => proc' = proc
    BY <1>2 DEF Step
  <2> QED BY <2>1, <2>2, <2>3
<1> HIDE DEF next
<1>6. thread'[p] = next /\ (\A r \in Procs \ {p} : thread'[r] = thread[r])
  BY <1>2, StepThread
<1>7. thread'[p].pc \in {"wakeup", "writesleep", "return", "closed"}
  BY <1>3, <1>4, <1>6
<1>8. thread'[p].pc = "wakeup" => q # NPROC
  BY <1>3, <1>4, <1>6
<1>9. Thens'
  <2>1. ASSUME NEW r \in Procs, r # p PROVE Thens!(r)'
    BY <2>1, <1>5, <1>6 DEF PipeInv, Thens, Awake
  <2>2. Thens!(p)'
    BY <1>2, <1>3, <1>6, <1>7, <1>8
  <2> QED BY <2>1, <2>2 DEF Thens
<1>10. \A r \in Procs : Locked(r)' <=> Locked(r)
  BY <1>2, <1>6, <1>7 DEF Locked
<1>11. \A r \in Procs : thread'[r].pc \in Closed => fds[r] = {}
  BY <1>6, <1>7 DEF PipeInv, Files, Closed
<1>12. \A r \in Procs : Place(r)' = Place(r)
  <2>1. Place(p) = thread[p].then
    BY <1>2 DEF Place
  <2>2. Place(p)' = thread[p].then
    BY <1>3, <1>4, <1>6 DEF Place
  <2> QED BY <1>6, <2>1, <2>2 DEF Place
<1>13. \A r \in Procs : \A c \in {Nread, Nwrite} : Waiting(r, c)' => Waiting(r, c)
  BY <1>5, <1>6, <1>7 DEF Waiting, Asleep, Awake
<1>14. \A r \in Procs : thread'[r].pc = "wakeup" =>
         thread[r].pc = "wakeup" /\ thread'[r].then = thread[r].then /\ thread'[r].chan = thread[r].chan
  BY <1>2, <1>3, <1>6, <1>8
<1>15. ASSUME NEW r \in Procs, NEW h \in Procs, NEW c \in {Nread, Nwrite}, Waking(h, r, c), Waiting(r, c)'
       PROVE  Waking(h, r, c)'
  <2>1. CASE h # p
    BY <1>6, <1>15, <2>1 DEF Waking
  <2>2. CASE h = p
    <3>1. c = chan /\ q <= r
      BY <1>1, <1>15, <2>2 DEF Waking
    <3>2. r # q
      <4>1. SUFFICES ASSUME r = q PROVE FALSE
        OBVIOUS
      <4>2. thread'[q].pc = "sleep"
        BY <1>5, <1>15, <3>1, <4>1 DEF Waiting, Asleep
      <4>3. q # p /\ thread[q].pc = "sleep"
        BY <4>2, <1>6, <1>7
      <4>4. proc[q].lock = q
        BY <4>3 DEF IInv, Locks, Holds
      <4> QED BY <1>2, <4>4, ProcAssumption DEF Procs, None, ProcAssumption
    <3>3. q + 1 <= r /\ q # NPROC
      BY <3>1, <3>2, ProcAssumption DEF Procs, ProcAssumption
    <3> QED BY <1>3, <1>6, <2>2, <3>1, <3>3 DEF Waking
  <2> QED BY <2>1, <2>2
<1> QED BY <1>5, <1>9, <1>10, <1>11, <1>12, <1>13, <1>14, <1>15, QuietStep

LEMMA KernelPipe ==
  ASSUME IInv, IInv', PipeInv, UNCHANGED pipevars, NEW p \in Procs, thread[p].pc = "exit" => fds[p] = {}, Kernel(p)
  PROVE  PipeInv'
<1>1. CASE WakeInit(p)
  BY <1>1, WakeInitPipe DEF WakeInit, At
<1>2. CASE ReadParent(p)
  BY <1>2, ReadParentPipe
<1>3. CASE LockParent(p)
  BY <1>3, LockParentPipe
<1>4. CASE LockSelf(p)
  BY <1>4, LockSelfPipe
<1>5. CASE Reparent(p)
  BY <1>5, ReparentPipe
<1>6. CASE Zombie(p)
  BY <1>6, ZombiePipe
<1>7. CASE Die(p)
  BY <1>7, DiePipe
<1>8. CASE Scan(p)
  BY <1>8, ScanPipe
<1>9. CASE WaitSleep(p)
  BY <1>9, WaitSleepPipe
<1>10. CASE Wait(p)
  BY <1>10, WaitPipe
<1> QED BY <1>1, <1>2, <1>3, <1>4, <1>5, <1>6, <1>7, <1>8, <1>9, <1>10 DEF Kernel

\* What the processes do, the pipe apart.
LEMMA ProcCodePipe == ASSUME IInv, PipeInv, NEW p \in Procs, ProcCode(p) PROVE IInv' /\ PipeInv'
<1>1. UNCHANGED pipevars
  BY DEF ProcCode
<1>2. CASE Dispatch(p)
  BY <1>1, <1>2, DispatchIInv, DispatchPipe
<1>3. CASE Kill(p)
  BY <1>1, <1>3, KillIInv, KillPipe
<1>4. CASE Exit(p)
  BY <1>1, <1>4, ExitIInv, ExitPipe
<1>5. CASE WaitCall(p)
  BY <1>1, <1>5, WaitCallIInv, WaitCallPipe
<1>6. CASE Sleeping(p)
  BY <1>1, <1>6, SleepingIInv, SleepingPipe
<1>7. CASE WakeupOne(p)
  BY <1>1, <1>7, WakeupOneIInv, WakeupOnePipe
<1>8. CASE Yield(p)
  BY <1>1, <1>8, YieldIInv, YieldPipe
<1>9. CASE (thread[p].pc = "exit" => fds[p] = {}) /\ Kernel(p)
  BY <1>1, <1>9, KernelIInv, KernelPipe
<1> QED BY <1>2, <1>3, <1>4, <1>5, <1>6, <1>7, <1>8, <1>9 DEF ProcCode

-----------------------------------------------------------------------------
(* fork() with the files.                                                  *)

\* The child is the entry that became RUNNABLE.
LEMMA ForkFacts ==
  ASSUME IInv, NEW p \in Procs, ForkFiles(p)
  PROVE  \E np \in Procs :
            /\ thread[np].pc = "none" /\ np # initproc
            /\ proc'[np].state = "RUNNABLE" /\ \A q \in Procs \ {np} : proc'[q] = proc[q]
            /\ thread' = [thread EXCEPT ![np] = User]
            /\ fds' = [fds EXCEPT ![np] = fds[p]] /\ io' = [io EXCEPT ![np] = NoIo]
<1> DEFINE unused == {q \in Procs : proc[q].state = "UNUSED"}
           np == CHOOSE q \in unused : \A r \in unused : q <= r
           made == [Unused EXCEPT !.state = "RUNNABLE", !.parent = p, !.pid = nextpid, !.killed = proc[np].killed]
           child(q) == proc[q].state = "UNUSED" /\ proc'[q].state = "RUNNABLE"
           c == CHOOSE q \in Procs : child(q)
<1>1. /\ unused # {} /\ proc' = [proc EXCEPT ![np] = made] /\ thread' = [thread EXCEPT ![np] = User]
  BY DEF ForkFiles, Fork
<1>2. np \in unused
  <2>1. \E q \in unused : \A r \in unused : q <= r
    BY <1>1, LeastExists
  <2> QED BY <2>1
<1>3. fds' = [fds EXCEPT ![c] = fds[p]] /\ io' = [io EXCEPT ![c] = NoIo]
  BY DEF ForkFiles
<1>4. made.state = "RUNNABLE"
  <2>1. ASSUME NEW s, NEW a, NEW b, NEW c0
        PROVE  [Unused EXCEPT !.state = s, !.parent = a, !.pid = b, !.killed = c0].state = s
    BY DEF Unused
  <2> QED BY <2>1
<1> HIDE DEF made, np
<1>5. np \in Procs /\ proc[np].state = "UNUSED" /\ thread[np].pc = "none" /\ np # initproc
  <2>1. np \in Procs /\ proc[np].state = "UNUSED"
    BY <1>2
  <2>2. thread[np].pc = "none"
    BY <2>1 DEF IInv, Control, PointsOf
  <2> QED BY <2>1, <2>2, CallFacts DEF IInv, InitStays
<1>6. proc'[np] = made /\ \A q \in Procs \ {np} : proc'[q] = proc[q]
  BY <1>1, <1>5 DEF IInv, Types, Table
<1>7. c = np
  <2>1. child(np) /\ \A q \in Procs : child(q) => q = np
    BY <1>4, <1>5, <1>6
  <2> HIDE DEF child
  <2> QED BY <1>5, <2>1
<1> HIDE DEF c
<1> QED BY <1>1, <1>3, <1>4, <1>5, <1>6, <1>7

LEMMA ForkPipe == ASSUME IInv, PipeInv, NEW p \in Procs, ForkFiles(p) PROVE IInv' /\ PipeInv'
<1>1. PICK np \in Procs :
            /\ thread[np].pc = "none" /\ np # initproc
            /\ proc'[np].state = "RUNNABLE" /\ \A q \in Procs \ {np} : proc'[q] = proc[q]
            /\ thread' = [thread EXCEPT ![np] = User]
            /\ fds' = [fds EXCEPT ![np] = fds[p]] /\ io' = [io EXCEPT ![np] = NoIo]
  BY ForkFacts
<1>2. /\ ref' = [e \in Ends |-> IF e \in fds[p] THEN ref[e] + 1 ELSE ref[e]]
      /\ pipe' = pipe /\ silent' = silent
      /\ Count' = Count /\ (Full' <=> Full) /\ (Empty' <=> Empty) /\ \A e : Open(e)' <=> Open(e)
  BY DEF ForkFiles, Fork, Count, Full, Empty, Open
<1>3. /\ thread'[np] = User /\ thread'[np].pc = "user" /\ thread'[np].then = "none"
      /\ \A q \in Procs \ {np} : thread'[q] = thread[q]
  BY <1>1, ThreadFacts, NewLocals DEF IInv, Types, Threads
<1>4. /\ fds'[np] = fds[p] /\ fds[np] = {} /\ \A q \in Procs \ {np} : fds'[q] = fds[q]
      /\ io'[np] = NoIo /\ \A q \in Procs \ {np} : io'[q] = io[q]
  BY <1>1 DEF PipeInv, PipeTypes, Files, Closed
<1>5. NoIo \in IoRecord /\ NoIo.n = 0 /\ NoIo.i = 0 /\ NoIo.ret = "user"
  BY DEF NoIo, IoRecord, Ends
<1>6. PipeTypes'
  <2>1. io' \in [Procs -> IoRecord] /\ fds' \in [Procs -> SUBSET Ends]
    BY <1>1, <1>5 DEF PipeInv, PipeTypes
  <2>2. ref' \in [Ends -> Nat]
    BY <1>2 DEF PipeInv, PipeTypes
  <2> QED BY <1>2, <2>1, <2>2 DEF PipeInv, PipeTypes
<1>7. PipeLocks'
  BY <1>1, <1>2, <1>3 DEF PipeInv, PipeLocks, Locked
<1>8. Thens'
  BY <1>1, <1>3 DEF PipeInv, Thens
<1>9. Files'
  <2>1. ASSUME NEW e \in Ends PROVE ref'[e] = Cardinality(Openers(e)') /\ (ref'[e] > 0 => Open(e)')
    <3>1. ref[e] = Cardinality(Openers(e)) /\ (ref[e] > 0 => Open(e))
      BY DEF PipeInv, Files
    <3>2. CASE e \in fds[p]
      <4>1. Openers(e)' = Openers(e) \cup {np} /\ np \notin Openers(e)
        BY <1>4, <3>2 DEF Openers
      <4>2. Cardinality(Openers(e)') = Cardinality(Openers(e)) + 1
        BY <4>1, OpenersFinite, FS_AddElement
      <4> QED BY <1>2, <3>1, <3>2, <4>2, HasOpen
    <3>3. CASE e \notin fds[p]
      <4>1. Openers(e)' = Openers(e)
        BY <1>4, <3>3 DEF Openers
      <4> QED BY <1>2, <3>1, <3>3, <4>1
    <3> QED BY <3>2, <3>3
  <2>2. \A q \in Procs : thread'[q].pc \in Closed => fds'[q] = {}
    BY <1>3, <1>4 DEF PipeInv, Files, Closed
  <2> QED BY <2>1, <2>2 DEF Files
<1>10. Place(np)' = "user" /\ \A q \in Procs \ {np} : Place(q)' = Place(q)
  BY <1>3 DEF Place
<1>11. Calls'
  BY <1>4, <1>10 DEF PipeInv, Calls
<1>12. Closes'
  <2>1. \A e \in Ends : ref[e] = 0 => ref'[e] = 0
    BY <1>2, HasOpen
  <2>2. \A q \in Procs : io[q].end \in Ends
    BY DEF PipeInv, PipeTypes, IoRecord
  <2>3. \A q \in Procs : thread'[q].pc \in {"pipeclose", "closing"} =>
            q # np /\ thread[q].pc \in {"pipeclose", "closing"} /\ io'[q].end = io[q].end
    BY <1>3, <1>4
  <2>4. \A q \in Procs : thread'[q].pc \in {"pipeclose", "closing"} =>
          /\ ref'[io'[q].end] = 0 /\ Open(io[q].end)'
          /\ \A r \in Procs \ {q} : thread'[r].pc \in {"pipeclose", "closing"} => io'[r].end # io'[q].end
    BY <1>2, <2>1, <2>2, <2>3 DEF PipeInv, Closes, Open
  <2>5. io'[initproc].ret = "user"
    <3>1. initproc \in Procs
      BY ProcAssumption DEF ProcAssumption, Procs, initproc
    <3> QED BY <1>1, <1>4, <3>1 DEF PipeInv, Closes
  <2>6. \A q \in Procs : Place(q)' = "closed" => Place(q) = "closed"
    BY <1>10
  <2> QED BY <1>2, <2>4, <2>5, <2>6 DEF PipeInv, Closes
<1>13. Progress'
  BY <1>2, <1>3, <1>4, <1>5, <1>10 DEF PipeInv, Progress
<1>14. Reasons'
  <2> SUFFICES ASSUME NEW q \in Procs
               PROVE  /\ Waiting(q, Nread)' => ReadReason' \/ \E h \in Procs : Writing(h)' \/ Waking(h, q, Nread)'
                      /\ Waiting(q, Nwrite)' => WriteReason' \/ \E h \in Procs : thread'[h].pc = "copy" \/ Waking(h, q, Nwrite)'
    BY DEF Reasons
  <2>1. (ReadReason => ReadReason') /\ (WriteReason => WriteReason')
    BY <1>2 DEF ReadReason, WriteReason
  <2>2. \A c \in {Nread, Nwrite} : Waiting(q, c)' => Waiting(q, c)
    BY <1>1, <1>3 DEF Waiting, Asleep
  <2>3. \A h \in Procs : thread[h].pc \in {"write", "copy", "wakeup"} => thread'[h] = thread[h]
    BY <1>1, <1>3
  <2>4. \A h \in Procs : \A c \in {Nread, Nwrite} : Waking(h, q, c) => Waking(h, q, c)'
    BY <2>3 DEF Waking
  <2>5. \A h \in Procs : Writing(h) => Writing(h)'
    BY <1>1, <1>4, <2>3 DEF Writing
  <2> QED BY <2>1, <2>2, <2>3, <2>4, <2>5 DEF PipeInv, Reasons
<1>15. IInv'
  BY ForkIInv DEF ForkFiles
<1> QED BY <1>6, <1>7, <1>8, <1>9, <1>11, <1>12, <1>13, <1>14, <1>15 DEF PipeInv

-----------------------------------------------------------------------------
(* The steps of a call on the pipe.                                        *)

LEMMA GoFacts ==
  ASSUME IInv, NEW p \in Procs, NEW point, Go(p, point)
  PROVE  /\ thread'[p].pc = point /\ thread'[p].then = thread[p].then
         /\ thread'[p].chan = thread[p].chan /\ thread'[p].scan = thread[p].scan
         /\ \A q \in Procs \ {p} : thread'[q] = thread[q]
         /\ proc' = proc
<1> DEFINE l == [thread[p] EXCEPT !.pc = point]
<1>1. Step(p, l, proc)
  BY DEF Go
<1>2. l.pc = point /\ l.then = thread[p].then /\ l.chan = thread[p].chan /\ l.scan = thread[p].scan
  BY DEF IInv, Types, Threads, Locals
<1> HIDE DEF l
<1> QED BY <1>1, <1>2, StepThread

LEMMA WakeFacts ==
  ASSUME IInv, NEW p \in Procs, NEW chan, NEW then, Step(p, Wakeup(p, chan, then), proc)
  PROVE  /\ thread'[p].pc = "wakeup" /\ thread'[p].then = then /\ thread'[p].chan = chan /\ thread'[p].scan = 1
         /\ \A q \in Procs \ {p} : thread'[q] = thread[q]
         /\ proc' = proc
<1> DEFINE l == Wakeup(p, chan, then)
<1>1. l.pc = "wakeup" /\ l.then = then /\ l.chan = chan /\ l.scan = 1
  <2>1. ASSUME NEW n
        PROVE  LET m == [thread[p] EXCEPT !.pc = "wakeup", !.scan = n, !.chan = chan, !.then = then]
               IN m.pc = "wakeup" /\ m.then = then /\ m.chan = chan /\ m.scan = n
    BY DEF IInv, Types, Threads, Locals
  <2> QED BY <2>1 DEF Wakeup
<1>2. Step(p, l, proc)
  OBVIOUS
<1> HIDE DEF l
<1> QED BY <1>1, <1>2, StepThread

LEMMA SleepFacts ==
  ASSUME IInv, NEW p \in Procs, NEW chan, NEW then, Sleep(p, chan, then)
  PROVE  /\ thread'[p].pc = "sleep" /\ thread'[p].then = then /\ thread'[p].chan = chan
         /\ \A q \in Procs \ {p} : thread'[q] = thread[q]
         /\ \A q \in Procs : proc'[q].state = proc[q].state /\ proc'[q].chan = proc[q].chan
<1> DEFINE l == [thread[p] EXCEPT !.pc = "sleep", !.chan = chan, !.then = then]
<1>1. l.pc = "sleep" /\ l.then = then /\ l.chan = chan
  BY DEF IInv, Types, Threads, Locals
<1>2. Step(p, l, Acquired(proc, p, p))
  BY DEF Sleep
<1> HIDE DEF l
<1>3. thread'[p] = l /\ (\A q \in Procs \ {p} : thread'[q] = thread[q])
  BY <1>2, StepThread
<1>4. \A q \in Procs : proc'[q].state = proc[q].state /\ proc'[q].chan = proc[q].chan
  BY <1>2 DEF Step, Acquired, IInv, Types, Table, Entry
<1> QED BY <1>1, <1>3, <1>4

\* While nobody else has the pipe's lock, nobody else gives a sleeper a reason.
LEMMA Alone ==
  ASSUME PipeInv, NEW p \in Procs, pipe.lock \in {None, p}
  PROVE  /\ \A q \in Procs \ {p} : ~Locked(q)
         /\ \A q \in Procs :
              /\ Waiting(q, Nread) => ReadReason \/ Writing(p) \/ Waking(p, q, Nread)
              /\ Waiting(q, Nwrite) => WriteReason \/ thread[p].pc = "copy" \/ Waking(p, q, Nwrite)
<1>1. \A q \in Procs \ {p} : ~Locked(q)
  BY ProcAssumption DEF PipeInv, PipeLocks, Procs, None, ProcAssumption
<1>2. \A q \in Procs, h \in Procs : \A c : Writing(h) \/ thread[h].pc = "copy" \/ Waking(h, q, c) => h = p
  BY <1>1 DEF Locked, Waking, Writing
<1> QED BY <1>1, <1>2 DEF PipeInv, Reasons

\* A step of p in its call, when nobody else has the lock, before or after it.
LEMMA LockedStep ==
  ASSUME PipeInv, NEW p \in Procs, UNCHANGED fds, PipeTypes', Files', Closes', Reasons',
         \A q \in Procs \ {p} : thread'[q] = thread[q] /\ io'[q] = io[q],
         \A q \in Procs : proc'[q].state = proc[q].state /\ proc'[q].chan = proc[q].chan,
         pipe.lock \in {None, p}, pipe'.lock = IF Locked(p)' THEN p ELSE None,
         Thens!(p)', Calls!(p)', Progress!(p)'
  PROVE  PipeInv'
<1>1. \A q \in Procs \ {p} : ~Locked(q) /\ (Locked(q)' <=> Locked(q)) /\ Place(q)' = Place(q)
  BY Alone DEF Locked, Place
<1>2. PipeLocks'
  BY <1>1, ProcAssumption DEF PipeLocks, Procs, None, ProcAssumption
<1>3. Thens'
  <2>1. ASSUME NEW q \in Procs, q # p PROVE Thens!(q)'
    BY <2>1 DEF PipeInv, Thens
  <2> QED BY <2>1 DEF Thens
<1>5. Calls'
  <2>1. ASSUME NEW q \in Procs, q # p PROVE Calls!(q)'
    BY <2>1, <1>1 DEF PipeInv, Calls
  <2> QED BY <2>1 DEF Calls
<1>7. Progress'
  <2>1. ASSUME NEW q \in Procs, q # p PROVE Progress!(q)'
    <3>1. thread'[q].pc \notin {"copy", "wakeup"} /\ Place(q) \notin {"writesleep", "readsleep"}
      BY <2>1, <1>1 DEF Locked, Place, PipeInv, Thens, SleepsOn
    <3> QED BY <2>1, <1>1, <3>1 DEF PipeInv, Progress
  <2> QED BY <2>1 DEF Progress
<1> QED BY <1>2, <1>3, <1>5, <1>7 DEF PipeInv

\* A step of the call that p is in, which leaves the files and the ends alone.
LEMMA CallStep ==
  ASSUME PipeInv, NEW p \in Procs, UNCHANGED <<ref, fds>>, PipeTypes', Reasons',
         \A q \in Procs \ {p} : thread'[q] = thread[q] /\ io'[q] = io[q],
         \A q \in Procs : proc'[q].state = proc[q].state /\ proc'[q].chan = proc[q].chan,
         pipe.lock \in {None, p}, pipe'.lock = IF Locked(p)' THEN p ELSE None,
         \A e \in Ends : Open(e)' <=> Open(e),
         pipe'.freed = pipe.freed /\ io'[p].end = io[p].end /\ io'[p].ret = io[p].ret,
         Thens!(p)', Calls!(p)', Progress!(p)',
         thread'[p].pc \notin Closed,
         thread'[p].pc \in {"pipeclose", "closing"} => thread[p].pc \in {"pipeclose", "closing"},
         Place(p)' = "closed" => Place(p) = "closed"
  PROVE  PipeInv'
<1>1. \A q \in Procs \ {p} : Place(q)' = Place(q)
  BY DEF Place
<1>2. Files'
  BY DEF PipeInv, Files, Openers
<1>3. Closes'
  <2>1. \A q \in Procs : /\ thread'[q].pc \in {"pipeclose", "closing"} => thread[q].pc \in {"pipeclose", "closing"}
                         /\ Place(q)' = "closed" => Place(q) = "closed"
                         /\ io'[q].end = io[q].end /\ io'[q].end \in Ends
    BY <1>1 DEF PipeInv, PipeTypes, IoRecord
  <2>2. \A q \in Procs : thread'[q].pc \in {"pipeclose", "closing"} =>
          /\ ref'[io'[q].end] = 0 /\ Open(io[q].end)'
          /\ \A r \in Procs \ {q} : thread'[r].pc \in {"pipeclose", "closing"} => io'[r].end # io'[q].end
    <3> SUFFICES ASSUME NEW q \in Procs, thread'[q].pc \in {"pipeclose", "closing"}
                 PROVE  /\ ref'[io'[q].end] = 0 /\ Open(io[q].end)'
                        /\ \A r \in Procs \ {q} : thread'[r].pc \in {"pipeclose", "closing"} => io'[r].end # io'[q].end
      OBVIOUS
    <3>0. io[q].end \in Ends
      BY DEF PipeInv, PipeTypes, IoRecord
    <3>1. PICK e \in Ends : e = io[q].end
      BY <3>0
    <3>2. ref[e] = 0 /\ Open(e)
      BY <2>1, <3>1 DEF PipeInv, Closes
    <3>3. Open(io[q].end)'
      BY <2>1, <3>1, <3>2 DEF Open
    <3>4. \A r \in Procs \ {q} : thread'[r].pc \in {"pipeclose", "closing"} => io'[r].end # io'[q].end
      BY <2>1 DEF PipeInv, Closes
    <3> QED BY <2>1, <3>1, <3>2, <3>3, <3>4
  <2>3. pipe'.freed => ~pipe'.readopen /\ ~pipe'.writeopen
    BY DEF PipeInv, Closes, Open, Ends
  <2>4. io'[initproc].ret = "user"
    <3>1. initproc \in Procs
      BY ProcAssumption DEF ProcAssumption, Procs, initproc
    <3> QED BY <3>1 DEF PipeInv, Closes
  <2> QED BY <2>1, <2>2, <2>3, <2>4 DEF PipeInv, Closes
<1> QED BY <1>2, <1>3, LockedStep

\* A change of the locals of a call, and of the lock.
LEMMA LockTypes ==
  ASSUME PipeInv, NEW x \in 0 .. NPROC
  PROVE  LET t == [pipe EXCEPT !.lock = x]
         IN /\ t \in PipeRecord /\ t.lock = x
            /\ t.nread = pipe.nread /\ t.nwrite = pipe.nwrite /\ t.data = pipe.data
            /\ t.readopen = pipe.readopen /\ t.writeopen = pipe.writeopen /\ t.freed = pipe.freed
BY DEF PipeInv, PipeTypes, PipeRecord

LEMMA IoFacts ==
  ASSUME PipeInv, NEW p \in Procs, NEW r \in IoRecord, io' = [io EXCEPT ![p] = r]
  PROVE  io' \in [Procs -> IoRecord] /\ io'[p] = r /\ \A q \in Procs \ {p} : io'[q] = io[q]
BY DEF PipeInv, PipeTypes

-----------------------------------------------------------------------------
(* Taking and giving back the lock.                                        *)

LEMMA PipeLockPipe ==
  ASSUME IInv, PipeInv, NEW p \in Procs, NEW from, NEW to, PipeLock(p, from, to),
         \/ from = "readlock" /\ to = "read"
         \/ from = "writelock" /\ to = "write"
         \/ from = "pipeclose" /\ to = "closing"
  PROVE  IInv' /\ PipeInv'
<1>1. /\ thread[p].pc = from /\ proc[p].state = "RUNNING" /\ pipe.lock = None
      /\ Go(p, to) /\ pipe' = [pipe EXCEPT !.lock = p]
      /\ io' = io /\ ref' = ref /\ fds' = fds /\ silent' = silent
  BY DEF PipeLock, At, LeaveOthers
<1>2. from \in CallPoints /\ to \in CallPoints
  BY StringFacts
<1>3. IInv'
  <2>1. to # "exit"
    OBVIOUS
  <2> QED BY <1>1, <1>2, <2>1, GoIInv DEF Go
<1>4. /\ thread'[p].pc = to /\ thread'[p].then = thread[p].then /\ \A q \in Procs \ {p} : thread'[q] = thread[q]
      /\ proc' = proc
  BY <1>1, GoFacts
<1>5. /\ pipe' \in PipeRecord /\ pipe'.lock = p
      /\ Count' = Count /\ (Full' <=> Full) /\ (Empty' <=> Empty) /\ \A e : Open(e)' <=> Open(e)
      /\ pipe'.freed = pipe.freed /\ pipe'.writeopen = pipe.writeopen /\ pipe'.readopen = pipe.readopen
  <2>1. p \in 0 .. NPROC
    BY ProcAssumption DEF Procs, ProcAssumption
  <2> QED BY <1>1, <2>1, LockTypes DEF Count, Full, Empty, Open
<1>6. PipeTypes'
  BY <1>1, <1>4, <1>5 DEF PipeInv, PipeTypes
<1>7. Place(p) = from /\ Place(p)' = to /\ Locked(p)'
  BY <1>1, <1>4 DEF Place, Locked
<1>8. Reasons'
  <2> SUFFICES ASSUME NEW q \in Procs
               PROVE  (Waiting(q, Nread)' => ReadReason') /\ (Waiting(q, Nwrite)' => WriteReason')
    BY DEF Reasons
  <2>1. (ReadReason => ReadReason') /\ (WriteReason => WriteReason')
    BY <1>1, <1>5 DEF ReadReason, WriteReason
  <2>2. \A c \in {Nread, Nwrite} : Waiting(q, c)' => Waiting(q, c)
    BY <1>4 DEF Waiting, Asleep
  <2>3. thread[p].pc \notin {"write", "copy", "wakeup"}
    BY <1>1
  <2> QED BY <1>1, <2>1, <2>2, <2>3, Alone DEF Waking, Writing
<1>9. Thens!(p)' /\ Calls!(p)' /\ Progress!(p)'
  <2>1. Thens!(p)'
    BY <1>1, <1>4 DEF PipeInv, Thens
  <2>2. Calls!(p)'
    BY <1>1, <1>7 DEF PipeInv, Calls
  <2>3. Progress!(p)'
    BY <1>1, <1>4, <1>7 DEF PipeInv, Progress
  <2> QED BY <2>1, <2>2, <2>3
<1>10. /\ thread'[p].pc \notin Closed
       /\ thread'[p].pc \in {"pipeclose", "closing"} => thread[p].pc \in {"pipeclose", "closing"}
       /\ Place(p)' # "closed"
  BY <1>1, <1>4, <1>7 DEF Closed
<1> QED BY <1>1, <1>3, <1>4, <1>5, <1>6, <1>7, <1>8, <1>9, <1>10, CallStep

\* What a reader sleeps for once a call has returned.
ReadReasonAfter == pipe.writeopen /\ (Empty \/ silent')

\* A call returns and gives the lock back, when nobody sleeps without a reason.
LEMMA ReturnPipe ==
  ASSUME IInv, PipeInv, NEW p \in Procs, proc[p].state = "RUNNING", thread[p].pc \in {"read", "write", "return"},
         Return(p), silent' \in BOOLEAN,
         \A q \in Procs : /\ Waiting(q, Nread) => ReadReasonAfter
                          /\ Waiting(q, Nwrite) => WriteReason
  PROVE  IInv' /\ PipeInv'
<1>1. /\ Go(p, "user") /\ pipe' = [pipe EXCEPT !.lock = None]
      /\ io' = [io EXCEPT ![p].n = 0, ![p].i = 0] /\ ref' = ref /\ fds' = fds
  BY DEF Return, LeaveOthers
<1>2. pipe.lock = p /\ thread[p].pc \in CallPoints
  BY StringFacts DEF PipeInv, PipeLocks, Locked
<1>3. IInv'
  BY <1>1, <1>2, GoIInv DEF Go
<1>4. /\ thread'[p].pc = "user" /\ thread'[p].then = thread[p].then /\ \A q \in Procs \ {p} : thread'[q] = thread[q]
      /\ proc' = proc
  BY <1>1, GoFacts
<1>5. /\ pipe' \in PipeRecord /\ pipe'.lock = None
      /\ Count' = Count /\ (Full' <=> Full) /\ (Empty' <=> Empty) /\ \A e : Open(e)' <=> Open(e)
      /\ pipe'.freed = pipe.freed /\ pipe'.writeopen = pipe.writeopen /\ pipe'.readopen = pipe.readopen
  <2>1. None \in 0 .. NPROC
    BY ProcAssumption DEF None, ProcAssumption
  <2> QED BY <1>1, <2>1, LockTypes DEF Count, Full, Empty, Open
<1>6. /\ io' \in [Procs -> IoRecord] /\ io'[p].i = 0 /\ io'[p].n = 0
      /\ io'[p].end = io[p].end /\ io'[p].ret = io[p].ret
      /\ \A q \in Procs \ {p} : io'[q] = io[q]
  <2> DEFINE r == [io[p] EXCEPT !.n = 0, !.i = 0]
  <2>1. io' = [io EXCEPT ![p] = r]
    BY <1>1 DEF PipeInv, PipeTypes, IoRecord
  <2>2. r \in IoRecord /\ r.n = 0 /\ r.i = 0 /\ r.end = io[p].end /\ r.ret = io[p].ret
    BY DEF PipeInv, PipeTypes, IoRecord
  <2> HIDE DEF r
  <2> QED BY <2>1, <2>2, IoFacts
<1>7. PipeTypes'
  BY <1>1, <1>4, <1>5, <1>6 DEF PipeInv, PipeTypes
<1>8. Place(p)' = "user" /\ ~Locked(p)'
  BY <1>4 DEF Place, Locked
<1>9. Reasons'
  <2>1. (ReadReasonAfter => ReadReason') /\ (WriteReason => WriteReason')
    BY <1>5 DEF ReadReason, WriteReason, ReadReasonAfter
  <2>2. \A q \in Procs : (Waiting(q, Nread)' => Waiting(q, Nread)) /\ (Waiting(q, Nwrite)' => Waiting(q, Nwrite))
    BY <1>4 DEF Waiting, Asleep
  <2>3. \A q \in Procs : (Waiting(q, Nread)' => ReadReason') /\ (Waiting(q, Nwrite)' => WriteReason')
    <3> SUFFICES ASSUME NEW q \in Procs
                 PROVE  (Waiting(q, Nread)' => ReadReason') /\ (Waiting(q, Nwrite)' => WriteReason')
      OBVIOUS
    <3>1. Waiting(q, Nread)' => ReadReasonAfter
      BY <2>2
    <3>2. Waiting(q, Nwrite)' => WriteReason
      BY <2>2
    <3> QED BY <3>1, <3>2, <2>1
  <2> QED BY <2>3 DEF Reasons
<1>10. Thens!(p)' /\ Calls!(p)' /\ Progress!(p)'
  <2>1. Thens!(p)'
    BY <1>1, <1>4 DEF PipeInv, Thens
  <2>2. Calls!(p)'
    BY <1>8
  <2>3. Progress!(p)'
    BY <1>4, <1>6, <1>8
  <2> QED BY <2>1, <2>2, <2>3
<1> QED BY <1>1, <1>2, <1>3, <1>4, <1>5, <1>6, <1>7, <1>8, <1>9, <1>10, CallStep DEF Closed

\* wakeup() under the lock: all those who sleep there are to be woken.
LEMMA WakeThenPipe ==
  ASSUME IInv, PipeInv, NEW p \in Procs, proc[p].state = "RUNNING",
         NEW chan \in {Nread, Nwrite}, NEW then \in {"writesleep", "return"}, WakeThen(p, chan, then),
         \/ chan = Nread /\ thread[p].pc = "write" /\ then = "return"
         \/ chan = Nread /\ thread[p].pc = "write" /\ then = "writesleep" /\ Full /\ pipe.readopen
         \/ chan = Nwrite /\ thread[p].pc = "copy" /\ then = "return" /\ (io[p].i = io[p].n \/ Empty)
  PROVE  IInv' /\ PipeInv'
<1>1. /\ Step(p, Wakeup(p, chan, then), proc) /\ pipe' = pipe /\ io' = io /\ ref' = ref /\ fds' = fds
      /\ silent' = (silent /\ chan # Nread)
  BY DEF WakeThen, LeaveOthers
<1>2. pipe.lock = p /\ thread[p].pc \in CallPoints /\ then \in CallPoints /\ chan \in CallChans
  BY StringFacts, ChanFacts DEF PipeInv, PipeLocks, Locked
<1>3. IInv'
  BY <1>1, <1>2, WakeupIInv
<1>4. /\ thread'[p].pc = "wakeup" /\ thread'[p].then = then /\ thread'[p].chan = chan /\ thread'[p].scan = 1
      /\ \A q \in Procs \ {p} : thread'[q] = thread[q]
      /\ proc' = proc
  BY <1>1, WakeFacts
<1>5. /\ Count' = Count /\ (Full' <=> Full) /\ (Empty' <=> Empty) /\ \A e : Open(e)' <=> Open(e)
  BY <1>1 DEF Count, Full, Empty, Open
<1>6. PipeTypes'
  <2>1. silent' \in BOOLEAN
    BY <1>1
  <2> QED BY <1>1, <1>5, <2>1 DEF PipeInv, PipeTypes
<1>7. Place(p)' = then /\ Place(p) = thread[p].pc /\ Locked(p)'
  BY <1>4 DEF Place, Locked
<1>8. Reasons'
  <2> SUFFICES ASSUME NEW q \in Procs
               PROVE  /\ Waiting(q, Nread)' => ReadReason' \/ \E h \in Procs : Writing(h)' \/ Waking(h, q, Nread)'
                      /\ Waiting(q, Nwrite)' => WriteReason' \/ \E h \in Procs : thread'[h].pc = "copy" \/ Waking(h, q, Nwrite)'
    BY DEF Reasons
  <2>1. (chan # Nread /\ ReadReason => ReadReason') /\ (WriteReason => WriteReason')
    BY <1>1, <1>5 DEF ReadReason, WriteReason
  <2>2. \A c \in {Nread, Nwrite} : Waiting(q, c)' => Waiting(q, c)
    BY <1>4 DEF Waiting, Asleep
  <2>3. Waking(p, q, chan)'
    BY <1>4, ProcAssumption DEF Waking, Procs, ProcAssumption
  <2>4. \A c : ~Waking(p, q, c)
    BY DEF Waking
  <2> QED BY <1>2, <2>1, <2>2, <2>3, <2>4, Alone, ChanFacts DEF Writing
<1>9. Thens!(p)' /\ Calls!(p)' /\ Progress!(p)'
  <2>1. Thens!(p)'
    BY <1>4 DEF Wakes
  <2>2. thread[p].pc = "copy" => "r" \in fds[p]
    BY <1>7 DEF PipeInv, Calls
  <2>3. thread[p].pc = "write" => "w" \in fds[p]
    BY <1>7 DEF PipeInv, Calls
  <2>4. Calls!(p)'
    BY <1>1, <1>7, <2>2, <2>3
  <2>5. io[p].i <= io[p].n /\ (thread[p].pc = "copy" /\ io[p].i = 0 /\ Empty => ~pipe.writeopen)
    BY DEF PipeInv, Progress
  <2>6. Progress!(p)'
    BY <1>1, <1>4, <1>5, <1>7, <2>5, ChanFacts
  <2> QED BY <2>1, <2>4, <2>6
<1>10. /\ thread'[p].pc \notin Closed
       /\ thread'[p].pc \notin {"pipeclose", "closing"}
       /\ Place(p)' # "closed"
  BY <1>4, <1>7 DEF Closed
<1> QED BY <1>1, <1>2, <1>3, <1>4, <1>5, <1>6, <1>7, <1>8, <1>9, <1>10, CallStep

\* sleep(): whoever goes to sleep has a reason to, and so has everybody else.
LEMMA SleepThenPipe ==
  ASSUME IInv, PipeInv, NEW p \in Procs, proc[p].state = "RUNNING",
         NEW chan, NEW then, SleepThen(p, chan, then),
         \/ chan = Nread /\ thread[p].pc = "readsleep" /\ then = "readlock"
         \/ chan = Nwrite /\ thread[p].pc = "writesleep" /\ then = "writelock"
  PROVE  IInv' /\ PipeInv'
<1>1. /\ Sleep(p, chan, then) /\ pipe' = [pipe EXCEPT !.lock = None] /\ io' = io /\ ref' = ref /\ fds' = fds
      /\ silent' = silent
  BY DEF SleepThen, LeaveOthers
<1>2. pipe.lock = p /\ thread[p].pc \in CallPoints /\ then \in CallPoints /\ chan \in CallChans
  BY StringFacts, ChanFacts DEF PipeInv, PipeLocks, Locked
<1>3. IInv'
  BY <1>1, <1>2, SleepIInv
<1>4. /\ thread'[p].pc = "sleep" /\ thread'[p].then = then /\ thread'[p].chan = chan
      /\ \A q \in Procs \ {p} : thread'[q] = thread[q]
      /\ \A q \in Procs : proc'[q].state = proc[q].state /\ proc'[q].chan = proc[q].chan
  BY <1>1, SleepFacts
<1>5. /\ pipe' \in PipeRecord /\ pipe'.lock = None
      /\ Count' = Count /\ (Full' <=> Full) /\ (Empty' <=> Empty) /\ \A e : Open(e)' <=> Open(e)
      /\ pipe'.freed = pipe.freed /\ pipe'.writeopen = pipe.writeopen /\ pipe'.readopen = pipe.readopen
  <2>1. None \in 0 .. NPROC
    BY ProcAssumption DEF None, ProcAssumption
  <2> QED BY <1>1, <2>1, LockTypes DEF Count, Full, Empty, Open
<1>6. PipeTypes'
  BY <1>1, <1>4, <1>5 DEF PipeInv, PipeTypes
<1>7. Place(p)' = then /\ Place(p) = thread[p].pc /\ ~Locked(p)'
  BY <1>4 DEF Place, Locked
<1>8. Reasons'
  <2> SUFFICES ASSUME NEW q \in Procs
               PROVE  (Waiting(q, Nread)' => ReadReason') /\ (Waiting(q, Nwrite)' => WriteReason')
    BY DEF Reasons
  <2>1. (ReadReason => ReadReason') /\ (WriteReason => WriteReason')
    BY <1>1, <1>5 DEF ReadReason, WriteReason
  <2>2. q # p => \A c \in {Nread, Nwrite} : Waiting(q, c)' => Waiting(q, c)
    BY <1>4 DEF Waiting, Asleep
  <2>3. (Waiting(q, Nread) => ReadReason) /\ (Waiting(q, Nwrite) => WriteReason)
    <3>1. thread[p].pc \notin {"write", "copy", "wakeup"}
      OBVIOUS
    <3> QED BY <1>2, <3>1, Alone DEF Waking, Writing
  <2>4. \A c : Waiting(p, c)' => c = chan
    <3>1. proc'[p].state # "SLEEPING"
      BY <1>4
    <3> QED BY <1>4, <3>1 DEF Waiting, Asleep
  <2>5. (chan = Nread => ReadReason) /\ (chan = Nwrite => WriteReason)
    <3>1. CASE chan = Nread
      <4>1. Place(p) = "readsleep"
        BY <1>7, <3>1, ChanFacts
      <4> QED BY <3>1, <4>1, ChanFacts DEF ReadReason, PipeInv, Progress
    <3>2. CASE chan = Nwrite
      <4>1. Place(p) = "writesleep"
        BY <1>7, <3>2, ChanFacts
      <4> QED BY <3>2, <4>1, ChanFacts DEF WriteReason, PipeInv, Progress
    <3> QED BY <3>1, <3>2
  <2> QED BY <2>1, <2>2, <2>3, <2>4, <2>5
<1>9. Thens!(p)' /\ Calls!(p)' /\ Progress!(p)'
  <2>1. Thens!(p)'
    BY <1>4 DEF SleepsOn
  <2>2. Calls!(p)'
    BY <1>1, <1>7 DEF PipeInv, Calls
  <2>3. Progress!(p)'
    BY <1>1, <1>4, <1>7 DEF PipeInv, Progress
  <2> QED BY <2>1, <2>2, <2>3
<1> QED BY <1>1, <1>2, <1>3, <1>4, <1>5, <1>6, <1>7, <1>8, <1>9, CallStep DEF Closed

-----------------------------------------------------------------------------
(* The bytes.                                                              *)

LEMMA StutterIInv == ASSUME IInv, UNCHANGED procvars PROVE IInv'
BY NextIInv

\* One byte more in the buffer: it was not full, so that no writer slept.
LEMMA WriteBytePipe == ASSUME IInv, PipeInv, NEW p \in Procs, WriteByte(p) PROVE IInv' /\ PipeInv'
<1> DEFINE a == pipe.nread
           b == pipe.nwrite
           byte == <<p, io[p].sent + 1>>
           r == [io[p] EXCEPT !.i = @ + 1, !.sent = @ + 1]
<1>1. /\ thread[p].pc = "write" /\ io[p].i < io[p].n /\ ~Full
      /\ pipe' = [pipe EXCEPT !.data[b % PIPESIZE] = byte, !.nwrite = (@ + 1) % CountMod]
      /\ io' = [io EXCEPT ![p].i = @ + 1, ![p].sent = @ + 1]
      /\ UNCHANGED procvars /\ UNCHANGED <<ref, fds, silent>>
  BY DEF WriteByte, At, LeaveOthers
<1>2. IInv' /\ thread' = thread /\ proc' = proc
  BY <1>1, StutterIInv DEF procvars
<1>3. pipe.lock = p
  BY <1>1 DEF PipeInv, PipeLocks, Locked
<1>4. /\ a \in Counters /\ b \in Counters /\ byte \in Bytes
      /\ (b + 1) % CountMod \in Counters /\ b % PIPESIZE \in Cells
  <2>1. a \in Counters /\ b \in Counters
    BY DEF PipeInv, PipeTypes, PipeRecord
  <2>2. byte \in Bytes
    BY DEF PipeInv, PipeTypes, IoRecord, Bytes
  <2>3. b % PIPESIZE \in Cells
    BY <2>1, PipeAssumption DEF PipeAssumption, Counters, Cells
  <2> QED BY <2>1, <2>2, <2>3, CounterFacts
<1>5. /\ pipe' \in PipeRecord /\ pipe'.lock = p /\ pipe'.nread = a /\ pipe'.nwrite = (b + 1) % CountMod
      /\ pipe'.freed = pipe.freed /\ pipe'.writeopen = pipe.writeopen /\ pipe'.readopen = pipe.readopen
  <2>1. \A x \in Counters, y \in Bytes, k \in Cells :
          LET t == [pipe EXCEPT !.data[k] = y, !.nwrite = x]
          IN /\ t \in PipeRecord /\ t.lock = pipe.lock /\ t.nread = pipe.nread /\ t.nwrite = x
             /\ t.freed = pipe.freed /\ t.writeopen = pipe.writeopen /\ t.readopen = pipe.readopen
    BY DEF PipeInv, PipeTypes, PipeRecord
  <2>2. pipe' = [pipe EXCEPT !.data[b % PIPESIZE] = byte, !.nwrite = (b + 1) % CountMod]
    BY <1>1 DEF PipeInv, PipeTypes, PipeRecord
  <2> HIDE DEF byte
  <2> QED BY ZenonT(30), <1>3, <1>4, <2>1, <2>2
<1>6. /\ io' \in [Procs -> IoRecord] /\ io'[p].i = io[p].i + 1 /\ io'[p].n = io[p].n
      /\ io'[p].end = io[p].end /\ io'[p].ret = io[p].ret
      /\ \A q \in Procs \ {p} : io'[q] = io[q]
  <2>1. io' = [io EXCEPT ![p] = r]
    BY <1>1 DEF PipeInv, PipeTypes, IoRecord
  <2>2. r \in IoRecord /\ r.i = io[p].i + 1 /\ r.n = io[p].n /\ r.end = io[p].end /\ r.ret = io[p].ret
    <3> DEFINE s == [io[p] EXCEPT !.i = @ + 1]
    <3>1. s \in IoRecord /\ s.i = io[p].i + 1 /\ s.n = io[p].n /\ s.end = io[p].end /\ s.ret = io[p].ret
      BY DEF PipeInv, PipeTypes, IoRecord
    <3>2. r = [s EXCEPT !.sent = @ + 1]
      BY DEF PipeInv, PipeTypes, IoRecord
    <3> HIDE DEF s, r
    <3>3. r \in IoRecord /\ r.i = s.i /\ r.n = s.n /\ r.end = s.end /\ r.ret = s.ret
      BY <3>1, <3>2 DEF IoRecord
    <3> QED BY <3>1, <3>3
  <2> HIDE DEF r
  <2> QED BY <2>1, <2>2, IoFacts
<1>7. Count' = Count + 1 /\ Count < PIPESIZE
  <2>1. Count < PIPESIZE
    BY <1>1, FullEmpty, PipeAssumption DEF PipeInv, PipeTypes, PipeAssumption
  <2>2. (((b + 1) % CountMod) - a) % CountMod = ((b - a) % CountMod) + 1
    BY <2>1, <1>4, CountUp DEF Count
  <2> QED BY <1>5, <2>1, <2>2 DEF Count
<1>8. PipeTypes'
  <2>1. Count' \in 0 .. PIPESIZE
    BY <1>7, PipeAssumption DEF PipeInv, PipeTypes, PipeAssumption
  <2> QED BY <1>1, <1>2, <1>5, <1>6, <2>1 DEF PipeInv, PipeTypes
<1>9. Reasons'
  <2> SUFFICES ASSUME NEW q \in Procs
               PROVE  ~Waiting(q, Nwrite)'
    <3>1. Writing(p)'
      <4>1. io[p].i \in Nat
        BY DEF PipeInv, PipeTypes, IoRecord
      <4> QED BY <1>1, <1>2, <1>6, <4>1 DEF Writing
    <3> QED BY <3>1 DEF Reasons
  <2>1. ~Waiting(q, Nwrite)
    BY <1>1, <1>3, Alone DEF WriteReason, Waking
  <2> QED BY <1>2, <2>1 DEF Waiting, Asleep
<1>10. Place(p)' = "write" /\ Place(p) = "write" /\ Locked(p)'
  BY <1>1, <1>2 DEF Place, Locked
<1>11. Thens!(p)' /\ Calls!(p)' /\ Progress!(p)'
  <2>1. Thens!(p)'
    BY <1>1, <1>2 DEF PipeInv, Thens
  <2>2. Calls!(p)'
    BY <1>1, <1>10 DEF PipeInv, Calls
  <2>3. io[p].i \in Nat /\ io[p].n \in Nat
    BY DEF PipeInv, PipeTypes, IoRecord
  <2>4. Progress!(p)'
    BY <1>1, <1>2, <1>6, <1>10, <2>3
  <2> QED BY <2>1, <2>2, <2>4
<1>12. \A e \in Ends : Open(e)' <=> Open(e)
  BY <1>5 DEF Open
<1> QED BY <1>1, <1>2, <1>3, <1>5, <1>6, <1>8, <1>9, <1>10, <1>11, <1>12, CallStep DEF Closed

\* One byte less: there was one, so that no reader slept, unless a killed
\* writer has left it silently.
LEMMA ReadBytePipe == ASSUME IInv, PipeInv, NEW p \in Procs, ReadByte(p) PROVE IInv' /\ PipeInv'
<1> DEFINE a == pipe.nread
           b == pipe.nwrite
           r == [io[p] EXCEPT !.i = @ + 1]
<1>1. /\ thread[p].pc = "copy" /\ io[p].i < io[p].n /\ ~Empty
      /\ pipe' = [pipe EXCEPT !.nread = (@ + 1) % CountMod]
      /\ io' = [io EXCEPT ![p].i = @ + 1]
      /\ UNCHANGED procvars /\ UNCHANGED <<ref, fds, silent>>
  BY DEF ReadByte, At, LeaveOthers
<1>2. IInv' /\ thread' = thread /\ proc' = proc
  BY <1>1, StutterIInv DEF procvars
<1>3. pipe.lock = p
  BY <1>1 DEF PipeInv, PipeLocks, Locked
<1>4. a \in Counters /\ b \in Counters /\ (a + 1) % CountMod \in Counters
  <2>1. a \in Counters /\ b \in Counters
    BY DEF PipeInv, PipeTypes, PipeRecord
  <2> QED BY <2>1, CounterFacts
<1>5. /\ pipe' \in PipeRecord /\ pipe'.lock = p /\ pipe'.nwrite = b /\ pipe'.nread = (a + 1) % CountMod
      /\ pipe'.freed = pipe.freed /\ pipe'.writeopen = pipe.writeopen /\ pipe'.readopen = pipe.readopen
  <2>1. \A x \in Counters :
          LET t == [pipe EXCEPT !.nread = x]
          IN /\ t \in PipeRecord /\ t.lock = pipe.lock /\ t.nwrite = pipe.nwrite /\ t.nread = x
             /\ t.freed = pipe.freed /\ t.writeopen = pipe.writeopen /\ t.readopen = pipe.readopen
    BY DEF PipeInv, PipeTypes, PipeRecord
  <2>2. pipe' = [pipe EXCEPT !.nread = (a + 1) % CountMod]
    BY <1>1 DEF PipeInv, PipeTypes, PipeRecord
  <2> QED BY <1>3, <1>4, <2>1, <2>2
<1>6. /\ io' \in [Procs -> IoRecord] /\ io'[p].i = io[p].i + 1 /\ io'[p].n = io[p].n
      /\ io'[p].end = io[p].end /\ io'[p].ret = io[p].ret
      /\ \A q \in Procs \ {p} : io'[q] = io[q]
  <2>1. io' = [io EXCEPT ![p] = r]
    BY <1>1 DEF PipeInv, PipeTypes, IoRecord
  <2>2. r \in IoRecord /\ r.i = io[p].i + 1 /\ r.n = io[p].n /\ r.end = io[p].end /\ r.ret = io[p].ret
    BY DEF PipeInv, PipeTypes, IoRecord
  <2> HIDE DEF r
  <2> QED BY <2>1, <2>2, IoFacts
<1>7. Count' = Count - 1 /\ Count > 0
  <2>1. Count > 0
    BY <1>1, FullEmpty, PipeAssumption DEF PipeInv, PipeTypes, PipeAssumption
  <2>2. (b - ((a + 1) % CountMod)) % CountMod = ((b - a) % CountMod) - 1
    BY <1>1, <1>4, CountDown DEF Empty
  <2> QED BY <1>5, <2>1, <2>2 DEF Count
<1>8. PipeTypes'
  <2>1. Count' \in 0 .. PIPESIZE
    BY <1>7, PipeAssumption DEF PipeInv, PipeTypes, PipeAssumption
  <2> QED BY <1>1, <1>2, <1>5, <1>6, <2>1 DEF PipeInv, PipeTypes
<1>9. Reasons'
  <2> SUFFICES ASSUME NEW q \in Procs
               PROVE  Waiting(q, Nread)' => ReadReason'
    BY <1>1, <1>2 DEF Reasons
  <2>1. Waiting(q, Nread) => pipe.writeopen /\ silent
    BY <1>1, <1>3, Alone DEF ReadReason, Waking, Writing
  <2> QED BY <1>1, <1>2, <1>5, <2>1 DEF Waiting, Asleep, ReadReason
<1>10. Place(p)' = "copy" /\ Place(p) = "copy" /\ Locked(p)'
  BY <1>1, <1>2 DEF Place, Locked
<1>11. Thens!(p)' /\ Calls!(p)' /\ Progress!(p)'
  <2>1. Thens!(p)'
    BY <1>1, <1>2 DEF PipeInv, Thens
  <2>2. Calls!(p)'
    BY <1>1, <1>10 DEF PipeInv, Calls
  <2>3. io[p].i \in Nat /\ io[p].n \in Nat
    BY DEF PipeInv, PipeTypes, IoRecord
  <2>4. Progress!(p)'
    BY <1>1, <1>2, <1>6, <1>10, <2>3
  <2> QED BY <2>1, <2>2, <2>4
<1>12. \A e \in Ends : Open(e)' <=> Open(e)
  BY <1>5 DEF Open
<1> QED BY <1>1, <1>2, <1>3, <1>5, <1>6, <1>8, <1>9, <1>10, <1>11, <1>12, CallStep DEF Closed

\* What piperead() finds: something to read or the end of the file, where its loop starts, or
\* nothing yet, where it is to sleep.
LEMMA ReadGoPipe ==
  ASSUME IInv, PipeInv, NEW p \in Procs, thread[p].pc = "read", proc[p].state = "RUNNING", NEW point,
         \/ point = "copy" /\ ~(Empty /\ pipe.writeopen)
         \/ point = "readsleep" /\ Empty /\ pipe.writeopen,
         Go(p, point), UNCHANGED pipevars
  PROVE  IInv' /\ PipeInv'
<1>1. pipe' = pipe /\ io' = io /\ ref' = ref /\ fds' = fds /\ silent' = silent
  BY DEF pipevars
<1>2. pipe.lock = p /\ thread[p].pc \in CallPoints /\ point \in CallPoints /\ point # "exit"
  BY StringFacts DEF PipeInv, PipeLocks, Locked
<1>3. IInv'
  BY <1>1, <1>2, GoIInv DEF Go
<1>4. /\ thread'[p].pc = point /\ thread'[p].then = thread[p].then /\ \A q \in Procs \ {p} : thread'[q] = thread[q]
      /\ proc' = proc
  BY <1>1, GoFacts
<1>5. /\ Count' = Count /\ (Full' <=> Full) /\ (Empty' <=> Empty) /\ \A e : Open(e)' <=> Open(e)
  BY <1>1 DEF Count, Full, Empty, Open
<1>6. PipeTypes'
  BY <1>1, <1>4, <1>5 DEF PipeInv, PipeTypes
<1>7. Place(p)' = point /\ Place(p) = "read" /\ Locked(p)'
  BY <1>1, <1>4 DEF Place, Locked
<1>8. Reasons'
  <2>1. (ReadReason => ReadReason') /\ (WriteReason => WriteReason')
    BY <1>1, <1>4, <1>5 DEF ReadReason, WriteReason
  <2>2. \A q \in Procs : \A c \in {Nread, Nwrite} : Waiting(q, c)' => Waiting(q, c)
    BY <1>4 DEF Waiting, Asleep
  <2>3. \A q \in Procs : (Waiting(q, Nread) => ReadReason) /\ (Waiting(q, Nwrite) => WriteReason)
    BY <1>2, Alone DEF Waking, Writing
  <2> QED BY <2>1, <2>2, <2>3 DEF Reasons
<1>9. Thens!(p)' /\ Calls!(p)' /\ Progress!(p)'
  <2>1. Thens!(p)'
    BY <1>1, <1>4 DEF PipeInv, Thens
  <2>2. Calls!(p)'
    BY <1>1, <1>7 DEF PipeInv, Calls
  <2>3. Progress!(p)'
    BY <1>1, <1>4, <1>5, <1>7 DEF PipeInv, Progress
  <2> QED BY <2>1, <2>2, <2>3
<1> QED BY <1>1, <1>2, <1>3, <1>4, <1>5, <1>6, <1>7, <1>8, <1>9, CallStep DEF Closed

LEMMA ReadStartPipe == ASSUME IInv, PipeInv, NEW p \in Procs, ReadStart(p) PROVE IInv' /\ PipeInv'
BY ReadGoPipe DEF ReadStart, At, LeaveOthers, pipevars

LEMMA WriteFullPipe == ASSUME IInv, PipeInv, NEW p \in Procs, WriteFull(p) PROVE IInv' /\ PipeInv'
<1>1. thread[p].pc = "write" /\ proc[p].state = "RUNNING" /\ Full /\ pipe.lock = p
  BY DEF WriteFull, At, PipeInv, PipeLocks, Locked
<1>2. CASE ~pipe.readopen \/ proc[p].killed
  <2>1. "w" \in fds[p] /\ pipe.writeopen
    <3>1. Place(p) = "write"
      BY <1>1 DEF Place
    <3>2. "w" \in fds[p]
      BY <3>1 DEF PipeInv, Calls
    <3> QED BY <3>2, HasOpen DEF Open
  <2>2. Return(p) /\ silent' = (silent \/ (proc[p].killed /\ io[p].i > 0))
    BY <1>2 DEF WriteFull
  <2>3. ASSUME NEW q \in Procs, Waiting(q, Nread) PROVE ReadReasonAfter
    <3>1. pipe.readopen
      BY <2>3, WaitingFacts, HasOpen DEF Open
    <3>2. ReadReason \/ Writing(p)
      BY <1>1, <2>3, Alone DEF Waking
    <3>3. silent' = (silent \/ io[p].i > 0)
      BY <1>2, <2>2, <3>1
    <3> QED BY <2>1, <3>2, <3>3 DEF ReadReason, ReadReasonAfter, Writing
  <2>4. ASSUME NEW q \in Procs, Waiting(q, Nwrite) PROVE WriteReason
    BY <1>1, <2>4, Alone DEF Waking
  <2>5. silent' \in BOOLEAN
    BY <2>2
  <2> QED BY <1>1, <2>2, <2>3, <2>4, <2>5, ReturnPipe
<1>3. CASE ~(~pipe.readopen \/ proc[p].killed)
  <2>1. WakeThen(p, Nread, "writesleep")
    BY <1>3 DEF WriteFull
  <2> QED BY <1>1, <1>3, <2>1, WakeThenPipe
<1> QED BY <1>2, <1>3

LEMMA ReadEmptyPipe == ASSUME IInv, PipeInv, NEW p \in Procs, ReadEmpty(p) PROVE IInv' /\ PipeInv'
<1>1. /\ thread[p].pc = "read" /\ proc[p].state = "RUNNING" /\ Empty /\ pipe.writeopen /\ pipe.lock = p
  BY DEF ReadEmpty, At, PipeInv, PipeLocks, Locked
<1>2. CASE proc[p].killed
  <2>1. Return(p) /\ silent' = silent
    BY <1>2 DEF ReadEmpty
  <2>2. silent' \in BOOLEAN
    BY <2>1 DEF PipeInv, PipeTypes
  <2>3. \A q \in Procs : /\ Waiting(q, Nread) => ReadReasonAfter
                         /\ Waiting(q, Nwrite) => WriteReason
    BY <1>1, <2>1, Alone DEF Waking, Writing, ReadReasonAfter
  <2> QED BY <1>1, <2>1, <2>2, <2>3, ReturnPipe
<1>3. CASE ~proc[p].killed
  <2>1. Go(p, "readsleep") /\ UNCHANGED pipevars
    BY <1>3 DEF ReadEmpty, LeaveOthers, pipevars
  <2> QED BY <1>1, <2>1, ReadGoPipe
<1> QED BY <1>2, <1>3

LEMMA ReturnedPipe == ASSUME IInv, PipeInv, NEW p \in Procs, At(p, "return"), Return(p), UNCHANGED silent PROVE IInv' /\ PipeInv'
<1>1. thread[p].pc = "return" /\ proc[p].state = "RUNNING" /\ pipe.lock = p
  BY DEF At, PipeInv, PipeLocks, Locked
<1>2. silent' \in BOOLEAN
  BY DEF PipeInv, PipeTypes
<1>3. \A q \in Procs : /\ Waiting(q, Nread) => ReadReasonAfter
                       /\ Waiting(q, Nwrite) => WriteReason
  BY <1>1, Alone DEF Waking, Writing, ReadReason, ReadReasonAfter
<1> QED BY <1>1, <1>2, <1>3, ReturnPipe

-----------------------------------------------------------------------------
(* Calls that start, and files that are closed.                            *)

\* A step of p in user mode or at the start of exit(), whoever has the lock.
LEMMA FreeStep ==
  ASSUME PipeInv, NEW p \in Procs, pipe' = pipe, silent' = silent, proc' = proc, PipeTypes', Files', Closes',
         \A q \in Procs \ {p} : thread'[q] = thread[q] /\ io'[q] = io[q] /\ fds'[q] = fds[q],
         thread[p].pc \in {"user", "exit"},
         thread'[p].pc \in {"user", "exit", "readlock", "writelock", "pipeclose"},
         thread'[p].then = thread[p].then, io'[p].i = io[p].i,
         thread'[p].pc = "readlock" => "r" \in fds'[p],
         thread'[p].pc = "writelock" => "w" \in fds'[p]
  PROVE  PipeInv'
<1>1. /\ Place(p) = thread[p].pc /\ Place(p)' = thread'[p].pc /\ ~Locked(p) /\ ~Locked(p)'
      /\ \A q \in Procs \ {p} : Place(q)' = Place(q) /\ (Locked(q)' <=> Locked(q))
      /\ Count' = Count /\ (Full' <=> Full) /\ (Empty' <=> Empty)
  BY DEF Place, Locked, Count, Full, Empty
<1>2. PipeLocks'
  BY <1>1 DEF PipeInv, PipeLocks
<1>3. Thens'
  <2>1. ASSUME NEW q \in Procs, q # p PROVE Thens!(q)'
    BY <2>1 DEF PipeInv, Thens
  <2>2. Thens!(p)'
    BY DEF PipeInv, Thens
  <2> QED BY <2>1, <2>2 DEF Thens
<1>4. Calls'
  <2>1. ASSUME NEW q \in Procs, q # p PROVE Calls!(q)'
    BY <2>1, <1>1 DEF PipeInv, Calls
  <2>2. Calls!(p)'
    BY <1>1
  <2> QED BY <2>1, <2>2 DEF Calls
<1>5. Progress'
  <2>1. ASSUME NEW q \in Procs, q # p PROVE Progress!(q)'
    BY <2>1, <1>1 DEF PipeInv, Progress
  <2>2. io[p].i = 0 /\ io'[p].n \in Nat
    BY <1>1 DEF PipeInv, Progress, PipeTypes, IoRecord
  <2>3. Progress!(p)'
    BY <1>1, <2>2
  <2> QED BY <2>1, <2>3 DEF Progress
<1>6. Reasons'
  <2> SUFFICES ASSUME NEW q \in Procs
               PROVE  /\ Waiting(q, Nread)' => ReadReason' \/ \E h \in Procs : Writing(h)' \/ Waking(h, q, Nread)'
                      /\ Waiting(q, Nwrite)' => WriteReason' \/ \E h \in Procs : thread'[h].pc = "copy" \/ Waking(h, q, Nwrite)'
    BY DEF Reasons
  <2>1. (ReadReason => ReadReason') /\ (WriteReason => WriteReason')
    BY <1>1 DEF ReadReason, WriteReason
  <2>2. \A c \in {Nread, Nwrite} : Waiting(q, c)' => Waiting(q, c)
    BY DEF Waiting, Asleep
  <2>3. \A h \in Procs : thread[h].pc \in {"write", "copy", "wakeup"} => thread'[h] = thread[h]
    OBVIOUS
  <2>4. \A h \in Procs : \A c \in {Nread, Nwrite} : Waking(h, q, c) => Waking(h, q, c)'
    BY <2>3 DEF Waking
  <2>5. \A h \in Procs : Writing(h) => Writing(h)'
    BY DEF Writing
  <2> QED BY <2>1, <2>2, <2>3, <2>4, <2>5 DEF PipeInv, Reasons
<1> QED BY <1>2, <1>3, <1>4, <1>5, <1>6 DEF PipeInv

LEMMA CallPipe ==
  ASSUME IInv, PipeInv, NEW p \in Procs, NEW end, NEW point, Call(p, end, point),
         (end = "r" /\ point = "readlock") \/ (end = "w" /\ point = "writelock")
  PROVE  IInv' /\ PipeInv'
<1>1. /\ thread[p].pc = "user" /\ proc[p].state = "RUNNING" /\ end \in fds[p]
      /\ Go(p, point) /\ pipe' = pipe /\ ref' = ref /\ fds' = fds /\ silent' = silent
  BY DEF Call, At, LeaveOthers
<1>2. IInv'
  BY <1>1, StringFacts, GoIInv DEF Go
<1>3. /\ thread'[p].pc = point /\ thread'[p].then = thread[p].then /\ \A q \in Procs \ {p} : thread'[q] = thread[q]
      /\ proc' = proc
  BY <1>1, GoFacts
<1>4. PICK n \in Nat : io' = [io EXCEPT ![p].n = n, ![p].calls = @ + 1]
  BY PipeAssumption DEF Call, PipeAssumption
<1>5. /\ io' \in [Procs -> IoRecord]
      /\ io'[p].i = io[p].i /\ io'[p].end = io[p].end /\ io'[p].ret = io[p].ret
      /\ \A q \in Procs \ {p} : io'[q] = io[q]
  <2> DEFINE r == [io[p] EXCEPT !.n = n, !.calls = @ + 1]
  <2>1. io' = [io EXCEPT ![p] = r]
    BY <1>4 DEF PipeInv, PipeTypes, IoRecord
  <2>2. r \in IoRecord /\ r.i = io[p].i /\ r.end = io[p].end /\ r.ret = io[p].ret
    <3> DEFINE s == [io[p] EXCEPT !.n = n]
    <3>1. s \in IoRecord /\ s.i = io[p].i /\ s.end = io[p].end /\ s.ret = io[p].ret
      BY DEF PipeInv, PipeTypes, IoRecord
    <3>2. r = [s EXCEPT !.calls = @ + 1]
      BY DEF PipeInv, PipeTypes, IoRecord
    <3> HIDE DEF s, r
    <3>3. r \in IoRecord /\ r.i = s.i /\ r.end = s.end /\ r.ret = s.ret
      BY <3>1, <3>2 DEF IoRecord
    <3> QED BY <3>1, <3>3
  <2> HIDE DEF r
  <2> QED BY <2>1, <2>2, IoFacts
<1>6. PipeTypes'
  BY <1>1, <1>3, <1>5 DEF PipeInv, PipeTypes, Count
<1>7. Files'
  BY <1>1, <1>3 DEF PipeInv, Files, Openers, Open, Closed
<1>8. Closes'
  <2>1. \A q \in Procs : /\ io'[q].end = io[q].end /\ io'[q].ret = io[q].ret
                         /\ thread'[q].pc \in {"pipeclose", "closing"} => thread[q].pc \in {"pipeclose", "closing"}
                         /\ Place(q)' = "closed" => Place(q) = "closed"
    BY <1>1, <1>3, <1>5 DEF Place
  <2>2. initproc \in Procs
    BY ProcAssumption DEF ProcAssumption, Procs, initproc
  <2>3. ASSUME NEW q \in Procs, thread'[q].pc \in {"pipeclose", "closing"}
        PROVE  /\ ref'[io'[q].end] = 0 /\ Open(io[q].end)'
               /\ \A r \in Procs \ {q} : thread'[r].pc \in {"pipeclose", "closing"} => io'[r].end # io'[q].end
    BY <1>1, <2>1, <2>3 DEF PipeInv, Closes, Open
  <2> QED BY <1>1, <2>1, <2>2, <2>3 DEF PipeInv, Closes
<1> QED BY <1>1, <1>2, <1>3, <1>5, <1>6, <1>7, <1>8, FreeStep

-----------------------------------------------------------------------------
(* Closing.                                                                *)

\* fileclose(): the references are as many as the processes that have the end open.
LEMMA CloseFiles ==
  ASSUME IInv, PipeInv, NEW p \in Procs, NEW e \in Ends, e \in fds[p],
         ref' = [ref EXCEPT ![e] = @ - 1], fds' = [fds EXCEPT ![p] = @ \ {e}], pipe' = pipe,
         \A q \in Procs : thread'[q].pc \in Closed => thread[q].pc \in Closed
  PROVE  /\ Files' /\ ref' \in [Ends -> Nat] /\ fds' \in [Procs -> SUBSET Ends]
         /\ \A q \in Procs \ {p} : fds'[q] = fds[q]
         /\ ref'[e] = ref[e] - 1 /\ \A d \in Ends \ {e} : ref'[d] = ref[d]
<1>1. ref[e] \in Nat /\ ref[e] > 0 /\ Open(e)
  BY HasOpen DEF PipeInv, PipeTypes
<1>2. /\ ref' \in [Ends -> Nat]
      /\ ref'[e] = ref[e] - 1 /\ \A d \in Ends \ {e} : ref'[d] = ref[d]
  BY <1>1 DEF PipeInv, PipeTypes
<1>3. /\ fds' \in [Procs -> SUBSET Ends]
      /\ fds'[p] = fds[p] \ {e} /\ \A q \in Procs \ {p} : fds'[q] = fds[q]
  BY DEF PipeInv, PipeTypes
<1>4. Openers(e)' = Openers(e) \ {p} /\ p \in Openers(e)
  BY <1>3 DEF Openers
<1>5. Cardinality(Openers(e)') = Cardinality(Openers(e)) - 1
  BY <1>4, OpenersFinite, FS_RemoveElement
<1>6. \A d \in Ends \ {e} : Openers(d)' = Openers(d)
  BY <1>3 DEF Openers
<1>7. \A d : Open(d)' <=> Open(d)
  BY DEF Open
<1>8. \A d \in Ends : ref'[d] = Cardinality(Openers(d)') /\ (ref'[d] > 0 => Open(d)')
  <2>1. ref'[e] = Cardinality(Openers(e)') /\ Open(e)'
    BY <1>1, <1>2, <1>5, <1>7 DEF PipeInv, Files
  <2>2. ASSUME NEW d \in Ends, d # e PROVE ref'[d] = Cardinality(Openers(d)') /\ (ref'[d] > 0 => Open(d)')
    BY <1>2, <1>6, <1>7, <2>2 DEF PipeInv, Files
  <2> QED BY <2>1, <2>2
<1>9. \A q \in Procs : thread'[q].pc \in Closed => fds'[q] = {}
  BY <1>3 DEF PipeInv, Files
<1> QED BY <1>2, <1>3, <1>8, <1>9 DEF Files

LEMMA FileClosePipe == ASSUME IInv, PipeInv, NEW p \in Procs, NEW e \in Ends, FileClose(p, e) PROVE IInv' /\ PipeInv'
<1>1. /\ e \in fds[p] /\ thread[p].pc \in {"user", "exit"} /\ proc[p].state = "RUNNING"
  BY DEF FileClose, At
<1>2. ref[e] \in Nat /\ ref[e] > 0 /\ Open(e)
  BY <1>1, HasOpen DEF PipeInv, PipeTypes
<1>3. /\ ref' = [ref EXCEPT ![e] = @ - 1] /\ fds' = [fds EXCEPT ![p] = @ \ {e}] /\ pipe' = pipe /\ silent' = silent
      /\ IF ref[e] > 1 THEN UNCHANGED <<procvars, io>>
         ELSE Go(p, "pipeclose") /\ io' = [io EXCEPT ![p].end = e, ![p].ret = thread[p].pc]
  BY <1>2 DEF FileClose
<1>4. initproc \in Procs /\ thread[initproc].pc # "exit"
  BY ProcAssumption, CallFacts DEF ProcAssumption, Procs, initproc, IInv, InitStays
<1>5. CASE ref[e] > 1
  <2>1. io' = io /\ thread' = thread /\ proc' = proc /\ IInv'
    BY <1>3, <1>5, StutterIInv DEF procvars
  <2>2. /\ Files' /\ ref' \in [Ends -> Nat] /\ fds' \in [Procs -> SUBSET Ends]
        /\ \A q \in Procs \ {p} : fds'[q] = fds[q]
        /\ ref'[e] = ref[e] - 1 /\ \A d \in Ends \ {e} : ref'[d] = ref[d]
    BY <1>1, <1>3, <2>1, CloseFiles
  <2>3. PipeTypes'
    BY <1>3, <2>1, <2>2 DEF PipeInv, PipeTypes, Count
  <2>4. Closes'
    <3>1. ASSUME NEW q \in Procs, thread[q].pc \in {"pipeclose", "closing"}
          PROVE  ref'[io[q].end] = 0 /\ Open(io[q].end)'
      <4>1. PICK d \in Ends : d = io[q].end /\ ref[d] = 0 /\ Open(d)
        BY <3>1 DEF PipeInv, PipeTypes, IoRecord, Closes
      <4>2. ref'[d] = 0
        BY <1>5, <2>2, <4>1
      <4>3. Open(io[q].end)'
        BY <1>3, <2>1, <4>1 DEF Open
      <4> QED BY <4>1, <4>2, <4>3
    <3>2. \A q \in Procs : Place(q)' = Place(q)
      BY <2>1 DEF Place
    <3> QED BY <1>3, <2>1, <3>1, <3>2 DEF PipeInv, Closes
  <2> QED BY <1>1, <1>3, <2>1, <2>2, <2>3, <2>4, FreeStep
<1>6. CASE ~(ref[e] > 1)
  <2>1. Go(p, "pipeclose") /\ ref[e] = 1
    BY <1>2, <1>3, <1>6
  <2>2. IInv'
    BY <1>1, <2>1, StringFacts, GoIInv DEF Go
  <2>3. /\ thread'[p].pc = "pipeclose" /\ thread'[p].then = thread[p].then /\ \A q \in Procs \ {p} : thread'[q] = thread[q]
        /\ proc' = proc
    BY <2>1, GoFacts
  <2>4. \A q \in Procs : thread'[q].pc \in Closed => thread[q].pc \in Closed
    BY <2>3 DEF Closed
  <2>5. /\ Files' /\ ref' \in [Ends -> Nat] /\ fds' \in [Procs -> SUBSET Ends]
        /\ \A q \in Procs \ {p} : fds'[q] = fds[q]
        /\ ref'[e] = ref[e] - 1 /\ \A d \in Ends \ {e} : ref'[d] = ref[d]
    BY <1>1, <1>3, <2>4, CloseFiles
  <2>6. /\ io' \in [Procs -> IoRecord] /\ io'[p].i = io[p].i /\ io'[p].end = e /\ io'[p].ret = thread[p].pc
        /\ \A q \in Procs \ {p} : io'[q] = io[q]
    <3> DEFINE point == thread[p].pc
               r == [io[p] EXCEPT !.end = e, !.ret = point]
    <3>1. io' = [io EXCEPT ![p] = r]
      BY <1>3, <1>6 DEF PipeInv, PipeTypes, IoRecord
    <3>2. r \in IoRecord /\ r.i = io[p].i /\ r.end = e /\ r.ret = point
      <4>1. point \in {"user", "exit"}
        BY <1>1
      <4> HIDE DEF point
      <4> QED BY <4>1 DEF PipeInv, PipeTypes, IoRecord
    <3> HIDE DEF r
    <3> QED BY <3>1, <3>2, IoFacts
  <2>7. PipeTypes'
    BY <1>3, <2>3, <2>5, <2>6 DEF PipeInv, PipeTypes, Count
  <2>8. Closes'
    <3>1. ASSUME NEW q \in Procs \ {p}, thread'[q].pc \in {"pipeclose", "closing"}
          PROVE  ref'[io'[q].end] = 0 /\ Open(io[q].end)' /\ io'[q].end # e
      <4>1. PICK d \in Ends : d = io[q].end /\ ref[d] = 0 /\ Open(d)
        BY <2>3, <3>1 DEF PipeInv, PipeTypes, IoRecord, Closes
      <4>2. d # e /\ ref'[d] = 0
        BY <2>1, <2>5, <4>1
      <4>3. Open(io[q].end)'
        BY <1>3, <2>6, <4>1 DEF Open
      <4> QED BY <2>6, <4>1, <4>2, <4>3
    <3>2. ref'[io'[p].end] = 0 /\ Open(io[p].end)'
      <4>1. Open(io[p].end)'
        BY <1>2, <1>3, <2>6 DEF Open
      <4> QED BY <2>1, <2>5, <2>6, <4>1
    <3>3. \A q \in Procs, r \in Procs : q # r /\ thread'[q].pc \in {"pipeclose", "closing"} /\ thread'[r].pc \in {"pipeclose", "closing"}
              => io'[r].end # io'[q].end
      <4> SUFFICES ASSUME NEW q \in Procs, NEW r \in Procs, q # r,
                          thread'[q].pc \in {"pipeclose", "closing"}, thread'[r].pc \in {"pipeclose", "closing"}
                   PROVE  io'[r].end # io'[q].end
        OBVIOUS
      <4>1. CASE q = p \/ r = p
        BY <2>6, <3>1, <4>1
      <4>2. CASE q # p /\ r # p
        BY <2>3, <2>6, <4>2 DEF PipeInv, Closes
      <4> QED BY <4>1, <4>2
    <3>4. \A q \in Procs : Place(q)' = "closed" => Place(q) = "closed"
      BY <2>3 DEF Place
    <3>5. io'[initproc].ret = "user"
      BY <1>1, <1>4, <2>6 DEF PipeInv, Closes
    <3> QED BY <1>3, <3>1, <3>2, <3>3, <3>4, <3>5 DEF PipeInv, Closes
  <2> QED BY <1>1, <1>3, <2>2, <2>3, <2>5, <2>6, <2>7, <2>8, FreeStep
<1> QED BY <1>5, <1>6

\* pipeclose(): the end is closed, and who sleeps for the other end is woken.
LEMMA PipeClosePipe == ASSUME IInv, PipeInv, NEW p \in Procs, PipeClose(p) PROVE IInv' /\ PipeInv'
<1> DEFINE e == io[p].end
           chan == IF e = "w" THEN Nread ELSE Nwrite
<1>1. /\ thread[p].pc = "closing" /\ proc[p].state = "RUNNING"
      /\ pipe' = (IF e = "w" THEN [pipe EXCEPT !.writeopen = FALSE] ELSE [pipe EXCEPT !.readopen = FALSE])
      /\ Step(p, Wakeup(p, chan, "closed"), proc)
      /\ io' = io /\ ref' = ref /\ fds' = fds /\ silent' = (silent /\ e # "w")
  BY DEF PipeClose, At, LeaveOthers
<1>2. /\ pipe.lock = p /\ thread[p].pc \in CallPoints /\ "closed" \in CallPoints /\ chan \in CallChans
      /\ e \in Ends /\ ref[e] = 0 /\ Open(e) /\ ~pipe.freed
  <2>1. e \in Ends /\ ref[e] = 0 /\ Open(e)
    BY <1>1 DEF PipeInv, PipeTypes, IoRecord, Closes
  <2>2. ~pipe.freed
    BY <2>1 DEF Open, PipeInv, Closes
  <2> QED BY <1>1, <2>1, <2>2, StringFacts, ChanFacts DEF PipeInv, PipeLocks, Locked
<1> HIDE DEF chan
<1>3. IInv'
  BY <1>1, <1>2, WakeupIInv
<1>4. /\ thread'[p].pc = "wakeup" /\ thread'[p].then = "closed" /\ thread'[p].chan = chan /\ thread'[p].scan = 1
      /\ \A q \in Procs \ {p} : thread'[q] = thread[q]
      /\ proc' = proc
  BY <1>1, WakeFacts
<1>5. /\ pipe' \in PipeRecord /\ pipe'.lock = p /\ pipe'.nread = pipe.nread /\ pipe'.nwrite = pipe.nwrite
      /\ pipe'.freed = pipe.freed
      /\ e = "w" => ~pipe'.writeopen /\ pipe'.readopen = pipe.readopen
      /\ e # "w" => ~pipe'.readopen /\ pipe'.writeopen = pipe.writeopen
  <2>1. ASSUME NEW b \in BOOLEAN
        PROVE  /\ LET t == [pipe EXCEPT !.writeopen = b]
                  IN /\ t \in PipeRecord /\ t.lock = pipe.lock /\ t.nread = pipe.nread /\ t.nwrite = pipe.nwrite
                     /\ t.freed = pipe.freed /\ t.writeopen = b /\ t.readopen = pipe.readopen
               /\ LET t == [pipe EXCEPT !.readopen = b]
                  IN /\ t \in PipeRecord /\ t.lock = pipe.lock /\ t.nread = pipe.nread /\ t.nwrite = pipe.nwrite
                     /\ t.freed = pipe.freed /\ t.readopen = b /\ t.writeopen = pipe.writeopen
    BY DEF PipeInv, PipeTypes, PipeRecord
  <2> HIDE DEF e
  <2> QED BY <1>1, <1>2, <2>1
<1>6. Count' = Count /\ (Full' <=> Full) /\ (Empty' <=> Empty)
  BY <1>5 DEF Count, Full, Empty
<1>7. PipeTypes'
  <2>1. silent' \in BOOLEAN
    BY <1>1
  <2> QED BY <1>1, <1>5, <1>6, <2>1 DEF PipeInv, PipeTypes
<1>8. \A d \in Ends : (d # e => (Open(d)' <=> Open(d)))
  BY <1>2, <1>5 DEF Open, Ends
<1>9. Files'
  BY <1>1, <1>2, <1>4, <1>8 DEF PipeInv, Files, Openers, Closed
<1>10. Place(p)' = "closed" /\ Place(p) = "closing" /\ Locked(p)'
  BY <1>1, <1>4 DEF Place, Locked
<1>11. Closes'
  <2>1. ASSUME NEW q \in Procs, thread'[q].pc \in {"pipeclose", "closing"}
        PROVE  /\ ref'[io'[q].end] = 0 /\ Open(io[q].end)'
               /\ \A r \in Procs \ {q} : thread'[r].pc \in {"pipeclose", "closing"} => io'[r].end # io'[q].end
    <3>1. q # p /\ thread[q].pc \in {"pipeclose", "closing"}
      BY <1>4, <2>1
    <3>2. PICK d \in Ends : d = io[q].end /\ ref[d] = 0 /\ Open(d) /\ d # e
      BY <1>1, <3>1 DEF PipeInv, PipeTypes, IoRecord, Closes
    <3>3. Open(io[q].end)'
      BY <1>1, <1>8, <3>2 DEF Open
    <3>4. \A r \in Procs \ {q} : thread'[r].pc \in {"pipeclose", "closing"} => io'[r].end # io'[q].end
      BY <1>1, <1>4, <3>1 DEF PipeInv, Closes
    <3> QED BY <1>1, <3>2, <3>3, <3>4
  <2> QED BY <1>1, <1>2, <1>5, <2>1 DEF PipeInv, Closes
<1>12. Reasons'
  <2> SUFFICES ASSUME NEW q \in Procs
               PROVE  /\ Waiting(q, Nread)' => ReadReason' \/ \E h \in Procs : Writing(h)' \/ Waking(h, q, Nread)'
                      /\ Waiting(q, Nwrite)' => WriteReason' \/ \E h \in Procs : thread'[h].pc = "copy" \/ Waking(h, q, Nwrite)'
    BY DEF Reasons
  <2>1. \A c \in {Nread, Nwrite} : Waiting(q, c)' => Waiting(q, c)
    BY <1>4 DEF Waiting, Asleep
  <2>2. q \in Nat /\ 1 <= q
    BY ProcAssumption DEF Procs, ProcAssumption
  <2>3. CASE e = "w"
    <3>1. chan = Nread /\ ref["w"] = 0
      BY <1>2, <2>3 DEF chan
    <3>2. Waking(p, q, Nread)'
      BY <1>4, <2>2, <3>1 DEF Waking
    <3>3. "w" \notin fds[q]
      BY <3>1, HasOpen
    <3>4. ~Waiting(q, Nwrite)
      BY <3>3, WaitingFacts
    <3> QED BY <2>1, <3>2, <3>4
  <2>4. CASE e # "w"
    <3>1. chan = Nwrite /\ e = "r"
      BY <1>2, <2>4 DEF chan, Ends
    <3>2. Waking(p, q, Nwrite)'
      BY <1>4, <2>2, <3>1 DEF Waking
    <3>3. "r" \notin fds[q]
      BY <1>2, <3>1, HasOpen
    <3>4. ~Waiting(q, Nread)
      BY <3>3, WaitingFacts
    <3> QED BY <2>1, <3>2, <3>4
  <2> QED BY <2>3, <2>4
<1>13. Thens!(p)' /\ Calls!(p)' /\ Progress!(p)'
  <2>1. Thens!(p)'
    BY <1>4 DEF Wakes, chan
  <2>2. Calls!(p)'
    BY <1>10
  <2>3. Progress!(p)'
    BY <1>1, <1>4, <1>10 DEF PipeInv, Progress
  <2> QED BY <2>1, <2>2, <2>3
<1> QED BY <1>1, <1>2, <1>3, <1>4, <1>5, <1>7, <1>9, <1>10, <1>11, <1>12, <1>13, LockedStep

\* The pipe is freed when its other end is closed, which nobody is at any more.
LEMMA PipeClosedPipe == ASSUME IInv, PipeInv, NEW p \in Procs, PipeClosed(p) PROVE IInv' /\ PipeInv'
<1> DEFINE f == ~pipe.readopen /\ ~pipe.writeopen
           ret == io[p].ret
<1>1. /\ thread[p].pc = "closed" /\ proc[p].state = "RUNNING"
      /\ Go(p, ret) /\ pipe' = [pipe EXCEPT !.lock = None, !.freed = f]
      /\ io' = io /\ ref' = ref /\ fds' = fds /\ silent' = silent
  BY DEF PipeClosed, At, LeaveOthers
<1>2. /\ pipe.lock = p /\ thread[p].pc \in CallPoints /\ ret \in {"user", "exit"}
      /\ ret = "exit" => p # initproc
  BY <1>1, StringFacts DEF PipeInv, PipeTypes, IoRecord, PipeLocks, Locked, Closes
<1> HIDE DEF ret
<1>3. IInv'
  BY <1>1, <1>2, GoIInv DEF Go
<1>4. /\ thread'[p].pc = ret /\ thread'[p].then = thread[p].then /\ \A q \in Procs \ {p} : thread'[q] = thread[q]
      /\ proc' = proc
  BY <1>1, GoFacts
<1>5. /\ pipe' \in PipeRecord /\ pipe'.lock = None /\ pipe'.nread = pipe.nread /\ pipe'.nwrite = pipe.nwrite
      /\ pipe'.freed = f /\ pipe'.writeopen = pipe.writeopen /\ pipe'.readopen = pipe.readopen
  <2>1. f \in BOOLEAN /\ None \in 0 .. NPROC
    BY ProcAssumption DEF None, ProcAssumption
  <2> HIDE DEF f
  <2> QED BY <1>1, <2>1 DEF PipeInv, PipeTypes, PipeRecord
<1>6. Count' = Count /\ (Full' <=> Full) /\ (Empty' <=> Empty) /\ \A d : Open(d)' <=> Open(d)
  BY <1>5 DEF Count, Full, Empty, Open
<1>7. PipeTypes'
  BY <1>1, <1>4, <1>5, <1>6 DEF PipeInv, PipeTypes
<1>8. Files'
  BY <1>1, <1>2, <1>4, <1>6 DEF PipeInv, Files, Openers, Closed
<1>9. Place(p)' = ret /\ Place(p) = "closed" /\ ~Locked(p)'
  BY <1>1, <1>2, <1>4 DEF Place, Locked
<1>10. Closes'
  <2>1. ASSUME NEW q \in Procs, thread'[q].pc \in {"pipeclose", "closing"}
        PROVE  /\ ref'[io'[q].end] = 0 /\ Open(io[q].end)'
               /\ \A r \in Procs \ {q} : thread'[r].pc \in {"pipeclose", "closing"} => io'[r].end # io'[q].end
    <3>1. q # p /\ thread[q].pc \in {"pipeclose", "closing"}
      BY <1>2, <1>4, <2>1
    <3>2. Open(io[q].end)'
      BY <1>1, <1>5, <3>1 DEF PipeInv, Closes, Open
    <3>3. \A r \in Procs : thread'[r].pc \in {"pipeclose", "closing"} => thread[r].pc \in {"pipeclose", "closing"}
      BY <1>2, <1>4
    <3> QED BY <1>1, <3>1, <3>2, <3>3 DEF PipeInv, Closes
  <2>2. \A q \in Procs : Place(q)' # "closed"
    <3>1. ASSUME NEW q \in Procs, q # p PROVE Place(q)' # "closed"
      BY <1>2, <1>4, <3>1, Alone DEF Place, Locked, PipeInv, Thens, SleepsOn
    <3> QED BY <1>2, <1>9, <3>1
  <2> QED BY <1>1, <1>5, <2>1, <2>2 DEF PipeInv, Closes
<1>11. Reasons'
  <2>1. (ReadReason => ReadReason') /\ (WriteReason => WriteReason')
    BY <1>1, <1>5, <1>6 DEF ReadReason, WriteReason
  <2>2. \A q \in Procs : \A c \in {Nread, Nwrite} : Waiting(q, c)' => Waiting(q, c)
    BY <1>2, <1>4 DEF Waiting, Asleep
  <2>3. \A q \in Procs : (Waiting(q, Nread) => ReadReason) /\ (Waiting(q, Nwrite) => WriteReason)
    BY <1>1, <1>2, Alone DEF Waking, Writing
  <2> QED BY <2>1, <2>2, <2>3 DEF Reasons
<1>12. Thens!(p)' /\ Calls!(p)' /\ Progress!(p)'
  <2>1. Thens!(p)'
    BY <1>1, <1>2, <1>4 DEF PipeInv, Thens
  <2>2. Calls!(p)'
    BY <1>2, <1>9
  <2>3. Progress!(p)'
    BY <1>1, <1>2, <1>4, <1>9 DEF PipeInv, Progress
  <2> QED BY <2>1, <2>2, <2>3
<1> QED BY <1>1, <1>2, <1>3, <1>4, <1>5, <1>7, <1>8, <1>9, <1>10, <1>11, <1>12, LockedStep

-----------------------------------------------------------------------------
(* The invariant.                                                          *)

LEMMA InitPipe == ASSUME PipeInit PROVE IInv /\ PipeInv
<1>1. Init /\ pipe = [lock |-> None, data |-> [k \in 0 .. PIPESIZE - 1 |-> <<>>], nread |-> 0, nwrite |-> 0,
                      readopen |-> TRUE, writeopen |-> TRUE, freed |-> FALSE]
      /\ ref = [e \in Ends |-> 1] /\ fds = [p \in Procs |-> IF p = initproc THEN Ends ELSE {}]
      /\ io = [p \in Procs |-> NoIo] /\ silent = FALSE
  BY DEF PipeInit
<1>2. IInv
  BY <1>1, InitIInv
<1>3. /\ initproc \in Procs
      /\ \A p \in Procs : thread[p].pc \in {"none", "user"} /\ thread[p].then = "none"
      /\ \A p \in Procs \ {initproc} : thread[p].pc = "none"
      /\ thread[initproc].pc = "user"
  <2>1. initproc \in Procs
    BY ProcAssumption DEF ProcAssumption, Procs, initproc
  <2>2. \A p \in Procs : thread[p] = IF p = initproc THEN User ELSE NoThread
    BY <1>1 DEF Init
  <2> QED BY <1>1, <2>1, <2>2, ThreadFacts, NewLocals DEF Init
<1>4. /\ pipe \in PipeRecord /\ pipe.lock = None /\ pipe.nread = 0 /\ pipe.nwrite = 0
      /\ pipe.readopen /\ pipe.writeopen /\ ~pipe.freed
  <2>1. ASSUME NEW yes \in BOOLEAN, NEW no \in BOOLEAN, NEW d \in [Cells -> Bytes \cup {<<>>}], NEW z \in Counters
        PROVE  LET t == [lock |-> None, data |-> d, nread |-> z, nwrite |-> z,
                         readopen |-> yes, writeopen |-> yes, freed |-> no]
               IN /\ t \in PipeRecord /\ t.lock = None /\ t.nread = z /\ t.nwrite = z
                  /\ t.readopen = yes /\ t.writeopen = yes /\ t.freed = no
    BY ProcAssumption DEF PipeRecord, None, ProcAssumption
  <2>2. 0 \in Counters
    BY PipeAssumption DEF PipeAssumption, Counters
  <2> DEFINE d0 == [k \in 0 .. PIPESIZE - 1 |-> <<>>]
  <2>3. d0 \in [Cells -> Bytes \cup {<<>>}]
    BY DEF Cells
  <2>4. pipe = [lock |-> None, data |-> d0, nread |-> 0, nwrite |-> 0,
                readopen |-> TRUE, writeopen |-> TRUE, freed |-> FALSE]
    BY <1>1
  <2> HIDE DEF d0
  <2> QED BY <2>1, <2>2, <2>3, <2>4
<1>5. Count = 0
  BY <1>4, PipeAssumption, CounterFacts DEF Count, PipeAssumption, Counters
<1>6. NoIo \in IoRecord /\ NoIo.n = 0 /\ NoIo.i = 0 /\ NoIo.ret = "user"
  BY DEF NoIo, IoRecord, Ends
<1>7. PipeTypes
  <2>1. Count \in 0 .. PIPESIZE
    BY <1>5, PipeAssumption DEF PipeAssumption
  <2> QED BY <1>1, <1>3, <1>4, <1>6, <2>1 DEF PipeTypes, Ends
<1>8. PipeLocks
  BY <1>3, <1>4, ProcAssumption DEF PipeLocks, Locked, Procs, None, ProcAssumption
<1>9. Thens
  BY <1>3 DEF Thens
<1>10. Files
  <2>1. ASSUME NEW e \in Ends PROVE Cardinality(Openers(e)) = 1 /\ Open(e)
    <3>1. Openers(e) = {initproc}
      BY <1>1, <1>3 DEF Openers
    <3>2. Cardinality({initproc}) = 1
      BY FS_Singleton
    <3> QED BY <1>4, <3>1, <3>2 DEF Open
  <2>2. \A p \in Procs : thread[p].pc \in Closed => fds[p] = {}
    BY <1>1, <1>3 DEF Closed
  <2> QED BY <1>1, <2>1, <2>2 DEF Files
<1>11. \A p \in Procs : Place(p) \in {"none", "user"} /\ io[p] = NoIo
  BY <1>1, <1>3 DEF Place
<1>12. Calls
  BY <1>11 DEF Calls
<1>13. Closes
  BY <1>3, <1>4, <1>6, <1>11 DEF Closes
<1>14. Progress
  BY <1>3, <1>6, <1>11 DEF Progress
<1>15. Reasons
  <2>1. \A p \in Procs : proc[p].state # "SLEEPING"
    BY <1>2, <1>3 DEF IInv, Control, PointsOf
  <2>2. \A p \in Procs : \A c : ~Waiting(p, c)
    BY <1>3, <2>1 DEF Waiting, Asleep
  <2> QED BY <2>1, <2>2 DEF Reasons
<1> QED BY <1>2, <1>7, <1>8, <1>9, <1>10, <1>12, <1>13, <1>14, <1>15 DEF PipeInv

LEMMA PipeCodePipe == ASSUME IInv, PipeInv, NEW p \in Procs, PipeCode(p) PROVE IInv' /\ PipeInv'
<1>1. CASE PipeLock(p, "writelock", "write")
  BY <1>1, PipeLockPipe
<1>2. CASE WriteByte(p)
  BY <1>2, WriteBytePipe
<1>3. CASE WriteFull(p)
  BY <1>3, WriteFullPipe
<1>4. CASE WriteSleep(p)
  <2>1. thread[p].pc = "writesleep" /\ proc[p].state = "RUNNING" /\ SleepThen(p, Nwrite, "writelock")
    BY <1>4 DEF WriteSleep, At
  <2> QED BY <2>1, SleepThenPipe
<1>5. CASE WriteEnd(p)
  <2>1. thread[p].pc = "write" /\ proc[p].state = "RUNNING" /\ WakeThen(p, Nread, "return")
    BY <1>5 DEF WriteEnd, At
  <2> QED BY <2>1, WakeThenPipe
<1>6. CASE PipeLock(p, "readlock", "read")
  BY <1>6, PipeLockPipe
<1>7. CASE ReadEmpty(p)
  BY <1>7, ReadEmptyPipe
<1>8. CASE ReadStart(p)
  BY <1>8, ReadStartPipe
<1>9. CASE ReadByte(p)
  BY <1>9, ReadBytePipe
<1>10. CASE ReadEnd(p)
  <2>1. /\ thread[p].pc = "copy" /\ proc[p].state = "RUNNING" /\ WakeThen(p, Nwrite, "return")
        /\ (io[p].i = io[p].n \/ Empty)
    BY <1>10 DEF ReadEnd, At
  <2> QED BY <2>1, WakeThenPipe
<1>11. CASE PipeLock(p, "pipeclose", "closing")
  BY <1>11, PipeLockPipe
<1>12. CASE PipeClose(p)
  BY <1>12, PipeClosePipe
<1>13. CASE PipeClosed(p)
  BY <1>13, PipeClosedPipe
<1>14. CASE At(p, "return") /\ Return(p) /\ UNCHANGED silent
  BY <1>14, ReturnedPipe
<1>15. CASE ReadSleep(p)
  <2>1. thread[p].pc = "readsleep" /\ proc[p].state = "RUNNING" /\ SleepThen(p, Nread, "readlock")
    BY <1>15 DEF ReadSleep, At
  <2> QED BY <2>1, SleepThenPipe
<1> QED BY <1>1, <1>2, <1>3, <1>4, <1>5, <1>6, <1>7, <1>8, <1>9, <1>10, <1>11, <1>12, <1>13, <1>14, <1>15 DEF PipeCode

LEMMA NextPipe == IInv /\ PipeInv /\ [PipeNext]_vars => IInv' /\ PipeInv'
<1> SUFFICES ASSUME IInv, PipeInv, [PipeNext]_vars PROVE IInv' /\ PipeInv'
  OBVIOUS
<1>1. CASE UNCHANGED vars
  <2>1. UNCHANGED procvars /\ UNCHANGED pipevars
    BY <1>1 DEF vars
  <2>2. IInv'
    BY <2>1, StutterIInv
  <2>3. UNCHANGED <<proc, thread>> /\ UNCHANGED pipevars
    BY <2>1 DEF procvars, pipevars
  <2>4. Awake
    BY <2>3 DEF Awake
  <2>5. initproc \in Procs
    BY ProcAssumption DEF ProcAssumption, Procs, initproc
  <2> QED BY <2>1, <2>2, <2>3, <2>4, <2>5, PlainStep
<1>2. ASSUME NEW p \in Procs, Call(p, "w", "writelock") PROVE IInv' /\ PipeInv'
  BY <1>2, CallPipe
<1>3. ASSUME NEW p \in Procs, Call(p, "r", "readlock") PROVE IInv' /\ PipeInv'
  BY <1>3, CallPipe
<1>4. ASSUME NEW p \in Procs, PipeCode(p) PROVE IInv' /\ PipeInv'
  BY <1>4, PipeCodePipe
<1>5. ASSUME NEW p \in Procs, ForkFiles(p) PROVE IInv' /\ PipeInv'
  BY <1>5, ForkPipe
<1>6. ASSUME NEW p \in Procs, ProcCode(p) PROVE IInv' /\ PipeInv'
  BY <1>6, ProcCodePipe
<1>7. ASSUME NEW p \in Procs, NEW e \in Ends, FileClose(p, e) PROVE IInv' /\ PipeInv'
  BY <1>7, FileClosePipe
<1> QED BY <1>1, <1>2, <1>3, <1>4, <1>5, <1>6, <1>7 DEF PipeNext

\* The pipe's invariant holds, and so does that of the process table, whose processes fall
\* asleep and are woken in the pipe.
THEOREM PipeInvariant == PipeSpec => [](IInv /\ PipeInv)
BY InitPipe, NextPipe, PTL DEF PipeSpec

-----------------------------------------------------------------------------
(* What follows from it.                                                   *)

LEMMA PipeInvSound == ASSUME IInv, PipeInv PROVE PipeSound
<1>1. NoPanic
  BY DEF IInv, Types, NoPanic
<1>2. PipeTypeOK
  <2>1. pipe.lock \in Procs \cup {None} /\ pipe.nread \in 0 .. CountMod - 1 /\ Count \in 0 .. PIPESIZE
    BY ProcAssumption DEF PipeInv, PipeTypes, PipeRecord, Procs, None, Counters, ProcAssumption
  <2>2. \A p \in Procs : io[p].i \in 0 .. io[p].n /\ fds[p] \subseteq Ends
    BY DEF PipeInv, PipeTypes, IoRecord, Progress
  <2> QED BY <2>1, <2>2 DEF PipeTypeOK
<1>3. FilesExact
  BY DEF PipeInv, Files, Openers, Open, Ends, FilesExact
<1>4. PipeInUse
  <2> SUFFICES ASSUME pipe.freed, NEW p \in Procs
               PROVE  /\ fds[p] = {} /\ ~Asleep(p, Nread) /\ ~Asleep(p, Nwrite)
                      /\ {thread[p].pc, thread[p].then} \cap PipePoints = {}
    BY DEF PipeInUse
  <2>1. \A e \in Ends : ~Open(e)
    BY DEF PipeInv, Closes, Open
  <2>2. fds[p] = {}
    BY <2>1, HasOpen
  <2>3. ~Asleep(p, Nread) /\ ~Asleep(p, Nwrite)
    BY <2>2, WaitingFacts DEF Waiting
  <2>4. Place(p) \notin {"readlock", "read", "readsleep", "copy", "writelock", "write", "writesleep", "return", "closed"}
    BY <2>2 DEF PipeInv, Calls, Closes
  <2>5. thread[p].pc \notin {"pipeclose", "closing"}
    BY <2>1 DEF PipeInv, Closes, PipeTypes, IoRecord
  <2>6. thread[p].pc \notin PipePoints
    BY <2>4, <2>5 DEF Place, PipePoints
  <2>7. thread[p].then \notin PipePoints
    <3>1. CASE thread[p].pc \in {"asleep", "sleep", "wakeup"}
      BY <2>4, <3>1 DEF Place, PipePoints, PipeInv, Thens, SleepsOn, Wakes
    <3>2. CASE thread[p].pc \notin {"asleep", "sleep", "wakeup"}
      BY <3>2 DEF PipePoints, PipeInv, Thens
    <3> QED BY <3>1, <3>2
  <2> QED BY <2>2, <2>3, <2>6, <2>7
<1>5. EofIsEof
  BY DEF PipeInv, Progress, EofIsEof
<1> QED BY <1>1, <1>2, <1>3, <1>4, <1>5 DEF PipeSound

\* The references of the files are exact, the pipe is freed when nobody uses it any more,
\* and a read of some bytes returns nothing only at the end of the file.
THEOREM PipeSoundAlways == PipeSpec => []PipeSound
BY PipeInvariant, PipeInvSound, PTL

LEMMA PipeInvSleepers == ASSUME IInv, PipeInv PROVE SleepersHaveReason
<1> SUFFICES ASSUME pipe.lock = None, NEW p \in Procs
             PROVE  /\ Asleep(p, Nread) => pipe.writeopen /\ (Empty \/ silent)
                    /\ Asleep(p, Nwrite) => Full /\ pipe.readopen
  BY DEF SleepersHaveReason
<1>1. ~Locked(p)
  BY ProcAssumption DEF PipeInv, PipeLocks, Procs, None, ProcAssumption
<1>2. thread[p].pc \notin {"write", "copy", "wakeup"}
  BY <1>1 DEF Locked
<1> QED BY <1>2, Alone DEF Waiting, Waking, Writing, ReadReason, WriteReason

\* Whenever the pipe's lock is free, a sleeping writer has a full pipe with a reader, and a
\* sleeping reader an empty pipe with a writer: no wakeup is lost between the test, made under
\* the pipe's lock, and sleep(), which takes p->lock before it gives that lock back, however
\* many processes read, write, close and are killed.  One case is excepted, where the code
\* does leave a reader asleep over bytes (pipe.c:91): a killed writer had written them and
\* returned without a wakeup (silent).  It ends with the next wakeup of the readers.
THEOREM PipeSleepersHaveReason == PipeSpec => []SleepersHaveReason
BY PipeInvariant, PipeInvSleepers, PTL

-----------------------------------------------------------------------------
(* The buffer is a ring of PIPESIZE cells, and the counters go on beyond it. *)

LEMMA Division ==
  ASSUME NEW n \in Nat \ {0}, NEW x \in Nat
  PROVE  x = n * (x \div n) + (x % n) /\ x \div n \in Nat /\ x % n \in 0 .. n - 1
OBVIOUS

LEMMA Multiple ==
  ASSUME NEW n \in Nat \ {0}, NEW d \in Int, d >= 1
  PROVE  n * d >= n
OBVIOUS

LEMMA SameRemainder ==
  ASSUME NEW n \in Nat \ {0}, NEW q1 \in Int, NEW q2 \in Int, NEW r1 \in 0 .. n - 1, NEW r2 \in 0 .. n - 1,
         n * q1 + r1 = n * q2 + r2
  PROVE  r1 = r2
<1>1. CASE q1 > q2
  <2>1. n * (q1 - q2) >= n
    BY <1>1, Multiple
  <2>2. n * (q1 - q2) = n * q1 - n * q2
    OBVIOUS
  <2> QED BY <2>1, <2>2
<1>2. CASE q1 < q2
  <2>1. n * (q2 - q1) >= n
    BY <1>2, Multiple
  <2>2. n * (q2 - q1) = n * q2 - n * q1
    OBVIOUS
  <2> QED BY <2>1, <2>2
<1>3. CASE q1 = q2
  BY <1>3
<1> QED BY <1>1, <1>2, <1>3

\* A counter that overflows stays at its cell, since the buffer's size divides the counters'.
LEMMA WrapCell ==
  ASSUME NEW x \in Nat
  PROVE  (x + CountMod) % PIPESIZE = x % PIPESIZE
<1> DEFINE n == PIPESIZE
           m == CountMod
           y == x + m
<1>1. n \in Nat \ {0} /\ m \in Nat /\ m % n = 0 /\ y \in Nat
  BY PipeAssumption DEF PipeAssumption
<1> HIDE DEF n, m
<1>2. /\ m = n * (m \div n) + (m % n) /\ m \div n \in Nat
      /\ x = n * (x \div n) + (x % n) /\ x \div n \in Nat /\ x % n \in 0 .. n - 1
  BY <1>1, Division
<1>3. y = n * (y \div n) + (y % n) /\ y \div n \in Nat /\ y % n \in 0 .. n - 1
  <2> HIDE DEF y
  <2> QED BY <1>1, Division
<1>4. n * ((x \div n) + (m \div n)) = n * (x \div n) + n * (m \div n)
  BY <1>1, <1>2
<1>5. n * ((x \div n) + (m \div n)) + (x % n) = y
  BY <1>1, <1>2, <1>4
<1>6. (x \div n) + (m \div n) \in Int
  BY <1>2
<1>7. x % n = y % n
  <2> HIDE DEF y
  <2> DEFINE q1 == (x \div n) + (m \div n)
             q2 == y \div n
             r1 == x % n
             r2 == y % n
  <2>1. q1 \in Int /\ q2 \in Int /\ r1 \in 0 .. n - 1 /\ r2 \in 0 .. n - 1 /\ n * q1 + r1 = n * q2 + r2
    BY <1>2, <1>3, <1>5, <1>6
  <2> HIDE DEF q1, q2, r1, r2
  <2>2. r1 = r2
    BY <1>1, <2>1, SameRemainder
  <2> QED BY <2>2 DEF r1, r2
<1> QED BY <1>7 DEF n, m, y

\* Fewer than PIPESIZE cells further on is another cell.
LEMMA OtherCell ==
  ASSUME NEW x \in Nat, NEW d \in 1 .. PIPESIZE - 1
  PROVE  (x + d) % PIPESIZE # x % PIPESIZE
<1> DEFINE n == PIPESIZE
           y == x + d
           q1 == x \div n
           q2 == y \div n
           r == x % n
<1>1. n \in Nat \ {0} /\ y \in Nat /\ d \in Nat /\ d >= 1 /\ d < n
  BY PipeAssumption DEF PipeAssumption
<1> SUFFICES ASSUME y % n = r PROVE FALSE
  OBVIOUS
<1> HIDE DEF n
<1>2. x = n * q1 + r /\ q1 \in Nat /\ r \in 0 .. n - 1
  BY <1>1, Division
<1>3. y = n * q2 + r /\ q2 \in Nat
  <2> HIDE DEF y, r
  <2> QED BY <1>1, Division
<1>4. x + d = y
  OBVIOUS
<1> HIDE DEF y, q1, q2, r
<1>5. d = n * (q2 - q1)
  <2>1. n * (q2 - q1) = n * q2 - n * q1
    BY <1>1, <1>2, <1>3
  <2> QED BY <1>1, <1>2, <1>3, <1>4, <2>1
<1>6. CASE q2 - q1 >= 1
  BY <1>1, <1>2, <1>3, <1>5, <1>6, Multiple
<1>7. CASE q2 - q1 <= 0
  <2>1. n * (q2 - q1) <= 0
    BY <1>1, <1>2, <1>3, <1>7
  <2> QED BY <1>1, <1>5, <2>1
<1> QED BY <1>2, <1>3, <1>6, <1>7

\* The byte that is written next goes behind those in the buffer.
LEMMA NextCell ==
  ASSUME PipeTypes
  PROVE  pipe.nwrite % PIPESIZE = (pipe.nread + Count) % PIPESIZE
<1> DEFINE a == pipe.nread
           b == pipe.nwrite
<1>1. a \in Counters /\ b \in Counters /\ a \in Nat /\ b \in Nat
  BY PipeAssumption DEF PipeTypes, PipeRecord, Counters, PipeAssumption
<1>2. Count = IF a <= b THEN b - a ELSE b - a + CountMod
  BY <1>1, CounterFacts DEF Count
<1>3. (b + CountMod) % PIPESIZE = b % PIPESIZE
  BY <1>1, WrapCell
<1> HIDE DEF a, b
<1>4. CASE a <= b
  <2>1. a + Count = b
    BY <1>1, <1>2, <1>4
  <2> QED BY <2>1 DEF a, b
<1>5. CASE ~(a <= b)
  <2>1. a + Count = b + CountMod
    BY <1>1, <1>2, <1>5, PipeAssumption DEF PipeAssumption
  <2> QED BY <2>1, <1>3 DEF a, b
<1> QED BY <1>4, <1>5

-----------------------------------------------------------------------------
(* The pipe implements the channel.                                        *)

\* What is in the buffer, and which ends are open: the state of the channel.
Queue == [k \in 1 .. Count |-> pipe.data[(pipe.nread + k - 1) % PIPESIZE]]
OpenEnds == {e \in Ends : IF e = "r" THEN pipe.readopen ELSE pipe.writeopen}
ChannelState == <<Queue, received, OpenEnds>>

LEMMA QueueFacts ==
  ASSUME PipeTypes
  PROVE  /\ Count \in Nat /\ Len(Queue) = Count /\ DOMAIN Queue = 1 .. Count
         /\ Queue \in Seq(Bytes \cup {<<>>})
         /\ \A k \in 1 .. Count : Queue[k] = pipe.data[(pipe.nread + k - 1) % PIPESIZE]
<1>1. Count \in Nat
  BY PipeAssumption DEF PipeTypes, PipeAssumption
<1>2. DOMAIN Queue = 1 .. Count /\ \A k \in 1 .. Count : Queue[k] = pipe.data[(pipe.nread + k - 1) % PIPESIZE]
  BY DEF Queue
<1>3. \A k \in 1 .. Count : pipe.data[(pipe.nread + k - 1) % PIPESIZE] \in Bytes \cup {<<>>}
  <2>1. pipe.nread \in Nat /\ pipe.data \in [Cells -> Bytes \cup {<<>>}]
    BY PipeAssumption DEF PipeTypes, PipeRecord, Counters, PipeAssumption
  <2>2. ASSUME NEW k \in 1 .. Count PROVE (pipe.nread + k - 1) % PIPESIZE \in Cells
    <3> DEFINE x == pipe.nread + k - 1
    <3>1. x \in Nat
      BY <1>1, <2>1
    <3> HIDE DEF x
    <3>2. x % PIPESIZE \in Cells
      BY <3>1, PipeAssumption DEF PipeAssumption, Cells
    <3> QED BY <3>2 DEF x
  <2> QED BY <2>1, <2>2
<1>4. Queue \in [1 .. Count -> Bytes \cup {<<>>}]
  BY <1>3 DEF Queue
<1>5. Queue \in Seq(Bytes \cup {<<>>}) /\ Len(Queue) = Count
  <2> HIDE DEF Queue
  <2>1. Queue \in Seq(Bytes \cup {<<>>})
    BY <1>1, <1>4
  <2> QED BY <1>1, <1>2, <2>1
<1> QED BY <1>1, <1>2, <1>5

\* A step that leaves the bytes and the ends alone.
LEMMA QuietChannel ==
  ASSUME pipe'.data = pipe.data, pipe'.nread = pipe.nread, pipe'.nwrite = pipe.nwrite,
         pipe'.readopen = pipe.readopen, pipe'.writeopen = pipe.writeopen, received' = received
  PROVE  UNCHANGED ChannelState
<1>1. Count' = Count
  BY DEF Count
<1>2. Queue' = Queue
  BY <1>1 DEF Queue
<1>3. OpenEnds' = OpenEnds
  BY DEF OpenEnds
<1> QED BY <1>2, <1>3 DEF ChannelState

\* The steps of the channel, of the state that the pipe has for it.
LEMMA ChannelPut ==
  ASSUME "w" \in OpenEnds, Len(Queue) < PIPESIZE, Len(Queue') = Len(Queue) + 1,
         SubSeq(Queue', 1, Len(Queue)) = Queue, (Queue')[Len(Queue) + 1] \in Bytes,
         received' = received, OpenEnds' = OpenEnds
  PROVE  Fifo!Put
BY DEF Fifo!Put, Queue, OpenEnds, Bytes

LEMMA ChannelGet ==
  ASSUME "r" \in OpenEnds, Queue # <<>>, received' = Append(received, Head(Queue)),
         Queue' = Tail(Queue), OpenEnds' = OpenEnds
  PROVE  Fifo!Get
BY DEF Fifo!Get, Queue, OpenEnds

LEMMA ChannelClose ==
  ASSUME NEW e \in OpenEnds, OpenEnds' = OpenEnds \ {e}, Queue' = Queue, received' = received
  PROVE  Fifo!Close
BY DEF Fifo!Close, Queue, OpenEnds

\* A byte is written behind the others, into a cell that none of them is in.
LEMMA WriteByteChannel == ASSUME IInv, PipeInv, PipeTypes', NEW p \in Procs, WriteByte(p) PROVE Fifo!Put
<1> DEFINE a == pipe.nread
           b == pipe.nwrite
           byte == <<p, io[p].sent + 1>>
           c == Count
           S == Bytes \cup {<<>>}
<1>1. /\ thread[p].pc = "write" /\ ~Full /\ received' = received
      /\ pipe' = [pipe EXCEPT !.data[b % PIPESIZE] = byte, !.nwrite = (@ + 1) % CountMod]
  BY DEF WriteByte, At
<1>2. /\ a \in Counters /\ b \in Counters /\ a \in Nat /\ b \in Nat /\ byte \in Bytes
      /\ b % PIPESIZE \in Cells /\ pipe.data \in [Cells -> S]
      /\ PIPESIZE \in Nat \ {0}
  <2>1. a \in Counters /\ b \in Counters /\ pipe.data \in [Cells -> S]
    BY DEF PipeInv, PipeTypes, PipeRecord
  <2>2. byte \in Bytes
    BY DEF PipeInv, PipeTypes, IoRecord, Bytes
  <2>3. a \in Nat /\ b \in Nat /\ PIPESIZE \in Nat \ {0}
    BY <2>1, PipeAssumption DEF Counters, PipeAssumption
  <2>4. b % PIPESIZE \in Cells
    BY <2>3 DEF Cells
  <2> HIDE DEF byte, S
  <2> QED BY <2>1, <2>2, <2>3, <2>4
<1> HIDE DEF byte
<1>3. /\ pipe'.data = [pipe.data EXCEPT ![b % PIPESIZE] = byte]
      /\ pipe'.nread = a /\ pipe'.nwrite = (b + 1) % CountMod
      /\ pipe'.readopen = pipe.readopen /\ pipe'.writeopen = pipe.writeopen
  BY <1>1 DEF PipeInv, PipeTypes, PipeRecord
<1>4. Count' = c + 1 /\ c < PIPESIZE /\ c \in Nat
  <2>1. c < PIPESIZE /\ c \in Nat
    BY <1>1, <1>2, FullEmpty DEF PipeInv, PipeTypes
  <2>2. (((b + 1) % CountMod) - a) % CountMod = ((b - a) % CountMod) + 1
    BY <1>2, <2>1, CountUp DEF Count
  <2> QED BY <1>3, <2>1, <2>2 DEF Count
<1>5. b % PIPESIZE = (a + c) % PIPESIZE
  BY NextCell DEF PipeInv
<1>6. /\ Len(Queue) = c /\ Queue \in Seq(S) /\ \A k \in 1 .. c : Queue[k] = pipe.data[(a + k - 1) % PIPESIZE]
      /\ DOMAIN Queue = 1 .. c
  BY QueueFacts DEF PipeInv
<1>7. /\ Len(Queue') = c + 1 /\ Queue' \in Seq(S)
      /\ \A k \in 1 .. c + 1 : (Queue')[k] = pipe'.data[(a + k - 1) % PIPESIZE]
  <2>1. /\ Len(Queue') = Count' /\ Queue' \in Seq(S)
        /\ \A k \in 1 .. Count' : (Queue')[k] = pipe'.data[(pipe'.nread + k - 1) % PIPESIZE]
    <3>1. (PipeTypes => /\ Len(Queue) = Count /\ Queue \in Seq(S)
                        /\ \A k \in 1 .. Count : Queue[k] = pipe.data[(pipe.nread + k - 1) % PIPESIZE])'
      BY QueueFacts, PTL
    <3> QED BY <3>1
  <2> QED BY <1>3, <1>4, <2>1
<1> HIDE DEF c, S
<1>8. (Queue')[c + 1] = byte
  <2>1. a + (c + 1) - 1 = a + c
    BY <1>2, <1>4
  <2>2. (Queue')[c + 1] = pipe'.data[(a + c) % PIPESIZE]
    BY <1>4, <1>7, <2>1
  <2> QED BY <1>2, <1>3, <1>5, <2>2
<1>9. ASSUME NEW k \in 1 .. c PROVE (Queue')[k] = Queue[k]
  <2> DEFINE x == a + k - 1
  <2>2. x \in Nat /\ a + c = x + (c - k + 1) /\ c - k + 1 \in 1 .. PIPESIZE - 1
    BY <1>2, <1>4
  <2> HIDE DEF x
  <2>3. (x + (c - k + 1)) % PIPESIZE # x % PIPESIZE
    BY <2>2, OtherCell
  <2>4. x % PIPESIZE # b % PIPESIZE
    BY <1>5, <2>2, <2>3
  <2>5. x % PIPESIZE \in Cells
    BY <1>2, <2>2 DEF Cells
  <2>6. pipe'.data[x % PIPESIZE] = pipe.data[x % PIPESIZE]
    BY <1>2, <1>3, <2>4, <2>5
  <2> QED BY <1>4, <1>6, <1>7, <2>6 DEF x
<1>10. SubSeq(Queue', 1, Len(Queue)) = Queue
  <2> DEFINE s == SubSeq(Queue', 1, c)
  <2>1. s \in Seq(S) /\ Len(s) = c /\ \A i \in 1 .. c : s[i] = (Queue')[i]
    <3>1. \A i \in 1 .. c : (Queue')[i] \in S
      BY <1>4, <1>7, ElementOfSeq
    <3>2. /\ s \in Seq(S) /\ Len(s) = (IF 1 <= c THEN c - 1 + 1 ELSE 0)
          /\ \A i \in 1 .. c - 1 + 1 : s[i] = (Queue')[1 + i - 1]
      BY <1>4, <3>1, SubSeqProperties
    <3> QED BY <1>4, <3>2
  <2> HIDE DEF s
  <2>2. s = Queue
    BY <1>6, <1>9, <2>1, SeqEqual
  <2> QED BY <1>6, <2>2 DEF s
<1>11. "w" \in OpenEnds /\ OpenEnds' = OpenEnds
  <2>1. pipe.writeopen
    <3>1. Place(p) = "write"
      BY <1>1 DEF Place
    <3>2. "w" \in fds[p]
      BY <3>1 DEF PipeInv, Calls
    <3> QED BY <3>2, HasOpen DEF Open
  <2> QED BY <1>3, <2>1 DEF OpenEnds, Ends
<1> QED BY <1>1, <1>2, <1>4, <1>6, <1>7, <1>8, <1>10, <1>11, ChannelPut

\* The oldest byte is read.
LEMMA ReadByteChannel == ASSUME IInv, PipeInv, PipeTypes', NEW p \in Procs, ReadByte(p) PROVE Fifo!Get
<1> DEFINE a == pipe.nread
           b == pipe.nwrite
           c == Count
           S == Bytes \cup {<<>>}
<1>1. /\ thread[p].pc = "copy" /\ ~Empty /\ received' = Append(received, pipe.data[a % PIPESIZE])
      /\ pipe' = [pipe EXCEPT !.nread = (@ + 1) % CountMod]
  BY DEF ReadByte, At
<1>2. a \in Counters /\ b \in Counters /\ a \in Nat /\ b \in Nat /\ a # b
  BY <1>1, PipeAssumption DEF PipeInv, PipeTypes, PipeRecord, Counters, PipeAssumption, Empty
<1>3. /\ pipe'.data = pipe.data /\ pipe'.nread = (a + 1) % CountMod /\ pipe'.nwrite = b
      /\ pipe'.readopen = pipe.readopen /\ pipe'.writeopen = pipe.writeopen
  BY <1>1 DEF PipeInv, PipeTypes, PipeRecord
<1>4. Count' = c - 1 /\ c \in Nat /\ c > 0
  <2>1. c > 0 /\ c \in Nat
    BY <1>1, FullEmpty, PipeAssumption DEF PipeInv, PipeTypes, PipeAssumption
  <2>2. (b - ((a + 1) % CountMod)) % CountMod = ((b - a) % CountMod) - 1
    BY <1>2, CountDown
  <2> QED BY <1>3, <2>1, <2>2 DEF Count
<1>5. /\ Len(Queue) = c /\ Queue \in Seq(S) /\ \A k \in 1 .. c : Queue[k] = pipe.data[(a + k - 1) % PIPESIZE]
  BY QueueFacts DEF PipeInv
<1>6. /\ Len(Queue') = c - 1 /\ Queue' \in Seq(S)
      /\ \A k \in 1 .. c - 1 : (Queue')[k] = pipe.data[(((a + 1) % CountMod) + k - 1) % PIPESIZE]
  <2>1. /\ Len(Queue') = Count' /\ Queue' \in Seq(S)
        /\ \A k \in 1 .. Count' : (Queue')[k] = pipe'.data[(pipe'.nread + k - 1) % PIPESIZE]
    <3>1. (PipeTypes => /\ Len(Queue) = Count /\ Queue \in Seq(S)
                        /\ \A k \in 1 .. Count : Queue[k] = pipe.data[(pipe.nread + k - 1) % PIPESIZE])'
      BY QueueFacts, PTL
    <3> QED BY <3>1
  <2> QED BY <1>3, <1>4, <2>1
<1> HIDE DEF c, S
<1>7. Queue # <<>> /\ Head(Queue) = pipe.data[a % PIPESIZE]
  <2>1. Queue # <<>>
    BY <1>4, <1>5
  <2>2. Head(Queue) = Queue[1]
    BY <1>4, <1>5, <2>1
  <2>3. a + 1 - 1 = a /\ 1 \in 1 .. c
    BY <1>2, <1>4
  <2> QED BY <1>5, <2>1, <2>2, <2>3
<1>8. ASSUME NEW k \in 1 .. c - 1 PROVE (Queue')[k] = Queue[k + 1]
  <2> DEFINE n == (a + 1) % CountMod
             x == n + k - 1
             y == a + (k + 1) - 1
  <2>1. n = (IF a = CountMod - 1 THEN 0 ELSE a + 1) /\ n \in Nat
    BY <1>2, CounterFacts, PipeAssumption DEF Counters, PipeAssumption
  <2> HIDE DEF n
  <2>2. x \in Nat /\ y \in Nat /\ (y = x \/ y = x + CountMod)
    BY <1>2, <1>4, <2>1, PipeAssumption DEF Counters, PipeAssumption
  <2> HIDE DEF x, y
  <2>3. x % PIPESIZE = y % PIPESIZE
    BY <2>2, WrapCell
  <2>4. (Queue')[k] = pipe.data[x % PIPESIZE]
    BY <1>6 DEF x, n
  <2>5. Queue[k + 1] = pipe.data[y % PIPESIZE]
    BY <1>4, <1>5 DEF y
  <2> QED BY <2>3, <2>4, <2>5
<1>9. Queue' = Tail(Queue)
  <2> DEFINE s == Tail(Queue)
  <2>1. s \in Seq(S) /\ Len(s) = c - 1 /\ \A i \in 1 .. Len(s) : s[i] = Queue[i + 1]
    BY <1>5, <1>7, HeadTailProperties
  <2> HIDE DEF s
  <2>2. Len(Queue') = Len(s) /\ \A i \in 1 .. Len(Queue') : (Queue')[i] = s[i]
    BY <1>6, <1>8, <2>1
  <2>3. Queue' = s
    BY <1>6, <2>1, <2>2, SeqEqual
  <2> QED BY <2>3 DEF s
<1>10. "r" \in OpenEnds /\ OpenEnds' = OpenEnds
  <2>1. pipe.readopen
    <3>1. Place(p) = "copy"
      BY <1>1 DEF Place
    <3>2. "r" \in fds[p]
      BY <3>1 DEF PipeInv, Calls
    <3> QED BY <3>2, HasOpen DEF Open
  <2> QED BY <1>3, <2>1 DEF OpenEnds, Ends
<1> QED BY <1>1, <1>7, <1>9, <1>10, ChannelGet

LEMMA PipeCloseChannel == ASSUME IInv, PipeInv, NEW p \in Procs, PipeClose(p) PROVE Fifo!Close
<1> DEFINE e == io[p].end
<1>1. /\ thread[p].pc = "closing" /\ received' = received
      /\ pipe' = (IF e = "w" THEN [pipe EXCEPT !.writeopen = FALSE] ELSE [pipe EXCEPT !.readopen = FALSE])
  BY DEF PipeClose, At
<1>2. e \in Ends /\ Open(e)
  BY <1>1 DEF PipeInv, PipeTypes, IoRecord, Closes
<1> HIDE DEF e
<1>3. /\ pipe'.data = pipe.data /\ pipe'.nread = pipe.nread /\ pipe'.nwrite = pipe.nwrite
      /\ e = "w" => ~pipe'.writeopen /\ pipe'.readopen = pipe.readopen
      /\ e # "w" => ~pipe'.readopen /\ pipe'.writeopen = pipe.writeopen
  <2>1. ASSUME NEW f \in BOOLEAN
        PROVE  /\ LET t == [pipe EXCEPT !.writeopen = f]
                  IN /\ t.data = pipe.data /\ t.nread = pipe.nread /\ t.nwrite = pipe.nwrite
                     /\ t.writeopen = f /\ t.readopen = pipe.readopen
               /\ LET t == [pipe EXCEPT !.readopen = f]
                  IN /\ t.data = pipe.data /\ t.nread = pipe.nread /\ t.nwrite = pipe.nwrite
                     /\ t.readopen = f /\ t.writeopen = pipe.writeopen
    BY DEF PipeInv, PipeTypes, PipeRecord
  <2> QED BY <1>1, <2>1
<1>4. Queue' = Queue
  <2>1. Count' = Count
    BY <1>3 DEF Count
  <2> QED BY <1>3, <2>1 DEF Queue
<1>5. e \in OpenEnds /\ OpenEnds' = OpenEnds \ {e}
  BY <1>2, <1>3 DEF OpenEnds, Open, Ends
<1> QED BY <1>1, <1>4, <1>5, ChannelClose

LEMMA PipeCodeChannel == ASSUME IInv, PipeInv, PipeTypes', NEW p \in Procs, PipeCode(p) PROVE Fifo!Next \/ UNCHANGED ChannelState
<1>1. CASE WriteByte(p)
  BY <1>1, WriteByteChannel DEF Fifo!Next
<1>2. CASE ReadByte(p)
  BY <1>2, ReadByteChannel DEF Fifo!Next
<1>3. CASE PipeClose(p)
  BY <1>3, PipeCloseChannel DEF Fifo!Next
<1>4. ASSUME NEW x, NEW f, received' = received,
             pipe' = pipe \/ pipe' = [pipe EXCEPT !.lock = x] \/ pipe' = [pipe EXCEPT !.lock = x, !.freed = f]
      PROVE  UNCHANGED ChannelState
  <2>1. /\ pipe'.data = pipe.data /\ pipe'.nread = pipe.nread /\ pipe'.nwrite = pipe.nwrite
        /\ pipe'.readopen = pipe.readopen /\ pipe'.writeopen = pipe.writeopen
    BY <1>4 DEF PipeInv, PipeTypes, PipeRecord
  <2> QED BY <1>4, <2>1, QuietChannel
<1>5. CASE PipeLock(p, "writelock", "write") \/ PipeLock(p, "readlock", "read") \/ PipeLock(p, "pipeclose", "closing")
  <2>1. received' = received /\ pipe' = [pipe EXCEPT !.lock = p]
    BY <1>5 DEF PipeLock
  <2> QED BY <1>4, <2>1
<1>6. ASSUME Return(p) PROVE UNCHANGED ChannelState
  BY <1>4, <1>6 DEF Return
<1>7. ASSUME NEW chan, NEW then, WakeThen(p, chan, then) PROVE UNCHANGED ChannelState
  BY <1>4, <1>7 DEF WakeThen
<1>8. ASSUME NEW chan, NEW then, SleepThen(p, chan, then) PROVE UNCHANGED ChannelState
  BY <1>4, <1>8 DEF SleepThen
<1>9. CASE WriteFull(p) \/ WriteEnd(p) \/ ReadEnd(p)
  BY <1>6, <1>7, <1>9 DEF WriteFull, WriteEnd, ReadEnd
<1>10. CASE WriteSleep(p) \/ ReadEmpty(p) \/ ReadSleep(p)
  BY <1>4, <1>6, <1>8, <1>10 DEF WriteSleep, ReadEmpty, ReadSleep
<1>11. CASE ReadStart(p)
  BY <1>4, <1>11 DEF ReadStart
<1>12. CASE PipeClosed(p)
  <2>1. received' = received /\ pipe' = [pipe EXCEPT !.lock = None, !.freed = ~pipe.readopen /\ ~pipe.writeopen]
    BY <1>12 DEF PipeClosed
  <2> QED BY <1>4, <2>1
<1>13. CASE At(p, "return") /\ Return(p) /\ UNCHANGED silent
  BY <1>6, <1>13
<1> QED BY <1>1, <1>2, <1>3, <1>5, <1>9, <1>10, <1>11, <1>12, <1>13 DEF PipeCode

LEMMA NextChannel == IInv /\ PipeInv /\ PipeInv' /\ [PipeNext]_vars => [Fifo!Next]_ChannelState
<1> SUFFICES ASSUME IInv, PipeInv, PipeInv', [PipeNext]_vars
             PROVE  Fifo!Next \/ UNCHANGED ChannelState
  OBVIOUS
<1>1. ASSUME pipe' = pipe, received' = received PROVE UNCHANGED ChannelState
  BY <1>1, QuietChannel
<1>2. CASE UNCHANGED vars
  BY <1>1, <1>2 DEF vars, pipevars
<1>3. ASSUME NEW p \in Procs, PipeCode(p) PROVE Fifo!Next \/ UNCHANGED ChannelState
  BY <1>3, PipeCodeChannel DEF PipeInv
<1>4. ASSUME NEW p \in Procs, Call(p, "w", "writelock") \/ Call(p, "r", "readlock") PROVE UNCHANGED ChannelState
  BY <1>1, <1>4 DEF Call
<1>5. ASSUME NEW p \in Procs, ForkFiles(p) PROVE UNCHANGED ChannelState
  BY <1>1, <1>5 DEF ForkFiles
<1>6. ASSUME NEW p \in Procs, ProcCode(p) PROVE UNCHANGED ChannelState
  BY <1>1, <1>6 DEF ProcCode, pipevars
<1>7. ASSUME NEW p \in Procs, NEW e \in Ends, FileClose(p, e) PROVE UNCHANGED ChannelState
  BY <1>1, <1>7 DEF FileClose, pipevars
<1> QED BY <1>2, <1>3, <1>4, <1>5, <1>6, <1>7 DEF PipeNext

LEMMA InitChannel == ASSUME PipeInit PROVE Fifo!Init
<1>1. PipeTypes /\ pipe.nread = 0 /\ pipe.nwrite = 0 /\ pipe.readopen = TRUE /\ pipe.writeopen = TRUE /\ received = <<>>
  BY InitPipe DEF PipeInit, PipeInv
<1>2. Count = 0
  BY <1>1, FullEmpty DEF Empty
<1>3. Queue = <<>>
  <2>1. Len(Queue) = 0 /\ Queue \in Seq(Bytes \cup {<<>>})
    BY <1>1, <1>2, QueueFacts
  <2> QED BY <2>1, EmptySeq
<1>4. OpenEnds = {"r", "w"}
  BY <1>1 DEF OpenEnds, Ends
<1> QED BY <1>1, <1>3, <1>4 DEF Fifo!Init, Queue, OpenEnds

\* The pipe is a channel: bytes go through it in order, none is lost or made up, however
\* the counters overflow, and an end is closed once, for good.
THEOREM PipeImplementsChannel == PipeSpec => ImplementsChannel
<1>1. IInv /\ PipeInv /\ PipeInv' /\ [PipeNext]_vars => [Fifo!Next]_ChannelState
  BY NextChannel
<1>2. PipeInit => Fifo!Init
  BY InitChannel
<1> QED BY <1>1, <1>2, PipeInvariant, PTL
        DEF PipeSpec, ImplementsChannel, Fifo!Spec, ChannelState, Queue, OpenEnds
=============================================================================
