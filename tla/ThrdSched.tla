----------------------------- MODULE ThrdSched ------------------------------
(***************************************************************************)
(* The user-level threads of mp3: mp3/xv6/user/threads.c over the timer    *)
(* upcalls of the kernel (Thrdstop) and with one of the schedulers.        *)
(*                                                                         *)
(* User code runs between traps.  frame says where it is: in the body of a *)
(* thread, in a handler, in the loop of the main thread, or at the point a *)
(* system call returns to.  trap is the system call that has been entered, *)
(* or InKernel when the process is on its way back to user space.  A timer *)
(* interrupt may come anywhere while a delay is set; where no delay is set *)
(* it changes nothing, so handlers are one step up to their next ecall.    *)
(***************************************************************************)
EXTENDS Thrdstop, Schedulers

CONSTANT Setups    \* the programs checked; see MCThrdSched for the fields

VARIABLES
    setup,     \* policy, threads, and what this instance allows (fixed by Init)
    lib,       \* the static variables of threads.c and its struct threads
    frame,     \* the user context: a point of the program, its thread, and a0
    trap,      \* NoTrap, the system call entered, or InKernel
    proc,      \* the kernel's struct proc
    clock,     \* history: the ticks counted by the kernel ...
    unread,    \* ... those of them that cancelthrdstop() came too early to report
    strays     \* history: the contexts that were saved in the middle of the library

history == <<clock, unread, strays>>
vars == <<setup, lib, frame, trap, proc, history>>

NoTrap == [fn |-> "none"]
InKernel == [fn |-> "return"]
MainSlot == 0

At(point, t) == [at |-> point, t |-> t, a0 |-> 0]
InUser(point) == trap = NoTrap /\ frame.at = point

Live == {t \in DOMAIN lib.thr : lib.thr[t].live}

\* thread_create(), init_thread_cbs(), thread_set_priority(); malloc leaves the
\* fields of cbs as they are, and only schedule_edf_cbs looks at them
NewThread(rt, processing_time, period, n, priority, budget, hard) ==
    [is_real_time |-> rt, processing_time |-> processing_time, period |-> period, n |-> n,
     remaining_time |-> processing_time, current_deadline |-> 0, priority |-> priority,
     arrival_time |-> 30000, budget |-> budget, remaining_budget |-> budget,
     is_hard_rt |-> hard, is_throttled |-> FALSE, buf_set |-> FALSE,
     thrdstop_context_id |-> NoSlot, live |-> TRUE]

\* printf: the output is kept for the programs whose output the graders know
Emit(l, line) == IF setup.expected = <<>> THEN l ELSE [l EXCEPT !.out = Append(@, line)]

\* history: who was dispatched since schedule_priority_rr went to this priority
TakeTurn(l) ==
    LET same == l.turns # <<>> /\ l.thr[Last(l.turns).t].priority = l.thr[l.current].priority
        turn == [t |-> l.current, time |-> l.now]
    IN IF setup.policy # "PRIORITY_RR" THEN l
       ELSE [l EXCEPT !.turns = IF same THEN Append(@, turn) ELSE <<turn>>]

-----------------------------------------------------------------------------
(* The functions of threads.c that end in no system call.                  *)

thread_add_at(l, t, time) ==
    [l EXCEPT !.thr[t].arrival_time = time,
              !.thr[t].current_deadline = IF l.thr[t].is_real_time THEN time + l.thr[t].period ELSE @,
              !.relq = Append(@, [thrd |-> t, release_time |-> time])]

\* __release(): entries that are due go to the run queue, in their order
Release(l) ==
    LET due == SelectSeq(l.relq, LAMBDA e : l.now >= e.release_time)
        start(e) == [l.thr[e.thrd] EXCEPT !.remaining_time = l.thr[e.thrd].processing_time,
                                          !.current_deadline = e.release_time + l.thr[e.thrd].period]
    IN [l EXCEPT !.thr = [t \in DOMAIN l.thr |->
                            IF \E e \in ToSet(due) : e.thrd = t
                            THEN start(CHOOSE e \in ToSet(due) : e.thrd = t) ELSE l.thr[t]],
                 !.rq = @ \o [i \in DOMAIN due |-> due[i].thrd],
                 !.relq = SelectSeq(@, LAMBDA e : l.now < e.release_time)]

\* history: who is past its deadline when __schedule() looks
Missed(l) == {t \in ToSet(l.rq) : l.thr[t].is_real_time /\ l.thr[t].current_deadline <= l.now}

\* __schedule()
Reschedule(l) ==
    LET r == Schedule(setup.policy, [now |-> l.now, thr |-> l.thr, rq |-> l.rq,
                                     relq |-> l.relq, rr |-> l.rr])
    IN [l EXCEPT !.thr = r.thr, !.rr = r.rr, !.current = r.next, !.allocated = r.time,
                 !.missed = Missed(l)]

\* __thread_exit() up to __schedule(); the context slot is not given back here
Unlink(l, t) == [l EXCEPT !.rq = SelectSeq(@, LAMBDA x : x # t), !.thr[t].live = FALSE]

\* __finish_current() and __rt_finish_current() of a thread that is to run again
NextCycle(l, t) ==
    LET l1 == thread_add_at([l EXCEPT !.rq = SelectSeq(@, LAMBDA x : x # t)],
                            t, l.thr[t].current_deadline)
    IN IF l.thr[t].is_real_time /\ ~l.thr[t].is_hard_rt
       THEN [l1 EXCEPT !.thr[t].remaining_budget = l.thr[t].budget] ELSE l1

\* switch_handler(): the test for a deadline missed by the thread that ran
MissedDeadline(l, t) ==
    /\ l.thr[t].is_real_time
    /\ \/ l.now > l.thr[t].current_deadline
       \/ l.now = l.thr[t].current_deadline /\ l.thr[t].remaining_time > 0

-----------------------------------------------------------------------------
(* Steps of user code.  Each ends in a system call, in exit(), or in the   *)
(* body of a thread.                                                       *)

Ecall(l, point, t, call) ==
    /\ lib' = l
    /\ frame' = At(point, t)
    /\ trap' = call
    /\ UNCHANGED <<setup, proc, history>>

Thrdstop(delay, t, handler) ==
    [fn |-> "thrdstop", delay |-> delay, t |-> t, handler |-> handler]
Cancel(id, is_exit) == [fn |-> "cancelthrdstop", id |-> id, is_exit |-> is_exit]
Resume(id) == [fn |-> "thrdresume", id |-> id]

\* exit(): the process ends
Exit(l, why) == Ecall(l, why, Nobody, NoTrap)

\* __dispatch() of a thread: set the upcall, then resume or start it
DispatchThread(l) ==
    LET t == l.current
        l1 == TakeTurn(Emit(l, <<"dispatch", t, l.now, l.allocated>>))
    IN IF l.thr[t].is_real_time /\ l.allocated = 0
       THEN Exit(Emit(l, <<"miss", t, l.thr[t].current_deadline, "dispatch">>), "missed")
       ELSE IF l.thr[t].buf_set
       THEN Ecall(l1, "resume", t, Thrdstop(l.allocated, t, "switch_handler"))
       ELSE Ecall([l1 EXCEPT !.thr[t].buf_set = TRUE, !.thr[t].thrdstop_context_id = NoSlot],
                  "call", t, Thrdstop(l.allocated, t, "switch_handler"))

\* the end of a handler: __dispatch(), and when that returns thrdresume(main)
DispatchOrMain(l) ==
    IF l.current # Nobody THEN DispatchThread(l)
    ELSE Ecall(l, "unreachable", Nobody, Resume(MainSlot))

\* the head of the loop of thread_start_threading()
MainLoop ==
    /\ InUser("loop")
    /\ IF lib.rq = <<>> /\ lib.relq = <<>> THEN Exit(lib, "done")
       ELSE Ecall(Reschedule(Release(lib)), "main", Nobody, Cancel(MainSlot, FALSE))

\* cancelthrdstop() has returned, for the first time or as the context saved:
\* dispatch, or leave the loop, or sleep
MainDispatch ==
    /\ InUser("main")
    /\ IF lib.current # Nobody THEN DispatchThread(lib)
       ELSE IF lib.rq = <<>> /\ lib.relq = <<>> THEN Exit(lib, "done")
       ELSE Ecall([Emit(lib, <<"sleep", lib.allocated>>) EXCEPT !.sleeping = TRUE], "zzz", Nobody,
                  Thrdstop(lib.allocated, Nobody, "back_to_main_handler"))

\* while (sleeping) ends
MainAwake ==
    /\ InUser("zzz") /\ ~lib.sleeping
    /\ Ecall(lib, "loop", Nobody, NoTrap)

\* back_to_main_handler()
BackToMainHandler ==
    /\ InUser("back_to_main_handler")
    /\ Ecall([lib EXCEPT !.sleeping = FALSE, !.now = @ + frame.a0], "unreachable", Nobody,
             Resume(MainSlot))

\* __dispatch() after thrdstop() has returned
StartOrResume ==
    \/ /\ InUser("resume")
       /\ Ecall(lib, "unreachable", Nobody, Resume(lib.thr[frame.t].thrdstop_context_id))
    \/ /\ InUser("call")
       /\ IF lib.thr[frame.t].thrdstop_context_id < 0 THEN Exit(lib, "no context")
          ELSE Ecall(lib, "body", frame.t, NoTrap)

\* a thread's function returns, or calls thread_exit()
ThreadExit ==
    /\ InUser("body") /\ setup.returns
    /\ Ecall(lib, "exited", lib.current,
             Cancel(lib.thr[lib.current].thrdstop_context_id, TRUE))

\* thread_exit() after cancelthrdstop() has returned the ticks consumed
ThreadExited ==
    /\ InUser("exited")
    /\ DispatchOrMain(Reschedule(Unlink(Release([lib EXCEPT !.now = @ + frame.a0]), frame.t)))

\* switch_handler(elapsed): the time slice of the current thread is over
SwitchHandler ==
    /\ InUser("switch_handler")
    /\ LET t == lib.current
           l1 == Release([lib EXCEPT !.now = @ + frame.a0])
           l2 == [l1 EXCEPT !.thr[t].remaining_time = @ - frame.a0,
                            !.thr[t].remaining_budget = IF l1.thr[t].is_hard_rt THEN @ ELSE @ - frame.a0]
           l3 == [l2 EXCEPT !.thr[t].n = @ - 1]
           cycle == IF l3.thr[t].is_real_time THEN <<"cycle", t, l3.now, l3.thr[t].n>>
                    ELSE <<"finish", t, l3.now>>
           l4 == Emit(l3, cycle)
       IN IF MissedDeadline(l2, t)
          THEN Exit(Emit(l2, <<"miss", t, l2.now, "switch">>), "missed")
          ELSE DispatchOrMain(Reschedule(
                 IF l2.thr[t].remaining_time > 0
                 THEN Release([l2 EXCEPT !.rq = Append(SelectSeq(@, LAMBDA x : x # t), t)])
                 ELSE IF l4.thr[t].n > 0 THEN Release(NextCycle(l4, t))
                 ELSE [Unlink(l4, t) EXCEPT !.kept = @ \cup {l4.thr[t].thrdstop_context_id}]))

-----------------------------------------------------------------------------
(* The kernel's side.                                                      *)

\* cancelthrdstop() reads the ticks consumed before it switches the upcall off
CancelRead ==
    /\ trap.fn = "cancelthrdstop"
    /\ trap' = [fn |-> "cancelling", id |-> trap.id, is_exit |-> trap.is_exit,
                consume_tick |-> proc.ticks]
    /\ UNCHANGED <<setup, lib, frame, proc, history>>

\* a system call that has been entered takes effect
SysCall ==
    /\ trap.fn \in {"thrdstop", "cancelling", "thrdresume"}
    /\ LET id == IF trap.t = Nobody THEN MainSlot ELSE lib.thr[trap.t].thrdstop_context_id
           r == CASE trap.fn = "thrdstop" ->
                       SysThrdstop(proc, trap.delay, id, trap.handler, trap.delay)
                  [] trap.fn = "cancelling" ->
                       SysCancelthrdstop(proc, trap.id, trap.is_exit, trap.consume_tick)
                  [] trap.fn = "thrdresume" -> SysThrdresume(proc, trap.id)
       IN /\ proc' = r.p
          /\ frame' = [frame EXCEPT !.a0 = r.a0]
          /\ lib' = IF trap.fn = "thrdstop" /\ trap.t # Nobody
                    THEN [lib EXCEPT !.thr[trap.t].thrdstop_context_id = r.id] ELSE lib
    /\ trap' = InKernel
    /\ unread' = IF trap.fn = "cancelling" /\ ~proc.jump_flag
                 THEN unread + (proc.ticks - trap.consume_tick) ELSE unread
    /\ UNCHANGED <<setup, clock, strays>>

\* The way back to user space.  The model follows the program no further than to a context
\* that is not a place of the thread dispatched, or is one in its thread_exit(): there a slice
\* is counted again, with an upcall set that nobody cancels, or a stack may be gone.
TrapReturn ==
    /\ trap = InKernel
    /\ LET r == UserTrapRet(proc, frame, LAMBDA h, arg : [at |-> h, t |-> Nobody, a0 |-> arg])
           resumed == proc.resume_flag \notin {NoSlot, MainSlot}
           upcall == proc.resume_flag = NoSlot /\ proc.jump_flag
       IN /\ proc' = r.p
          /\ frame' = IF resumed /\ (r.frame.t # lib.current \/ r.frame.at = "exited")
                      THEN At("astray", Nobody) ELSE r.frame
          /\ strays' = IF upcall /\ frame.at \in {"resume", "exited"}
                       THEN strays \cup {[slot |-> proc.context_id, at |-> frame.at]} ELSE strays
    /\ trap' = NoTrap
    /\ UNCHANGED <<setup, lib, clock, unread>>

\* where a timer interrupt comes: in the body of a thread or the spin of the main
\* thread, in the call of cancelthrdstop() by thread_exit(), or in a __dispatch()
\* that has set the delay
TickPlace ==
    IF trap = NoTrap /\ frame.at \in {"body", "zzz"} THEN "body"
    ELSE IF frame.at = "exited" THEN "exit" ELSE "dispatch"

TimerInterrupt ==
    /\ proc.delay > 0 \/ (proc.jump_flag /\ trap = NoTrap)
    /\ TickPlace \in setup.ticks
    /\ proc' = Timer(proc)
    /\ clock' = IF proc.delay > 0 THEN clock + 1 ELSE clock
    /\ trap' = IF trap = NoTrap THEN InKernel ELSE trap
    /\ UNCHANGED <<setup, lib, frame, unread, strays>>

-----------------------------------------------------------------------------

\* main() has created the threads and added them; thread_start_threading() has
\* obtained a context for itself (its thrdstop and cancelthrdstop at the start)
Init ==
    /\ setup \in Setups
    /\ lib = FoldLeft(LAMBDA l, e : thread_add_at(l, e.t, e.at),
                      [thr |-> setup.threads, rq |-> <<>>, relq |-> <<>>, now |-> 0,
                       current |-> Nobody, allocated |-> 0, rr |-> RrInit,
                       sleeping |-> FALSE, out |-> <<>>, turns |-> <<>>,
                       missed |-> {}, kept |-> {}],
                      [t \in DOMAIN setup.arrivals |-> [t |-> t, at |-> setup.arrivals[t]]])
    /\ frame = At("loop", Nobody)
    /\ trap = NoTrap
    /\ proc = [ProcInit(At("unreachable", Nobody)) EXCEPT
                  !.used[MainSlot] = TRUE, !.context[MainSlot] = At("loop", Nobody)]
    /\ clock = 0 /\ unread = 0 /\ strays = {}

UserStep ==
    \/ MainLoop
    \/ MainDispatch
    \/ MainAwake
    \/ BackToMainHandler
    \/ StartOrResume
    \/ ThreadExited
    \/ SwitchHandler

\* exit() has been called, or the program is where the model does not follow
Ended == frame.at \in {"done", "missed", "no context", "astray"}
Terminated == Ended /\ UNCHANGED vars

Next == UserStep \/ ThreadExit \/ CancelRead \/ SysCall \/ TrapReturn \/ TimerInterrupt \/ Terminated

Spec == Init /\ [][Next]_vars

-----------------------------------------------------------------------------
(* Properties.                                                             *)

Points == {"loop", "main", "zzz", "back_to_main_handler", "resume", "call", "body", "exited",
           "switch_handler", "unreachable", "done", "missed", "no context", "astray"}

Ready == ToSet(lib.rq)
JustDispatched == trap.fn = "thrdstop" /\ trap.t # Nobody

\* the time the kernel would report now, and the threads due by then
TimeNow == lib.now + proc.ticks
DueBy(time) == Ready \cup {e.thrd : e \in {x \in ToSet(lib.relq) : x.release_time <= time}}

\* Types, among them that the program never reaches a point of no return
TypeOK ==
    /\ frame.at \in Points /\ frame.t \in DOMAIN lib.thr \cup {Nobody}
    /\ InUser("unreachable") = FALSE
    /\ lib.current \in DOMAIN lib.thr \cup {Nobody}
    /\ proc.used \in [Slots -> BOOLEAN]
    /\ proc.context_id \in Slots
    /\ \A t \in DOMAIN lib.thr : lib.thr[t].thrdstop_context_id \in Slots \cup {NoSlot}

\* A thread that has not exited is in exactly one of the two queues, once, and
\* one that has is in none: whatever mix of releases, rotations to the tail,
\* next cycles and exits __release() and the handlers go through.
EachThreadQueuedOnce ==
    LET inRq(t) == {i \in DOMAIN lib.rq : lib.rq[i] = t}
        inRelq(t) == {i \in DOMAIN lib.relq : lib.relq[i].thrd = t}
    IN \A t \in DOMAIN lib.thr :
          Cardinality(inRq(t)) + Cardinality(inRelq(t)) = (IF t \in Live THEN 1 ELSE 0)

\* HRRN prefers a thread that waits longer and needs no more time to any other,
\* and between equals the smaller ID, whichever order the run queue is in.
HrrnPrefersOldAndShort ==
    LET waits(t) == lib.now - lib.thr[t].arrival_time
        c == lib.current
    IN JustDispatched /\ setup.policy = "HRRN" =>
         \A t \in Ready : lib.thr[t].remaining_time <= lib.thr[c].remaining_time =>
             /\ waits(t) <= waits(c)
             /\ waits(t) = waits(c) => c <= t

\* Within a priority nobody runs twice while another one that was ready before
\* waits, as long as the scheduler serves this priority only.
RoundRobinTurn ==
    LET k == Len(lib.turns)
        tier == {t \in Ready : lib.thr[t].priority = lib.thr[lib.current].priority}
    IN JustDispatched /\ setup.policy = "PRIORITY_RR" =>
         \A j \in 1 .. k - 1 : lib.turns[j].t = lib.current =>
            \A t \in tier \ {lib.current} : lib.thr[t].arrival_time <= lib.turns[j].time =>
                \E i \in j + 1 .. k - 1 : lib.turns[i].t = t

\* While a real-time thread runs, no thread that precedes it is ready or due:
\* the time it got ends at every release that matters (it is the deadline-monotonic
\* order in schedule_dm, and the order of deadlines in schedule_edf_cbs).
MostUrgentRuns ==
    LET c == lib.current
        a == [thr |-> lib.thr]
        others == {t \in DueBy(TimeNow) : ~lib.thr[t].is_throttled}
    IN InUser("body") /\ proc.delay > 0 =>
         /\ setup.policy = "DM" => \A t \in others : ~DmBefore(a, t, c)
         /\ setup.policy = "EDF_CBS" => \A t \in others : ~EdfBefore(a, t, c)

\* The process idles only while no thread is ready or due, except soft threads that
\* are throttled: the time to sleep never reaches past a release.
IdleWhenNothingReady ==
    InUser("zzz") /\ proc.delay > 0 => \A t \in DueBy(TimeNow) : lib.thr[t].is_throttled

\* A soft thread gets no more than its budget from one renewal to the next: the
\* slice, the handler's bookkeeping and the throttling agree, tick by tick.
BudgetNotOverrun ==
    setup.policy = "EDF_CBS" => \A t \in Live : ~lib.thr[t].is_hard_rt =>
        /\ lib.thr[t].remaining_budget >= IF frame.t = t /\ frame.at = "body" /\ proc.delay > 0
                                          THEN proc.ticks + 1 ELSE 0
        /\ lib.current = t /\ JustDispatched => ~lib.thr[t].is_throttled

\* Under DM nobody is dispatched while a ready thread is past its deadline.  Under EDF_CBS
\* it happens to hard threads: __check_deadline_miss() reports the least ID, and only that is
\* tested for being hard.  Only a soft thread that is late itself hides a miss, then, and
\* only one that is past its deadline too is dispatched.
NoMissUnnoticed ==
    JustDispatched => LET hidden == {t \in lib.missed : lib.thr[t].is_hard_rt} IN
        /\ setup.policy = "DM" => lib.missed = {}
        /\ setup.policy = "EDF_CBS" /\ hidden # {} =>
              /\ ~lib.thr[Min(lib.missed)].is_hard_rt
              /\ lib.thr[lib.current].current_deadline <= lib.now

\* So a miss that was hidden ends the process when the slice is used up, unless the thread
\* that got it returns before: thread_exit() does not look at deadlines.
MissOnlyDelayed ==
    InUser("switch_handler") /\ setup.policy = "EDF_CBS" /\ (\E t \in lib.missed : lib.thr[t].is_hard_rt)
        => frame'.at = "missed"

\* No deadline is missed by a set of tasks the theory calls schedulable: the
\* hyperbolic bound for fixed priorities, a utilisation of at most 1 for EDF with
\* hard threads only (soft ones are not isolated: see the README).
SchedulableMeetsDeadlines ==
    LET T == DOMAIN setup.threads
        C(t) == setup.threads[t].processing_time
        P(t) == setup.threads[t].period
        allPeriods == MapThenFoldSet(LAMBDA x, y : x * y, 1, P, LAMBDA S : CHOOSE x \in S : TRUE, T)
        hyperbolic == MapThenFoldSet(LAMBDA x, y : x * y, 1, LAMBDA t : C(t) + P(t),
                                     LAMBDA S : CHOOSE x \in S : TRUE, T) <= 2 * allPeriods
        utilised == MapThenSumSet(LAMBDA t : (C(t) * allPeriods) \div P(t), T) <= allPeriods
    IN frame.at = "missed" =>
         /\ setup.policy = "DM" => ~hyperbolic
         /\ setup.policy = "EDF_CBS" /\ (\A t \in T : setup.threads[t].is_hard_rt) => ~utilised

\* Contexts that hold a place in the library: after a tick between thrdstop() and the
\* thrdresume() of the same thread that ends the slice, and after one in the cancelthrdstop()
\* of a thread that exits, whose slot is free then though the thread is to be resumed.
Stray(s) == \E x \in strays : x.slot = s

\* threading_system_time is the time that has passed: what the handlers and
\* thread_exit() have added up, with the ticks of the running slice, are the ticks
\* the kernel counted, but for those between the two lines of cancelthrdstop().
TimeIsExact ==
    proc.delay > 0 /\ trap = NoTrap => TimeNow = clock - unread

\* The context of a thread that has begun and is not running is the place where its
\* own function was interrupted, or its start.
ContextsKept ==
    \A t \in Live :
        LET s == lib.thr[t].thrdstop_context_id
        IN s # NoSlot /\ ~Stray(s) /\ frame.t # t /\ lib.current # t =>
              proc.context[s].at \in {"body", "call"} /\ proc.context[s].t = t

\* No two threads that have begun share a context, and none has the main thread's.
ContextsNotShared ==
    \A t, u \in Live : LET s == lib.thr[t].thrdstop_context_id
                       IN s # NoSlot => /\ s # MainSlot
                                        /\ lib.thr[u].thrdstop_context_id = s => u = t \/ Stray(s)

\* The slots in use are those of the main thread, of the threads that have begun and not
\* exited, and of the threads that ended in switch_handler(), which gives none back.
SlotsAccounted ==
    frame.at \notin {"exited", "astray"} =>
        \A s \in Slots : ~Stray(s) =>
            (proc.used[s] <=> \/ s = MainSlot \/ s \in lib.kept
                              \/ \E t \in Live : lib.thr[t].thrdstop_context_id = s)

\* Every program ends in time: the main thread idles no longer than it takes the last
\* thread to be released, and sleep and wake-up do not go round for ever.  (That it does
\* not stop before is the absence of deadlock: only exit() ends a run.)
EndsInTime ==
    LET T == DOMAIN setup.threads
        cycle(t) == IF setup.threads[t].is_real_time THEN setup.threads[t].period
                    ELSE setup.threads[t].processing_time
        arrivals == {setup.arrivals[t] : t \in T}
    IN clock <= MapThenSumSet(LAMBDA t : setup.threads[t].n * cycle(t), T)
                  + CHOOSE x \in arrivals : \A y \in arrivals : y <= x

\* The library loses no thread, and no context but the strays and those of threads that used
\* up their time: whatever ticks come where, no other thread is resumed at a wrong place, and
\* a foreign context is resumed, or none found, only on their account.
ThreadsKept ==
    /\ TypeOK /\ EachThreadQueuedOnce /\ ContextsKept /\ ContextsNotShared /\ SlotsAccounted
    /\ frame.at = "astray" => \E x \in strays : x.at = "exited"

\* Whoever runs is the one its policy asks for, and nobody idles beside ready threads.
PolicyKept == HrrnPrefersOldAndShort /\ RoundRobinTurn /\ MostUrgentRuns /\ IdleWhenNothingReady

\* Deadlines are missed only by overload, a miss is noticed at once or when the next slice is
\* used up, and budgets are kept.
DeadlinesKept ==
    /\ [](NoMissUnnoticed /\ SchedulableMeetsDeadlines /\ BudgetNotOverrun)
    /\ [][MissOnlyDelayed]_vars

\* Library and kernel agree on the time, and every program ends in time.
TimeKept == TimeIsExact /\ EndsInTime

\* The output is the one the grading script of the policy expects of the program.
MatchesGrader ==
    setup.expected # <<>> =>
        /\ IsPrefix(lib.out, setup.expected)
        /\ frame.at \in {"done", "missed"} => lib.out = setup.expected
=============================================================================
