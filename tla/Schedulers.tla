----------------------------- MODULE Schedulers -----------------------------
(***************************************************************************)
(* The schedulers of mp3/xv6/user/threads_sched.c as operators.  Each gets *)
(* the arguments of struct threads_sched_args in a record a:               *)
(*    now   current_time              thr   the struct thread of every ID  *)
(*    rq    the run queue, a sequence of IDs                               *)
(*    relq  the release queue, of records [thrd, release_time]             *)
(*    rr    the static state of schedule_priority_rr                       *)
(* and returns the struct threads_sched_result: the thread chosen, with    *)
(* Nobody for the head of the run queue, and the time allocated to it,     *)
(* together with what the scheduler writes: thr and rr.                    *)
(* A scheduler walks a list, so it is a fold over the sequence.            *)
(***************************************************************************)
EXTENDS Integers, Sequences, SequencesExt, FiniteSetsExt

TimeQuantum == 2
Nobody == 0

Result(a, next, time) == [next |-> next, time |-> time, thr |-> a.thr, rr |-> a.rr]

\* the walk "if better(th, candidate) candidate = th" over the list s
Pick(s, Better(_, _)) ==
    FoldLeft(LAMBDA c, th : IF c = Nobody \/ Better(th, c) THEN th ELSE c, Nobody, s)

MinOr(S, default) == IF S = {} THEN default ELSE Min(S)

-----------------------------------------------------------------------------
(* Part 1: threads without deadlines.                                      *)

schedule_default(a) ==
    LET c == Pick(a.rq, LAMBDA th, cand : th < cand)
    IN IF c = Nobody THEN Result(a, Nobody, 1) ELSE Result(a, c, a.thr[c].remaining_time)

MutantHrrnShortest(a, th, c) ==
    \/ a.thr[th].remaining_time < a.thr[c].remaining_time
    \/ a.thr[th].remaining_time = a.thr[c].remaining_time /\ th < c

\* the response ratios of two threads, brought to a common denominator
HrrnBetter(a, th, c) ==
    LET ratio(x, y) ==
          (a.now - a.thr[x].arrival_time + a.thr[x].remaining_time) * a.thr[y].remaining_time
    IN ratio(th, c) > ratio(c, th) \/ (ratio(th, c) = ratio(c, th) /\ th < c)

schedule_hrrn(a) ==
    LET c == Pick(a.rq, LAMBDA th, cand : HrrnBetter(a, th, cand))
    IN IF c = Nobody THEN Result(a, Nobody, 1) ELSE Result(a, c, a.thr[c].remaining_time)

\* the static curr_state before the first call
RrInit == [last_run_time |-> -1, last_thread |-> -1, current_priority |-> -1]

schedule_priority_rr(a) ==
    IF a.rq = <<>> THEN Result(a, Nobody, 1) ELSE
    LET min_p == Min({a.thr[t].priority : t \in ToSet(a.rq)})
        tier  == {t \in ToSet(a.rq) : a.thr[t].priority = min_p}
        after == {t \in tier : t > a.rr.last_thread}
        last  == IF a.rr.current_priority # min_p \/ a.now < a.rr.last_run_time
                 THEN -1 ELSE a.rr.last_thread
        c     == IF Cardinality(tier) > 1 /\ last # -1 /\ after # {} THEN Min(after) ELSE Min(tier)
        rem   == a.thr[c].remaining_time
        time  == IF Cardinality(tier) = 1 \/ rem < TimeQuantum THEN rem ELSE TimeQuantum
    IN [Result(a, c, time) EXCEPT
           !.rr = [last_run_time |-> a.now, last_thread |-> c, current_priority |-> min_p]]

-----------------------------------------------------------------------------
(* Part 2: real-time threads.                                              *)

\* mutant: a deadline is missed only when it has passed
MutantDeadlineMiss(a) ==
    Pick(SelectSeq(a.rq, LAMBDA t : a.thr[t].current_deadline < a.now), LAMBDA th, c : th < c)

\* __check_deadline_miss(): the ready thread of least ID whose deadline has come
DeadlineMiss(a) ==
    Pick(SelectSeq(a.rq, LAMBDA t : a.thr[t].current_deadline <= a.now), LAMBDA th, c : th < c)

\* how long to sleep when nothing is ready: until the next release
SleepTime(a) ==
    MinOr({e.release_time - a.now : e \in {x \in ToSet(a.relq) : x.release_time > a.now}}, -1)

\* __dm_thread_cmp(x, y) > 0
DmBefore(a, x, y) ==
    \/ a.thr[x].period < a.thr[y].period
    \/ a.thr[x].period = a.thr[y].period /\ x < y

\* mutant: the time slice ignores the threads that will be released
MutantDmSlice(a) ==
    LET miss == DeadlineMiss(a)
        c    == Pick(a.rq, LAMBDA th, cand : ~DmBefore(a, cand, th))
    IN IF a.rq = <<>> THEN Result(a, Nobody, SleepTime(a))
       ELSE IF miss # Nobody THEN Result(a, miss, 0)
       ELSE Result(a, c, a.thr[c].remaining_time)

schedule_dm(a) ==
    LET miss == DeadlineMiss(a)
        c    == Pick(a.rq, LAMBDA th, cand : ~DmBefore(a, cand, th))
        rivals == {e \in ToSet(a.relq) : ~DmBefore(a, c, e.thrd)}
    IN IF a.rq = <<>> THEN Result(a, Nobody, SleepTime(a))
       ELSE IF miss # Nobody THEN Result(a, miss, 0)
       ELSE Result(a, c, Min({a.thr[c].remaining_time} \cup {e.release_time - a.now : e \in rivals}))

\* __edf_thread_cmp(x, y) = 1
EdfBefore(a, x, y) ==
    \/ a.thr[x].current_deadline < a.thr[y].current_deadline
    \/ a.thr[x].current_deadline = a.thr[y].current_deadline /\ x < y

\* the loop that ends the throttling of soft threads whose deadline has come
Replenish(a, t) ==
    IF ~t.is_hard_rt /\ t.is_throttled /\ t.current_deadline <= a.now
    THEN [t EXCEPT !.is_throttled = FALSE, !.current_deadline = a.now + t.period,
                   !.remaining_budget = t.budget]
    ELSE t

\* the loop that gives soft threads a new server deadline, or throttles them
ThrottleSoft(a, t) ==
    LET renew == /\ t.remaining_budget > 0
                 /\ t.current_deadline > a.now
                 /\ t.remaining_budget * t.period > t.budget * (a.now - t.current_deadline)
    IN IF t.is_hard_rt \/ t.is_throttled THEN t
       ELSE IF renew THEN [t EXCEPT !.current_deadline = a.now + t.period,
                                    !.remaining_budget = t.budget]
       ELSE [t EXCEPT !.is_throttled = t.remaining_budget <= 0]

schedule_edf_cbs(a0) ==
    LET miss == DeadlineMiss(a0)
        a == [a0 EXCEPT !.thr = [t \in DOMAIN a0.thr |->
                 IF t \in ToSet(a0.rq) THEN ThrottleSoft(a0, Replenish(a0, a0.thr[t])) ELSE a0.thr[t]]]
        c == Pick(SelectSeq(a.rq, LAMBDA t : ~a.thr[t].is_throttled), LAMBDA th, cand : EdfBefore(a, th, cand))
        toRelease == {e.release_time - a.now : e \in ToSet(a.relq)}
        own  == IF a.thr[c].is_hard_rt THEN a.thr[c].remaining_time
                ELSE Min({a.thr[c].remaining_time, a.thr[c].remaining_budget})
        rivals == {e \in ToSet(a.relq) : ~a.thr[e.thrd].is_throttled /\ ~EdfBefore(a, c, e.thrd)}
        sleepers == {t \in ToSet(a.rq) : a.thr[t].is_throttled /\ a.thr[t].current_deadline > a.now}
        time == Min({own} \cup {e.release_time - a.now : e \in rivals}
                          \cup {a.thr[t].current_deadline - a.now : t \in sleepers})
    IN IF miss # Nobody /\ a0.thr[miss].is_hard_rt THEN Result(a0, miss, 0)
       ELSE IF a.rq = <<>> THEN Result(a, Nobody, SleepTime(a))
       ELSE IF c = Nobody THEN Result(a, Nobody, MinOr(toRelease, 1))
       ELSE Result(a, c, IF time > 0 THEN time ELSE 1)

Schedule(policy, a) ==
    CASE policy = "DEFAULT"     -> schedule_default(a)
      [] policy = "HRRN"        -> schedule_hrrn(a)
      [] policy = "PRIORITY_RR" -> schedule_priority_rr(a)
      [] policy = "DM"          -> schedule_dm(a)
      [] policy = "EDF_CBS"     -> schedule_edf_cbs(a)
=============================================================================
