------------------------------ MODULE UThreads ------------------------------
(***************************************************************************)
(* The cooperative user-level threads of mp1 (user/threads.c): a circular  *)
(* run queue, setjmp/longjmp contexts, suspension, and signals whose       *)
(* handlers run as a second context of the thread that receives them.      *)
(*                                                                         *)
(* The program is any one that hands the library threads that exist and    *)
(* adds each to the run queue once.  What a jmp_buf holds is modelled by   *)
(* the activity it returns to: the thread's function ("body") or its       *)
(* signal handler.  dispatch() is a step of its own, in mode "dispatch".   *)
(***************************************************************************)
EXTENDS Integers, FiniteSets, FiniteSetsExt

CONSTANTS
  MaxThreads,  \* bound: threads the program creates
  Signals,     \* the signals it uses
  SelfKill     \* may a thread call thread_kill on itself?

ASSUME UThreadsAssumption ==
  MaxThreads \in Nat \ {0} /\ Signals \subseteq {0, 1} /\ SelfKill \in BOOLEAN

Threads == 1..MaxThreads     \* a thread is known by its ID
NULL == 0
NoSignal == -1

VARIABLES
  current,                 \* current_thread
  next, previous,          \* the links of the run queue
  status,                  \* "absent", "created", "queued" or "freed"
  suspended, signo,
  sigHandler,              \* the signals with a handler that is not NULL_FUNC
  bufSet, handlerBufSet,   \* env and handler_env have been set
  handlerEnv,              \* the activity handler_env returns to
  activity,                \* what each thread is in the middle of
  mode                     \* "main", "run" or "dispatch"

linkVars == <<next, previous, status>>
signalVars == <<signo, sigHandler>>
contextVars == <<bufSet, handlerBufSet, handlerEnv, activity>>
vars == <<current, linkVars, suspended, signalVars, contextVars, mode>>

Init ==
  /\ current = NULL
  /\ next = [t \in Threads |-> NULL] /\ previous = [t \in Threads |-> NULL]
  /\ status = [t \in Threads |-> "absent"]
  /\ suspended = [t \in Threads |-> FALSE]
  /\ signo = [t \in Threads |-> NoSignal]
  /\ sigHandler = [t \in Threads |-> {}]
  /\ bufSet = [t \in Threads |-> FALSE] /\ handlerBufSet = [t \in Threads |-> FALSE]
  /\ handlerEnv = [t \in Threads |-> "none"]
  /\ activity = [t \in Threads |-> "start"]
  /\ mode = "main"

Live(t) == status[t] \in {"created", "queued"}
Running == mode = "run"

-----------------------------------------------------------------------------
ThreadCreate(t) ==
  /\ mode \in {"main", "run"}
  /\ status[t] = "absent" /\ \A u \in 1..(t - 1) : status[u] # "absent"
  /\ status' = [status EXCEPT ![t] = "created"]
  /\ UNCHANGED <<current, next, previous, suspended, signalVars, contextVars, mode>>

(* The first thread becomes the current one; a later one goes to the end   *)
(* of the queue, before the current thread, and inherits its handlers.     *)
ThreadAddRunqueue(t) ==
  /\ mode \in {"main", "run"}
  /\ status[t] = "created"
  /\ status' = [status EXCEPT ![t] = "queued"]
  /\ IF current = NULL
       THEN /\ current' = t
            /\ next' = [next EXCEPT ![t] = t]
            /\ previous' = [previous EXCEPT ![t] = t]
            /\ UNCHANGED sigHandler
       ELSE /\ next' = [next EXCEPT ![t] = current, ![previous[current]] = t]
            /\ previous' = [previous EXCEPT ![t] = previous[current], ![current] = t]
            /\ sigHandler' = [sigHandler EXCEPT ![t] = sigHandler[current]]
            /\ UNCHANGED current
  /\ UNCHANGED <<suspended, signo, contextVars, mode>>

ThreadStartThreading ==
  /\ mode = "main" /\ current # NULL
  /\ mode' = "dispatch"
  /\ UNCHANGED <<current, linkVars, suspended, signalVars, contextVars>>

-----------------------------------------------------------------------------
(* The i-th thread after t along the links nx.                             *)
After(nx, t, i) ==
  LET step[n \in 0..i] == IF n = 0 THEN t ELSE nx[step[n - 1]] IN step[i]

MutantNoSkip(susp) == next[current]
(* schedule(): the next thread that is not suspended under susp, or the    *)
(* current one after a full turn.                                          *)
Scheduled(susp) ==
  LET stop == {i \in 1..Cardinality(Threads) :
                 LET t == After(next, current, i) IN t = current \/ ~susp[t]}
  IN After(next, current, Min(stop))

(* thread_exit's own search, which begins with the successor and settles   *)
(* for it when all are suspended.                                          *)
Successor(nx, first) ==
  LET awake == {i \in 0..Cardinality(Threads) : ~suspended[After(nx, first, i)]}
  IN IF awake = {} THEN first ELSE After(nx, first, Min(awake))

(* thread_yield: the context goes to handler_env if a signal is pending or *)
(* being handled, to env otherwise.                                        *)
YieldWith(susp) ==
  /\ IF signo[current] # NoSignal
       THEN /\ handlerEnv' = [handlerEnv EXCEPT ![current] = activity[current]]
            /\ handlerBufSet' = [handlerBufSet EXCEPT ![current] = TRUE]
            /\ UNCHANGED bufSet
       ELSE /\ bufSet' = [bufSet EXCEPT ![current] = TRUE]
            /\ UNCHANGED <<handlerEnv, handlerBufSet>>
  /\ current' = Scheduled(susp)
  /\ mode' = "dispatch"

ThreadYield ==
  /\ Running
  /\ YieldWith(suspended)
  /\ UNCHANGED <<linkVars, suspended, signalVars, activity>>

ThreadSuspend(t) ==
  /\ Running /\ Live(t)
  /\ suspended' = [suspended EXCEPT ![t] = TRUE]
  /\ IF t = current THEN YieldWith(suspended')
     ELSE UNCHANGED <<current, handlerEnv, handlerBufSet, bufSet, mode>>
  /\ UNCHANGED <<linkVars, signalVars, activity>>

ThreadResume(t) ==
  /\ Running /\ Live(t)
  /\ suspended' = [suspended EXCEPT ![t] = FALSE]
  /\ UNCHANGED <<current, linkVars, signalVars, contextVars, mode>>

ThreadRegisterHandler(s) ==
  /\ Running
  /\ sigHandler' = [sigHandler EXCEPT ![current] = @ \cup {s}]
  /\ UNCHANGED <<current, linkVars, suspended, signo, contextVars, mode>>

(* A second signal is dropped while one is pending or being handled.       *)
ThreadKill(t, s) ==
  /\ Running /\ Live(t) /\ (t = current => SelfKill)
  /\ signo[t] = NoSignal
  /\ signo' = [signo EXCEPT ![t] = s]
  /\ UNCHANGED <<current, linkVars, suspended, sigHandler, contextVars, mode>>

-----------------------------------------------------------------------------
(* thread_exit: unlink and free the current thread, dispatch another; the  *)
(* last one goes back to thread_start_threading.  What the freed memory    *)
(* holds afterwards is nobody's business: the initial values here.         *)
Free(t) ==
  /\ status' = [status EXCEPT ![t] = "freed"]
  /\ suspended' = [suspended EXCEPT ![t] = FALSE]
  /\ signo' = [signo EXCEPT ![t] = NoSignal]
  /\ sigHandler' = [sigHandler EXCEPT ![t] = {}]
  /\ bufSet' = [bufSet EXCEPT ![t] = FALSE]
  /\ handlerBufSet' = [handlerBufSet EXCEPT ![t] = FALSE]
  /\ handlerEnv' = [handlerEnv EXCEPT ![t] = "none"]
  /\ activity' = [activity EXCEPT ![t] = "start"]

ExitCurrent ==
  LET p == previous[current]
      n == next[current]
      unlinked == [next EXCEPT ![p] = n]
  IN /\ Free(current)
     /\ IF n # current
          THEN /\ next' = [unlinked EXCEPT ![current] = NULL]
               /\ previous' = [previous EXCEPT ![n] = p, ![current] = NULL]
               /\ current' = Successor(unlinked, n)
               /\ mode' = "dispatch"
          ELSE /\ next' = [next EXCEPT ![current] = NULL]
               /\ previous' = [previous EXCEPT ![current] = NULL]
               /\ current' = NULL
               /\ mode' = "main"

(* Called by the thread, or by thread_func when its function returns.      *)
ThreadExit == Running /\ ExitCurrent

(* dispatch() with a signal nobody registered a handler for.               *)
DispatchExit ==
  /\ mode = "dispatch"
  /\ signo[current] # NoSignal /\ signo[current] \notin sigHandler[current]
  /\ ExitCurrent

(* dispatch() with a signal: sig_func starts on the thread's stack, or the *)
(* saved handler context goes on.                                          *)
DispatchHandler ==
  /\ mode = "dispatch"
  /\ signo[current] \in sigHandler[current]
  /\ activity' = [activity EXCEPT ![current] =
                    IF handlerBufSet[current] THEN handlerEnv[current] ELSE "handler"]
  /\ handlerBufSet' = [handlerBufSet EXCEPT ![current] = FALSE]
  /\ handlerEnv' = [handlerEnv EXCEPT ![current] = "none"]
  /\ mode' = "run"
  /\ UNCHANGED <<current, linkVars, suspended, signalVars, bufSet>>

MutantEnterBody ==
  /\ activity' = [activity EXCEPT ![current] = "body"]
  /\ mode' = "run"
  /\ UNCHANGED bufSet

(* The thread's function starts, or goes on from env.                      *)
EnterBody ==
  /\ activity' = [activity EXCEPT ![current] = "body"]
  /\ bufSet' = [bufSet EXCEPT ![current] = FALSE]
  /\ mode' = "run"

MutantDispatchBody ==
  /\ mode = "dispatch"
  /\ EnterBody
  /\ UNCHANGED <<current, linkVars, suspended, signalVars, handlerBufSet, handlerEnv>>

DispatchBody ==
  /\ mode = "dispatch" /\ signo[current] = NoSignal
  /\ EnterBody
  /\ UNCHANGED <<current, linkVars, suspended, signalVars, handlerBufSet, handlerEnv>>

(* sig_func: the handler returns and the thread's function goes on.        *)
HandlerReturn ==
  /\ Running /\ activity[current] = "handler"
  /\ signo' = [signo EXCEPT ![current] = NoSignal]
  /\ EnterBody
  /\ UNCHANGED <<current, linkVars, suspended, sigHandler, handlerBufSet, handlerEnv>>

-----------------------------------------------------------------------------
Dispatch == DispatchExit \/ DispatchHandler \/ DispatchBody

Next ==
  \/ \E t \in Threads : \/ ThreadCreate(t) \/ ThreadAddRunqueue(t)
                        \/ ThreadSuspend(t) \/ ThreadResume(t)
                        \/ \E s \in Signals : ThreadKill(t, s)
  \/ \E s \in Signals : ThreadRegisterHandler(s)
  \/ ThreadStartThreading \/ ThreadYield \/ ThreadExit \/ HandlerReturn
  \/ Dispatch

Spec == Init /\ [][Next]_vars

(* dispatch() is straight-line code; a running thread yields again and     *)
(* again, the one thing the library asks of a program.                     *)
FairSpec == Spec /\ WF_vars(Dispatch) /\ WF_vars(ThreadYield)

-----------------------------------------------------------------------------
TypeOK ==
  /\ current \in Threads \cup {NULL}
  /\ next \in [Threads -> Threads \cup {NULL}]
  /\ previous \in [Threads -> Threads \cup {NULL}]
  /\ status \in [Threads -> {"absent", "created", "queued", "freed"}]
  /\ suspended \in [Threads -> BOOLEAN]
  /\ signo \in [Threads -> Signals \cup {NoSignal}]
  /\ sigHandler \in [Threads -> SUBSET Signals]
  /\ bufSet \in [Threads -> BOOLEAN] /\ handlerBufSet \in [Threads -> BOOLEAN]
  /\ handlerEnv \in [Threads -> {"none", "body", "handler"}]
  /\ activity \in [Threads -> {"start", "body", "handler"}]
  /\ mode \in {"main", "run", "dispatch"}

Queue == {t \in Threads : status[t] = "queued"}

(* The run queue is one ring through exactly the threads added and not     *)
(* exited, the current one among them, with previous the inverse of next:  *)
(* thread_add_runqueue and thread_exit keep the links straight.            *)
RingIntegrity ==
  /\ current = NULL <=> Queue = {}
  /\ mode # "main" => current # NULL
  /\ current # NULL =>
       /\ {After(next, current, i) : i \in 1..Cardinality(Threads)} = Queue
       /\ \A t \in Queue : next[previous[t]] = t /\ previous[next[t]] = t

(* Whatever thread dispatch() picks, the context it jumps to is the one    *)
(* the thread left, and no context is jumped to twice: a thread in its     *)
(* body has exactly env set while it waits, one in its handler has         *)
(* handler_env, and env for the body it interrupted.                       *)
ContextsMatch ==
  \A t \in Queue :
    LET out == t # current \/ mode # "run" IN     \* not executing
      /\ activity[t] = "start" => ~bufSet[t] /\ ~handlerBufSet[t]
      /\ activity[t] = "body" => (bufSet[t] <=> out) /\ ~handlerBufSet[t]
      /\ activity[t] = "handler" =>
           /\ signo[t] \in sigHandler[t]
           /\ handlerBufSet[t] <=> out
           /\ out => handlerEnv[t] = "handler"

(* The run queue and the saved contexts are sound.                         *)
RunQueueSound == TypeOK /\ RingIntegrity /\ ContextsMatch

(* A suspended thread gets the processor only when all threads in the run  *)
(* queue are suspended: schedule() and thread_exit() skip the others.      *)
SuspendedRunsLast ==
  [][current' \notin {current, NULL} /\ suspended'[current']
       => \A t \in Queue' : suspended'[t]]_vars

(* The queue is served in turn: a queued thread that stays unsuspended     *)
(* gets its turn.                                                          *)
NoStarvation ==
  \A t \in Threads :
    status[t] = "queued" /\ mode = "run" ~>
      current = t \/ suspended[t] \/ status[t] = "freed"

(* Threads take turns, the suspended ones last.                            *)
TurnsTaken == SuspendedRunsLast /\ NoStarvation

(* A signal accepted by thread_kill is handled, or ends the thread, unless *)
(* the thread is suspended.                                                *)
SignalDelivered ==
  \A t \in Threads :
    status[t] = "queued" /\ mode = "run" /\ signo[t] # NoSignal ~>
      activity[t] = "handler" \/ suspended[t] \/ status[t] = "freed"
=============================================================================
