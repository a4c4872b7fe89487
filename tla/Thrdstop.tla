------------------------------ MODULE Thrdstop ------------------------------
(***************************************************************************)
(* The timer upcalls the kernel of mp3 offers to a user-level scheduler:   *)
(* the system calls of mp3/xv6/kernel/thrd.c and the parts of              *)
(* mp3/xv6/kernel/trap.c that count ticks and switch user contexts.  Each  *)
(* operator maps the struct proc p of the calling process, a record with   *)
(* the thrdstop fields of proc.h, to its next value.  A user context is    *)
(* an opaque value: what it means is up to the program (module ThrdSched). *)
(***************************************************************************)
EXTENDS Integers, FiniteSetsExt

CONSTANT MaxThrdNum    \* MAX_THRD_NUM, the number of contexts a process has

ASSUME MaxThrdNumAssumption == MaxThrdNum \in Nat \ {0}

Slots == 0 .. MaxThrdNum - 1
NoSlot == -1
NoHandler == "none"

\* freeproc(): no upcall is set and every context is free
ProcInit(frame) ==
    [ticks |-> 0, delay |-> -1, context_id |-> 0, handler |-> NoHandler, handler_arg |-> 0,
     context |-> [s \in Slots |-> frame], used |-> [s \in Slots |-> FALSE],
     jump_flag |-> FALSE, resume_flag |-> NoSlot, cancel_save_flag |-> NoSlot]

-----------------------------------------------------------------------------
(* The system calls.  Each returns the process and the value of a0.        *)

\* The slot thrdstop uses: the one it is given, or the first free one
SlotFor(p, id) ==
    IF id >= 0 THEN id
    ELSE LET free == {s \in Slots : ~p.used[s]}
         IN IF free = {} THEN NoSlot ELSE Min(free)

\* mutant: the context the upcall is for is not noted
MutantThrdstopContext(p, delay, id, handler, arg) ==
    LET slot == SlotFor(p, id)
    IN [p |-> [p EXCEPT !.used[slot] = TRUE, !.delay = delay, !.ticks = 0,
                        !.handler = handler, !.handler_arg = arg],
        id |-> slot, a0 |-> 0]

\* sys_thrdstop(delay, &id, handler, arg); the slot chosen is copied out to id
SysThrdstop(p, delay, id, handler, arg) ==
    LET slot == SlotFor(p, id)
    IN IF slot = NoSlot THEN [p |-> p, id |-> id, a0 |-> -1]
       ELSE [p |-> [p EXCEPT !.used[slot] = @ \/ id < 0, !.context_id = slot,
                             !.delay = delay, !.ticks = 0,
                             !.handler = handler, !.handler_arg = arg],
             id |-> slot, a0 |-> 0]

\* sys_cancelthrdstop(id, is_exit), after it has read thrdstop_ticks: the upcall is off; the
\* context is saved on the way back to user space, or given back when its thread exits
SysCancelthrdstop(p, id, is_exit, consume_tick) ==
    IF id \notin Slots THEN [p |-> p, id |-> id, a0 |-> -1]
    ELSE [p |-> IF is_exit THEN [p EXCEPT !.delay = -1, !.used[id] = FALSE]
                ELSE [p EXCEPT !.delay = -1, !.cancel_save_flag = id],
          id |-> id, a0 |-> consume_tick]

\* sys_thrdresume(id): the context is restored on the way back to user space
SysThrdresume(p, id) ==
    IF id \notin Slots THEN [p |-> p, id |-> id, a0 |-> -1]
    ELSE [p |-> [p EXCEPT !.resume_flag = id], id |-> id, a0 |-> 0]

-----------------------------------------------------------------------------
(* Traps.                                                                  *)

\* mutant: the upcall comes a tick late
MutantTimer(p) ==
    IF p.delay <= 0 THEN p
    ELSE IF p.ticks < p.delay THEN [p EXCEPT !.ticks = @ + 1]
    ELSE [p EXCEPT !.ticks = @ + 1, !.delay = -1, !.jump_flag = TRUE]

\* A timer interrupt, from user space (usertrap) or from the kernel (kerneltrap)
Timer(p) ==
    IF p.delay <= 0 THEN p
    ELSE IF p.ticks + 1 < p.delay THEN [p EXCEPT !.ticks = @ + 1]
    ELSE [p EXCEPT !.ticks = @ + 1, !.delay = -1, !.jump_flag = TRUE]

\* usertrapret(): at most one of the three flags is served, in this order.  The
\* trapframe is replaced by a saved context, saved and sent to the handler, or saved
UserTrapRet(p, frame, HandlerFrame(_, _)) ==
    IF p.resume_flag # NoSlot
    THEN [p |-> [p EXCEPT !.resume_flag = NoSlot], frame |-> p.context[p.resume_flag]]
    ELSE IF p.jump_flag
    THEN [p |-> [p EXCEPT !.context[p.context_id] = frame, !.jump_flag = FALSE],
          frame |-> HandlerFrame(p.handler, p.handler_arg)]
    ELSE IF p.cancel_save_flag # NoSlot
    THEN [p |-> [p EXCEPT !.context[p.cancel_save_flag] = frame, !.cancel_save_flag = NoSlot],
          frame |-> frame]
    ELSE [p |-> p, frame |-> frame]
=============================================================================
