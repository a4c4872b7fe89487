----------------------------- MODULE VirtioDisk -----------------------------
(***************************************************************************)
(* The disk driver of mp4 (mp4/kernel/virtio_disk.c) and the device behind *)
(* it.  Requests take three descriptors, go to the device through the      *)
(* available ring and come back through the used ring in any order, with   *)
(* an interrupt.                                                           *)
(*                                                                         *)
(* disk.vdisk_lock makes what a process does between two sleeps a single   *)
(* step; the interrupt handler holds it for several, because the device    *)
(* goes on meanwhile.  The indices of the rings are kept modulo NUM, as    *)
(* the driver uses them, and NUM divides 2^16; what has been read from a    *)
(* ring, or is in a free descriptor, is forgotten.                         *)
(***************************************************************************)
EXTENDS Integers, Sequences, FiniteSets

CONSTANTS
    NUM,       \* descriptors
    Procs      \* callers, each with its own buffer, which it has locked

ASSUME VirtioAssumption == NUM \in Nat /\ NUM >= 3 /\ IsFiniteSet(Procs) /\ "none" \notin Procs

VARIABLES
    free,      \* descriptors that are free
    desc,      \* the descriptors: for whom, which part, flags and next
    info,      \* info[i].b, the buffer of the request that begins with i
    avail,     \* the available ring and how far the driver has filled it
    used,      \* the used ring and how far the device has filled it
    used_idx,
    disk,      \* b->disk: the request is the device's
    pc,        \* each caller: out, asleep on free or its buffer, or woken from there
    head,      \* idx[0] of each caller's request
    intr,      \* the interrupt handler: not running, looping, or about to acknowledge
    device,    \* how far the device has looked at avail, what it is working on, and whether
               \* it has completed anything between IntrLast and IntrAck
    irq,       \* the interrupt is pending
    panicked

vars == <<free, desc, info, avail, used, used_idx, disk, pc, head, intr, device, irq, panicked>>
driver == <<free, desc, info, avail, used_idx, disk, pc, head, intr, panicked>>
requests == <<desc, avail, head>>

Descs == 0 .. NUM - 1
None == "none"
NoSlot == NUM
NoDesc == [owner |-> None, part |-> "none", write |-> FALSE, more |-> FALSE, next |-> 0]

Running == panicked = "no" /\ intr = "no"
Lowest(S) == CHOOSE i \in S : \A j \in S : i <= j

\* the first descriptor only
MutantChain(i) == {i}

\* what free_chain() frees: it goes on while a descriptor's flags say so
Chain(i) ==
    LET second == desc[i].next
    IN {i} \cup (IF desc[i].more THEN {second} ELSE {})
           \cup (IF desc[i].more /\ desc[second].more THEN {desc[second].next} ELSE {})

\* wakeup(&disk.free[0])
WakeFree(points) == [p \in Procs |-> IF points[p] = "free" THEN "retry" ELSE points[p]]

-----------------------------------------------------------------------------
(* virtio_disk_rw()                                                        *)

\* alloc3_desc() failed: what it had got is freed again, which wakes the others, and the
\* caller sleeps
Full(p) ==
    /\ Running /\ pc[p] \in {"out", "retry"} /\ Cardinality(free) < 3
    /\ pc' = [IF free = {} THEN pc ELSE WakeFree(pc) EXCEPT ![p] = "free"]
    /\ UNCHANGED <<free, info, used, used_idx, disk, intr, device, irq, panicked>> /\ UNCHANGED requests

\* the descriptors are filled in and the first is made available
Submit(p, write) ==
    /\ Running /\ pc[p] \in {"out", "retry"} /\ Cardinality(free) >= 3
    /\ LET i0 == Lowest(free)
           i1 == Lowest(free \ {i0})
           i2 == Lowest(free \ {i0, i1})
       IN /\ free' = free \ {i0, i1, i2}
          /\ desc' = [desc EXCEPT
                ![i0] = [owner |-> p, part |-> "header", write |-> FALSE, more |-> TRUE, next |-> i1],
                ![i1] = [owner |-> p, part |-> "data", write |-> ~write, more |-> TRUE, next |-> i2],
                ![i2] = [owner |-> p, part |-> "status", write |-> TRUE, more |-> FALSE, next |-> 0]]
          /\ info' = [info EXCEPT ![i0] = p]
          /\ avail' = [ring |-> [avail.ring EXCEPT ![avail.idx] = i0], idx |-> (avail.idx + 1) % NUM]
          /\ head' = [head EXCEPT ![p] = i0]
    /\ disk' = [disk EXCEPT ![p] = TRUE]
    /\ pc' = [pc EXCEPT ![p] = "sleep"]
    /\ UNCHANGED <<used, used_idx, intr, device, irq, panicked>>

\* the request has come back
Finish(p) ==
    /\ Running /\ pc[p] = "woken" /\ ~disk[p]
    /\ IF Chain(head[p]) \cap free # {}
       THEN panicked' = "virtio_disk_intr 2" /\ UNCHANGED <<free, desc, info, pc, head>>
       ELSE /\ free' = free \cup Chain(head[p])
            /\ desc' = [i \in Descs |-> IF i \in Chain(head[p]) THEN NoDesc ELSE desc[i]]
            /\ info' = [info EXCEPT ![head[p]] = None]
            /\ pc' = [WakeFree(pc) EXCEPT ![p] = "out"]
            /\ head' = [head EXCEPT ![p] = 0]
            /\ UNCHANGED panicked
    /\ UNCHANGED <<avail, used, used_idx, disk, intr, device, irq>>

-----------------------------------------------------------------------------
(* virtio_disk_intr(), called by devintr() for the interrupt               *)

IntrBegin ==
    /\ Running /\ irq /\ intr' = "loop"
    /\ device' = [device EXCEPT !.late = FALSE]
    /\ UNCHANGED <<free, info, used, used_idx, disk, pc, irq, panicked>> /\ UNCHANGED requests

\* if instead of while
MutantIntrOne ==
    /\ panicked = "no" /\ intr = "loop" /\ used_idx # used.idx /\ info[used.elems[used_idx]] # None
    /\ LET b == info[used.elems[used_idx]]
       IN /\ disk' = [disk EXCEPT ![b] = FALSE]
          /\ pc' = IF pc[b] = "sleep" THEN [pc EXCEPT ![b] = "woken"] ELSE pc
          /\ used_idx' = (used_idx + 1) % NUM
    /\ intr' = "ack"
    /\ used' = [used EXCEPT !.elems[used_idx] = NoSlot]
    /\ UNCHANGED <<free, info, device, irq, panicked>> /\ UNCHANGED requests

IntrOne ==
    /\ panicked = "no" /\ intr = "loop" /\ used_idx # used.idx
    /\ LET b == IF used.elems[used_idx] = NoSlot THEN None ELSE info[used.elems[used_idx]]
       IN IF b = None THEN panicked' = "null buffer" /\ UNCHANGED <<disk, pc, used, used_idx>>
          ELSE /\ disk' = [disk EXCEPT ![b] = FALSE]
               /\ pc' = IF pc[b] = "sleep" THEN [pc EXCEPT ![b] = "woken"] ELSE pc
               /\ used_idx' = (used_idx + 1) % NUM
               /\ used' = [used EXCEPT !.elems[used_idx] = NoSlot]
               /\ UNCHANGED panicked
    /\ UNCHANGED <<free, info, intr, device, irq>> /\ UNCHANGED requests

IntrLast ==
    /\ panicked = "no" /\ intr = "loop" /\ used_idx = used.idx /\ intr' = "ack"
    /\ UNCHANGED <<free, info, used, used_idx, disk, pc, device, irq, panicked>> /\ UNCHANGED requests

\* whatever the device has done since IntrLast
IntrAck ==
    /\ panicked = "no" /\ intr = "ack" /\ intr' = "no" /\ irq' = FALSE
    /\ UNCHANGED <<free, info, used, used_idx, disk, pc, device, panicked>> /\ UNCHANGED requests

-----------------------------------------------------------------------------
(* The device.                                                             *)

Fetch ==
    /\ device.seen # avail.idx
    /\ device' = [device EXCEPT !.seen = (@ + 1) % NUM, !.work = @ \cup {avail.ring[device.seen]}]
    /\ avail' = [avail EXCEPT !.ring[device.seen] = NoSlot]
    /\ UNCHANGED <<free, desc, info, used, used_idx, disk, pc, head, intr, irq, panicked>>

\* in any order
Complete(i) ==
    /\ i \in device.work
    /\ device' = [device EXCEPT !.work = @ \ {i}, !.late = @ \/ intr = "ack"]
    /\ used' = [elems |-> [used.elems EXCEPT ![used.idx] = i], idx |-> (used.idx + 1) % NUM]
    /\ irq' = TRUE
    /\ UNCHANGED driver

-----------------------------------------------------------------------------

Init ==
    /\ free = Descs /\ desc = [i \in Descs |-> NoDesc] /\ info = [i \in Descs |-> None]
    /\ avail = [ring |-> [i \in Descs |-> NoSlot], idx |-> 0]
    /\ used = [elems |-> [i \in Descs |-> NoSlot], idx |-> 0]
    /\ used_idx = 0
    /\ disk = [p \in Procs |-> FALSE] /\ pc = [p \in Procs |-> "out"] /\ head = [p \in Procs |-> 0]
    /\ intr = "no" /\ device = [seen |-> 0, work |-> {}, late |-> FALSE] /\ irq = FALSE /\ panicked = "no"

GoOn(p) == pc[p] # "out" /\ (Full(p) \/ (\E write \in BOOLEAN : Submit(p, write)) \/ Finish(p))
Call(p) == pc[p] = "out" /\ (Full(p) \/ \E write \in BOOLEAN : Submit(p, write))
Handler == IntrBegin \/ IntrOne \/ IntrLast \/ IntrAck

Next ==
    \/ Handler \/ Fetch \/ \E i \in Descs : Complete(i)
    \/ \E p \in Procs : GoOn(p) \/ Call(p)

Spec == Init /\ [][Next]_vars

\* The device works on every request, interrupts are taken, and what is woken gets the lock.
FairSpec ==
    /\ Spec /\ WF_vars(Handler) /\ SF_vars(IntrBegin) /\ WF_vars(Fetch)
    /\ \A i \in Descs : WF_vars(Complete(i))
    /\ \A p \in Procs : SF_vars(GoOn(p))

-----------------------------------------------------------------------------
(* Properties.                                                             *)

Waiting == {p \in Procs : pc[p] \in {"sleep", "woken"}}
Slots(from, to) == {k \in Descs : (k - from) % NUM < (to - from) % NUM}

\* The request of p is at exactly one place of the three: made available and not yet
\* seen, with the device, or used and not yet seen.
Places(p) ==
    {<<"avail", k>> : k \in {k \in Slots(device.seen, avail.idx) : avail.ring[k] = head[p]}}
    \cup {<<"device", i>> : i \in device.work \cap {head[p]}}
    \cup {<<"used", k>> : k \in {k \in Slots(used_idx, used.idx) : used.elems[k] = head[p]}}

\* The descriptors are shared out: each is free or in the chain of one request, which is
\* that of its caller and writes the buffer exactly when it reads the disk.  A request
\* that is the device's is in one of the rings or with it, once; one that is not has
\* come back.  Nobody sleeps for descriptors when there are enough.
RingsSound ==
    /\ panicked = "no"
    /\ \A p \in Waiting :
        /\ Cardinality(Chain(head[p])) = 3 /\ info[head[p]] = p
        /\ \A i \in Chain(head[p]) : desc[i].owner = p
        /\ Cardinality(Places(p)) = IF disk[p] THEN 1 ELSE 0
    /\ free \cap UNION {Chain(head[p]) : p \in Waiting} = {}
    /\ Cardinality(free) = NUM - 3 * Cardinality(Waiting)
    /\ \A p \in Procs : pc[p] = "free" => Cardinality(free) < 3

\* A request that was submitted is completed, in whatever order the device completes
\* them; unless the device completed one just before the handler acknowledged the
\* interrupt, and nothing more: then nobody comes to look.
RequestsComplete ==
    \A p \in Procs : pc[p] = "sleep" ~> (pc[p] = "out" \/ [](device.late /\ ~irq))

=============================================================================
