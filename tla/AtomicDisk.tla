---------------------------- MODULE AtomicDisk ----------------------------
(***************************************************************************)
(* What the file system's log promises: the operations between a begin_op  *)
(* and its end_op become durable together with all operations they overlap *)
(* and never in part, and a crash takes the blocks back to the last        *)
(* durable state.                                                          *)
(***************************************************************************)
EXTENDS Naturals

CONSTANTS Procs, Blocks, Versions, initial

VARIABLES
  vol,      \* the blocks as running operations see them
  dur,      \* the blocks as they would be after a crash
  active,   \* processes between begin_op and end_op
  crashes   \* how often the system has crashed

Init == vol = initial /\ dur = initial /\ active = {} /\ crashes = 0

Begin(p) ==
  /\ p \notin active
  /\ active' = active \cup {p}
  /\ UNCHANGED <<vol, dur, crashes>>

Write(p, b, v) ==
  /\ p \in active
  /\ vol' = [vol EXCEPT ![b] = v]
  /\ UNCHANGED <<dur, active, crashes>>

End(p) ==
  /\ p \in active
  /\ active' = active \ {p}
  /\ UNCHANGED <<vol, dur, crashes>>

(* Only a state no operation is in the middle of becomes durable.          *)
Commit ==
  /\ active = {}
  /\ dur' = vol
  /\ UNCHANGED <<vol, active, crashes>>

Crash ==
  /\ vol' = dur
  /\ active' = {}
  /\ crashes' = crashes + 1
  /\ UNCHANGED dur

Next ==
  \/ \E p \in Procs : Begin(p) \/ End(p)
  \/ \E p \in Procs, b \in Blocks, v \in Versions : Write(p, b, v)
  \/ Commit
  \/ Crash

Spec == Init /\ [][Next]_<<vol, dur, active, crashes>>
=============================================================================
