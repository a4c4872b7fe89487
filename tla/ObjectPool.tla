----------------------------- MODULE ObjectPool -----------------------------
(***************************************************************************)
(* What an object allocator promises its callers, and the rest of the      *)
(* kernel, about memory: an object handed out is nobody else's, and the    *)
(* page under it is not at the same time in use for something else.  How   *)
(* objects are found, and when pages are taken or returned, is not said.   *)
(***************************************************************************)
CONSTANTS
  Pages,      \* physical pages
  Objects,    \* the possible objects
  PageOf(_)   \* the page an object lies in

VARIABLES
  held,       \* objects the callers hold
  others      \* pages the rest of the kernel holds

Init == held = {} /\ others = {}

Alloc(o) ==
  /\ o \notin held
  /\ PageOf(o) \notin others
  /\ held' = held \cup {o}
  /\ UNCHANGED others

Free(o) ==
  /\ o \in held
  /\ held' = held \ {o}
  /\ UNCHANGED others

Kalloc(p) ==
  /\ p \notin others
  /\ \A o \in held : PageOf(o) # p
  /\ others' = others \cup {p}
  /\ UNCHANGED held

Kfree(p) ==
  /\ p \in others
  /\ others' = others \ {p}
  /\ UNCHANGED held

Next ==
  \/ \E o \in Objects : Alloc(o) \/ Free(o)
  \/ \E p \in Pages : Kalloc(p) \/ Kfree(p)

Spec == Init /\ [][Next]_<<held, others>>
=============================================================================
