------------------------------ MODULE Channel ------------------------------
(* What a pipe promises: bytes go through it in order, none is lost or     *)
(* made up, and no more than Capacity are on the way.                      *)
EXTENDS Naturals, Sequences

CONSTANTS Capacity, Bytes

VARIABLES
    queue,      \* written, and not yet read
    received,   \* read, oldest first
    ends        \* the ends that are open

Put ==
    /\ "w" \in ends /\ Len(queue) < Capacity
    /\ Len(queue') = Len(queue) + 1 /\ SubSeq(queue', 1, Len(queue)) = queue /\ queue'[Len(queue) + 1] \in Bytes
    /\ UNCHANGED <<received, ends>>

Get ==
    /\ "r" \in ends /\ queue # <<>>
    /\ received' = Append(received, Head(queue))
    /\ queue' = Tail(queue)
    /\ UNCHANGED ends

Close == \E e \in ends : ends' = ends \ {e} /\ UNCHANGED <<queue, received>>

Init == queue = <<>> /\ received = <<>> /\ ends = {"r", "w"}
Next == Put \/ Get \/ Close
Spec == Init /\ [][Next]_<<queue, received, ends>>
=============================================================================
