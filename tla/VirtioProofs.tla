---------------------------- MODULE VirtioProofs ----------------------------
(***************************************************************************)
(* The disk driver and the device share the descriptors and the two rings  *)
(* soundly, for every number of descriptors and of callers.                *)
(***************************************************************************)
EXTENDS VirtioDisk, FiniteSetTheorems, WellFoundedInduction, TLAPS

-----------------------------------------------------------------------------
(* The slots of a ring that are in use: from one index up to another.      *)

Used(from, to) == (to - from) % NUM

LEMMA Distance ==
  ASSUME NEW a \in Descs, NEW b \in Descs
  PROVE  Used(a, b) = (IF a =< b THEN b - a ELSE b - a + NUM) /\ Used(a, b) \in Nat
BY VirtioAssumption DEF VirtioAssumption, Descs, Used

LEMMA Following ==
  ASSUME NEW a \in Descs
  PROVE  (a + 1) % NUM = (IF a = NUM - 1 THEN 0 ELSE a + 1) /\ (a + 1) % NUM \in Descs
BY VirtioAssumption DEF VirtioAssumption, Descs

LEMMA SlotsAre ==
  ASSUME NEW a \in Descs, NEW b \in Descs
  PROVE  Slots(a, b) = {k \in Descs : IF a =< b THEN a =< k /\ k < b ELSE a =< k \/ k < b}
<1>1. \A k \in Descs : (k - a) % NUM < (b - a) % NUM <=> IF a =< b THEN a =< k /\ k < b ELSE a =< k \/ k < b
  <2> TAKE k \in Descs
  <2>1. /\ (k - a) % NUM = IF a =< k THEN k - a ELSE k - a + NUM
        /\ (b - a) % NUM = IF a =< b THEN b - a ELSE b - a + NUM
    BY Distance DEF Used
  <2> QED BY <2>1, VirtioAssumption DEF VirtioAssumption, Descs
<1> QED BY <1>1 DEF Slots

\* One more slot is filled ...
LEMMA SlotFilled ==
  ASSUME NEW a \in Descs, NEW b \in Descs, Used(a, b) + 1 < NUM
  PROVE  /\ Slots(a, (b + 1) % NUM) = Slots(a, b) \cup {b} /\ b \notin Slots(a, b)
         /\ Used(a, (b + 1) % NUM) = Used(a, b) + 1
<1> DEFINE c == (b + 1) % NUM
<1>1. c = (IF b = NUM - 1 THEN 0 ELSE b + 1) /\ c \in Descs
  BY Following
<1> HIDE DEF c
<1>2. Used(a, b) = (IF a =< b THEN b - a ELSE b - a + NUM) /\ Used(a, c) = IF a =< c THEN c - a ELSE c - a + NUM
  BY <1>1, Distance
<1>3. Slots(a, c) = Slots(a, b) \cup {b} /\ b \notin Slots(a, b)
  BY <1>1, <1>2, SlotsAre, VirtioAssumption DEF VirtioAssumption, Descs
<1>4. Used(a, c) = Used(a, b) + 1
  BY <1>1, <1>2, VirtioAssumption DEF VirtioAssumption, Descs
<1> QED BY <1>3, <1>4 DEF c

\* ... or emptied.
LEMMA SlotEmptied ==
  ASSUME NEW a \in Descs, NEW b \in Descs, a # b
  PROVE  /\ Slots((a + 1) % NUM, b) = Slots(a, b) \ {a} /\ a \in Slots(a, b)
         /\ Used((a + 1) % NUM, b) = Used(a, b) - 1
<1> DEFINE c == (a + 1) % NUM
<1>1. c = (IF a = NUM - 1 THEN 0 ELSE a + 1) /\ c \in Descs
  BY Following
<1> HIDE DEF c
<1>2. Used(a, b) = (IF a =< b THEN b - a ELSE b - a + NUM) /\ Used(c, b) = IF c =< b THEN b - c ELSE b - c + NUM
  BY <1>1, Distance
<1>3. Slots(c, b) = Slots(a, b) \ {a} /\ a \in Slots(a, b)
  BY <1>1, <1>2, SlotsAre, VirtioAssumption DEF VirtioAssumption, Descs
<1>4. Used(c, b) = Used(a, b) - 1
  BY <1>1, <1>2, VirtioAssumption DEF VirtioAssumption, Descs
<1> QED BY <1>3, <1>4 DEF c

LEMMA SlotsNone ==
  ASSUME NEW a \in Descs PROVE Slots(a, a) = {} /\ Used(a, a) = 0
BY SlotsAre, Distance DEF Descs

-----------------------------------------------------------------------------
(* The inductive invariant.                                                *)

Descriptor == [owner : Procs \cup {None}, part : {"none", "header", "data", "status"},
               write : BOOLEAN, more : BOOLEAN, next : Descs]

Types ==
    /\ free \in SUBSET Descs
    /\ desc \in [Descs -> Descriptor]
    /\ info \in [Descs -> Procs \cup {None}]
    /\ avail.ring \in [Descs -> Descs \cup {NoSlot}] /\ avail.idx \in Descs
    /\ used.elems \in [Descs -> Descs \cup {NoSlot}] /\ used.idx \in Descs
    /\ used_idx \in Descs
    /\ disk \in [Procs -> BOOLEAN]
    /\ pc \in [Procs -> {"out", "free", "retry", "sleep", "woken"}]
    /\ head \in [Procs -> Descs]
    /\ device.seen \in Descs /\ device.work \in SUBSET Descs
    /\ avail = [ring |-> avail.ring, idx |-> avail.idx]
    /\ used = [elems |-> used.elems, idx |-> used.idx]
    /\ device = [seen |-> device.seen, work |-> device.work, late |-> device.late]
    /\ panicked = "no"

\* The request of p: three descriptors of p's, linked, and info leads back to p.
Request(p) ==
    LET i0 == head[p]
        i1 == desc[i0].next
        i2 == desc[i1].next
    IN /\ i0 # i1 /\ i0 # i2 /\ i1 # i2
       /\ desc[i0].owner = p /\ desc[i1].owner = p /\ desc[i2].owner = p
       /\ desc[i0].more /\ desc[i1].more /\ ~desc[i2].more
       /\ info[i0] = p
       /\ i0 \notin free /\ i1 \notin free /\ i2 \notin free

\* Who sleeps for descriptors has reason to, and the device has the buffers of those that
\* sleep for their request.
Callers ==
    \A p \in Procs :
        /\ pc[p] = "free" => Cardinality(free) < 3
        /\ disk[p] <=> pc[p] = "sleep"

Shares ==
    /\ \A p \in Waiting : Request(p)
    /\ Cardinality(free) = NUM - 3 * Cardinality(Waiting)

OnDisk == {p \in Procs : disk[p]}
AvailSlots == Slots(device.seen, avail.idx)
UsedSlots == Slots(used_idx, used.idx)

\* What is in the rings and with the device are the requests that are the device's, each of
\* them once; there are no more than a third of the descriptors, and no ring overflows.
Rings ==
    /\ \A k \in AvailSlots : \E p \in OnDisk : avail.ring[k] = head[p]
    /\ \A i \in device.work : \E p \in OnDisk : i = head[p]
    /\ \A k \in UsedSlots : \E p \in OnDisk : used.elems[k] = head[p]
    /\ \A p \in OnDisk :
        \/ \E k \in AvailSlots : avail.ring[k] = head[p]
        \/ head[p] \in device.work
        \/ \E k \in UsedSlots : used.elems[k] = head[p]
    /\ \A k \in AvailSlots :
        /\ avail.ring[k] \notin device.work
        /\ \A l \in AvailSlots : avail.ring[k] = avail.ring[l] => k = l
        /\ \A l \in UsedSlots : avail.ring[k] # used.elems[l]
    /\ \A k \in UsedSlots :
        /\ used.elems[k] \notin device.work
        /\ \A l \in UsedSlots : used.elems[k] = used.elems[l] => k = l
    /\ Used(device.seen, avail.idx) + Cardinality(device.work) + Used(used_idx, used.idx) = Cardinality(OnDisk)

IInv == Types /\ Callers /\ Shares /\ Rings

-----------------------------------------------------------------------------
(* What the invariant says of the sets involved.                           *)

LEMMA LowestIsIn ==
  ASSUME NEW S \in SUBSET Descs, S # {} PROVE Lowest(S) \in S
<1> DEFINE R == OpToRel(<, Nat)
<1>1. IsWellFoundedOn(R, Nat)
  BY NatLessThanWellFounded
<1>2. S \subseteq Nat
  BY VirtioAssumption DEF VirtioAssumption, Descs
<1>3. PICK i \in S : \A j \in S : ~(<<j, i>> \in R)
  BY <1>1, <1>2, WFMin
<1>4. \A j \in S : ~(j < i)
  BY <1>2, <1>3 DEF OpToRel
<1>5. \A j \in S : i <= j
  BY <1>2, <1>4
<1> QED BY <1>5 DEF Lowest

LEMMA Sizes ==
  ASSUME Types, Callers, Shares
  PROVE  /\ IsFiniteSet(free) /\ IsFiniteSet(Waiting) /\ IsFiniteSet(OnDisk) /\ IsFiniteSet(device.work)
         /\ Cardinality(free) \in Nat /\ Cardinality(Waiting) \in Nat /\ Cardinality(OnDisk) \in Nat
         /\ Cardinality(device.work) \in Nat
         /\ OnDisk \subseteq Waiting /\ Waiting \subseteq Procs
         /\ Cardinality(OnDisk) =< Cardinality(Waiting)
         /\ 3 * Cardinality(Waiting) = NUM - Cardinality(free)
<1>1. IsFiniteSet(Descs) /\ IsFiniteSet(Procs)
  BY VirtioAssumption, FS_Interval DEF VirtioAssumption, Descs
<1>2. IsFiniteSet(free) /\ IsFiniteSet(device.work)
  BY <1>1, FS_Subset DEF Types
<1>3. OnDisk \in SUBSET Waiting /\ Waiting \in SUBSET Procs
  BY DEF OnDisk, Waiting, Callers
<1>4. IsFiniteSet(Waiting)
  BY <1>1, <1>3, FS_Subset
<1>5. IsFiniteSet(OnDisk) /\ Cardinality(OnDisk) =< Cardinality(Waiting)
  BY <1>3, <1>4, FS_Subset
<1>6. /\ Cardinality(free) \in Nat /\ Cardinality(Waiting) \in Nat /\ Cardinality(OnDisk) \in Nat
      /\ Cardinality(device.work) \in Nat
  BY <1>2, <1>4, <1>5, FS_CardinalityType
<1>7. 3 * Cardinality(Waiting) = NUM - Cardinality(free)
  BY <1>6, VirtioAssumption DEF VirtioAssumption, Shares
<1> QED BY <1>2, <1>3, <1>4, <1>5, <1>6, <1>7

\* The rings are never more than a third full.
LEMMA RingsHaveRoom ==
  ASSUME IInv
  PROVE  /\ Used(device.seen, avail.idx) \in Nat /\ Used(used_idx, used.idx) \in Nat
         /\ 3 * Used(device.seen, avail.idx) =< NUM /\ 3 * Used(used_idx, used.idx) =< NUM
         /\ Used(device.seen, avail.idx) + 1 < NUM
         /\ 3 * (Used(used_idx, used.idx) + Cardinality(device.work)) =< NUM
<1>1. Used(device.seen, avail.idx) \in Nat /\ Used(used_idx, used.idx) \in Nat
  BY Distance DEF IInv, Types
<1>2. Used(device.seen, avail.idx) + Cardinality(device.work) + Used(used_idx, used.idx) = Cardinality(OnDisk)
  BY DEF IInv, Rings
<1> QED BY <1>1, <1>2, Sizes, VirtioAssumption DEF VirtioAssumption, IInv

LEMMA Three ==
  ASSUME NEW a, NEW b, NEW c, a # b, a # c, b # c
  PROVE  IsFiniteSet({a, b, c}) /\ Cardinality({a, b, c}) = 3
<1>1. IsFiniteSet({a}) /\ Cardinality({a}) = 1
  BY FS_Singleton
<1>2. IsFiniteSet({a} \cup {b}) /\ Cardinality({a} \cup {b}) = 2
  BY <1>1, FS_AddElement
<1>3. IsFiniteSet(({a} \cup {b}) \cup {c}) /\ Cardinality(({a} \cup {b}) \cup {c}) = 3
  BY <1>2, FS_AddElement
<1>4. ({a} \cup {b}) \cup {c} = {a, b, c}
  OBVIOUS
<1> QED BY <1>3, <1>4

\* free_chain() frees the three descriptors of a request.
LEMMA ChainOfRequest ==
  ASSUME Types, NEW p \in Procs, Request(p)
  PROVE  /\ Chain(head[p]) = {head[p], desc[head[p]].next, desc[desc[head[p]].next].next}
         /\ Chain(head[p]) \in SUBSET Descs
         /\ IsFiniteSet(Chain(head[p])) /\ Cardinality(Chain(head[p])) = 3
         /\ Chain(head[p]) \cap free = {}
         /\ \A i \in Chain(head[p]) : desc[i].owner = p
<1> DEFINE i0 == head[p]
           i1 == desc[i0].next
           i2 == desc[i1].next
<1>1. i0 \in Descs /\ i1 \in Descs /\ i2 \in Descs
  BY DEF Types, Descriptor
<1>2. Chain(i0) = {i0, i1, i2}
  BY DEF Chain, Request
<1>3. i0 # i1 /\ i0 # i2 /\ i1 # i2
  BY DEF Request
<1>4. IsFiniteSet({i0, i1, i2}) /\ Cardinality({i0, i1, i2}) = 3
  <2> HIDE DEF i0, i1, i2
  <2> QED BY <1>3, Three
<1>5. /\ i0 \notin free /\ i1 \notin free /\ i2 \notin free
      /\ desc[i0].owner = p /\ desc[i1].owner = p /\ desc[i2].owner = p
  BY DEF Request
<1> QED BY <1>1, <1>2, <1>4, <1>5

LEMMA HeadsDiffer ==
  ASSUME Shares, NEW p \in Waiting, NEW q \in Waiting, head[p] = head[q] PROVE p = q
BY DEF Shares, Request

LEMMA InitIInv == Init => IInv
<1> SUFFICES ASSUME Init PROVE IInv
  OBVIOUS
<1> USE VirtioAssumption DEF VirtioAssumption, Init
<1>1. Types
  <2>1. 0 \in Descs
    BY DEF Descs
  <2>2. NoDesc \in Descriptor
    BY <2>1 DEF NoDesc, Descriptor
  <2> QED BY <2>1, <2>2 DEF Types
<1>2. Waiting = {} /\ OnDisk = {}
  BY DEF Waiting, OnDisk
<1>3. Callers
  BY DEF Callers
<1>4. Shares
  <2>1. Cardinality(Descs) = NUM
    BY FS_Interval DEF Descs
  <2>2. Cardinality(Waiting) = 0
    BY <1>2, FS_EmptySet
  <2> QED BY <1>2, <2>1, <2>2 DEF Shares
<1>5. Rings
  <2>1. 0 \in Descs
    BY DEF Descs
  <2>2. AvailSlots = {} /\ UsedSlots = {} /\ Used(0, 0) = 0
    BY <2>1, SlotsNone DEF AvailSlots, UsedSlots
  <2>3. Cardinality({}) = 0
    BY FS_EmptySet
  <2> QED BY <1>2, <2>2, <2>3 DEF Rings
<1> QED BY <1>1, <1>3, <1>4, <1>5 DEF IInv

-----------------------------------------------------------------------------
(* The steps of the callers.                                               *)

\* A step that leaves the rings and the device alone keeps what holds of them.
LEMMA SameRings ==
  ASSUME Rings, UNCHANGED <<avail, used, used_idx, device>>, OnDisk' = OnDisk,
         \A p \in OnDisk : head'[p] = head[p]
  PROVE  Rings'
BY DEF Rings, AvailSlots, UsedSlots, Slots, Used

LEMMA FullIInv == ASSUME IInv, NEW p \in Procs, Full(p) PROVE IInv'
<1> USE DEF IInv, Full, requests
<1>1. pc[p] \in {"out", "retry"} /\ pc'[p] = "free" /\ Cardinality(free) < 3
  BY DEF Types, WakeFree
<1>2. \A q \in Procs : q # p =>
        pc'[q] = pc[q] \/ (pc[q] = "free" /\ pc'[q] = "retry")
  BY DEF Types, WakeFree
<1>3. pc' \in [Procs -> {"out", "free", "retry", "sleep", "woken"}]
  BY DEF Types, WakeFree
<1>4. Types'
  BY <1>3 DEF Types
<1>5. Waiting' = Waiting /\ OnDisk' = OnDisk
  BY <1>1, <1>2 DEF Waiting, OnDisk, Types
<1>6. Callers'
  BY <1>1, <1>2 DEF Callers, Types
<1>7. Shares'
  BY <1>5 DEF Shares, Request
<1>8. Rings'
  BY <1>5, SameRings
<1> QED BY <1>4, <1>6, <1>7, <1>8

\* alloc3_desc() finds three descriptors.
LEMMA Allocated ==
  ASSUME IInv, Cardinality(free) >= 3,
         NEW i0, i0 = Lowest(free), NEW i1, i1 = Lowest(free \ {i0}),
         NEW i2, i2 = Lowest(free \ {i0, i1})
  PROVE  /\ i0 \in free /\ i1 \in free /\ i2 \in free /\ i0 # i1 /\ i0 # i2 /\ i1 # i2
         /\ Cardinality(free \ {i0, i1, i2}) = Cardinality(free) - 3
<1>1. IsFiniteSet(free) /\ Cardinality(free) \in Nat /\ free \in SUBSET Descs
  BY Sizes DEF IInv, Types
<1>2. i0 \in free
  BY <1>1, LowestIsIn, FS_EmptySet
<1>3. IsFiniteSet(free \ {i0}) /\ Cardinality(free \ {i0}) = Cardinality(free) - 1
  BY <1>1, <1>2, FS_RemoveElement
<1>4. i1 \in free \ {i0}
  <2>1. free \ {i0} # {} /\ free \ {i0} \in SUBSET Descs
    BY <1>1, <1>3, FS_EmptySet
  <2> QED BY <2>1, LowestIsIn
<1>5. free \ {i0, i1} = (free \ {i0}) \ {i1} /\ free \ {i0, i1, i2} = (free \ {i0, i1}) \ {i2}
  OBVIOUS
<1>6. IsFiniteSet((free \ {i0}) \ {i1}) /\ Cardinality((free \ {i0}) \ {i1}) = Cardinality(free \ {i0}) - 1
  BY <1>3, <1>4, FS_RemoveElement
<1>7. IsFiniteSet(free \ {i0, i1}) /\ Cardinality(free \ {i0, i1}) = Cardinality(free) - 2
  <2>1. IsFiniteSet(free \ {i0, i1}) /\ Cardinality(free \ {i0, i1}) = Cardinality(free \ {i0}) - 1
    BY ONLY <1>5, <1>6, Zenon
  <2> QED BY <1>1, <1>3, <2>1
<1>8. i2 \in free \ {i0, i1}
  <2>1. free \ {i0, i1} # {}
    <3>1. Cardinality(free \ {i0, i1}) # 0
      BY <1>1, <1>7
    <3> QED BY <3>1, FS_EmptySet
  <2>2. free \ {i0, i1} \in SUBSET Descs
    BY <1>1
  <2> QED BY <2>1, <2>2, LowestIsIn
<1>9. Cardinality((free \ {i0, i1}) \ {i2}) = Cardinality(free \ {i0, i1}) - 1
  BY <1>7, <1>8, FS_RemoveElement
<1>10. Cardinality(free \ {i0, i1, i2}) = Cardinality(free) - 3
  <2>1. Cardinality(free \ {i0, i1, i2}) = Cardinality(free \ {i0, i1}) - 1
    BY ONLY <1>5, <1>9, Zenon
  <2> QED BY <1>1, <1>7, <2>1
<1> QED BY <1>2, <1>4, <1>8, <1>10

LEMMA SubmitIInv ==
  ASSUME IInv, NEW p \in Procs, NEW write \in BOOLEAN, Submit(p, write) PROVE IInv'
<1> DEFINE i0 == Lowest(free)
           i1 == Lowest(free \ {i0})
           i2 == Lowest(free \ {i0, i1})
           r0 == [owner |-> p, part |-> "header", write |-> FALSE, more |-> TRUE, next |-> i1]
           r1 == [owner |-> p, part |-> "data", write |-> ~write, more |-> TRUE, next |-> i2]
           r2 == [owner |-> p, part |-> "status", write |-> TRUE, more |-> FALSE, next |-> 0]
<1>1. /\ pc[p] \in {"out", "retry"} /\ Cardinality(free) >= 3
      /\ free' = free \ {i0, i1, i2}
      /\ desc' = [desc EXCEPT ![i0] = r0, ![i1] = r1, ![i2] = r2]
      /\ info' = [info EXCEPT ![i0] = p]
      /\ avail' = [ring |-> [avail.ring EXCEPT ![avail.idx] = i0], idx |-> (avail.idx + 1) % NUM]
      /\ head' = [head EXCEPT ![p] = i0]
      /\ disk' = [disk EXCEPT ![p] = TRUE]
      /\ pc' = [pc EXCEPT ![p] = "sleep"]
      /\ UNCHANGED <<used, used_idx, device, panicked>>
  BY DEF Submit
<1>2. /\ i0 \in free /\ i1 \in free /\ i2 \in free /\ i0 # i1 /\ i0 # i2 /\ i1 # i2
      /\ Cardinality(free \ {i0, i1, i2}) = Cardinality(free) - 3
  BY <1>1, Allocated
<1>3. /\ r0.owner = p /\ r0.more /\ r0.next = i1
      /\ r1.owner = p /\ r1.more /\ r1.next = i2
      /\ r2.owner = p /\ ~r2.more
  OBVIOUS
<1>4. free \subseteq Descs /\ 0 \in Descs
  BY VirtioAssumption DEF VirtioAssumption, IInv, Types, Descs
<1>5. r0 \in Descriptor /\ r1 \in Descriptor /\ r2 \in Descriptor
  <2> DEFINE w == ~write
  <2>1. w \in BOOLEAN /\ TRUE \in BOOLEAN /\ FALSE \in BOOLEAN
    OBVIOUS
  <2> HIDE DEF i0, i1, i2, w
  <2> QED BY <1>2, <1>4, <2>1 DEF Descriptor
<1> HIDE DEF i0, i1, i2, r0, r1, r2
<1>6. /\ desc'[i0] = r0 /\ desc'[i1] = r1 /\ desc'[i2] = r2
      /\ \A i \in Descs : i \notin {i0, i1, i2} => desc'[i] = desc[i]
      /\ desc' \in [Descs -> Descriptor]
  BY <1>1, <1>2, <1>4, <1>5 DEF IInv, Types
<1>7. /\ info'[i0] = p /\ \A i \in Descs : i # i0 => info'[i] = info[i]
      /\ head'[p] = i0 /\ \A q \in Procs : q # p => head'[q] = head[q]
      /\ disk'[p] /\ \A q \in Procs : q # p => disk'[q] = disk[q]
      /\ pc'[p] = "sleep" /\ \A q \in Procs : q # p => pc'[q] = pc[q]
  BY <1>1, <1>2, <1>4 DEF IInv, Types
<1>8. avail.idx \in Descs /\ avail'.idx = (avail.idx + 1) % NUM /\ avail'.idx \in Descs
  BY <1>1, Following DEF IInv, Types
<1>9. avail'.ring[avail.idx] = i0 /\ \A k \in Descs : k # avail.idx => avail'.ring[k] = avail.ring[k]
  BY <1>1, <1>8 DEF IInv, Types
<1>10. Types'
  <2>1. avail'.ring \in [Descs -> Descs \cup {NoSlot}]
    BY <1>1, <1>2, <1>4, <1>8 DEF IInv, Types
  <2>2. avail' = [ring |-> avail'.ring, idx |-> avail'.idx]
    BY <1>1
  <2>3. /\ info' \in [Descs -> Procs \cup {None}] /\ head' \in [Procs -> Descs]
        /\ disk' \in [Procs -> BOOLEAN] /\ pc' \in [Procs -> {"out", "free", "retry", "sleep", "woken"}]
        /\ free' \in SUBSET Descs
    BY <1>1, <1>2, <1>4 DEF IInv, Types
  <2> QED BY <1>1, <1>6, <1>8, <2>1, <2>2, <2>3 DEF IInv, Types
<1>11. Cardinality(free') = Cardinality(free) - 3 /\ Cardinality(free) \in Nat
  BY <1>1, <1>2, Sizes DEF IInv
<1>12. Callers'
  BY <1>1, <1>7, <1>11 DEF IInv, Callers
<1>13. Waiting' = Waiting \cup {p} /\ p \notin Waiting /\ OnDisk' = OnDisk \cup {p} /\ p \notin OnDisk
  BY <1>1, <1>7 DEF IInv, Callers, Waiting, OnDisk
<1>14. Cardinality(Waiting') = Cardinality(Waiting) + 1 /\ Cardinality(OnDisk') = Cardinality(OnDisk) + 1
  BY <1>13, Sizes, FS_AddElement DEF IInv
<1>15. Request(p)'
  <2>1. head'[p] = i0 /\ desc'[i0].next = i1 /\ desc'[i1].next = i2
    BY <1>3, <1>6, <1>7
  <2>2. /\ desc'[i0].owner = p /\ desc'[i1].owner = p /\ desc'[i2].owner = p
        /\ desc'[i0].more /\ desc'[i1].more /\ ~desc'[i2].more /\ info'[i0] = p
    BY <1>3, <1>6, <1>7
  <2>3. i0 \notin free' /\ i1 \notin free' /\ i2 \notin free'
    BY <1>1
  <2> QED BY <1>2, <2>1, <2>2, <2>3 DEF Request
<1>16. ASSUME NEW q \in Waiting, q # p
       PROVE  Request(q)' /\ head[q] \in Descs \ free /\ head'[q] = head[q]
  <2>1. Request(q) /\ q \in Procs
    BY DEF IInv, Shares, Waiting
  <2>2. /\ head[q] \in Descs \ {i0, i1, i2}
        /\ desc[head[q]].next \in Descs \ {i0, i1, i2}
        /\ desc[desc[head[q]].next].next \in Descs \ {i0, i1, i2}
    BY <1>2, <2>1 DEF Request, IInv, Types, Descriptor
  <2>3. head'[q] = head[q] /\ desc'[head[q]] = desc[head[q]]
    BY <1>6, <1>7, <1>16, <2>1, <2>2
  <2>4. desc'[desc[head[q]].next] = desc[desc[head[q]].next]
    BY <1>6, <2>2
  <2>5. desc'[desc[desc[head[q]].next].next] = desc[desc[desc[head[q]].next].next]
    BY <1>6, <2>2
  <2>6. info'[head[q]] = info[head[q]]
    BY <1>7, <2>2
  <2>7. Request(q)'
    BY <1>1, <2>1, <2>3, <2>4, <2>5, <2>6 DEF Request
  <2>8. head[q] \notin free
    BY <2>1 DEF Request
  <2> QED BY <2>2, <2>3, <2>7, <2>8
<1>17. Shares'
  <2>1. Cardinality(free') = NUM - 3 * Cardinality(Waiting')
    BY <1>11, <1>14, Sizes, VirtioAssumption DEF VirtioAssumption, IInv, Shares
  <2>2. \A q \in Waiting' : Request(q)'
    BY <1>13, <1>15, <1>16
  <2> QED BY <2>1, <2>2 DEF Shares
<1>18. /\ AvailSlots' = AvailSlots \cup {avail.idx} /\ avail.idx \notin AvailSlots
       /\ Used(device.seen, avail.idx)' = Used(device.seen, avail.idx) + 1
       /\ AvailSlots \in SUBSET Descs
  <2>1. device' = device /\ device.seen \in Descs
    BY <1>1 DEF IInv, Types
  <2>2. Used(device.seen, avail.idx) + 1 < NUM
    BY RingsHaveRoom
  <2> QED BY <1>8, <2>1, <2>2, SlotFilled DEF AvailSlots, Slots, Used
<1>19. UsedSlots' = UsedSlots /\ UsedSlots \in SUBSET Descs /\ Used(used_idx, used.idx)' = Used(used_idx, used.idx)
  BY <1>1 DEF UsedSlots, Slots, Used
<1>20. /\ \A q \in OnDisk : head'[q] = head[q] /\ head[q] # i0
       /\ \A k \in AvailSlots : avail'.ring[k] = avail.ring[k] /\ avail.ring[k] # i0
       /\ i0 \notin device.work
       /\ \A k \in UsedSlots : used.elems[k] # i0
  <2>1. \A q \in OnDisk : head'[q] = head[q] /\ head[q] # i0
    BY <1>2, <1>13, <1>16, Sizes DEF IInv
  <2>2. \A k \in AvailSlots : avail'.ring[k] = avail.ring[k]
    BY <1>9, <1>18
  <2> QED BY <2>1, <2>2 DEF IInv, Rings
<1>21. Rings'
  <2>1. device' = device /\ used' = used /\ head'[p] = i0
    BY <1>1, <1>7
  <2>2. \A k \in AvailSlots' : \E q \in OnDisk' : avail'.ring[k] = head'[q]
    BY <1>9, <1>13, <1>18, <1>20, <2>1 DEF IInv, Rings
  <2>3. \A i \in device'.work : \E q \in OnDisk' : i = head'[q]
    BY <1>13, <1>20, <2>1 DEF IInv, Rings
  <2>4. \A k \in UsedSlots' : \E q \in OnDisk' : used'.elems[k] = head'[q]
    BY <1>13, <1>19, <1>20, <2>1 DEF IInv, Rings
  <2>5. \A q \in OnDisk' :
          \/ \E k \in AvailSlots' : avail'.ring[k] = head'[q]
          \/ head'[q] \in device'.work
          \/ \E k \in UsedSlots' : used'.elems[k] = head'[q]
    BY <1>9, <1>13, <1>18, <1>19, <1>20, <2>1 DEF IInv, Rings
  <2>6. \A k \in AvailSlots' :
          /\ avail'.ring[k] \notin device'.work
          /\ \A l \in AvailSlots' : avail'.ring[k] = avail'.ring[l] => k = l
          /\ \A l \in UsedSlots' : avail'.ring[k] # used'.elems[l]
    BY <1>9, <1>18, <1>19, <1>20, <2>1 DEF IInv, Rings
  <2>7. \A k \in UsedSlots' :
          /\ used'.elems[k] \notin device'.work
          /\ \A l \in UsedSlots' : used'.elems[k] = used'.elems[l] => k = l
    BY <1>19, <2>1 DEF IInv, Rings
  <2>8. Used(device.seen, avail.idx)' + Cardinality(device'.work) + Used(used_idx, used.idx)' = Cardinality(OnDisk')
    BY <1>14, <1>18, <1>19, <2>1, Sizes, RingsHaveRoom DEF IInv, Rings
  <2> QED BY <2>2, <2>3, <2>4, <2>5, <2>6, <2>7, <2>8 DEF Rings
<1> QED BY <1>10, <1>12, <1>17, <1>21 DEF IInv

\* The descriptors of a request that has come back are free again.
LEMMA FinishIInv == ASSUME IInv, NEW p \in Procs, Finish(p) PROVE IInv'
<1> DEFINE c == Chain(head[p])
<1>1. pc[p] = "woken" /\ p \in Waiting /\ Request(p) /\ ~disk[p]
  BY DEF Finish, IInv, Shares, Waiting
<1>2. /\ c \in SUBSET Descs /\ IsFiniteSet(c) /\ Cardinality(c) = 3 /\ c \cap free = {}
      /\ \A i \in c : desc[i].owner = p
      /\ head[p] \in c
  BY <1>1, ChainOfRequest DEF IInv
<1>3. /\ free' = free \cup c
      /\ desc' = [i \in Descs |-> IF i \in c THEN NoDesc ELSE desc[i]]
      /\ info' = [info EXCEPT ![head[p]] = None]
      /\ pc' = [WakeFree(pc) EXCEPT ![p] = "out"]
      /\ head' = [head EXCEPT ![p] = 0]
      /\ UNCHANGED <<panicked, avail, used, used_idx, disk, device>>
  BY <1>2 DEF Finish
<1> HIDE DEF c
<1>4. /\ pc'[p] = "out"
      /\ \A q \in Procs : q # p => pc'[q] = pc[q] \/ (pc[q] = "free" /\ pc'[q] = "retry")
      /\ \A q \in Procs : pc'[q] # "free"
      /\ pc' \in [Procs -> {"out", "free", "retry", "sleep", "woken"}]
      /\ \A q \in Procs : q # p => head'[q] = head[q]
  BY <1>3 DEF IInv, Types, WakeFree
<1>5. /\ \A i \in Descs : i \notin c => desc'[i] = desc[i]
      /\ \A i \in Descs : i # head[p] => info'[i] = info[i]
  BY <1>3 DEF IInv, Types
<1>6. Types'
  <2>1. 0 \in Descs /\ NoDesc \in Descriptor
    <3>1. 0 \in Descs
      BY VirtioAssumption DEF VirtioAssumption, Descs
    <3> QED BY <3>1 DEF NoDesc, Descriptor
  <2>2. desc' \in [Descs -> Descriptor]
    BY <1>3, <2>1 DEF IInv, Types
  <2>3. info' \in [Descs -> Procs \cup {None}] /\ head' \in [Procs -> Descs] /\ free' \in SUBSET Descs
    BY <1>2, <1>3, <2>1 DEF IInv, Types
  <2> QED BY <1>3, <1>4, <2>2, <2>3 DEF IInv, Types
<1>7. Callers'
  BY <1>1, <1>3, <1>4 DEF IInv, Callers
<1>8. Waiting' = Waiting \ {p} /\ OnDisk' = OnDisk /\ p \notin OnDisk /\ OnDisk \subseteq Procs
  BY <1>1, <1>3, <1>4 DEF Waiting, OnDisk
<1>9. Cardinality(Waiting') = Cardinality(Waiting) - 1
  BY <1>1, <1>8, Sizes, FS_RemoveElement DEF IInv
<1>10. Cardinality(free') = Cardinality(free) + 3
  <2>1. IsFiniteSet(free) /\ Cardinality(free) \in Nat
    BY Sizes DEF IInv
  <2>2. Cardinality(free \cup c) = Cardinality(free) + Cardinality(c) - Cardinality(free \cap c)
    BY <1>2, <2>1, FS_Union
  <2>3. free \cap c = {}
    BY <1>2
  <2>4. Cardinality(free \cap c) = 0
    BY <2>3, FS_EmptySet
  <2> QED BY <1>2, <1>3, <2>1, <2>2, <2>4
<1>11. ASSUME NEW q \in Waiting, q # p PROVE Request(q)'
  <2>1. Request(q) /\ q \in Procs
    BY DEF IInv, Shares, Waiting
  <2>2. /\ head[q] \in Descs \ c
        /\ desc[head[q]].next \in Descs \ c
        /\ desc[desc[head[q]].next].next \in Descs \ c
    <3>1. /\ head[q] \in Descs /\ desc[head[q]].next \in Descs
          /\ desc[desc[head[q]].next].next \in Descs
      BY <2>1 DEF IInv, Types, Descriptor
    <3> QED BY <1>2, <1>11, <2>1, <3>1 DEF Request
  <2>3. head'[q] = head[q] /\ desc'[head[q]] = desc[head[q]]
    BY <1>4, <1>5, <1>11, <2>1, <2>2
  <2>4. desc'[desc[head[q]].next] = desc[desc[head[q]].next]
    BY <1>5, <2>2
  <2>5. desc'[desc[desc[head[q]].next].next] = desc[desc[desc[head[q]].next].next]
    BY <1>5, <2>2
  <2>6. info'[head[q]] = info[head[q]]
    BY <1>2, <1>5, <2>2
  <2>7. /\ head[q] \notin free' /\ desc[head[q]].next \notin free'
        /\ desc[desc[head[q]].next].next \notin free'
    BY <1>3, <2>1, <2>2 DEF Request
  <2> QED BY <2>1, <2>3, <2>4, <2>5, <2>6, <2>7 DEF Request
<1>12. Shares'
  <2>1. Cardinality(free') = NUM - 3 * Cardinality(Waiting')
    BY <1>9, <1>10, Sizes, VirtioAssumption DEF VirtioAssumption, IInv, Shares
  <2> QED BY <1>8, <1>11, <2>1 DEF Shares
<1>13. \A q \in OnDisk : head'[q] = head[q]
  BY <1>4, <1>8
<1>14. Rings'
  BY <1>3, <1>8, <1>13, SameRings DEF IInv
<1> QED BY <1>6, <1>7, <1>12, <1>14 DEF IInv

-----------------------------------------------------------------------------
(* The steps of the interrupt handler and of the device.                   *)

\* A step that only changes what the driver knows of the interrupt.
LEMMA SameIInv ==
  ASSUME IInv, UNCHANGED <<free, desc, info, avail, used, used_idx, disk, pc, head, panicked>>,
         device' = [seen |-> device.seen, work |-> device.work, late |-> device'.late]
  PROVE  IInv'
<1>1. device'.seen = device.seen /\ device'.work = device.work
  OBVIOUS
<1>2. Types'
  BY <1>1 DEF IInv, Types
<1>3. Callers' /\ Shares' /\ OnDisk' = OnDisk
  BY DEF IInv, Callers, Shares, Request, Waiting, OnDisk
<1>4. AvailSlots' = AvailSlots /\ UsedSlots' = UsedSlots
      /\ Used(device.seen, avail.idx)' = Used(device.seen, avail.idx)
      /\ Used(used_idx, used.idx)' = Used(used_idx, used.idx)
  BY <1>1 DEF AvailSlots, UsedSlots, Slots, Used
<1>5. Rings'
  BY <1>1, <1>3, <1>4 DEF IInv, Rings
<1> QED BY <1>2, <1>3, <1>5 DEF IInv

LEMMA IntrQuietIInv == ASSUME IInv, IntrBegin \/ IntrLast \/ IntrAck PROVE IInv'
<1>1. UNCHANGED <<free, desc, info, avail, used, used_idx, disk, pc, head, panicked>>
  BY DEF IntrBegin, IntrLast, IntrAck, requests
<1>2. device' = [seen |-> device.seen, work |-> device.work, late |-> device'.late]
  <2>1. CASE IntrBegin
    <3> DEFINE b == FALSE
    <3>1. device' = [device EXCEPT !.late = b]
      BY <2>1 DEF IntrBegin
    <3>2. device = [seen |-> device.seen, work |-> device.work, late |-> device.late]
      BY DEF IInv, Types
    <3> HIDE DEF b
    <3> QED BY <3>1, <3>2
  <2>2. CASE IntrLast \/ IntrAck
    BY <2>2 DEF IntrLast, IntrAck, IInv, Types
  <2> QED BY <2>1, <2>2
<1> QED BY <1>1, <1>2, SameIInv

\* A request comes back.
LEMMA IntrOneIInv == ASSUME IInv, IntrOne PROVE IInv'
<1>1. used_idx # used.idx /\ used_idx \in Descs /\ used.idx \in Descs
  BY DEF IntrOne, IInv, Types
<1>2. used_idx \in UsedSlots /\ UsedSlots \in SUBSET Descs
  BY <1>1, SlotEmptied DEF UsedSlots, Slots
<1>3. PICK p \in OnDisk : used.elems[used_idx] = head[p]
  BY <1>2 DEF IInv, Rings
<1>4. p \in Procs /\ p \in Waiting /\ disk[p] /\ pc[p] = "sleep" /\ info[head[p]] = p /\ head[p] \in Descs
  BY Sizes DEF IInv, Callers, Shares, Request, OnDisk, Types
<1>5. head[p] # NoSlot /\ p # None
  BY <1>4, VirtioAssumption DEF VirtioAssumption, Descs, NoSlot, None
<1>6. /\ disk' = [disk EXCEPT ![p] = FALSE]
      /\ pc' = [pc EXCEPT ![p] = "woken"]
      /\ used_idx' = (used_idx + 1) % NUM
      /\ used' = [used EXCEPT !.elems[used_idx] = NoSlot]
      /\ UNCHANGED <<free, desc, info, avail, head, device, panicked>>
  BY <1>3, <1>4, <1>5 DEF IntrOne, requests
<1>7. /\ ~disk'[p] /\ \A q \in Procs : q # p => disk'[q] = disk[q]
      /\ pc'[p] = "woken" /\ \A q \in Procs : q # p => pc'[q] = pc[q]
      /\ disk' \in [Procs -> BOOLEAN]
      /\ pc' \in [Procs -> {"out", "free", "retry", "sleep", "woken"}]
  BY <1>4, <1>6 DEF IInv, Types
<1>8. /\ used'.idx = used.idx /\ used'.elems = [used.elems EXCEPT ![used_idx] = NoSlot]
      /\ used' = [elems |-> used'.elems, idx |-> used'.idx]
  BY <1>6 DEF IInv, Types
<1>9. used_idx' \in Descs
  BY <1>1, <1>6, Following
<1>10. Types'
  <2>1. used'.elems \in [Descs -> Descs \cup {NoSlot}]
    BY <1>8 DEF IInv, Types
  <2> QED BY <1>6, <1>7, <1>8, <1>9, <2>1 DEF IInv, Types
<1>11. Callers'
  BY <1>6, <1>7 DEF IInv, Callers
<1>12. Waiting' = Waiting /\ OnDisk' = OnDisk \ {p} /\ OnDisk \subseteq Waiting
  BY <1>4, <1>7, Sizes DEF IInv, Waiting, OnDisk
<1>13. Shares'
  BY <1>6, <1>12 DEF IInv, Shares, Request
<1>14. Cardinality(OnDisk') = Cardinality(OnDisk) - 1
  BY <1>12, Sizes, FS_RemoveElement DEF IInv
<1>15. /\ UsedSlots' = UsedSlots \ {used_idx}
       /\ Used(used_idx, used.idx)' = Used(used_idx, used.idx) - 1
  BY <1>1, <1>6, <1>8, SlotEmptied DEF UsedSlots, Slots, Used
<1>16. AvailSlots' = AvailSlots /\ Used(device.seen, avail.idx)' = Used(device.seen, avail.idx)
  BY <1>6 DEF AvailSlots, Slots, Used
<1>17. \A k \in UsedSlots' : k # used_idx /\ k \in UsedSlots /\ used'.elems[k] = used.elems[k]
  BY <1>2, <1>8, <1>15 DEF IInv, Types
<1>18. \A q \in OnDisk : head[q] = head[p] => q = p
  BY <1>4, <1>12, HeadsDiffer DEF IInv
<1>19. Rings'
  <2>1. avail' = avail /\ device' = device /\ head' = head
    BY <1>6
  <2>2. \A k \in AvailSlots : avail.ring[k] # head[p]
    BY <1>2, <1>3 DEF IInv, Rings
  <2>3. head[p] \notin device.work
    BY <1>2, <1>3 DEF IInv, Rings
  <2>4. \A k \in UsedSlots' : used'.elems[k] # head[p]
    BY <1>2, <1>3, <1>17 DEF IInv, Rings
  <2>5. /\ \A k \in AvailSlots' : \E q \in OnDisk' : avail'.ring[k] = head'[q]
        /\ \A i \in device'.work : \E q \in OnDisk' : i = head'[q]
    BY <1>12, <1>16, <2>1, <2>2, <2>3 DEF IInv, Rings
  <2>6. \A k \in UsedSlots' : \E q \in OnDisk' : used'.elems[k] = head'[q]
    BY <1>12, <1>17, <2>1, <2>4 DEF IInv, Rings
  <2>7. ASSUME NEW q \in OnDisk'
        PROVE  \/ \E k \in AvailSlots' : avail'.ring[k] = head'[q]
               \/ head'[q] \in device'.work
               \/ \E k \in UsedSlots' : used'.elems[k] = head'[q]
    <3>1. q \in OnDisk /\ head[q] # head[p]
      BY <1>12, <1>18
    <3>2. CASE \E k \in UsedSlots : used.elems[k] = head[q]
      BY <1>3, <1>15, <1>17, <2>1, <3>1, <3>2
    <3>3. CASE (\E k \in AvailSlots : avail.ring[k] = head[q]) \/ head[q] \in device.work
      BY <1>16, <2>1, <3>3
    <3> QED BY <3>1, <3>2, <3>3 DEF IInv, Rings
  <2>8. \A k \in AvailSlots' :
          /\ avail'.ring[k] \notin device'.work
          /\ \A l \in AvailSlots' : avail'.ring[k] = avail'.ring[l] => k = l
          /\ \A l \in UsedSlots' : avail'.ring[k] # used'.elems[l]
    BY <1>16, <1>17, <2>1 DEF IInv, Rings
  <2>9. \A k \in UsedSlots' :
          /\ used'.elems[k] \notin device'.work
          /\ \A l \in UsedSlots' : used'.elems[k] = used'.elems[l] => k = l
    BY <1>17, <2>1 DEF IInv, Rings
  <2>10. Used(device.seen, avail.idx)' + Cardinality(device'.work) + Used(used_idx, used.idx)' = Cardinality(OnDisk')
    BY <1>14, <1>15, <1>16, <2>1, Sizes, RingsHaveRoom DEF IInv, Rings
  <2> QED BY <2>5, <2>6, <2>7, <2>8, <2>9, <2>10 DEF Rings
<1> QED BY <1>10, <1>11, <1>13, <1>19 DEF IInv

\* The device takes a request from the available ring.
LEMMA FetchIInv == ASSUME IInv, Fetch PROVE IInv'
<1> DEFINE s == device.seen
           i == avail.ring[s]
<1>1. s # avail.idx /\ s \in Descs /\ avail.idx \in Descs
  BY DEF Fetch, IInv, Types
<1>2. s \in AvailSlots /\ AvailSlots \in SUBSET Descs
  BY <1>1, SlotEmptied DEF AvailSlots, Slots
<1>3. PICK p \in OnDisk : i = head[p]
  BY <1>2 DEF IInv, Rings
<1>4. p \in Procs /\ i \in Descs /\ i \notin device.work
  BY <1>2, <1>3 DEF IInv, Types, OnDisk, Rings
<1>5. /\ device'.seen = (s + 1) % NUM /\ device'.work = device.work \cup {i}
      /\ device' = [seen |-> device'.seen, work |-> device'.work, late |-> device'.late]
  BY DEF Fetch, IInv, Types
<1>6. /\ avail'.ring = [avail.ring EXCEPT ![s] = NoSlot] /\ avail'.idx = avail.idx
      /\ avail' = [ring |-> avail'.ring, idx |-> avail'.idx]
  BY DEF Fetch, IInv, Types
<1>7. UNCHANGED <<free, desc, info, used, used_idx, disk, pc, head, intr, irq, panicked>>
  BY DEF Fetch
<1> HIDE DEF i, s
<1>8. Types'
  <2>1. avail'.ring \in [Descs -> Descs \cup {NoSlot}]
    BY ZenonT(30), <1>6 DEF IInv, Types
  <2>2. device'.seen \in Descs /\ device'.work \in SUBSET Descs
    BY <1>1, <1>4, <1>5, Following DEF IInv, Types
  <2> QED BY <1>5, <1>6, <1>7, <2>1, <2>2 DEF IInv, Types
<1>9. Callers' /\ Shares' /\ OnDisk' = OnDisk
  BY <1>7 DEF IInv, Callers, Shares, Request, Waiting, OnDisk
<1>10. /\ AvailSlots' = AvailSlots \ {s}
       /\ Used(device.seen, avail.idx)' = Used(device.seen, avail.idx) - 1
  BY <1>1, <1>5, <1>6, SlotEmptied DEF AvailSlots, Slots, Used, s
<1>11. UsedSlots' = UsedSlots /\ Used(used_idx, used.idx)' = Used(used_idx, used.idx)
  BY <1>7 DEF UsedSlots, Slots, Used
<1>12. Cardinality(device'.work) = Cardinality(device.work) + 1
  BY <1>4, <1>5, Sizes, FS_AddElement DEF IInv
<1>13. \A k \in AvailSlots' : k # s /\ k \in AvailSlots /\ avail'.ring[k] = avail.ring[k]
  BY <1>2, <1>6, <1>10 DEF IInv, Types
<1>14. i = avail.ring[s]
  BY DEF i
<1>15. Rings'
  <2>1. used' = used /\ head' = head
    BY <1>7
  <2>2. /\ \A k \in AvailSlots' : avail'.ring[k] # i
        /\ \A k \in UsedSlots : used.elems[k] # i
    BY <1>2, <1>13, <1>14 DEF IInv, Rings
  <2>3. /\ \A k \in AvailSlots' : \E q \in OnDisk' : avail'.ring[k] = head'[q]
        /\ \A k \in UsedSlots' : \E q \in OnDisk' : used'.elems[k] = head'[q]
    BY <1>9, <1>11, <1>13, <2>1 DEF IInv, Rings
  <2>4. \A j \in device'.work : \E q \in OnDisk' : j = head'[q]
    BY <1>3, <1>5, <1>9, <2>1 DEF IInv, Rings
  <2>5. ASSUME NEW q \in OnDisk'
        PROVE  \/ \E k \in AvailSlots' : avail'.ring[k] = head'[q]
               \/ head'[q] \in device'.work
               \/ \E k \in UsedSlots' : used'.elems[k] = head'[q]
    <3>1. q \in OnDisk
      BY <1>9
    <3>2. ASSUME NEW k \in AvailSlots, avail.ring[k] = head[q]
          PROVE  (\E l \in AvailSlots' : avail'.ring[l] = head'[q]) \/ head'[q] \in device'.work
      <4>1. CASE k = s
        BY <1>5, <1>14, <2>1, <3>2, <4>1
      <4>2. CASE k # s
        BY <1>10, <1>13, <2>1, <3>2, <4>2
      <4> QED BY <4>1, <4>2
    <3>3. CASE head[q] \in device.work
      BY <1>5, <2>1, <3>3
    <3>4. CASE \E k \in UsedSlots : used.elems[k] = head[q]
      BY <1>11, <2>1, <3>4
    <3> QED BY <3>1, <3>2, <3>3, <3>4 DEF IInv, Rings
  <2>6. \A k \in AvailSlots' :
          /\ avail'.ring[k] \notin device'.work
          /\ \A l \in AvailSlots' : avail'.ring[k] = avail'.ring[l] => k = l
          /\ \A l \in UsedSlots' : avail'.ring[k] # used'.elems[l]
    BY <1>5, <1>11, <1>13, <2>1, <2>2 DEF IInv, Rings
  <2>7. \A k \in UsedSlots' :
          /\ used'.elems[k] \notin device'.work
          /\ \A l \in UsedSlots' : used'.elems[k] = used'.elems[l] => k = l
    BY <1>5, <1>11, <2>1, <2>2 DEF IInv, Rings
  <2>8. Used(device.seen, avail.idx)' + Cardinality(device'.work) + Used(used_idx, used.idx)' = Cardinality(OnDisk')
    BY <1>9, <1>10, <1>11, <1>12, Sizes, RingsHaveRoom DEF IInv, Rings
  <2> QED BY <2>3, <2>4, <2>5, <2>6, <2>7, <2>8 DEF Rings
<1> QED BY <1>8, <1>9, <1>15 DEF IInv

\* The device completes a request, any of those it works on.
LEMMA CompleteIInv == ASSUME IInv, NEW i \in Descs, Complete(i) PROVE IInv'
<1> DEFINE u == used.idx
<1>1. i \in device.work /\ u \in Descs /\ used_idx \in Descs
  BY DEF Complete, IInv, Types
<1>2. PICK p \in OnDisk : i = head[p]
  BY <1>1 DEF IInv, Rings
<1>3. /\ device'.seen = device.seen /\ device'.work = device.work \ {i}
      /\ device' = [seen |-> device'.seen, work |-> device'.work, late |-> device'.late]
  <2> DEFINE late == device.late \/ intr = "ack"
  <2>1. device' = [device EXCEPT !.work = device.work \ {i}, !.late = late]
    BY DEF Complete
  <2>2. device = [seen |-> device.seen, work |-> device.work, late |-> device.late]
    BY DEF IInv, Types
  <2> HIDE DEF late
  <2> QED BY <2>1, <2>2
<1>4. /\ used'.elems = [used.elems EXCEPT ![u] = i] /\ used'.idx = (u + 1) % NUM
      /\ used' = [elems |-> used'.elems, idx |-> used'.idx]
  BY DEF Complete
<1>5. UNCHANGED <<free, desc, info, avail, used_idx, disk, pc, head, panicked>>
  BY DEF Complete, driver
<1> HIDE DEF u
<1>6. Types'
  <2>1. used'.elems \in [Descs -> Descs \cup {NoSlot}]
    BY <1>4 DEF IInv, Types
  <2>2. used'.idx \in Descs /\ device'.work \in SUBSET Descs
    BY <1>1, <1>3, <1>4, Following DEF IInv, Types
  <2> QED BY <1>3, <1>4, <1>5, <2>1, <2>2 DEF IInv, Types
<1>7. Callers' /\ Shares' /\ OnDisk' = OnDisk
  BY <1>5 DEF IInv, Callers, Shares, Request, Waiting, OnDisk
<1>8. Cardinality(device'.work) = Cardinality(device.work) - 1 /\ Cardinality(device.work) # 0
  <2>1. IsFiniteSet(device.work) /\ Cardinality(device.work) \in Nat
    BY Sizes DEF IInv
  <2>2. Cardinality(device.work \ {i}) = Cardinality(device.work) - 1
    BY <1>1, <2>1, FS_RemoveElement
  <2>3. Cardinality(device.work) # 0
    BY <1>1, <2>1, FS_EmptySet
  <2> QED BY <1>3, <2>2, <2>3
<1>9. /\ UsedSlots' = UsedSlots \cup {u} /\ u \notin UsedSlots /\ UsedSlots \in SUBSET Descs
      /\ Used(used_idx, used.idx)' = Used(used_idx, used.idx) + 1
  <2>1. Used(used_idx, used.idx) + 1 < NUM
    BY <1>8, Sizes, RingsHaveRoom, VirtioAssumption DEF VirtioAssumption, IInv
  <2> QED BY <1>1, <1>4, <1>5, <2>1, SlotFilled DEF UsedSlots, Slots, Used, u
<1>10. AvailSlots' = AvailSlots /\ Used(device.seen, avail.idx)' = Used(device.seen, avail.idx)
  BY <1>3, <1>5 DEF AvailSlots, Slots, Used
<1>11. used'.elems[u] = i /\ \A k \in UsedSlots : k # u /\ used'.elems[k] = used.elems[k]
  BY <1>1, <1>4, <1>9 DEF IInv, Types
<1>12. Rings'
  <2>1. avail' = avail /\ head' = head
    BY <1>5
  <2>2. /\ \A k \in AvailSlots : avail.ring[k] # i
        /\ \A k \in UsedSlots : used.elems[k] # i
    BY <1>1 DEF IInv, Rings
  <2>3. /\ \A k \in AvailSlots' : \E q \in OnDisk' : avail'.ring[k] = head'[q]
        /\ \A j \in device'.work : \E q \in OnDisk' : j = head'[q]
    BY <1>3, <1>7, <1>10, <2>1 DEF IInv, Rings
  <2>4. \A k \in UsedSlots' : \E q \in OnDisk' : used'.elems[k] = head'[q]
    BY <1>2, <1>7, <1>9, <1>11, <2>1 DEF IInv, Rings
  <2>5. ASSUME NEW q \in OnDisk'
        PROVE  \/ \E k \in AvailSlots' : avail'.ring[k] = head'[q]
               \/ head'[q] \in device'.work
               \/ \E k \in UsedSlots' : used'.elems[k] = head'[q]
    <3>1. q \in OnDisk
      BY <1>7
    <3>2. CASE head[q] \in device.work
      <4>1. CASE head[q] = i
        BY <1>9, <1>11, <2>1, <4>1
      <4>2. CASE head[q] # i
        BY <1>3, <2>1, <3>2, <4>2
      <4> QED BY <4>1, <4>2
    <3>3. CASE \E k \in AvailSlots : avail.ring[k] = head[q]
      BY <1>10, <2>1, <3>3
    <3>4. CASE \E k \in UsedSlots : used.elems[k] = head[q]
      BY <1>9, <1>11, <2>1, <3>4
    <3> QED BY <3>1, <3>2, <3>3, <3>4 DEF IInv, Rings
  <2>6. \A k \in AvailSlots' :
          /\ avail'.ring[k] \notin device'.work
          /\ \A l \in AvailSlots' : avail'.ring[k] = avail'.ring[l] => k = l
          /\ \A l \in UsedSlots' : avail'.ring[k] # used'.elems[l]
    BY <1>3, <1>9, <1>10, <1>11, <2>1, <2>2 DEF IInv, Rings
  <2>7. \A k \in UsedSlots' :
          /\ used'.elems[k] \notin device'.work
          /\ \A l \in UsedSlots' : used'.elems[k] = used'.elems[l] => k = l
    BY <1>3, <1>9, <1>11, <2>2 DEF IInv, Rings
  <2>8. Used(device.seen, avail.idx)' + Cardinality(device'.work) + Used(used_idx, used.idx)' = Cardinality(OnDisk')
    BY <1>7, <1>8, <1>9, <1>10, Sizes, RingsHaveRoom DEF IInv, Rings
  <2> QED BY <2>3, <2>4, <2>5, <2>6, <2>7, <2>8 DEF Rings
<1> QED BY <1>6, <1>7, <1>12 DEF IInv

LEMMA StepIInv == IInv /\ [Next]_vars => IInv'
<1> SUFFICES ASSUME IInv, [Next]_vars PROVE IInv'
  OBVIOUS
<1>1. CASE Handler
  BY <1>1, IntrQuietIInv, IntrOneIInv DEF Handler
<1>2. CASE Fetch
  BY <1>2, FetchIInv
<1>3. ASSUME NEW i \in Descs, Complete(i) PROVE IInv'
  BY <1>3, CompleteIInv
<1>4. ASSUME NEW p \in Procs, GoOn(p) \/ Call(p) PROVE IInv'
  BY <1>4, FullIInv, SubmitIInv, FinishIInv DEF GoOn, Call
<1>5. CASE UNCHANGED vars
  <2>1. device' = [seen |-> device.seen, work |-> device.work, late |-> device'.late]
    BY <1>5 DEF vars, IInv, Types
  <2> QED BY <1>5, <2>1, SameIInv DEF vars
<1> QED BY <1>1, <1>2, <1>3, <1>4, <1>5 DEF Next

-----------------------------------------------------------------------------
(* The theorem.                                                            *)

\* A request that is the device's is at one place, another at none.
LEMMA OnePlace ==
  ASSUME IInv, NEW p \in Waiting
  PROVE  Cardinality(Places(p)) = IF disk[p] THEN 1 ELSE 0
<1> DEFINE A == {<<"avail", k>> : k \in {k \in AvailSlots : avail.ring[k] = head[p]}}
           D == {<<"device", i>> : i \in device.work \cap {head[p]}}
           U == {<<"used", k>> : k \in {k \in UsedSlots : used.elems[k] = head[p]}}
<1>1. Places(p) = (A \cup D) \cup U
  BY DEF Places, AvailSlots, UsedSlots
<1>2. CASE ~disk[p]
  <2>1. \A q \in OnDisk : head[q] # head[p]
    BY <1>2, HeadsDiffer, Sizes DEF IInv, OnDisk
  <2>2. A = {} /\ D = {} /\ U = {}
    BY <2>1 DEF IInv, Rings
  <2>3. Places(p) = {}
    BY <1>1, <2>2
  <2> QED BY <1>2, <2>3, FS_EmptySet
<1>3. CASE disk[p]
  <2>1. p \in OnDisk
    BY <1>3 DEF OnDisk, Waiting
  <2>2. \E x : Places(p) = {x}
    <3>1. ASSUME NEW k \in AvailSlots, avail.ring[k] = head[p] PROVE Places(p) = {<<"avail", k>>}
      <4>1. A = {<<"avail", k>>}
        BY <3>1 DEF IInv, Rings
      <4>2. D = {} /\ U = {}
        BY <3>1 DEF IInv, Rings
      <4> QED BY <1>1, <4>1, <4>2
    <3>2. ASSUME head[p] \in device.work PROVE Places(p) = {<<"device", head[p]>>}
      <4>1. D = {<<"device", head[p]>>}
        BY <3>2
      <4>2. A = {} /\ U = {}
        BY <3>2 DEF IInv, Rings
      <4> QED BY <1>1, <4>1, <4>2
    <3>3. ASSUME NEW k \in UsedSlots, used.elems[k] = head[p] PROVE Places(p) = {<<"used", k>>}
      <4>1. U = {<<"used", k>>}
        BY <3>3 DEF IInv, Rings
      <4>2. A = {} /\ D = {}
        BY <3>3 DEF IInv, Rings
      <4> QED BY <1>1, <4>1, <4>2
    <3> QED BY <2>1, <3>1, <3>2, <3>3 DEF IInv, Rings
  <2> QED BY <1>3, <2>2, FS_Singleton
<1> QED BY <1>2, <1>3

LEMMA IInvIsSound == IInv => RingsSound
<1> SUFFICES ASSUME IInv PROVE RingsSound
  OBVIOUS
<1>1. ASSUME NEW p \in Waiting
      PROVE  /\ Cardinality(Chain(head[p])) = 3 /\ info[head[p]] = p
             /\ \A i \in Chain(head[p]) : desc[i].owner = p
             /\ Chain(head[p]) \cap free = {}
  <2>1. p \in Procs /\ Request(p)
    BY DEF IInv, Shares, Waiting
  <2> QED BY <2>1, ChainOfRequest DEF IInv, Request
<1>2. free \cap UNION {Chain(head[p]) : p \in Waiting} = {}
  BY <1>1
<1> QED BY <1>1, <1>2, OnePlace DEF IInv, Types, Callers, Shares, RingsSound

\* For every number of descriptors and of callers, in whatever order the device completes
\* requests and whenever it interrupts: no descriptor is lost or used twice, the rings never
\* overflow, no request is lost or completed twice, and virtio_disk_intr() never finds a
\* null buffer.
THEOREM RingsStaySound == Spec => []RingsSound
<1>1. IInv => RingsSound
  BY IInvIsSound
<1> QED BY <1>1, InitIInv, StepIInv, PTL DEF Spec
=============================================================================
