----------------------------- MODULE SlabProofs -----------------------------
(***************************************************************************)
(* The slab allocator never hands memory out twice and gives pages back,   *)
(* for any set of pages, any number of objects per slab and any threshold. *)
(***************************************************************************)
EXTENDS Slab, FiniteSetTheorems, TLAPS

(* The number of objects of slab s among the objects h.                    *)
Occ(h, s) == Cardinality(h \cap SlabObjs(s))

(* The slab objects of a page: which they are, and that there are          *)
(* MaxObjects of them.                                                     *)
LEMMA SlabObjsFacts ==
  ASSUME NEW s \in Pages
  PROVE  /\ SlabObjs(s) \subseteq Objects
         /\ \A o \in SlabObjs(s) : PageOf(o) = s
         /\ SlabObjs(s) # {}
         /\ IsFiniteSet(SlabObjs(s))
         /\ Cardinality(SlabObjs(s)) = MaxObjects
<1>1. SlabObjs(s) \subseteq Objects /\ \A o \in SlabObjs(s) : PageOf(o) = s
  BY MaxObjectsAssumption, InCacheObjAssumption DEF SlabObjs, Objects, PageOf
<1>2. SlabObjs(s) # {}
  <2>1. 1 \in 1..MaxObjects
    BY MaxObjectsAssumption
  <2>2. <<s, 1>> \in SlabObjs(s)
    BY <2>1 DEF SlabObjs
  <2> QED BY <2>2
<1> DEFINE f == [i \in 1..MaxObjects |-> <<s, i>>]
<1>3. f \in Surjection(1..MaxObjects, SlabObjs(s))
  BY DEF SlabObjs, Surjection
<1>4. f \in Injection(1..MaxObjects, SlabObjs(s))
  BY DEF SlabObjs, Injection, IsInjective
<1>5. IsFiniteSet(1..MaxObjects) /\ Cardinality(1..MaxObjects) = MaxObjects
  BY FS_Interval, MaxObjectsAssumption
<1> HIDE DEF f
<1>6. IsFiniteSet(SlabObjs(s)) /\ Cardinality(SlabObjs(s)) = MaxObjects
  BY <1>3, <1>4, <1>5, FS_Surjection
<1> QED BY <1>1, <1>2, <1>6

(* The in-cache objects of the cache page.                                 *)
LEMMA CacheObjsFacts ==
  ASSUME NEW c \in Pages
  PROVE  CacheObjs(c) \subseteq Objects /\ \A o \in CacheObjs(c) : PageOf(o) = c
BY MaxObjectsAssumption, InCacheObjAssumption DEF CacheObjs, Objects, PageOf

(* The occupancy of a slab is a number between 0 and MaxObjects.           *)
LEMMA OccType ==
  ASSUME NEW h, NEW s \in Pages
  PROVE  /\ IsFiniteSet(h \cap SlabObjs(s))
         /\ Occ(h, s) \in 0..MaxObjects
         /\ Occ(h, s) = 0 <=> h \cap SlabObjs(s) = {}
<1>1. IsFiniteSet(SlabObjs(s)) /\ Cardinality(SlabObjs(s)) = MaxObjects
  BY SlabObjsFacts
<1>2. /\ IsFiniteSet(h \cap SlabObjs(s))
      /\ Cardinality(h \cap SlabObjs(s)) <= MaxObjects
  BY <1>1, FS_Subset
<1>3. Cardinality(h \cap SlabObjs(s)) \in Nat
  BY <1>2, FS_CardinalityType
<1>4. Cardinality(h \cap SlabObjs(s)) = 0 <=> h \cap SlabObjs(s) = {}
  BY <1>2, FS_EmptySet
<1> QED BY <1>2, <1>3, <1>4, MaxObjectsAssumption DEF Occ

(* Handing out an object adds one to the occupancy of its slab and changes *)
(* no other.                                                               *)
LEMMA OccAdd ==
  ASSUME NEW h, NEW s \in Pages, NEW o \in SlabObjs(s), o \notin h
  PROVE  /\ Occ(h \cup {o}, s) = Occ(h, s) + 1
         /\ \A t \in Pages \ {s} : Occ(h \cup {o}, t) = Occ(h, t)
<1>1. IsFiniteSet(h \cap SlabObjs(s))
  BY OccType
<1>2. (h \cup {o}) \cap SlabObjs(s) = (h \cap SlabObjs(s)) \cup {o}
  OBVIOUS
<1>3. Occ(h \cup {o}, s) = Occ(h, s) + 1
  BY <1>1, <1>2, FS_AddElement DEF Occ
<1>4. ASSUME NEW t \in Pages \ {s}
      PROVE  Occ(h \cup {o}, t) = Occ(h, t)
  <2>1. o \notin SlabObjs(t)
    BY SlabObjsFacts
  <2>2. (h \cup {o}) \cap SlabObjs(t) = h \cap SlabObjs(t)
    BY <2>1
  <2> QED BY <2>2 DEF Occ
<1> QED BY <1>3, <1>4

(* Taking an object back subtracts one, and changes no other slab.         *)
LEMMA OccRemove ==
  ASSUME NEW h, NEW s \in Pages, NEW o \in SlabObjs(s), o \in h
  PROVE  /\ Occ(h \ {o}, s) = Occ(h, s) - 1
         /\ Occ(h, s) > 0
         /\ \A t \in Pages \ {s} : Occ(h \ {o}, t) = Occ(h, t)
<1>1. IsFiniteSet(h \cap SlabObjs(s)) /\ Occ(h, s) \in 0..MaxObjects
  BY OccType
<1>2. (h \ {o}) \cap SlabObjs(s) = (h \cap SlabObjs(s)) \ {o}
  OBVIOUS
<1>3. Occ(h \ {o}, s) = Occ(h, s) - 1
  BY <1>1, <1>2, FS_RemoveElement DEF Occ
<1>4. Occ(h, s) > 0
  <2>1. h \cap SlabObjs(s) # {}
    OBVIOUS
  <2>2. Occ(h, s) # 0
    BY <2>1, OccType
  <2> QED BY <2>2, <1>1, MaxObjectsAssumption
<1>5. ASSUME NEW t \in Pages \ {s}
      PROVE  Occ(h \ {o}, t) = Occ(h, t)
  <2>1. o \notin SlabObjs(t)
    BY SlabObjsFacts
  <2>2. (h \ {o}) \cap SlabObjs(t) = h \cap SlabObjs(t)
    BY <2>1
  <2> QED BY <2>2 DEF Occ
<1> QED BY <1>3, <1>4, <1>5

(* An object of another page (an in-cache one) does not count.             *)
LEMMA OccElsewhere ==
  ASSUME NEW h, NEW o, NEW s \in Pages, PageOf(o) # s
  PROVE  Occ(h \cup {o}, s) = Occ(h, s) /\ Occ(h \ {o}, s) = Occ(h, s)
<1>1. o \notin SlabObjs(s)
  BY SlabObjsFacts
<1>2. (h \cup {o}) \cap SlabObjs(s) = h \cap SlabObjs(s)
  BY <1>1
<1>3. (h \ {o}) \cap SlabObjs(s) = h \cap SlabObjs(s)
  BY <1>1
<1> QED BY <1>2, <1>3 DEF Occ

-----------------------------------------------------------------------------
(* The inductive invariant: each part is needed to keep another one.  The  *)
(* lists decide which slab an allocation takes from, the counters when a   *)
(* page is given back, the partition that its page is nobody else's.       *)
IInv == TypeOK /\ PagesPartitioned /\ NoDoubleAllocation /\ ListsMatchOccupancy

(* No cache, no object: the initial state satisfies the invariant.         *)
LEMMA InitIInv == Init => IInv
<1> SUFFICES ASSUME Init PROVE IInv
  OBVIOUS
<1>1. TypeOK /\ PagesPartitioned /\ NoDoubleAllocation
  BY MaxObjectsAssumption
  DEF Init, TypeOK, PagesPartitioned, NoDoubleAllocation, Slabs, Objects
<1>2. ListsMatchOccupancy
  <2>1. ASSUME NEW s \in Pages PROVE Cardinality({} \cap SlabObjs(s)) = 0
    <3>1. {} \cap SlabObjs(s) = {}
      OBVIOUS
    <3> QED BY <3>1, FS_EmptySet
  <2> QED BY <2>1 DEF Init, ListsMatchOccupancy
<1> QED BY <1>1, <1>2 DEF IInv

(* Under the invariant the counters are the occupancies.                   *)
LEMMA InUseIsOcc ==
  ASSUME IInv, NEW s \in Pages, s \notin cache
  PROVE  /\ inUse[s] = Occ(held, s)
         /\ s \notin Slabs => inUse[s] = 0
<1>1. inUse[s] = Occ(held, s)
  BY DEF IInv, ListsMatchOccupancy, Occ
<1>2. ASSUME s \notin Slabs PROVE Occ(held, s) = 0
  <2>1. held \cap SlabObjs(s) = {}
    BY <1>2, SlabObjsFacts DEF IInv, NoDoubleAllocation
  <2> QED BY <2>1, OccType
<1> QED BY <1>1, <1>2

(* Page traffic of the rest of the kernel.                                 *)
LEMMA KernelStep ==
  ASSUME IInv, NEW p \in Pages, Kalloc(p) \/ Kfree(p)
  PROVE  IInv'
<1>1. UNCHANGED <<cache, cacheFreelist, freelist, inUse, partial, full, free,
                  totalSlabs, held>>
  BY DEF Kalloc, Kfree, slabVars, listVars
<1>2. TypeOK'
  BY <1>1 DEF IInv, TypeOK, Kalloc, Kfree
<1>3. PagesPartitioned'
  BY <1>1 DEF IInv, PagesPartitioned, Slabs, Kalloc, Kfree
<1>4. NoDoubleAllocation' /\ ListsMatchOccupancy'
  BY <1>1 DEF IInv, NoDoubleAllocation, ListsMatchOccupancy, Slabs
<1> QED BY <1>2, <1>3, <1>4 DEF IInv

(* kmem_cache_create.                                                      *)
LEMMA CreateStep ==
  ASSUME IInv, NEW c \in Pages, KmemCacheCreate(c)
  PROVE  IInv'
<1> USE DEF KmemCacheCreate, slabVars, listVars, Slabs
<1>1. TypeOK' /\ PagesPartitioned'
  BY CacheObjsFacts DEF IInv, TypeOK, PagesPartitioned
<1>2. held = {}
  BY DEF IInv, NoDoubleAllocation, PagesPartitioned, TypeOK
<1>3. NoDoubleAllocation'
  BY <1>2 DEF IInv, NoDoubleAllocation, PagesPartitioned
<1>4. ListsMatchOccupancy'
  BY DEF IInv, ListsMatchOccupancy, PagesPartitioned
<1> QED BY <1>1, <1>3, <1>4 DEF IInv

(* kmem_cache_destroy: with no object held every counter is 0.             *)
LEMMA DestroyStep ==
  ASSUME IInv, KmemCacheDestroy
  PROVE  IInv'
<1> USE DEF KmemCacheDestroy, Slabs
<1>1. TypeOK'
  BY MaxObjectsAssumption DEF IInv, TypeOK
<1>2. PagesPartitioned'
  BY DEF IInv, TypeOK, PagesPartitioned
<1>3. NoDoubleAllocation'
  BY DEF IInv, NoDoubleAllocation
<1>4. ListsMatchOccupancy'
  <2>1. ASSUME NEW s \in Pages PROVE Cardinality(held' \cap SlabObjs(s)) = 0
    <3>1. held' \cap SlabObjs(s) = {}
      OBVIOUS
    <3> QED BY <3>1, FS_EmptySet
  <2> QED BY <2>1 DEF ListsMatchOccupancy
<1> QED BY <1>1, <1>2, <1>3, <1>4 DEF IInv

(* The two steps on in-cache objects: their page is no slab, so that the   *)
(* occupancies do not change.                                              *)
LEMMA InCacheStep ==
  ASSUME IInv, NEW o, AllocInCache(o) \/ FreeInCache(o)
  PROVE  IInv'
<1>0. UNCHANGED <<kmem, others, cache, freelist, inUse, partial, full, free, totalSlabs>>
  BY DEF AllocInCache, FreeInCache, slabVars, listVars
<1>1. o \in Objects /\ PageOf(o) \in cache /\ o \in CacheObjs(PageOf(o))
  <2>1. CASE AllocInCache(o)
    <3>1. PICK c \in cache : o \in CacheObjs(c)
      BY <2>1 DEF AllocInCache, IInv, NoDoubleAllocation
    <3> QED BY <3>1, CacheObjsFacts DEF IInv, TypeOK
  <2>2. CASE FreeInCache(o)
    BY <2>2 DEF FreeInCache, IInv, TypeOK, NoDoubleAllocation, PagesPartitioned, Slabs
  <2> QED BY <2>1, <2>2
<1>2. \A s \in Slabs : o \notin SlabObjs(s)
  BY <1>1, SlabObjsFacts DEF IInv, TypeOK, PagesPartitioned, Slabs
<1>3. TypeOK' /\ PagesPartitioned'
  BY <1>0, <1>1 DEF IInv, TypeOK, PagesPartitioned, Slabs, AllocInCache, FreeInCache
<1>4. NoDoubleAllocation'
  BY <1>0, <1>1, <1>2
  DEF IInv, TypeOK, NoDoubleAllocation, Slabs, AllocInCache, FreeInCache
<1>5. ListsMatchOccupancy'
  <2>1. ASSUME NEW s \in Pages \ cache
        PROVE  Cardinality(held' \cap SlabObjs(s)) = Cardinality(held \cap SlabObjs(s))
    <3>1. PageOf(o) # s
      BY <1>1
    <3>2. held' = held \cup {o} \/ held' = held \ {o}
      BY DEF AllocInCache, FreeInCache
    <3>3. Occ(held', s) = Occ(held, s)
      BY <3>1, <3>2, OccElsewhere
    <3> QED BY <3>3 DEF Occ
  <2> QED BY <1>0, <2>1 DEF IInv, ListsMatchOccupancy
<1> QED BY <1>3, <1>4, <1>5 DEF IInv

(* The tail of an allocation from slab s, whatever list s was found on:    *)
(* its occupancy grows by one and stays within the slab.                   *)
LEMMA TakeFacts ==
  ASSUME IInv, NEW s \in Pages, s \notin cache,
         NEW o, TakeFrom(s, o, SlabObjs(s) \ held)
  PROVE  /\ o \in Objects /\ PageOf(o) = s /\ o \in SlabObjs(s) /\ o \notin held
         /\ inUse' \in [Pages -> 0..MaxObjects]
         /\ inUse'[s] > 0
         /\ \A t \in Pages \ cache : inUse'[t] = Cardinality(held' \cap SlabObjs(t))
<1>1. o \in SlabObjs(s) /\ o \notin held /\ PageOf(o) = s /\ o \in Objects
  BY SlabObjsFacts DEF TakeFrom
<1>2. inUse' = [inUse EXCEPT ![s] = @ + 1] /\ held' = held \cup {o}
  BY DEF TakeFrom
<1>3. \A t \in Pages \ cache : inUse'[t] = Occ(held', t)
  <2>1. Occ(held', s) = Occ(held, s) + 1
    BY <1>1, <1>2, OccAdd
  <2>2. \A t \in Pages \ {s} : Occ(held', t) = Occ(held, t)
    BY <1>1, <1>2, OccAdd
  <2>3. \A t \in Pages \ cache : inUse[t] = Occ(held, t)
    BY InUseIsOcc
  <2> QED BY <1>2, <2>1, <2>2, <2>3 DEF IInv, TypeOK
<1>4. Occ(held', s) \in 0..MaxObjects /\ inUse[s] \in 0..MaxObjects
  BY OccType DEF IInv, TypeOK
<1>5. inUse' \in [Pages -> 0..MaxObjects] /\ inUse'[s] > 0
  BY <1>2, <1>3, <1>4, MaxObjectsAssumption DEF IInv, TypeOK
<1> QED BY <1>1, <1>3, <1>5 DEF Occ

(* An allocation from a slab: found on the partial list, found on the free *)
(* list, or made of a page of kmem.                                        *)
LEMMA AllocFromSlabStep ==
  ASSUME IInv, NEW s \in Pages, NEW o,
         AllocFromPartial(s, o) \/ AllocFromFree(s, o) \/ AllocFromNewSlab(s, o)
  PROVE  IInv'
<1>1. s \notin cache /\ s \notin full /\ s \notin others
  BY DEF AllocFromPartial, AllocFromFree, AllocFromNewSlab, IInv, PagesPartitioned, Slabs
<1>2. held \cap SlabObjs(s) = {} \/ s \in Slabs
  BY <1>1, SlabObjsFacts DEF IInv, NoDoubleAllocation
<1>3. TakeFrom(s, o, SlabObjs(s) \ held)
  <2>1. CASE s \in Slabs
    BY <2>1 DEF AllocFromPartial, AllocFromFree, AllocFromNewSlab, IInv,
                NoDoubleAllocation, PagesPartitioned, Slabs
  <2>2. CASE s \notin Slabs
    <3>1. SlabObjs(s) \ held = SlabObjs(s)
      BY <2>2, <1>2
    <3> QED BY <3>1, <2>2 DEF AllocFromPartial, AllocFromFree, AllocFromNewSlab, Slabs
  <2> QED BY <2>1, <2>2
<1> DEFINE fl == SlabObjs(s) \ held
<1>4. /\ o \in Objects /\ PageOf(o) = s /\ o \in SlabObjs(s) /\ o \notin held
      /\ inUse' \in [Pages -> 0..MaxObjects] /\ inUse'[s] > 0
      /\ \A t \in Pages \ cache : inUse'[t] = Cardinality(held' \cap SlabObjs(t))
  BY <1>1, <1>3, TakeFacts
<1>5. /\ freelist' = [freelist EXCEPT ![s] = fl \ {o}]
      /\ held' = held \cup {o}
      /\ partial' = IF fl = {o} THEN partial \ {s} ELSE partial \cup {s}
      /\ full' = IF fl = {o} THEN full \cup {s} ELSE full
      /\ UNCHANGED <<others, cache, cacheFreelist>>
      /\ o \in fl /\ fl \subseteq Objects
  BY <1>3, SlabObjsFacts DEF TakeFrom
<1>6. /\ kmem' = kmem \ {s} /\ free' = free \ {s}
      /\ totalSlabs' \in Int
      /\ s \in partial \cup free \cup kmem
      /\ cache # {} /\ cacheFreelist = {}
  BY DEF AllocFromPartial, AllocFromFree, AllocFromNewSlab, IInv, TypeOK,
         PagesPartitioned, Slabs
<1> HIDE DEF fl
<1>7. Slabs' = Slabs \cup {s}
  BY <1>5, <1>6 DEF Slabs
<1>8. TypeOK'
  BY <1>4, <1>5, <1>6 DEF IInv, TypeOK
<1>9. PagesPartitioned'
  BY <1>1, <1>5, <1>6 DEF IInv, TypeOK, PagesPartitioned, Slabs
<1>10. NoDoubleAllocation'
  <2>1. ASSUME NEW t \in Pages
        PROVE  freelist'[t] = IF t \in Slabs' THEN SlabObjs(t) \ held' ELSE {}
    <3>1. CASE t = s
      BY <3>1, <1>5, <1>7 DEF IInv, TypeOK, fl
    <3>2. CASE t # s
      <4>1. o \notin SlabObjs(t)
        BY <3>2, <1>4, SlabObjsFacts
      <4> QED BY <4>1, <3>2, <1>5, <1>7 DEF IInv, TypeOK, NoDoubleAllocation
    <3> QED BY <3>1, <3>2
  <2>2. \A c \in cache : o \notin CacheObjs(c)
    BY <1>1, <1>4, CacheObjsFacts DEF IInv, TypeOK
  <2>3. /\ cache' = {} => cacheFreelist' = {}
        /\ \A c \in cache' : cacheFreelist' = CacheObjs(c) \ held'
    BY <2>2, <1>5, <1>6 DEF IInv, NoDoubleAllocation
  <2>4. \A x \in held' : \/ PageOf(x) \in Slabs' /\ x \in SlabObjs(PageOf(x))
                         \/ PageOf(x) \in cache' /\ x \in CacheObjs(PageOf(x))
    BY <1>4, <1>5, <1>7 DEF IInv, NoDoubleAllocation
  <2> QED BY <2>1, <2>3, <2>4 DEF NoDoubleAllocation
<1>11. ListsMatchOccupancy'
  <2>1. \A t \in Pages : t # s => inUse'[t] = inUse[t] /\ freelist'[t] = freelist[t]
    BY <1>3, <1>5 DEF TakeFrom, IInv, TypeOK
  <2>2. freelist'[s] = fl \ {o}
    BY <1>5 DEF IInv, TypeOK
  <2>3. \A t \in full' : freelist'[t] = {}
    BY <1>1, <1>5, <2>1, <2>2 DEF IInv, TypeOK, ListsMatchOccupancy
  <2>4. \A t \in partial' : freelist'[t] # {} /\ inUse'[t] > 0
    <3>1. s \in partial' => fl \ {o} # {}
      BY <1>5
    <3>2. \A t \in partial' : t # s => t \in partial
      BY <1>5
    <3> QED BY <1>4, <2>1, <2>2, <3>1, <3>2 DEF IInv, TypeOK, ListsMatchOccupancy
  <2>5. \A t \in free' : inUse'[t] = 0
    BY <1>6, <2>1 DEF IInv, TypeOK, ListsMatchOccupancy
  <2> QED BY <1>4, <1>5, <2>3, <2>4, <2>5 DEF ListsMatchOccupancy
<1> QED BY <1>8, <1>9, <1>10, <1>11 DEF IInv

(* A free to a slab: o leaves the callers, and its slab has one object     *)
(* less in use.                                                            *)
LEMMA FreeFacts ==
  ASSUME IInv, NEW o \in held, PageOf(o) \notin cache
  PROVE  /\ PageOf(o) \in partial \cup full /\ PageOf(o) \in Pages
         /\ o \in SlabObjs(PageOf(o)) /\ o \in Objects
         /\ Occ(held \ {o}, PageOf(o)) = inUse[PageOf(o)] - 1
         /\ inUse[PageOf(o)] \in 1..MaxObjects
         /\ \A t \in Pages \ {PageOf(o)} : Occ(held \ {o}, t) = Occ(held, t)
<1>1. PageOf(o) \in Slabs /\ PageOf(o) \in Pages /\ o \in SlabObjs(PageOf(o)) /\ o \in Objects
  BY DEF IInv, NoDoubleAllocation, TypeOK, Slabs
<1>2. /\ Occ(held \ {o}, PageOf(o)) = Occ(held, PageOf(o)) - 1
      /\ Occ(held, PageOf(o)) > 0
      /\ \A t \in Pages \ {PageOf(o)} : Occ(held \ {o}, t) = Occ(held, t)
  BY <1>1, OccRemove
<1>3. inUse[PageOf(o)] = Occ(held, PageOf(o))
  BY <1>1, InUseIsOcc
<1>4. Occ(held, PageOf(o)) \in 0..MaxObjects
  BY <1>1, OccType
<1>5. PageOf(o) \notin free
  BY <1>2, <1>3 DEF IInv, ListsMatchOccupancy
<1> QED BY <1>1, <1>2, <1>3, <1>4, <1>5, MaxObjectsAssumption DEF Slabs

(* What kmem_cache_free compares with the threshold is a number.           *)
LEMMA AvailableType ==
  ASSUME IInv
  PROVE  AvailableSlabs \in Nat /\ MinAvail \in Nat
<1>1. IsFiniteSet(partial) /\ IsFiniteSet(free)
  BY PagesAssumption, FS_Subset DEF IInv, TypeOK
<1>2. Cardinality(partial) \in Nat /\ Cardinality(free) \in Nat
  BY <1>1, FS_CardinalityType
<1> QED BY <1>2, MinAvailAssumption DEF AvailableSlabs

(* The three ways a free to a slab ends.                                   *)
LEMMA FreeToSlabStep ==
  ASSUME IInv, NEW o, FreeInUseSlab(o) \/ KeepEmptySlab(o) \/ ReleaseEmptySlab(o)
  PROVE  IInv'
<1> DEFINE s == PageOf(o)
<1>1. o \in held /\ s \notin cache
  BY DEF FreeInUseSlab, KeepEmptySlab, ReleaseEmptySlab
<1>2. /\ s \in partial \cup full /\ s \in Pages
      /\ o \in SlabObjs(s) /\ o \in Objects
      /\ Occ(held \ {o}, s) = inUse[s] - 1
      /\ inUse[s] \in 1..MaxObjects
      /\ \A t \in Pages \ {s} : Occ(held \ {o}, t) = Occ(held, t)
  BY <1>1, FreeFacts
<1>3. /\ held' = held \ {o}
      /\ UNCHANGED <<others, cache, cacheFreelist>>
      /\ inUse' = [inUse EXCEPT ![s] = inUse[s] - 1]
  BY <1>2 DEF FreeInUseSlab, KeepEmptySlab, ReleaseEmptySlab, PutBack, IsLast, IInv, TypeOK
<1>4. \A t \in Pages \ cache : inUse'[t] = Cardinality(held' \cap SlabObjs(t))
  <2>1. \A t \in Pages \ cache : inUse[t] = Occ(held, t)
    BY InUseIsOcc
  <2>2. \A t \in Pages \ cache : inUse'[t] = Occ(held', t)
    BY <1>2, <1>3, <2>1 DEF IInv, TypeOK
  <2> QED BY <2>2 DEF Occ
<1>5. inUse' \in [Pages -> 0..MaxObjects]
  BY <1>2, <1>3, MaxObjectsAssumption DEF IInv, TypeOK
<1>6. \A t \in Pages : t # s => o \notin SlabObjs(t)
  BY SlabObjsFacts
<1>7. \A c \in cache : o \notin CacheObjs(c)
  BY <1>1, CacheObjsFacts DEF IInv, TypeOK
<1>8. /\ freelist' \in [Pages -> SUBSET Objects]
      /\ \A t \in Pages : t # s => freelist'[t] = freelist[t]
      /\ freelist'[s] = IF ReleaseEmptySlab(o) THEN {} ELSE freelist[s] \cup {o}
  <2>1. CASE ReleaseEmptySlab(o)
    BY <2>1, <1>2 DEF ReleaseEmptySlab, IInv, TypeOK
  <2>2. CASE ~ReleaseEmptySlab(o)
    <3>1. freelist' = [freelist EXCEPT ![s] = @ \cup {o}]
      BY <2>2 DEF FreeInUseSlab, KeepEmptySlab, PutBack
    <3> QED BY <2>2, <3>1, <1>2 DEF IInv, TypeOK
  <2> QED BY <2>1, <2>2
<1>9. freelist[s] \cup {o} = SlabObjs(s) \ (held \ {o})
  BY <1>1, <1>2 DEF IInv, NoDoubleAllocation, Slabs
<1>10. cacheFreelist = {} \/ \A c \in cache : cacheFreelist = CacheObjs(c) \ (held \ {o})
  BY <1>7 DEF IInv, NoDoubleAllocation
<1>11. ASSUME Slabs' = IF ReleaseEmptySlab(o) THEN Slabs \ {s} ELSE Slabs,
              ReleaseEmptySlab(o) => \A x \in held' : PageOf(x) # s
       PROVE  NoDoubleAllocation'
  <2>1. \A t \in Pages : freelist'[t] = IF t \in Slabs' THEN SlabObjs(t) \ held' ELSE {}
    <3>1. ASSUME NEW t \in Pages, t # s
          PROVE  freelist'[t] = IF t \in Slabs' THEN SlabObjs(t) \ held' ELSE {}
      BY <3>1, <1>3, <1>6, <1>8, <1>11 DEF IInv, NoDoubleAllocation
    <3>2. freelist'[s] = IF s \in Slabs' THEN SlabObjs(s) \ held' ELSE {}
      BY <1>2, <1>3, <1>8, <1>9, <1>11 DEF Slabs
    <3> QED BY <3>1, <3>2
  <2>2. /\ cache' = {} => cacheFreelist' = {}
        /\ \A c \in cache' : cacheFreelist' = CacheObjs(c) \ held'
    BY <1>3, <1>7 DEF IInv, NoDoubleAllocation
  <2>3. \A x \in held' : \/ PageOf(x) \in Slabs' /\ x \in SlabObjs(PageOf(x))
                         \/ PageOf(x) \in cache' /\ x \in CacheObjs(PageOf(x))
    BY <1>3, <1>11 DEF IInv, NoDoubleAllocation
  <2> QED BY <2>1, <2>2, <2>3 DEF NoDoubleAllocation
<1>12. ASSUME inUse[s] = 1 PROVE \A x \in held' : PageOf(x) # s
  <2>1. Occ(held', s) = 0
    BY <1>2, <1>3, <1>12
  <2>2. held' \cap SlabObjs(s) = {}
    BY <2>1, <1>2, OccType
  <2> QED BY <2>2, <1>1, <1>3 DEF IInv, NoDoubleAllocation
<1>13. CASE FreeInUseSlab(o)
  <2>1. /\ kmem' = kmem /\ free' = free /\ totalSlabs' = totalSlabs
        /\ inUse[s] # 1 /\ FullToPartial(s)
    BY <1>13 DEF FreeInUseSlab, IsLast
  <2>2. ~ReleaseEmptySlab(o)
    BY <2>1 DEF ReleaseEmptySlab, IsLast
  <2>3. partial' = partial \cup {s} /\ full' = full \ {s}
    <3>1. CASE s \in full
      BY <3>1, <2>1 DEF FullToPartial, IInv, ListsMatchOccupancy
    <3>2. CASE s \notin full
      BY <3>2, <1>2, <2>1 DEF FullToPartial, IInv, ListsMatchOccupancy
    <3> QED BY <3>1, <3>2
  <2>4. TypeOK' /\ PagesPartitioned' /\ Slabs' = Slabs
    BY <1>2, <1>3, <1>5, <1>8, <2>1, <2>3
    DEF IInv, TypeOK, PagesPartitioned, Slabs
  <2>5. ListsMatchOccupancy'
    <3>1. inUse'[s] > 0 /\ freelist'[s] # {}
      BY <1>2, <1>3, <1>8, <2>1, <2>2 DEF IInv, TypeOK
    <3>2. \A t \in Pages : t # s => inUse'[t] = inUse[t]
      BY <1>3 DEF IInv, TypeOK
    <3>3. s \notin free
      BY <1>2 DEF IInv, PagesPartitioned
    <3> QED BY <1>2, <1>3, <1>4, <1>8, <2>1, <2>3, <3>1, <3>2, <3>3
            DEF IInv, TypeOK, ListsMatchOccupancy
  <2>6. NoDoubleAllocation'
    BY <1>11, <2>2, <2>4
  <2> QED BY <2>4, <2>5, <2>6 DEF IInv
<1>14. CASE KeepEmptySlab(o) \/ ReleaseEmptySlab(o)
  <2>1. inUse[s] = 1 /\ partial' = partial \ {s} /\ full' = full \ {s}
    BY <1>14 DEF KeepEmptySlab, ReleaseEmptySlab, IsLast, Unlink
  <2>2. \A t \in Pages : t # s => inUse'[t] = inUse[t]
    BY <1>3 DEF IInv, TypeOK
  <2>3. inUse'[s] = 0
    BY <1>2, <1>3, <2>1 DEF IInv, TypeOK
  <2>4. CASE KeepEmptySlab(o)
    <3>1. kmem' = kmem /\ free' = free \cup {s} /\ totalSlabs' = totalSlabs
      BY <2>4 DEF KeepEmptySlab
    <3>2. ~ReleaseEmptySlab(o)
      BY <2>4, AvailableType DEF KeepEmptySlab, ReleaseEmptySlab
    <3>3. TypeOK' /\ PagesPartitioned' /\ Slabs' = Slabs
      BY <1>2, <1>3, <1>5, <1>8, <2>1, <3>1 DEF IInv, TypeOK, PagesPartitioned, Slabs
    <3>4. ListsMatchOccupancy'
      BY <1>3, <1>4, <1>8, <2>1, <2>2, <2>3, <3>1 DEF IInv, TypeOK, ListsMatchOccupancy
    <3>5. NoDoubleAllocation'
      BY <1>11, <3>2, <3>3
    <3> QED BY <3>3, <3>4, <3>5 DEF IInv
  <2>5. CASE ReleaseEmptySlab(o)
    <3>1. kmem' = kmem \cup {s} /\ free' = free /\ totalSlabs' = totalSlabs - 1
      BY <2>5 DEF ReleaseEmptySlab
    <3>2. TypeOK' /\ PagesPartitioned' /\ Slabs' = Slabs \ {s}
      BY <1>2, <1>3, <1>5, <1>8, <2>1, <3>1 DEF IInv, TypeOK, PagesPartitioned, Slabs
    <3>3. ListsMatchOccupancy'
      BY <1>2, <1>3, <1>4, <1>8, <2>1, <2>2, <3>1
      DEF IInv, TypeOK, ListsMatchOccupancy, PagesPartitioned
    <3>4. NoDoubleAllocation'
      BY <1>11, <1>12, <2>1, <2>5, <3>2
    <3> QED BY <3>2, <3>3, <3>4 DEF IInv
  <2> QED BY <1>14, <2>4, <2>5
<1> QED BY <1>13, <1>14

-----------------------------------------------------------------------------
(* Every step keeps the invariant.                                         *)
LEMMA NextIInv ==
  ASSUME IInv, [Next]_vars
  PROVE  IInv'
<1>1. ASSUME NEW p \in Pages, Kalloc(p) \/ Kfree(p)
      PROVE  IInv'
  BY <1>1, KernelStep
<1>2. ASSUME NEW c \in Pages, KmemCacheCreate(c)
      PROVE  IInv'
  BY <1>2, CreateStep
<1>3. CASE Alloc
  <2>1. ASSUME NEW o, AllocInCache(o) PROVE IInv'
    BY <2>1, InCacheStep
  <2>2. ASSUME NEW s \in Pages, NEW o,
               AllocFromPartial(s, o) \/ AllocFromFree(s, o) \/ AllocFromNewSlab(s, o)
        PROVE  IInv'
    BY <2>2, AllocFromSlabStep
  <2>3. partial \subseteq Pages /\ free \subseteq Pages /\ kmem \subseteq Pages
    BY DEF IInv, TypeOK
  <2> QED BY <1>3, <2>1, <2>2, <2>3 DEF Alloc
<1>4. CASE Free
  <2>1. ASSUME NEW o, FreeInCache(o) PROVE IInv'
    BY <2>1, InCacheStep
  <2>2. ASSUME NEW o, FreeInUseSlab(o) \/ KeepEmptySlab(o) \/ ReleaseEmptySlab(o)
        PROVE  IInv'
    BY <2>2, FreeToSlabStep
  <2> QED BY <1>4, <2>1, <2>2 DEF Free
<1>5. CASE KmemCacheDestroy
  BY <1>5, DestroyStep
<1>6. CASE UNCHANGED vars
  BY <1>6 DEF IInv, TypeOK, PagesPartitioned, NoDoubleAllocation, ListsMatchOccupancy,
              vars, slabVars, listVars, Slabs
<1> QED BY <1>1, <1>2, <1>3, <1>4, <1>5, <1>6 DEF Next

(* The invariant holds in every reachable state.                           *)
THEOREM SlabInvariant == Spec => []IInv
<1>1. Init => IInv
  BY InitIInv
<1>2. IInv /\ [Next]_vars => IInv'
  BY NextIInv
<1> QED BY <1>1, <1>2, PTL DEF Spec

(* Each page has one owner: a slab given back by kmem_cache_free is on no  *)
(* list of the cache, and no page is a slab and something else.            *)
THEOREM SlabPagesPartitioned == Spec => []PagesPartitioned
<1>1. IInv => PagesPartitioned
  BY DEF IInv
<1> QED BY <1>1, SlabInvariant, PTL

(* No object is handed out twice, and none is lost.                        *)
THEOREM SlabNoDoubleAllocation == Spec => []NoDoubleAllocation
<1>1. IInv => NoDoubleAllocation
  BY DEF IInv
<1> QED BY <1>1, SlabInvariant, PTL

(* Every slab is on the list its occupancy asks for.                       *)
THEOREM SlabListsMatchOccupancy == Spec => []ListsMatchOccupancy
<1>1. IInv => ListsMatchOccupancy
  BY DEF IInv
<1> QED BY <1>1, SlabInvariant, PTL

-----------------------------------------------------------------------------
(* A step of the allocator is a step of ObjectPool, or changes nothing its *)
(* clients can see.                                                        *)
LEMMA StepImplementsPool ==
  ASSUME IInv, [Next]_vars
  PROVE  [Pool!Next]_<<held, others>>
<1> USE DEF Pool!Next
<1>1. ASSUME NEW p \in Pages, Kalloc(p) \/ Kfree(p) \/ KmemCacheCreate(p)
      PROVE  [Pool!Next]_<<held, others>>
  <2>1. CASE Kalloc(p)
    <3>1. p \notin others /\ \A o \in held : PageOf(o) # p
      BY <2>1 DEF Kalloc, IInv, PagesPartitioned, NoDoubleAllocation, Slabs
    <3>2. Pool!Kalloc(p)
      BY <2>1, <3>1 DEF Kalloc, Pool!Kalloc
    <3> QED BY <3>2
  <2>2. CASE Kfree(p)
    <3>1. Pool!Kfree(p)
      BY <2>2 DEF Kfree, Pool!Kfree
    <3> QED BY <3>1
  <2>3. CASE KmemCacheCreate(p)
    BY <2>3 DEF KmemCacheCreate
  <2> QED BY <1>1, <2>1, <2>2, <2>3
<1>2. ASSUME NEW o \in Objects, o \notin held, PageOf(o) \notin others,
             held' = held \cup {o}, others' = others
      PROVE  [Pool!Next]_<<held, others>>
  <2>1. Pool!Alloc(o)
    BY <1>2 DEF Pool!Alloc
  <2> QED BY <2>1
<1>3. CASE Alloc
  <2>1. ASSUME NEW o \in cacheFreelist, AllocInCache(o)
        PROVE  [Pool!Next]_<<held, others>>
    <3>1. PICK c \in cache : o \in CacheObjs(c) /\ o \notin held
      BY <2>1 DEF IInv, NoDoubleAllocation
    <3>2. o \in Objects /\ PageOf(o) = c /\ c \notin others
      BY <3>1, CacheObjsFacts DEF IInv, TypeOK, PagesPartitioned
    <3> QED BY <2>1, <3>1, <3>2, <1>2 DEF AllocInCache
  <2>2. ASSUME NEW s \in Pages, NEW o,
               AllocFromPartial(s, o) \/ AllocFromFree(s, o) \/ AllocFromNewSlab(s, o)
        PROVE  [Pool!Next]_<<held, others>>
    <3>1. s \notin others /\ s \notin cache
      BY <2>2 DEF AllocFromPartial, AllocFromFree, AllocFromNewSlab,
                  IInv, PagesPartitioned, Slabs
    <3>2. held' = held \cup {o} /\ others' = others /\ o \in SlabObjs(s)
      BY <2>2 DEF AllocFromPartial, AllocFromFree, AllocFromNewSlab, TakeFrom,
                  IInv, NoDoubleAllocation, Slabs
    <3>3. o \in Objects /\ PageOf(o) = s
      BY <3>2, SlabObjsFacts
    <3>4. o \notin held
      <4>1. CASE s \in Slabs
        BY <2>2, <4>1 DEF AllocFromPartial, AllocFromFree, AllocFromNewSlab, TakeFrom,
                          IInv, NoDoubleAllocation, PagesPartitioned, Slabs
      <4>2. CASE s \notin Slabs
        BY <4>2, <3>1, <3>3 DEF IInv, NoDoubleAllocation
      <4> QED BY <4>1, <4>2
    <3> QED BY <3>1, <3>2, <3>3, <3>4, <1>2
  <2>3. partial \subseteq Pages /\ free \subseteq Pages /\ kmem \subseteq Pages
    BY DEF IInv, TypeOK
  <2> QED BY <1>3, <2>1, <2>2, <2>3 DEF Alloc
<1>4. CASE Free
  <2>1. PICK o \in held : FreeInCache(o) \/ FreeInUseSlab(o) \/ KeepEmptySlab(o)
                          \/ ReleaseEmptySlab(o)
    BY <1>4 DEF Free
  <2>2. held' = held \ {o} /\ others' = others
    BY <2>1 DEF FreeInCache, FreeInUseSlab, KeepEmptySlab, ReleaseEmptySlab, PutBack
  <2>3. Pool!Free(o)
    BY <2>2 DEF Pool!Free
  <2>4. o \in Objects
    BY DEF IInv, TypeOK
  <2> QED BY <2>3, <2>4
<1>5. CASE KmemCacheDestroy
  BY <1>5 DEF KmemCacheDestroy
<1>6. CASE UNCHANGED vars
  BY <1>6 DEF vars
<1> QED BY <1>1, <1>3, <1>4, <1>5, <1>6 DEF Next

(* The slab allocator implements ObjectPool: memory a caller holds is      *)
(* nobody else's, for any number of pages and any object layout.           *)
THEOREM SlabImplementsPool == Spec => ImplementsObjectPool
<1>1. Init => Pool!Init
  BY DEF Init, Pool!Init
<1>2. IInv /\ [Next]_vars => [Pool!Next]_<<held, others>>
  BY StepImplementsPool
<1> QED BY <1>1, <1>2, SlabInvariant, PTL DEF Spec, ImplementsObjectPool, Pool!Spec

-----------------------------------------------------------------------------
(* The allocator gives pages back: total_slabs is exact and kmem_cache_free*)
(* keeps no more than MinAvail empty slabs.                                *)
SpaceInv == TotalSlabsExact /\ Cardinality(free) <= MinAvail

(* Sets of pages are finite.                                               *)
LEMMA PagesFinite ==
  ASSUME NEW S \in SUBSET Pages
  PROVE  IsFiniteSet(S) /\ Cardinality(S) \in Nat
BY PagesAssumption, FS_Subset, FS_CardinalityType

LEMMA InitSpaceInv == Init => SpaceInv
<1> SUFFICES ASSUME Init PROVE SpaceInv
  OBVIOUS
<1>1. Slabs = {} /\ free = {} /\ totalSlabs = 0
  BY DEF Init, Slabs
<1>2. Cardinality(free) = 0 /\ Cardinality(Slabs) = 0
  BY <1>1, FS_EmptySet
<1> QED BY <1>1, <1>2, MinAvailAssumption DEF SpaceInv, TotalSlabsExact

(* What a step does to the slabs.                                          *)
Unmoved == Slabs' = Slabs /\ totalSlabs' = totalSlabs /\ free' \subseteq free
Added(s) == s \notin Slabs /\ Slabs' = Slabs \cup {s} /\ totalSlabs' = totalSlabs + 1 /\ free' = free
Kept(s) ==
  /\ Slabs' = Slabs /\ totalSlabs' = totalSlabs
  /\ s \notin free /\ free' = free \cup {s} /\ Cardinality(free) + 1 <= MinAvail
Released(s) ==
  s \in Slabs /\ Slabs' = Slabs \ {s} /\ totalSlabs' = totalSlabs - 1 /\ free' = free
Destroyed == Slabs' = {} /\ totalSlabs' = 0 /\ free' = {} /\ cache' # cache

LEMMA AllocSpace ==
  ASSUME IInv, Alloc
  PROVE  Unmoved \/ \E s \in Pages : Added(s)
<1>1. ASSUME NEW o, AllocInCache(o) PROVE Unmoved
  BY <1>1 DEF AllocInCache, listVars, Unmoved, Slabs
<1>2. ASSUME NEW s \in partial, NEW o, AllocFromPartial(s, o) PROVE Unmoved
  BY <1>2 DEF AllocFromPartial, TakeFrom, Unmoved, Slabs
<1>3. ASSUME NEW s \in free, NEW o, AllocFromFree(s, o) PROVE Unmoved
  <2>1. Slabs' = Slabs
    BY <1>3 DEF AllocFromFree, TakeFrom, Slabs
  <2> QED BY <1>3, <2>1 DEF AllocFromFree, Unmoved
<1>4. ASSUME NEW s \in kmem, NEW o, AllocFromNewSlab(s, o) PROVE s \in Pages /\ Added(s)
  <2>1. s \in Pages /\ s \notin Slabs
    BY DEF IInv, TypeOK, PagesPartitioned
  <2>2. Slabs' = Slabs \cup {s}
    BY <1>4 DEF AllocFromNewSlab, TakeFrom, Slabs
  <2> QED BY <1>4, <2>1, <2>2 DEF AllocFromNewSlab, Added
<1> QED BY <1>1, <1>2, <1>3, <1>4 DEF Alloc

(* A slab is kept when it and the others available are MinAvail at most.   *)
LEMMA KeptSpace ==
  ASSUME IInv, NEW o, KeepEmptySlab(o)
  PROVE  Kept(PageOf(o))
<1> DEFINE s == PageOf(o)
<1>1. o \in held /\ s \notin cache /\ inUse[s] = 1
  BY DEF KeepEmptySlab, IsLast
<1>2. s \in partial \cup full /\ s \in Pages
  BY <1>1, FreeFacts
<1>3. s \notin free /\ partial \subseteq Pages /\ free \subseteq Pages
  BY <1>2 DEF IInv, PagesPartitioned, TypeOK
<1>4. Slabs' = Slabs /\ totalSlabs' = totalSlabs /\ free' = free \cup {s}
  BY <1>2 DEF KeepEmptySlab, Unlink, Slabs
<1>5. /\ Cardinality(partial) \in Nat /\ Cardinality(free) \in Nat
      /\ 1 + Cardinality(partial) + Cardinality(free) <= MinAvail
      /\ MinAvail \in Nat
  BY <1>3, PagesFinite, MinAvailAssumption DEF KeepEmptySlab, AvailableSlabs
<1>7. Cardinality(free) + 1 <= MinAvail
  BY <1>5
<1> QED BY <1>3, <1>4, <1>7 DEF Kept

LEMMA ReleasedSpace ==
  ASSUME IInv, NEW o, ReleaseEmptySlab(o)
  PROVE  PageOf(o) \in Pages /\ Released(PageOf(o))
<1> DEFINE s == PageOf(o)
<1>1. o \in held /\ s \notin cache
  BY DEF ReleaseEmptySlab
<1>2. s \in partial \cup full /\ s \in Pages
  BY <1>1, FreeFacts
<1>3. s \notin free
  BY <1>2 DEF IInv, PagesPartitioned
<1> QED BY <1>2, <1>3 DEF ReleaseEmptySlab, Unlink, Released, Slabs

LEMMA NextSpace ==
  ASSUME IInv, [Next]_vars
  PROVE  Unmoved \/ Destroyed \/ \E s \in Pages : Added(s) \/ Kept(s) \/ Released(s)
<1>1. ASSUME NEW p \in Pages, Kalloc(p) \/ Kfree(p) \/ KmemCacheCreate(p) PROVE Unmoved
  BY <1>1 DEF Kalloc, Kfree, KmemCacheCreate, listVars, Unmoved, Slabs
<1>2. CASE Alloc
  BY <1>2, AllocSpace
<1>3. CASE Free
  <2>1. ASSUME NEW o, FreeInCache(o) PROVE Unmoved
    BY <2>1 DEF FreeInCache, listVars, Unmoved, Slabs
  <2>2. ASSUME NEW o, FreeInUseSlab(o) PROVE Unmoved
    <3>1. PageOf(o) \in partial \cup full
      BY <2>2, FreeFacts DEF FreeInUseSlab
    <3>2. Slabs' = Slabs
      BY <2>2, <3>1 DEF FreeInUseSlab, FullToPartial, Slabs, IInv, ListsMatchOccupancy
    <3> QED BY <2>2, <3>2 DEF FreeInUseSlab, Unmoved
  <2>3. ASSUME NEW o, KeepEmptySlab(o) PROVE PageOf(o) \in Pages /\ Kept(PageOf(o))
    BY <2>3, KeptSpace, FreeFacts DEF KeepEmptySlab
  <2>4. ASSUME NEW o, ReleaseEmptySlab(o) PROVE PageOf(o) \in Pages /\ Released(PageOf(o))
    BY <2>4, ReleasedSpace
  <2> QED BY <1>3, <2>1, <2>2, <2>3, <2>4 DEF Free
<1>4. CASE KmemCacheDestroy
  BY <1>4 DEF KmemCacheDestroy, Destroyed, Slabs
<1>5. CASE UNCHANGED vars
  BY <1>5 DEF vars, listVars, Unmoved, Slabs
<1> QED BY <1>1, <1>2, <1>3, <1>4, <1>5 DEF Next

(* Each of these keeps total_slabs exact and the empty slabs few.          *)
LEMMA NextSpaceInv ==
  ASSUME IInv, SpaceInv, [Next]_vars
  PROVE  SpaceInv'
<1>1. /\ IsFiniteSet(Slabs) /\ Cardinality(Slabs) \in Nat
      /\ IsFiniteSet(free) /\ Cardinality(free) \in Nat
      /\ totalSlabs = Cardinality(Slabs) /\ Cardinality(free) <= MinAvail
      /\ MinAvail \in Nat
  BY PagesFinite, MinAvailAssumption DEF IInv, TypeOK, Slabs, SpaceInv, TotalSlabsExact
<1>3. CASE Unmoved
  <2>1. Cardinality(free') <= Cardinality(free) /\ Cardinality(free') \in Nat
    BY <1>1, <1>3, FS_Subset, FS_CardinalityType DEF Unmoved
  <2>2. Cardinality(free') <= MinAvail
    BY <1>1, <2>1
  <2>3. ~(totalSlabs' < totalSlabs) /\ totalSlabs' = Cardinality(Slabs')
    BY <1>1, <1>3 DEF Unmoved
  <2> QED BY <2>2, <2>3 DEF SpaceInv, TotalSlabsExact
<1>4. CASE \E s \in Pages : Added(s)
  <2>1. PICK s \in Pages : Added(s)
    BY <1>4
  <2>2. Cardinality(Slabs \cup {s}) = Cardinality(Slabs) + 1
    BY <1>1, <2>1, FS_AddElement DEF Added
  <2>3. totalSlabs' = Cardinality(Slabs') /\ ~(totalSlabs' < totalSlabs) /\ free' = free
    BY <1>1, <2>1, <2>2 DEF Added
  <2> QED BY <1>1, <2>3 DEF SpaceInv, TotalSlabsExact
<1>5. CASE \E s \in Pages : Kept(s)
  <2>1. PICK s \in Pages : Kept(s)
    BY <1>5
  <2>2. Cardinality(free \cup {s}) = Cardinality(free) + 1
    BY <1>1, <2>1, FS_AddElement DEF Kept
  <2>3. Cardinality(free') <= MinAvail
    BY <2>1, <2>2 DEF Kept
  <2>4. ~(totalSlabs' < totalSlabs) /\ totalSlabs' = Cardinality(Slabs')
    BY <1>1, <2>1 DEF Kept
  <2> QED BY <2>3, <2>4 DEF SpaceInv, TotalSlabsExact
<1>6. CASE \E s \in Pages : Released(s)
  <2>1. PICK s \in Pages : Released(s)
    BY <1>6
  <2>2. Cardinality(Slabs \ {s}) = Cardinality(Slabs) - 1
    BY <1>1, <2>1, FS_RemoveElement DEF Released
  <2>3. totalSlabs' = Cardinality(Slabs') /\ free' = free
    BY <1>1, <2>1, <2>2 DEF Released
  <2> QED BY <1>1, <2>3 DEF SpaceInv, TotalSlabsExact
<1>7. CASE Destroyed
  <2>1. Cardinality(Slabs') = 0 /\ Cardinality(free') = 0
    BY <1>7, FS_EmptySet DEF Destroyed
  <2>2. totalSlabs' = Cardinality(Slabs') /\ cache' # cache
    BY <1>7, <2>1 DEF Destroyed
  <2>3. Cardinality(free') <= MinAvail
    BY <1>1, <2>1
  <2> QED BY <2>2, <2>3 DEF SpaceInv, TotalSlabsExact
<1> QED BY <1>3, <1>4, <1>5, <1>6, <1>7, NextSpace

(* When no object is in use every slab is on the free list, so the page    *)
(* allocator and the rest of the kernel have all other pages.              *)
LEMMA IdleSpace ==
  ASSUME IInv, SpaceInv
  PROVE  IdleCacheReturnsMemory
<1> SUFFICES ASSUME held = {}
             PROVE  Cardinality(kmem \cup others)
                      >= Cardinality(Pages) - Cardinality(cache) - MinAvail
  BY DEF IdleCacheReturnsMemory
<1> DEFINE rest == kmem \cup others
<1>1. Slabs = free
  <2>1. ASSUME NEW s \in partial PROVE FALSE
    <3>1. s \in Pages /\ s \notin cache /\ inUse[s] > 0
      BY DEF IInv, TypeOK, PagesPartitioned, ListsMatchOccupancy, Slabs
    <3>2. inUse[s] = Occ(held, s)
      BY <3>1, InUseIsOcc
    <3>3. held \cap SlabObjs(s) = {}
      OBVIOUS
    <3>4. Occ(held, s) = 0
      BY <3>1, <3>3, OccType
    <3> QED BY <3>1, <3>2, <3>4
  <2>2. ASSUME NEW s \in full PROVE FALSE
    <3>1. s \in Pages /\ SlabObjs(s) \ held = {}
      BY DEF IInv, TypeOK, NoDoubleAllocation, ListsMatchOccupancy, Slabs
    <3> QED BY <3>1, SlabObjsFacts
  <2> QED BY <2>1, <2>2 DEF Slabs
<1>2. /\ rest \in SUBSET Pages /\ cache \in SUBSET Pages /\ free \in SUBSET Pages
      /\ Pages = rest \cup (cache \cup free)
  BY <1>1 DEF IInv, TypeOK, PagesPartitioned
<1> HIDE DEF rest
<1>3. /\ IsFiniteSet(rest) /\ IsFiniteSet(cache) /\ IsFiniteSet(free) /\ IsFiniteSet(cache \cup free)
      /\ Cardinality(rest) \in Nat /\ Cardinality(cache) \in Nat /\ Cardinality(free) \in Nat
      /\ Cardinality(cache \cup free) \in Nat
  BY <1>2, PagesFinite
<1>4. /\ IsFiniteSet(cache \cap free) /\ Cardinality(cache \cap free) \in Nat
      /\ IsFiniteSet(rest \cap (cache \cup free)) /\ Cardinality(rest \cap (cache \cup free)) \in Nat
  BY <1>2, PagesFinite
<1>5. Cardinality(cache \cup free) <= Cardinality(cache) + Cardinality(free)
  <2>1. Cardinality(cache \cup free) = Cardinality(cache) + Cardinality(free) - Cardinality(cache \cap free)
    BY <1>3, FS_Union
  <2> QED BY <1>3, <1>4, <2>1
<1>6. Cardinality(Pages) <= Cardinality(rest) + Cardinality(cache \cup free) /\ Cardinality(Pages) \in Nat
  <2>1. Cardinality(rest \cup (cache \cup free))
          = Cardinality(rest) + Cardinality(cache \cup free) - Cardinality(rest \cap (cache \cup free))
    BY <1>3, FS_Union
  <2>2. Cardinality(Pages) \in Nat
    BY PagesFinite
  <2> QED BY <1>2, <1>3, <1>4, <2>1, <2>2
<1>7. Cardinality(rest) >= Cardinality(Pages) - Cardinality(cache) - MinAvail
  BY <1>3, <1>5, <1>6, MinAvailAssumption DEF SpaceInv
<1> QED BY <1>7 DEF rest

(* total_slabs is always the number of slabs, and a cache whose objects    *)
(* have come back keeps no more than MinAvail of its pages: kmem_cache_free*)
(* for any pages, object layout and threshold.                             *)
THEOREM SlabMemoryReturned == Spec => []MemoryReturned
<1>1. Init => IInv /\ SpaceInv
  BY InitIInv, InitSpaceInv
<1>2. (IInv /\ SpaceInv) /\ [Next]_vars => (IInv /\ SpaceInv)'
  BY NextIInv, NextSpaceInv
<1>3. IInv /\ SpaceInv => MemoryReturned
  BY IdleSpace DEF IInv, SpaceInv, MemoryReturned
<1> QED BY <1>1, <1>2, <1>3, PTL DEF Spec
=============================================================================
