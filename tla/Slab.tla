-------------------------------- MODULE Slab --------------------------------
(***************************************************************************)
(* The slab allocator of mp2 (kernel/slab.c) on top of the page allocator  *)
(* (kernel/kalloc.c).                                                      *)
(*                                                                         *)
(* One struct kmem_cache lives in a page of its own and serves objects     *)
(* from two places: the tail of that page (the "in-cache" objects) and     *)
(* slabs, one page each.  cache->lock makes every operation atomic, and    *)
(* kmem.lock does the same for the page pops and pushes inside them, so an *)
(* operation is one action.  An object is a pair <<page, slot>>; a         *)
(* freelist is the set of objects on it and a list of slabs is a set of    *)
(* pages, because the properties do not tell the LIFO orders apart: an     *)
(* action takes any member where the code takes the first.                 *)
(***************************************************************************)
EXTENDS Integers, FiniteSets

CONSTANTS
  Pages,        \* the physical pages between end and PHYSTOP
  MaxObjects,   \* cache->max_objects: objects in a slab
  InCacheObj,   \* cache->in_cache_obj: objects in the tail of the cache page
  MinAvail      \* MP2_MIN_AVAIL_SLAB

ASSUME PagesAssumption == IsFiniteSet(Pages)
ASSUME MaxObjectsAssumption == MaxObjects \in Nat \ {0}
ASSUME InCacheObjAssumption == InCacheObj \in Nat
ASSUME MinAvailAssumption == MinAvail \in Nat

VARIABLES
  kmem,           \* pages on kmem.freelist
  others,         \* pages held by the rest of the kernel
  cache,          \* the pages that hold the struct kmem_cache: at most one
  cacheFreelist,  \* the objects on cache->cache_freelist
  freelist,       \* freelist[s]: the objects on the freelist of slab s
  inUse,          \* inUse[s]: the counter stored behind the slab header
  partial, full, free,  \* the three lists of slabs
  totalSlabs,     \* cache->total_slabs
  held            \* objects handed out and not yet given back (the callers')

listVars == <<partial, full, free, totalSlabs>>
slabVars == <<freelist, inUse>>
vars == <<kmem, others, cache, cacheFreelist, slabVars, listVars, held>>

PageOf(o) == o[1]
SlabObjs(s) == {<<s, i>> : i \in 1..MaxObjects}
CacheObjs(c) == {<<c, i>> : i \in 1..InCacheObj}
Objects == Pages \X (1..(MaxObjects + InCacheObj))
Slabs == partial \cup full \cup free

-----------------------------------------------------------------------------
(* Mutants: how a plausible slip would change a definition below.  Each    *)
(* must violate the property PROJECT.json names beside it.                 *)
MutantUnlinkSkipped(s) == UNCHANGED <<partial, full>>    \* no list_del
MutantStaysFull(s) == UNCHANGED <<partial, full>>        \* no list_move
MutantAvailableFree == Cardinality(free)                 \* partial not counted
MutantLastTooEarly(o) == inUse[PageOf(o)] <= 2           \* tested before the decrement
MutantTakeNoPop(s, o, fl) ==        \* s->freelist = r instead of r->next
  /\ o \in fl
  /\ freelist' = [freelist EXCEPT ![s] = fl]
  /\ inUse' = [inUse EXCEPT ![s] = @ + 1]
  /\ held' = held \cup {o}
  /\ partial' = partial \cup {s}
  /\ UNCHANGED <<full, others, cache, cacheFreelist>>

-----------------------------------------------------------------------------
(* kinit leaves every page on the freelist; no cache exists yet.           *)
Init ==
  /\ kmem = Pages
  /\ others = {}
  /\ cache = {}
  /\ cacheFreelist = {}
  /\ freelist = [s \in Pages |-> {}]
  /\ inUse = [s \in Pages |-> 0]
  /\ partial = {} /\ full = {} /\ free = {}
  /\ totalSlabs = 0
  /\ held = {}

(* kalloc by some other part of the kernel, and the kfree that follows.    *)
Kalloc(p) ==
  /\ p \in kmem
  /\ kmem' = kmem \ {p}
  /\ others' = others \cup {p}
  /\ UNCHANGED <<cache, cacheFreelist, slabVars, listVars, held>>

Kfree(p) ==
  /\ p \in others
  /\ others' = others \ {p}
  /\ kmem' = kmem \cup {p}
  /\ UNCHANGED <<cache, cacheFreelist, slabVars, listVars, held>>

KmemCacheCreate(c) ==
  /\ cache = {}
  /\ c \in kmem
  /\ kmem' = kmem \ {c}
  /\ cache' = {c}
  /\ cacheFreelist' = CacheObjs(c)
  /\ UNCHANGED <<others, slabVars, listVars, held>>

-----------------------------------------------------------------------------
(* kmem_cache_alloc tries the in-cache freelist, the partial slabs, the    *)
(* free slabs and a new page, in this order.                               *)
AllocInCache(o) ==
  /\ cache # {}
  /\ o \in cacheFreelist
  /\ cacheFreelist' = cacheFreelist \ {o}
  /\ held' = held \cup {o}
  /\ UNCHANGED <<kmem, others, cache, slabVars, listVars>>

(* The tail shared by the other three: object o of slab s, whose freelist  *)
(* is fl, is handed out; a slab left without a free object goes to full.   *)
TakeFrom(s, o, fl) ==
  /\ o \in fl
  /\ freelist' = [freelist EXCEPT ![s] = fl \ {o}]
  /\ inUse' = [inUse EXCEPT ![s] = @ + 1]
  /\ held' = held \cup {o}
  /\ partial' = IF fl = {o} THEN partial \ {s} ELSE partial \cup {s}
  /\ full' = IF fl = {o} THEN full \cup {s} ELSE full
  /\ UNCHANGED <<others, cache, cacheFreelist>>

AllocFromPartial(s, o) ==
  /\ cache # {} /\ cacheFreelist = {}
  /\ s \in partial
  /\ TakeFrom(s, o, freelist[s])
  /\ UNCHANGED <<kmem, free, totalSlabs>>

AllocFromFree(s, o) ==
  /\ cache # {} /\ cacheFreelist = {} /\ partial = {}
  /\ s \in free
  /\ free' = free \ {s}
  /\ TakeFrom(s, o, freelist[s])
  /\ UNCHANGED <<kmem, totalSlabs>>

AllocFromNewSlab(s, o) ==
  /\ cache # {} /\ cacheFreelist = {} /\ partial = {} /\ free = {}
  /\ s \in kmem
  /\ kmem' = kmem \ {s}
  /\ totalSlabs' = totalSlabs + 1
  /\ TakeFrom(s, o, SlabObjs(s))
  /\ UNCHANGED free

-----------------------------------------------------------------------------
(* kmem_cache_free.  The callers free only what they hold: fileclose frees *)
(* when the last reference is dropped.                                     *)
FreeInCache(o) ==
  /\ o \in held /\ PageOf(o) \in cache
  /\ cacheFreelist' = cacheFreelist \cup {o}
  /\ held' = held \ {o}
  /\ UNCHANGED <<kmem, others, cache, slabVars, listVars>>

(* The counter reaches 0 when o goes back.                                 *)
IsLast(o) == inUse[PageOf(o)] = 1

(* The object goes back to the freelist of its slab.                       *)
PutBack(o) ==
  /\ held' = held \ {o}
  /\ freelist' = [freelist EXCEPT ![PageOf(o)] = @ \cup {o}]
  /\ inUse' = [inUse EXCEPT ![PageOf(o)] = @ - 1]

(* list_move to the partial list, of a slab that was full before the free. *)
FullToPartial(s) ==
  IF freelist[s] = {}
    THEN partial' = partial \cup {s} /\ full' = full \ {s}
    ELSE UNCHANGED <<partial, full>>

FreeInUseSlab(o) ==
  /\ o \in held /\ PageOf(o) \notin cache
  /\ ~IsLast(o)
  /\ PutBack(o)
  /\ FullToPartial(PageOf(o))
  /\ UNCHANGED <<kmem, others, cache, cacheFreelist, free, totalSlabs>>

(* available_slabs starts at 1 for the slab itself, and the slab is still  *)
(* on the partial list (unless it was full) while that list is counted.    *)
AvailableSlabs == 1 + Cardinality(partial) + Cardinality(free)

(* list_del: a slab with an object in use is on the partial or full list.  *)
Unlink(s) == partial' = partial \ {s} /\ full' = full \ {s}

(* The last object goes back: the slab is unlinked, then kept or released. *)
KeepEmptySlab(o) ==
  /\ o \in held /\ PageOf(o) \notin cache
  /\ IsLast(o)
  /\ AvailableSlabs <= MinAvail
  /\ PutBack(o)
  /\ Unlink(PageOf(o))
  /\ free' = free \cup {PageOf(o)}
  /\ UNCHANGED <<kmem, others, cache, cacheFreelist, totalSlabs>>

ReleaseEmptySlab(o) ==
  /\ o \in held /\ PageOf(o) \notin cache
  /\ IsLast(o)
  /\ AvailableSlabs > MinAvail
  /\ held' = held \ {o}
  /\ freelist' = [freelist EXCEPT ![PageOf(o)] = {}]
  /\ inUse' = [inUse EXCEPT ![PageOf(o)] = 0]
  /\ Unlink(PageOf(o))
  /\ totalSlabs' = totalSlabs - 1
  /\ kmem' = kmem \cup {PageOf(o)}
  /\ UNCHANGED <<others, cache, cacheFreelist, free>>

(* kmem_cache_destroy has no caller in the tree; its contract is that the  *)
(* objects have been freed.                                                *)
KmemCacheDestroy ==
  /\ cache # {}
  /\ held = {}
  /\ kmem' = kmem \cup Slabs \cup cache
  /\ cache' = {}
  /\ cacheFreelist' = {}
  /\ freelist' = [s \in Pages |-> {}]
  /\ inUse' = [s \in Pages |-> 0]
  /\ partial' = {} /\ full' = {} /\ free' = {}
  /\ totalSlabs' = 0
  /\ UNCHANGED <<others, held>>

Alloc ==
  \/ \E o \in cacheFreelist : AllocInCache(o)
  \/ \E s \in partial : \E o \in freelist[s] : AllocFromPartial(s, o)
  \/ \E s \in free : \E o \in freelist[s] : AllocFromFree(s, o)
  \/ \E s \in kmem : \E o \in SlabObjs(s) : AllocFromNewSlab(s, o)

Free ==
  \E o \in held :
    \/ FreeInCache(o)
    \/ FreeInUseSlab(o)
    \/ KeepEmptySlab(o)
    \/ ReleaseEmptySlab(o)

Next ==
  \/ \E p \in Pages : Kalloc(p) \/ Kfree(p) \/ KmemCacheCreate(p)
  \/ Alloc
  \/ Free
  \/ KmemCacheDestroy

Spec == Init /\ [][Next]_vars

-----------------------------------------------------------------------------
TypeOK ==
  /\ kmem \subseteq Pages /\ others \subseteq Pages
  /\ cache \subseteq Pages /\ (\A c, d \in cache : c = d)
  /\ cacheFreelist \subseteq Objects
  /\ freelist \in [Pages -> SUBSET Objects]
  /\ inUse \in [Pages -> 0..MaxObjects]
  /\ partial \subseteq Pages /\ full \subseteq Pages /\ free \subseteq Pages
  /\ totalSlabs \in Int
  /\ held \subseteq Objects

(* Every page has exactly one owner: the page allocator, another part of   *)
(* the kernel, the cache header, or one of the three slab lists.  A slab   *)
(* released while still linked, or linked twice, breaks it.                *)
PagesPartitioned ==
  /\ kmem \cup others \cup cache \cup Slabs = Pages
  /\ kmem \cap others = {} /\ kmem \cap cache = {} /\ others \cap cache = {}
  /\ Slabs \cap (kmem \cup others \cup cache) = {}
  /\ partial \cap full = {} /\ partial \cap free = {} /\ full \cap free = {}
  /\ cache = {} => Slabs = {}

(* An object of the cache is either on exactly one freelist or with a      *)
(* caller, never both and never neither: nothing is handed out twice and   *)
(* nothing leaks.  Freelists of pages the cache does not own are empty.    *)
NoDoubleAllocation ==
  /\ \A s \in Pages : freelist[s] =
       IF s \in Slabs THEN SlabObjs(s) \ held ELSE {}
  /\ cache = {} => cacheFreelist = {}
  /\ \A c \in cache : cacheFreelist = CacheObjs(c) \ held
  /\ \A o \in held : \/ PageOf(o) \in Slabs /\ o \in SlabObjs(PageOf(o))
                     \/ PageOf(o) \in cache /\ o \in CacheObjs(PageOf(o))

(* A slab is on the list its occupancy asks for, and the counter that      *)
(* kmem_cache_free decides by is the number of objects handed out.         *)
ListsMatchOccupancy ==
  /\ \A s \in Pages \ cache : inUse[s] = Cardinality(held \cap SlabObjs(s))
  /\ \A s \in full : freelist[s] = {}
  /\ \A s \in partial : freelist[s] # {} /\ inUse[s] > 0
  /\ \A s \in free : inUse[s] = 0

(* The allocator keeps the promise of ObjectPool: no two callers, and no   *)
(* caller and other part of the kernel, are ever given the same memory.    *)
Pool == INSTANCE ObjectPool
ImplementsObjectPool == Pool!Spec

(* total_slabs is the number of slabs on the three lists.                  *)
TotalSlabsExact == totalSlabs = Cardinality(Slabs)

(* A cache whose objects have all come back has returned its slabs to the  *)
(* page allocator but for MP2_MIN_AVAIL_SLAB of them, however the frees    *)
(* were ordered.                                                           *)
IdleCacheReturnsMemory ==
  held = {} =>
    Cardinality(kmem \cup others) >= Cardinality(Pages) - Cardinality(cache) - MinAvail

(* The cache keeps no memory it has no use for: total_slabs is the number  *)
(* of slabs on the lists, and an idle cache holds no more than MinAvail.   *)
MemoryReturned == TypeOK /\ TotalSlabsExact /\ IdleCacheReturnsMemory

(* What param.h and the specification of the exercise say of a release,    *)
(* that it leaves MP2_MIN_AVAIL_SLAB slabs that can still serve objects.   *)
(* It does not: kmem_cache_free counts a slab from the partial list twice. *)
ReleaseLeavesMinAvail ==
  [][totalSlabs' < totalSlabs /\ cache' = cache =>
       Cardinality(partial' \cup free') >= MinAvail]_vars
=============================================================================
