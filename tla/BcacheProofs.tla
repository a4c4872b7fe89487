---------------------------- MODULE BcacheProofs ----------------------------
(***************************************************************************)
(* Theorems about Bcache, for every number of buffers, processes, blocks   *)
(* and changes, with readers, updaters, the committer and raw calls on the *)
(* same blocks: the buffers stay sound, what bread hands out is current,   *)
(* no logged change is lost, the mirrors agree, and an installed block has *)
(* its last version on a disk.  Each is shown until the mishap it does not *)
(* survive (Bcache's ghost variable mishaps) has happened, and needs no    *)
(* assumption on who works on which block, nor on the hooks.               *)
(***************************************************************************)
EXTENDS Bcache, FiniteSetTheorems, SequenceTheorems, WellFoundedInduction, TLAPS

-----------------------------------------------------------------------------
(* The invariant.  These parts hold until bget is asked for a block whose  *)
(* buffer is renamed.                                                      *)
Holding == {"locked", "raw", "reading", "held", "write0", "write1", "written", "done"}
Points == {"idle", "locking", "releasing"} \cup Holding

Order == lru \in Seq(Bufs) /\ Len(lru) = Cardinality(Bufs) /\ ToSet(lru) = Bufs

Types ==
  /\ blockno \in [Bufs -> Physical \cup {NoBlock}]
  /\ valid \in [Bufs -> BOOLEAN]
  /\ refcnt \in [Bufs -> Int]
  /\ data \in [Bufs -> Contents]
  /\ owner \in [Bufs -> Procs \cup {None}] /\ asleep \subseteq Procs
  /\ disk \in [Physical -> Contents]
  /\ failDisk \in -1..1 /\ failBlock \in -1..(DiskSize - 1)
  /\ pc \in [Procs -> Points]
  /\ buf \in [Procs -> Bufs \cup {None}]
  /\ want \in [Procs -> Physical \cup {NoBlock}]
  /\ mirrorToo \in [Procs -> BOOLEAN]
  /\ logged \subseteq WriteBlocks /\ toInstall \subseteq logged /\ committing \in BOOLEAN
  /\ current \in [Logical -> 0..MaxVersion] /\ version \in 0..MaxVersion
  /\ calls \in 0..MaxCalls /\ panicked \in BOOLEAN /\ mishaps \subseteq Mishaps

(* The flags as long as the hooks have not failed anything.                *)
Hooks ==
  /\ "failure" \notin mishaps => failDisk = -1 /\ failBlock = -1
  /\ "both" \notin mishaps => ~(failDisk = 1 /\ failBlock # -1)

Budget == version + Cardinality(Pending) <= MaxVersion

(* Who may be where, and for which block.                                  *)
Roles ==
  \A p \in Procs :
    /\ pc[p] = "idle" <=> buf[p] = None
    /\ pc[p] = "idle" <=> want[p] = NoBlock
    /\ pc[p] # "idle" =>
         /\ p \in Readers => /\ want[p] \in ReadBlocks
                             /\ pc[p] \in {"locking", "locked", "reading", "held", "releasing"}
         /\ p \in Updaters => /\ want[p] \in WriteBlocks
                              /\ pc[p] \in {"locking", "locked", "reading", "held", "done",
                                            "releasing"}
         /\ p \in Committers => want[p] \in WriteBlocks /\ pc[p] # "raw"
         /\ p \in RawUsers => /\ want[p] \in RawBlocks
                              /\ pc[p] \in {"locking", "raw", "done", "releasing"}

(* The log keeps updaters and the committer apart.                         *)
Commits ==
  /\ committing => \A p \in Updaters : pc[p] = "idle"
  /\ ~committing => toInstall = {} /\ \A p \in Committers : pc[p] = "idle"
  /\ \A p \in Committers :
       pc[p] \notin {"idle", "done", "releasing"} => want[p] \in toInstall

Sleeplocks ==
  \A p \in Procs, b \in Bufs : owner[b] = p <=> buf[p] = b /\ pc[p] \in Holding

(* The number a buffer carries, also during a transfer.                    *)
Numbers ==
  \A p \in Procs : pc[p] # "idle" =>
    /\ Home(buf[p]) = want[p]
    /\ pc[p] \in Holding \ {"reading", "write1"} => blockno[buf[p]] = want[p]
    /\ pc[p] = "write1" => blockno[buf[p]] = Mirror(want[p])
    /\ pc[p] = "reading" => /\ blockno[buf[p]] \in {want[p], Mirror(want[p])}
                            /\ "failure" \notin mishaps => blockno[buf[p]] = want[p]

Distinct == \A b, c \in Bufs : b # c /\ Home(b) # NoBlock => Home(c) # Home(b)

(* One pin on the buffer of each block logged and not yet installed.       *)
Counts ==
  /\ \A b \in Bufs :
       refcnt[b] = Cardinality(Users(b)) + (IF Home(b) \in Outstanding THEN 1 ELSE 0)
  /\ \A k \in Outstanding : \E b \in Bufs : Home(b) = k

Sound ==
  Types /\ Order /\ Hooks /\ Budget /\ Roles /\ Commits /\ Sleeplocks /\ Numbers
  /\ Distinct /\ Counts

(* These also while disks fail: what is logged is in memory,               *)
Kept ==
  /\ \A b \in Bufs : Home(b) \in Outstanding => valid[b] /\ data[b] = current[Home(b)]
  /\ \A p \in Procs :
       /\ pc[p] \in {"held", "write0", "write1", "written"} => valid[buf[p]]
       /\ pc[p] = "reading" => ~valid[buf[p]]

(* and the rest is on a disk.                                              *)
OnADisk(k) == current[k] \in {disk[k], disk[Mirror(k)]}

Reached ==
  /\ \A k \in Logical \ Outstanding : current[k] > 0 => OnADisk(k)
  /\ \A p \in Committers : pc[p] = "written" => OnADisk(want[p])

(* These while no disk fails: valid buffers and the disks are current.     *)
CurrentBuffers ==
  \A b \in Bufs : valid[b] /\ Home(b) \in Logical => data[b] = current[Home(b)]

Written ==
  \A k \in Logical \ Outstanding :
    /\ disk[k] = current[k]
    /\ mishaps = {} /\ current[k] > 0 => disk[Mirror(k)] = current[k]

Transfers ==
  \A p \in Procs :
    /\ pc[p] = "write0" => mirrorToo[p]
    /\ pc[p] \in {"write1", "written"} => disk[want[p]] = current[want[p]]
    /\ pc[p] = "written" => disk[Mirror(want[p])] = current[want[p]]

Tidy == "renamed" \notin mishaps
Survived == mishaps \subseteq {"unmirrored", "failure"}
Healthy == mishaps \subseteq {"unmirrored"}

IInv ==
  /\ Tidy => Sound /\ PanicMeansFull
  /\ Survived => Kept /\ Reached
  /\ Healthy => CurrentBuffers /\ Written /\ Transfers

-----------------------------------------------------------------------------
(* The list of buffers.                                                    *)
LEMMA MinIsLeast ==
  ASSUME NEW S \in SUBSET Nat, S # {}
  PROVE  Min(S) \in S /\ \A y \in S : Min(S) =< y
<1> DEFINE R == OpToRel(<, Nat)
<1>1. IsWellFoundedOn(R, Nat)
  BY NatLessThanWellFounded
<1>2. PICK q \in S : \A r \in S : ~(<<r, q>> \in R)
  BY <1>1, WFMin
<1>3. \A r \in S : ~(r < q)
  BY <1>2 DEF OpToRel
<1>4. \A r \in S : q =< r
  BY <1>3
<1> QED BY <1>2, <1>4 DEF Min

LEMMA MaxIsGreatest ==
  ASSUME NEW n \in Nat, NEW S \in SUBSET (0..n), S # {}
  PROVE  Max(S) \in S /\ \A y \in S : Max(S) >= y
<1> DEFINE T == {n - i : i \in S}
<1>1. T \in SUBSET Nat /\ T # {}
  <2>1. \A i \in S : i \in 0..n /\ n - i \in Nat
    OBVIOUS
  <2> QED BY <2>1
<1>2. Min(T) \in T /\ \A y \in T : Min(T) =< y
  BY <1>1, MinIsLeast
<1>3. PICK m \in S : Min(T) = n - m
  BY <1>2
<1>4. \A y \in S : n - m =< n - y
  BY <1>2, <1>3
<1>5. \A y \in S : m >= y
  BY <1>4
<1> QED BY <1>3, <1>5 DEF Max

LEMMA OrderFacts ==
  ASSUME Order
  PROVE  /\ Cardinality(Bufs) \in Nat /\ Len(lru) = Cardinality(Bufs)
         /\ \A i \in 1..Len(lru) : lru[i] \in Bufs
         /\ \A b \in Bufs : \E i \in 1..Len(lru) : lru[i] = b
<1>1. Cardinality(Bufs) \in Nat
  BY FS_CardinalityType, BcacheAssumption
<1>2. DOMAIN lru = 1..Len(lru)
  BY LenProperties DEF Order
<1>3. \A b \in Bufs : \E i \in 1..Len(lru) : lru[i] = b
  BY <1>2 DEF Order, ToSet
<1> QED BY <1>1, <1>3 DEF Order

(* bget's first loop finds a buffer with this number if there is one, its  *)
(* second one a buffer nobody refers to.                                   *)
LEMMA HitFacts ==
  ASSUME Order, NEW k
  PROVE  /\ HitAt(k) # 0 => lru[HitAt(k)] \in Bufs /\ blockno[lru[HitAt(k)]] = k
         /\ HitAt(k) = 0 => \A b \in Bufs : blockno[b] # k
<1> DEFINE I == {i \in 1..Len(lru) : blockno[lru[i]] = k}
<1>1. HitAt(k) = IF I # {} THEN Min(I) ELSE 0
  BY DEF HitAt, SelectInSeq
<1>2. I \in SUBSET Nat
  BY OrderFacts
<1>3. CASE I = {}
  <2>1. HitAt(k) = 0
    BY <1>1, <1>3
  <2> QED BY <1>3, <2>1, OrderFacts
<1>4. CASE I # {}
  <2>1. Min(I) \in I
    BY <1>2, <1>4, MinIsLeast
  <2>2. HitAt(k) \in I
    BY <1>1, <1>4, <2>1
  <2> QED BY <2>2, OrderFacts
<1> QED BY <1>3, <1>4

LEMMA VictimFacts ==
  ASSUME Order
  PROVE  /\ VictimAt # 0 => lru[VictimAt] \in Bufs /\ refcnt[lru[VictimAt]] = 0
         /\ VictimAt = 0 => \A b \in Bufs : refcnt[b] # 0
<1> DEFINE I == {i \in 1..Len(lru) : refcnt[lru[i]] = 0}
<1>1. VictimAt = IF I # {} THEN Max(I) ELSE 0
  BY DEF VictimAt, SelectLastInSeq
<1>2. I \in SUBSET (0..Len(lru)) /\ Len(lru) \in Nat
  BY OrderFacts
<1>3. CASE I = {}
  <2>1. VictimAt = 0
    BY <1>1, <1>3
  <2> QED BY <1>3, <2>1, OrderFacts
<1>4. CASE I # {}
  <2>1. Max(I) \in I
    BY <1>2, <1>4, MaxIsGreatest
  <2>2. VictimAt \in I
    BY <1>1, <1>4, <2>1
  <2> QED BY <2>2, OrderFacts
<1> QED BY <1>3, <1>4

(* brelse moves a buffer to the front: the list keeps all buffers.         *)
LEMMA FrontFacts ==
  ASSUME Order, NEW b \in Bufs
  PROVE  /\ MoveToFront(b) \in Seq(Bufs) /\ Len(MoveToFront(b)) = Cardinality(Bufs)
         /\ ToSet(MoveToFront(b)) = Bufs
<1> DEFINE I == {i \in 1..Len(lru) : lru[i] = b}
           at == SelectInSeq(lru, LAMBDA c : c = b)
           s == SubSeq(lru, 1, at - 1)
           t == SubSeq(lru, at + 1, Len(lru))
           f == MoveToFront(b)
<1>1. at = IF I # {} THEN Min(I) ELSE 0
  BY DEF SelectInSeq
<1>2. I \in SUBSET Nat /\ I # {}
  BY OrderFacts
<1>3. at \in I
  BY <1>1, <1>2, MinIsLeast
<1>4. at \in 1..Len(lru) /\ lru[at] = b /\ Len(lru) \in Nat /\ lru \in Seq(Bufs)
  BY <1>3, OrderFacts DEF Order
<1>5. f = <<b>> \o (s \o t)
  BY DEF MoveToFront, RemoveAt
<1> HIDE DEF at
<1>6. /\ s \in Seq(Bufs) /\ Len(s) = at - 1 /\ \A i \in 1..at - 1 : s[i] = lru[i]
  <2>1. 1 \in Int /\ at - 1 \in Int /\ \A i \in 1..at - 1 : lru[i] \in Bufs
    BY <1>4, OrderFacts
  <2>2. /\ s \in Seq(Bufs) /\ Len(s) = IF 1 <= at - 1 THEN at - 1 - 1 + 1 ELSE 0
        /\ \A i \in 1..at - 1 - 1 + 1 : s[i] = lru[1 + i - 1]
    BY <2>1, SubSeqProperties
  <2> QED BY <1>4, <2>2
<1>7. /\ t \in Seq(Bufs) /\ Len(t) = Len(lru) - at
      /\ \A i \in 1..Len(lru) - at : t[i] = lru[at + i]
  <2>1. at + 1 \in Int /\ Len(lru) \in Int /\ \A i \in at + 1..Len(lru) : lru[i] \in Bufs
    BY <1>4, OrderFacts
  <2>2. /\ t \in Seq(Bufs)
        /\ Len(t) = IF at + 1 <= Len(lru) THEN Len(lru) - (at + 1) + 1 ELSE 0
        /\ \A i \in 1..Len(lru) - (at + 1) + 1 : t[i] = lru[at + 1 + i - 1]
    BY <2>1, SubSeqProperties
  <2> QED BY <1>4, <2>2
<1> HIDE DEF s, t
<1>8. /\ s \o t \in Seq(Bufs) /\ Len(s \o t) = Len(lru) - 1
      /\ \A i \in 1..Len(lru) - 1 : (s \o t)[i] = IF i <= at - 1 THEN lru[i] ELSE lru[i + 1]
  <2>1. /\ s \o t \in Seq(Bufs) /\ Len(s \o t) = Len(s) + Len(t)
        /\ \A i \in 1..Len(s) + Len(t) :
             (s \o t)[i] = IF i <= Len(s) THEN s[i] ELSE t[i - Len(s)]
    BY <1>6, <1>7, ConcatProperties
  <2>2. Len(s) = at - 1 /\ Len(s) + Len(t) = Len(lru) - 1
    BY <1>4, <1>6, <1>7
  <2> SUFFICES ASSUME NEW i \in 1..Len(lru) - 1
               PROVE  (s \o t)[i] = IF i <= at - 1 THEN lru[i] ELSE lru[i + 1]
    BY <2>1, <2>2
  <2>3. CASE i <= at - 1
    BY <1>4, <1>6, <2>1, <2>2, <2>3
  <2>4. CASE ~(i <= at - 1)
    <3>1. i - Len(s) \in 1..Len(lru) - at /\ at + (i - Len(s)) = i + 1
      BY <1>4, <2>2, <2>4
    <3>2. t[i - Len(s)] = lru[i + 1]
      BY <1>7, <3>1
    <3> QED BY <2>1, <2>2, <2>4, <3>2
  <2> QED BY <2>3, <2>4
<1>9. /\ f \in Seq(Bufs) /\ Len(f) = Len(lru) /\ f[1] = b
      /\ \A i \in 1..Len(lru) - 1 : f[i + 1] = (s \o t)[i]
  <2>1. <<b>> \in Seq(Bufs) /\ Len(<<b>>) = 1 /\ <<b>>[1] = b
    OBVIOUS
  <2>2. /\ f \in Seq(Bufs) /\ Len(f) = 1 + Len(s \o t)
        /\ \A i \in 1..1 + Len(s \o t) :
             f[i] = IF i <= 1 THEN <<b>>[i] ELSE (s \o t)[i - 1]
    BY <1>5, <1>8, <2>1, ConcatProperties
  <2>3. Len(f) = Len(lru)
    BY <1>4, <1>8, <2>2
  <2>4. f[1] = b
    BY <1>4, <1>8, <2>1, <2>2
  <2>5. ASSUME NEW i \in 1..Len(lru) - 1 PROVE f[i + 1] = (s \o t)[i]
    <3>1. i + 1 \in 1..1 + Len(s \o t) /\ ~(i + 1 <= 1) /\ i + 1 - 1 = i
      BY <1>4, <1>8
    <3> HIDE DEF f
    <3>2. f[i + 1] = (s \o t)[i + 1 - 1]
      BY <2>2, <3>1
    <3> QED BY <3>1, <3>2
  <2> QED BY <2>2, <2>3, <2>4, <2>5
<1> HIDE DEF f
<1>10. \A i \in 1..Len(lru) : \E j \in 1..Len(lru) : f[j] = lru[i]
  <2> SUFFICES ASSUME NEW i \in 1..Len(lru) PROVE \E j \in 1..Len(lru) : f[j] = lru[i]
    OBVIOUS
  <2>1. CASE i = at
    BY <1>4, <1>9, <2>1
  <2>2. CASE i < at
    <3>1. i \in 1..Len(lru) - 1 /\ i <= at - 1 /\ i + 1 \in 1..Len(lru)
      BY <1>4, <2>2
    <3> QED BY <1>8, <1>9, <3>1
  <2>3. CASE i > at
    <3>1. i - 1 \in 1..Len(lru) - 1 /\ ~(i - 1 <= at - 1) /\ i - 1 + 1 = i
      BY <1>4, <2>3
    <3>2. f[i - 1 + 1] = lru[i - 1 + 1]
      BY <1>8, <1>9, <3>1
    <3> QED BY <3>1, <3>2
  <2> QED BY <1>4, <2>1, <2>2, <2>3
<1>11. \A c \in Bufs : \E j \in 1..Len(f) : f[j] = c
  BY <1>9, <1>10, OrderFacts
<1>12. DOMAIN f = 1..Len(f) /\ \A j \in 1..Len(f) : f[j] \in Bufs
  BY <1>9, LenProperties
<1>13. ToSet(f) = Bufs
  BY <1>11, <1>12 DEF ToSet
<1> QED BY <1>9, <1>13, OrderFacts DEF f

-----------------------------------------------------------------------------
(* What has happened stays noted.                                          *)
LEMMA MishapsGrow ==
  ASSUME [Next]_vars
  PROVE  mishaps \subseteq mishaps'
<1> USE DEF ghostVars
<1>1. ASSUME NEW p \in Procs, NEW k \in Physical, Bget(p, k) PROVE mishaps \subseteq mishaps'
  BY <1>1 DEF Bget, BgetHit, BgetRecycle, BgetPanic, Note
<1>2. ASSUME NEW p \in Procs,
             AcquireSleep(p) \/ Acquire(p) \/ Bread(p) \/ LogWrite(p) \/ Bwrite(p)
             \/ Bunpin(p) \/ Brelse(p)
      PROVE  mishaps' = mishaps
  BY <1>2 DEF AcquireSleep, Acquire, Bread, ReadCached, ReadStart, ReadDone, LogWrite,
              Bwrite, BwriteStart, Write0Done, Write1Done, Bunpin, Brelse, BrelseUnlock,
              BrelseUnref
<1>3. ASSUME NEW p \in Procs, RawCall(p) PROVE mishaps \subseteq mishaps'
  BY <1>3 DEF RawCall, RawRead, RawWrite, RawWriteFails, Note
<1>4. ASSUME CommitStart \/ CommitEnd \/ Hook \/ UNCHANGED vars PROVE mishaps \subseteq mishaps'
  BY <1>4 DEF CommitStart, CommitEnd, Hook, ForceDiskFail, ForceFail, Failure, vars
<1> QED BY <1>1, <1>2, <1>3, <1>4 DEF Next

-----------------------------------------------------------------------------
(* The numbers of blocks.                                                  *)
LEMMA Numerals ==
  /\ DiskSize \in Nat \ {0} /\ Logical \subseteq Physical /\ NoBlock \notin Physical
  /\ \A k \in Logical : /\ k \in Int /\ Mirror(k) \in Physical /\ Mirror(k) \notin Logical
                        /\ k # -1
  /\ \A k, l \in Logical : k # l => Mirror(k) # Mirror(l)
  /\ ReadBlocks \subseteq Logical /\ WriteBlocks \subseteq Logical
  /\ RawBlocks \subseteq Physical
BY BcacheAssumption DEF Logical, Physical, Mirror, NoBlock

(* Who is inside a call has a buffer for its block; the holder of a        *)
(* sleep-lock has it alone; the log keeps the committer apart.             *)
LEMMA Facts ==
  ASSUME Sound
  PROVE  /\ \A p \in Procs : pc[p] # "idle" =>
              buf[p] \in Bufs /\ want[p] \in Physical /\ Home(buf[p]) = want[p]
         /\ \A p \in Procs \ RawUsers : pc[p] # "idle" => want[p] \in Logical
         /\ \A p \in Procs : pc[p] = "raw" => p \in RawUsers
         /\ \A p \in Procs :
              pc[p] \in {"locked", "reading", "held", "write0", "write1", "written"} =>
                p \notin RawUsers
         /\ \A p \in Procs : pc[p] \in {"write0", "write1", "written"} => p \in Committers
         /\ \A p, q \in Procs :
              pc[p] \in Holding /\ pc[q] \in Holding /\ buf[p] = buf[q] => p = q
         /\ \A p \in Updaters : pc[p] # "idle" => ~committing /\ want[p] \in WriteBlocks
         /\ \A p \in Committers : pc[p] # "idle" => committing /\ want[p] \in WriteBlocks
         /\ Outstanding \subseteq WriteBlocks /\ Outstanding \subseteq Logical
<1>1. \A p \in Procs : pc[p] # "idle" =>
        buf[p] \in Bufs /\ want[p] \in Physical /\ Home(buf[p]) = want[p]
  BY DEF Sound, Types, Roles, Numbers
<1>2. \A p \in Procs \ RawUsers : pc[p] # "idle" => want[p] \in Logical
  BY Numerals DEF Sound, Roles, Procs
<1>3. /\ \A p \in Procs : pc[p] = "raw" => p \in RawUsers
      /\ \A p \in Procs :
           pc[p] \in {"locked", "reading", "held", "write0", "write1", "written"} =>
             p \notin RawUsers
      /\ \A p \in Procs : pc[p] \in {"write0", "write1", "written"} => p \in Committers
  BY DEF Sound, Roles, Procs
<1>4. \A p, q \in Procs :
        pc[p] \in Holding /\ pc[q] \in Holding /\ buf[p] = buf[q] => p = q
  <2> SUFFICES ASSUME NEW p \in Procs, NEW q \in Procs, pc[p] \in Holding,
                      pc[q] \in Holding, buf[p] = buf[q]
               PROVE  p = q
    OBVIOUS
  <2>1. buf[p] \in Bufs
    BY <1>1 DEF Holding
  <2>2. owner[buf[p]] = p /\ owner[buf[p]] = q
    BY <2>1 DEF Sound, Sleeplocks
  <2> QED BY <2>2
<1>5. /\ \A p \in Updaters : pc[p] # "idle" => ~committing /\ want[p] \in WriteBlocks
      /\ \A p \in Committers : pc[p] # "idle" => committing /\ want[p] \in WriteBlocks
  BY DEF Sound, Types, Roles, Commits, Procs
<1>6. Outstanding \subseteq WriteBlocks /\ Outstanding \subseteq Logical
  BY Numerals DEF Sound, Types, Outstanding
<1> QED BY <1>1, <1>2, <1>3, <1>4, <1>5, <1>6

(* Where bread transfers from.                                             *)
LEMMA SourceFacts ==
  ASSUME Types, Hooks, NEW k \in Logical
  PROVE  /\ ReadSource(k) \in {k, Mirror(k), NoBlock}
         /\ "both" \notin mishaps => ReadSource(k) # NoBlock
         /\ "failure" \notin mishaps => ReadSource(k) = k
<1>1. k # NoBlock /\ Mirror(k) # NoBlock /\ k # -1 /\ k \in Physical /\ Mirror(k) \in Physical
  BY Numerals
<1> QED BY <1>1 DEF ReadSource, Hooks, Types

(* The changes under way are counted in the budget of versions.            *)
LEMMA PendingFacts ==
  /\ IsFiniteSet(Pending) /\ Cardinality(Pending) \in Nat
  /\ Pending # {} => Cardinality(Pending) > 0
<1>1. Pending \in SUBSET Procs
  BY DEF Pending, Procs
<1>2. IsFiniteSet(Pending) /\ Cardinality(Pending) \in Nat
  BY <1>1, BcacheAssumption, FS_Subset, FS_CardinalityType
<1>3. Pending # {} => Cardinality(Pending) # 0
  BY <1>2, FS_EmptySet
<1> QED BY <1>2, <1>3

(* A change that is made was pending.                                      *)
LEMMA VersionFacts ==
  ASSUME Sound, NEW p \in Procs, pc[p] \in {"raw", "held"}, p \in Updaters \cup RawUsers,
         version' = version + 1
  PROVE  version' \in 0..MaxVersion /\ version' > 0 /\ version' \in Contents
<1>1. p \in Pending
  BY DEF Pending
<1>2. version + Cardinality(Pending) <= MaxVersion /\ version \in 0..MaxVersion
  BY DEF Sound, Budget, Types
<1> QED BY <1>1, <1>2, PendingFacts, BcacheAssumption DEF Contents, Torn

-----------------------------------------------------------------------------
(* Each part of the invariant holds after each step.  A process that has   *)
(* its buffer goes on, keeping it and what it wants.                       *)
Onward(p) ==
  \/ Acquire(p) \/ Bread(p) \/ LogWrite(p) \/ Bwrite(p) \/ Bunpin(p) \/ BrelseUnlock(p)
  \/ RawCall(p)

LEMMA Moves ==
  ASSUME Sound, NEW p \in Procs, Onward(p)
  PROVE  /\ buf' = buf /\ want' = want /\ committing' = committing /\ pc[p] # "idle"
         /\ pc' = [pc EXCEPT ![p] = pc'[p]] /\ pc'[p] \in Points \ {"idle"}
         /\ UNCHANGED <<lru, hookVars, calls, panicked>>
         /\ toInstall' = IF Bunpin(p) THEN toInstall \ {want[p]} ELSE toInstall
         /\ pc[p] \notin Holding => pc[p] = "locking" /\ pc'[p] \in {"locked", "raw"}
         /\ pc'[p] \notin Holding => pc'[p] = "releasing" /\ pc[p] \in {"held", "done"}
         /\ p \in Readers => pc'[p] \in {"locked", "reading", "held", "releasing"}
         /\ p \in Updaters => pc'[p] \in {"locked", "reading", "held", "done", "releasing"}
         /\ p \in Committers =>
              /\ pc'[p] # "raw"
              /\ pc'[p] \in {"done", "releasing"} <=> Bunpin(p) \/ pc[p] = "done"
              /\ Bunpin(p) => pc[p] = "written"
         /\ p \in RawUsers => pc'[p] \in {"raw", "done", "releasing"}
         /\ p \notin Committers => ~Bunpin(p)
         /\ p \in Updaters \cup RawUsers =>
              pc[p] \in {"locking", "locked", "raw", "reading", "held", "done"}
<1> USE DEF bufVars, procVars, logVars, hookVars, ghostVars, locks, Sound, Types
<1>1. CASE Acquire(p) \/ ReadCached(p) \/ BrelseUnlock(p)
  BY <1>1, BcacheAssumption
  DEF Acquire, ReadCached, BrelseUnlock, Roles, Procs, Points, Holding, Bunpin
<1>2. CASE ReadStart(p) \/ ReadDone(p)
  BY <1>2, BcacheAssumption
  DEF ReadStart, ReadDone, Roles, Procs, Points, Holding, Bunpin
<1>3. CASE LogWrite(p)
  BY <1>3, BcacheAssumption DEF LogWrite, Roles, Procs, Points, Holding, Bunpin
<1>4. CASE BwriteStart(p) \/ Write0Done(p) \/ Write1Done(p)
  BY <1>4, BcacheAssumption
  DEF BwriteStart, Write0Done, Write1Done, GoOn, Roles, Procs, Points, Holding, Bunpin
<1>5. CASE Bunpin(p)
  BY <1>5, BcacheAssumption DEF Bunpin, Roles, Procs, Points, Holding
<1>6. CASE RawRead(p) \/ RawWrite(p)
  BY <1>6, BcacheAssumption DEF RawRead, RawWrite, Roles, Procs, Points, Holding, Bunpin
<1>7. CASE RawWriteFails(p)
  BY <1>7, BcacheAssumption DEF RawWriteFails, Roles, Procs, Points, Holding, Bunpin
<1> QED BY <1>1, <1>2, <1>3, <1>4, <1>5, <1>6, <1>7 DEF Onward, Bread, Bwrite, RawCall

(* The number of the buffer p works on, when p goes on.                    *)
LEMMA Renames ==
  ASSUME Sound, NEW p \in Procs, Onward(p)
  PROVE  /\ \A c \in Bufs : c # buf[p] => blockno'[c] = blockno[c] /\ owner'[c] = owner[c]
         /\ owner'[buf[p]] = IF pc'[p] \in Holding THEN p ELSE None
         /\ pc'[p] = "write1" => blockno'[buf[p]] = Mirror(want[p]) /\ p \in Committers
         /\ pc'[p] = "reading" =>
              /\ blockno'[buf[p]] \in {want[p], Mirror(want[p])}
              /\ "failure" \notin mishaps => blockno'[buf[p]] = want[p]
              /\ p \notin RawUsers
         /\ pc'[p] \notin {"reading", "write1"} => blockno'[buf[p]] = want[p]
         /\ blockno' \in [Bufs -> Physical \cup {NoBlock}]
         /\ owner' \in [Bufs -> Procs \cup {None}]
<1>0. /\ Types /\ Numbers /\ Roles /\ Sleeplocks /\ None \notin Procs
      /\ pc[p] # "idle" /\ buf[p] \in Bufs /\ want[p] \in Physical
      /\ p \notin RawUsers => want[p] \in Logical /\ Mirror(want[p]) \in Physical
  BY Facts, Moves, Numerals, BcacheAssumption DEF Sound
<1>1. CASE Acquire(p)
  <2>1. owner[buf[p]] = None /\ owner' = [owner EXCEPT ![buf[p]] = p] /\ blockno' = blockno
        /\ pc'[p] \in {"locked", "raw"}
    BY <1>0, <1>1 DEF Acquire, Types
  <2>2. blockno[buf[p]] = want[p]
    BY <1>0, <2>1 DEF Numbers, Home
  <2> QED BY <1>0, <2>1, <2>2 DEF Types, Holding
<1>2. CASE BrelseUnlock(p)
  <2>1. /\ owner' = [owner EXCEPT ![buf[p]] = None] /\ blockno' = blockno
        /\ pc'[p] = "releasing" /\ pc[p] \in {"done", "held"}
    BY <1>0, <1>2 DEF BrelseUnlock, Types
  <2> QED BY <1>0, <2>1 DEF Types, Holding, Numbers
<1>3. ASSUME ~Acquire(p), ~BrelseUnlock(p) 
      PROVE  owner' = owner /\ owner[buf[p]] = p /\ pc'[p] \in Holding
  <2>1. owner' = owner /\ pc[p] \in Holding /\ pc'[p] \in Holding
    BY <1>0, <1>3
    DEF Onward, Bread, ReadCached, ReadStart, ReadDone, LogWrite, Bwrite, BwriteStart,
        Write0Done, Write1Done, Bunpin, RawCall, RawRead, RawWrite, RawWriteFails, bufVars,
        locks, Holding, GoOn, Types
  <2> QED BY <1>0, <2>1 DEF Sleeplocks
<1>4. CASE ReadCached(p) \/ LogWrite(p) \/ Bunpin(p) \/ RawCall(p)
  <2>1. /\ pc[p] \in Holding \ {"reading", "write1"} /\ blockno' = blockno
        /\ pc'[p] \notin {"reading", "write1", "releasing", "locked", "raw"}
    BY <1>0, <1>4
    DEF ReadCached, LogWrite, Bunpin, RawCall, RawRead, RawWrite, RawWriteFails, Holding,
        bufVars, Types
  <2>2. ~Acquire(p) /\ ~BrelseUnlock(p)
    BY <1>0, <2>1 DEF Acquire, BrelseUnlock, Types
  <2> QED BY <1>0, <1>3, <2>1, <2>2 DEF Numbers, Types
<1>5. CASE ReadStart(p) \/ ReadDone(p)
  <2>1. /\ p \notin RawUsers /\ want[p] \in Logical
        /\ pc'[p] \notin {"releasing", "locked", "raw", "write1"}
    BY <1>0, <1>5 DEF ReadStart, ReadDone, Roles, Types
  <2>2. ReadSource(want[p]) \in {want[p], Mirror(want[p]), NoBlock}
        /\ ("failure" \notin mishaps => ReadSource(want[p]) = want[p])
    BY <2>1, SourceFacts DEF Sound
  <2>3. ~Acquire(p) /\ ~BrelseUnlock(p)
    BY <1>0, <2>1 DEF Acquire, BrelseUnlock, Types
  <2> QED BY <1>0, <1>3, <1>5, <2>1, <2>2, <2>3 DEF ReadStart, ReadDone, Types
<1>6. CASE BwriteStart(p) \/ Write0Done(p) \/ Write1Done(p)
  <2>1. /\ p \in Committers /\ p \notin RawUsers /\ pc[p] \in {"held", "write0", "write1"}
    BY <1>0, <1>6, BcacheAssumption DEF BwriteStart, Write0Done, Write1Done, Roles, Procs
  <2>2. \/ GoOn(p, TRUE) \/ GoOn(p, FALSE)
        \/ pc[p] = "held" /\ pc' = [pc EXCEPT ![p] = "write0"] /\ blockno' = blockno
    BY <1>0, <1>6 DEF BwriteStart, Write0Done, Write1Done, Types, SkipPbn1
  <2>3. pc[p] = "held" => blockno[buf[p]] = want[p]
    BY <1>0 DEF Numbers, Holding
  <2>4. pc'[p] \notin {"releasing", "locked", "raw", "reading"}
    BY <1>0, <2>2 DEF GoOn, Types
  <2>5. ~Acquire(p) /\ ~BrelseUnlock(p)
    BY <1>0, <2>4 DEF Acquire, BrelseUnlock, Types
  <2> QED BY <1>0, <1>3, <2>1, <2>2, <2>3, <2>5 DEF GoOn, Types
<1> QED BY <1>1, <1>2, <1>4, <1>5, <1>6 DEF Onward, Bread, Bwrite

(* Its buffer, and every other, stays the buffer of the same block.        *)
LEMMA SameBlocks ==
  ASSUME Sound, NEW p \in Procs, Onward(p)
  PROVE  \A c \in Bufs : Home(c)' = Home(c)
<1>0. /\ Sleeplocks /\ buf' = buf /\ want' = want /\ pc[p] # "idle" /\ buf[p] \in Bufs
      /\ \A q \in Procs : q # p => pc'[q] = pc[q]
      /\ Home(buf[p]) = want[p] /\ None \notin Procs /\ Types
  BY Facts, Moves, BcacheAssumption DEF Sound, Types
<1>1. ASSUME NEW c \in Bufs, c # buf[p] PROVE Home(c)' = Home(c)
  <2>1. blockno'[c] = blockno[c] /\ owner'[c] = owner[c] /\ owner[c] # p
    BY <1>0, <1>1, Renames DEF Sleeplocks
  <2>2. owner[c] # None => owner[c] \in Procs
    BY <1>0, <1>1 DEF Types
  <2> QED BY <1>0, <2>1, <2>2 DEF Home, InTransfer
<1>2. Home(buf[p])' = want[p]
  <2>1. CASE InTransfer(p)'
    <3>1. pc'[p] \in Holding
      BY <2>1 DEF InTransfer, Holding
    <3> QED BY <1>0, <2>1, <3>1, Renames DEF Home
  <2>2. CASE ~InTransfer(p)'
    <3>1. blockno'[buf[p]] = want[p]
      BY <2>2, Renames DEF InTransfer
    <3>2. owner'[buf[p]] \in {p, None}
      BY Renames
    <3> QED BY <1>0, <2>2, <3>1, <3>2 DEF Home
  <2> QED BY <2>1, <2>2
<1>3. Home(buf[p])' = Home(buf[p])
  BY <1>0, <1>2
<1>4. PICK b \in Bufs : b = buf[p]
  BY <1>0
<1>5. Home(b)' = Home(b)
  BY <1>0, <1>3, <1>4 DEF Home
<1> QED BY <1>1, <1>4, <1>5

(* bget gives a process the buffer of the block it asks for, or one nobody *)
(* refers to if there is none.                                             *)
Takes(p, k, b) ==
  /\ pc[p] = "idle" /\ MayAsk(p, k) /\ ~panicked /\ k \in Physical /\ b \in Bufs
  /\ buf' = [buf EXCEPT ![p] = b] /\ want' = [want EXCEPT ![p] = k]
  /\ pc' = [pc EXCEPT ![p] = "locking"]
  /\ \/ /\ Home(b) = k /\ refcnt' = [refcnt EXCEPT ![b] = @ + 1]
        /\ blockno' = blockno /\ valid' = valid
     \/ /\ \A c \in Bufs : Home(c) # k
        /\ refcnt[b] = 0 /\ refcnt' = [refcnt EXCEPT ![b] = 1]
        /\ blockno' = [blockno EXCEPT ![b] = k] /\ valid' = [valid EXCEPT ![b] = FALSE]
  /\ CountCall(p) /\ mishaps' = mishaps
  /\ UNCHANGED <<lru, data, locks, disk, hookVars, mirrorToo, logVars, current, version,
                 panicked>>

(* A step at which no process moves.                                       *)
Still ==
  /\ UNCHANGED <<lru, pc, buf, want, blockno, valid, refcnt, data, owner, disk, mirrorToo,
                 current, version, calls>>
  /\ asleep' \subseteq Procs /\ (panicked' # panicked => \E p, k : BgetPanic(p, k))
  /\ \/ CommitStart \/ CommitEnd
     \/ UNCHANGED logVars /\ (Hook \/ UNCHANGED <<hookVars, mishaps>>)

(* bget is not asked for a renamed block: it finds the buffer of the block *)
(* if there is one.                                                        *)
LEMMA Unrenamed ==
  ASSUME Sound, NEW k \in Physical, ~Renamed(k)
  PROVE  \A c \in Bufs : blockno[c] = k <=> Home(c) = k
<1> SUFFICES ASSUME NEW c \in Bufs PROVE blockno[c] = k <=> Home(c) = k
  OBVIOUS
<1>1. CASE owner[c] # None /\ InTransfer(owner[c])
  <2>1. PICK q \in Procs : owner[c] = q
    BY <1>1 DEF Sound, Types
  <2>2. buf[q] = c
    BY <2>1 DEF Sound, Sleeplocks
  <2>3. Home(c) = want[q] /\ InTransfer(q)
    BY <1>1, <2>1 DEF Home
  <2> QED BY <2>2, <2>3 DEF Renamed
<1>2. CASE ~(owner[c] # None /\ InTransfer(owner[c]))
  BY <1>2 DEF Home
<1> QED BY <1>1, <1>2

LEMMA Kinds ==
  ASSUME Sound, Tidy', [Next]_vars
  PROVE  \/ \E p \in Procs : Onward(p)
         \/ \E p \in Procs, k \in Physical, b \in Bufs : Takes(p, k, b)
         \/ \E p \in Procs : BrelseUnref(p)
         \/ Still
<1> USE DEF bufVars, procVars, logVars, hookVars, ghostVars, locks
<1>0. Order /\ Types
  BY DEF Sound
<1>1. ASSUME NEW p \in Procs, NEW k \in Physical, BgetHit(p, k)
      PROVE  \E b \in Bufs : Takes(p, k, b)
  <2>1. lru[HitAt(k)] \in Bufs /\ blockno[lru[HitAt(k)]] = k
    BY <1>0, <1>1, HitFacts DEF BgetHit
  <2>2. ~Renamed(k) /\ mishaps' = mishaps
    BY <1>1 DEF BgetHit, Note, Tidy
  <2>3. Home(lru[HitAt(k)]) = k
    BY <2>1, <2>2, Unrenamed
  <2>4. Takes(p, k, lru[HitAt(k)])
    BY <1>1, <2>1, <2>2, <2>3 DEF BgetHit, Takes
  <2> QED BY <2>1, <2>4
<1>2. ASSUME NEW p \in Procs, NEW k \in Physical, BgetRecycle(p, k)
      PROVE  \E b \in Bufs : Takes(p, k, b)
  <2>1. /\ lru[VictimAt] \in Bufs /\ refcnt[lru[VictimAt]] = 0
        /\ \A c \in Bufs : blockno[c] # k
    BY <1>0, <1>2, VictimFacts, HitFacts DEF BgetRecycle
  <2>2. ~Renamed(k) /\ mishaps' = mishaps
    BY <1>2 DEF BgetRecycle, Note, Tidy
  <2>3. \A c \in Bufs : Home(c) # k
    BY <2>1, <2>2, Unrenamed
  <2>4. Takes(p, k, lru[VictimAt])
    BY <1>2, <2>1, <2>2, <2>3 DEF BgetRecycle, Recycle, Takes
  <2> QED BY <2>1, <2>4
<1>3. ASSUME NEW p \in Procs, NEW k \in Physical, BgetPanic(p, k) PROVE Still
  <2>1. mishaps' = mishaps
    BY <1>3 DEF BgetPanic, Note, Tidy
  <2> QED BY <1>0, <1>3, <2>1 DEF BgetPanic, Still, Types
<1>4. CASE CommitStart \/ CommitEnd
  BY <1>0, <1>4 DEF CommitStart, CommitEnd, Still, Types
<1>5. CASE Hook \/ UNCHANGED vars
  BY <1>0, <1>5 DEF Hook, ForceDiskFail, ForceFail, vars, Still, Types
<1>6. ASSUME NEW p \in Procs, AcquireSleep(p) PROVE Still
  BY <1>0, <1>6 DEF AcquireSleep, Still, Types
<1> QED BY <1>1, <1>2, <1>3, <1>4, <1>5, <1>6 DEF Next, Bget, Brelse, Onward

LEMMA OrderNext ==
  ASSUME Sound, Tidy', [Next]_vars
  PROVE  Order'
<1>0. Order
  BY DEF Sound
<1>1. ASSUME NEW p \in Procs, BrelseUnref(p) PROVE Order'
  <2>1. buf[p] \in Bufs
    BY <1>1, Facts DEF BrelseUnref
  <2>2. lru' = MoveToFront(buf[p]) \/ lru' = lru
    BY <1>1 DEF BrelseUnref
  <2> QED BY <1>0, <2>1, <2>2, FrontFacts DEF Order
<1>2. CASE lru' = lru
  BY <1>0, <1>2 DEF Order
<1>3. lru' = lru \/ \E p \in Procs : BrelseUnref(p)
  BY Kinds, Moves DEF Takes, Still
<1> QED BY <1>1, <1>2, <1>3

(* A buffer nobody refers to has no user, and no logged change in it.      *)
LEMMA FreeFacts ==
  ASSUME Sound, NEW b \in Bufs
  PROVE  /\ IsFiniteSet(Users(b)) /\ Cardinality(Users(b)) \in Nat
         /\ refcnt[b] = 0 => /\ Home(b) \notin Outstanding /\ owner[b] = None
                            /\ Home(b) = blockno[b]
                            /\ \A q \in Procs : buf[q] # b
<1>1. Users(b) \in SUBSET Procs
  BY DEF Users
<1>2. IsFiniteSet(Users(b)) /\ Cardinality(Users(b)) \in Nat
  BY <1>1, BcacheAssumption, FS_Subset, FS_CardinalityType
<1>3. refcnt[b] = 0 => Cardinality(Users(b)) = 0 /\ Home(b) \notin Outstanding
  BY <1>2 DEF Sound, Counts
<1>4. refcnt[b] = 0 => Users(b) = {}
  BY <1>2, <1>3, FS_EmptySet
<1>5. (\A q \in Procs : buf[q] # b) => owner[b] = None
  BY DEF Sound, Sleeplocks, Types
<1> QED BY <1>2, <1>3, <1>4, <1>5 DEF Users, Home

(* Nor do the other steps change what block a buffer is for, but for the   *)
(* one that bget recycles.                                                 *)
LEMMA OtherBlocks ==
  ASSUME Sound
  PROVE  /\ \A p \in Procs, k \in Physical, b \in Bufs : Takes(p, k, b) =>
              /\ Home(b)' = k
              /\ \A c \in Bufs : c # b => Home(c)' = Home(c)
              /\ Home(b) # k => \A c \in Bufs : Home(c) # k
              /\ Home(b) # k => refcnt[b] = 0
         /\ \A p \in Procs : BrelseUnref(p) => \A c \in Bufs : Home(c)' = Home(c)
         /\ Still => \A c \in Bufs : Home(c)' = Home(c)
<1>0. Sleeplocks /\ Types /\ None \notin Procs
  BY BcacheAssumption DEF Sound
<1>1. ASSUME NEW p \in Procs, NEW k \in Physical, NEW b \in Bufs, Takes(p, k, b)
      PROVE  /\ Home(b)' = k
             /\ \A c \in Bufs : c # b => Home(c)' = Home(c)
             /\ Home(b) # k => \A c \in Bufs : Home(c) # k
             /\ Home(b) # k => refcnt[b] = 0
  <2>1. /\ owner' = owner /\ want' = [want EXCEPT ![p] = k]
        /\ pc' = [pc EXCEPT ![p] = "locking"] /\ pc[p] = "idle"
        /\ \A c \in Bufs : c # b => blockno'[c] = blockno[c]
    BY <1>0, <1>1 DEF Takes, locks, Types
  <2>2. ASSUME NEW c \in Bufs, blockno'[c] = blockno[c] PROVE Home(c)' = Home(c)
    <3>1. owner[c] # p
      BY <1>0, <2>1 DEF Sleeplocks, Holding
    <3>2. owner[c] # None => owner[c] \in Procs
      BY <1>0 DEF Types
    <3> QED BY <1>0, <2>1, <2>2, <3>1, <3>2 DEF Home, InTransfer, Types
  <2>3. CASE Home(b) = k /\ blockno' = blockno
    BY <2>2, <2>3
  <2>4. CASE refcnt[b] = 0 /\ blockno' = [blockno EXCEPT ![b] = k]
             /\ \A c \in Bufs : Home(c) # k
    <3>1. owner[b] = None
      BY <2>4, FreeFacts
    <3>2. Home(b)' = k
      BY <1>0, <2>1, <2>4, <3>1 DEF Home, Types
    <3> QED BY <2>1, <2>2, <2>4, <3>2
  <2> QED BY <1>1, <2>3, <2>4 DEF Takes
<1>2. ASSUME NEW p \in Procs, BrelseUnref(p), NEW c \in Bufs PROVE Home(c)' = Home(c)
  <2>1. owner' = owner /\ blockno' = blockno /\ pc[p] = "releasing"
        /\ \A q \in Procs : q # p => want'[q] = want[q] /\ pc'[q] = pc[q]
    BY <1>0, <1>2 DEF BrelseUnref, locks, Types
  <2>2. owner[c] # p
    BY <1>0, <2>1 DEF Sleeplocks, Holding
  <2>3. owner[c] # None => owner[c] \in Procs
    BY <1>0 DEF Types
  <2> QED BY <2>1, <2>2, <2>3 DEF Home, InTransfer
<1>3. ASSUME Still, NEW c \in Bufs PROVE Home(c)' = Home(c)
  BY <1>3 DEF Still, Home, InTransfer
<1> QED BY <1>1, <1>2, <1>3

LEMMA TypesNext ==
  ASSUME Sound, Tidy', [Next]_vars
  PROVE  Types'
<1> USE DEF bufVars, procVars, logVars, hookVars, ghostVars, locks
<1>0. Types /\ Order /\ Holding \subseteq Points
  BY DEF Sound, Points
<1>1. ASSUME NEW p \in Procs, NEW k \in Physical, NEW b \in Bufs, Takes(p, k, b) PROVE Types'
  <2>1. /\ blockno' = blockno \/ blockno' = [blockno EXCEPT ![b] = k]
        /\ valid' = valid \/ valid' = [valid EXCEPT ![b] = FALSE]
        /\ refcnt' = [refcnt EXCEPT ![b] = @ + 1] \/ refcnt' = [refcnt EXCEPT ![b] = 1]
        /\ buf' = [buf EXCEPT ![p] = b]
        /\ want' = [want EXCEPT ![p] = k] /\ pc' = [pc EXCEPT ![p] = "locking"]
        /\ UNCHANGED <<data, owner, asleep, disk, failDisk, failBlock, mirrorToo, logged,
                       toInstall, committing, current, version, panicked, mishaps>>
    BY <1>1 DEF Takes
  <2>2. /\ blockno' \in [Bufs -> Physical \cup {NoBlock}] /\ valid' \in [Bufs -> BOOLEAN]
        /\ refcnt' \in [Bufs -> Int]
    <3>1. blockno' \in [Bufs -> Physical \cup {NoBlock}]
      BY <1>0, <2>1 DEF Types
    <3>2. valid' \in [Bufs -> BOOLEAN]
      BY <1>0, <2>1 DEF Types
    <3>3. refcnt' \in [Bufs -> Int]
      BY <1>0, <2>1 DEF Types
    <3> QED BY <3>1, <3>2, <3>3
  <2>3. calls' \in 0..MaxCalls
    BY <1>0, <1>1, BcacheAssumption DEF Takes, CountCall, MayAsk, Types
  <2> QED BY <1>0, <2>1, <2>2, <2>3 DEF Types, Points
<1>2. ASSUME NEW p \in Procs, Onward(p)
      PROVE  /\ UNCHANGED <<failDisk, failBlock, buf, want, committing, calls, panicked>>
             /\ blockno' \in [Bufs -> Physical \cup {NoBlock}]
             /\ owner' \in [Bufs -> Procs \cup {None}]
             /\ pc' \in [Procs -> Points]
             /\ buf[p] \in Bufs /\ want[p] \in Physical
             /\ pc[p] \in Holding => blockno[buf[p]] \in Physical
  <2>1. /\ buf' = buf /\ want' = want /\ committing' = committing
        /\ UNCHANGED <<hookVars, calls, panicked>>
        /\ pc' = [pc EXCEPT ![p] = pc'[p]] /\ pc'[p] \in Points /\ pc[p] # "idle"
    BY <1>2, Moves
  <2>2. pc' \in [Procs -> Points]
    BY <1>0, <2>1 DEF Types
  <2>3. buf[p] \in Bufs /\ want[p] \in Physical
    BY <2>1, Facts
  <2>4. ASSUME pc[p] \in Holding PROVE blockno[buf[p]] \in Physical
    <3>1. pc[p] \in {"reading", "write1"} => want[p] \in Logical
      BY <2>1, Facts
    <3> QED BY <2>1, <2>3, <2>4, <3>1, Numerals DEF Sound, Numbers
  <2> QED BY <1>2, <2>1, <2>2, <2>3, <2>4, Renames
<1>3. ASSUME NEW p \in Procs, Acquire(p) \/ ReadCached(p) \/ BrelseUnlock(p) PROVE Types'
  <2>1. Onward(p)
    BY <1>3 DEF Onward, Bread
  <2>2. /\ UNCHANGED <<valid, refcnt, data, disk, mirrorToo, logged, toInstall, current,
                       version, mishaps>>
        /\ asleep' \subseteq asleep
    BY <1>3 DEF Acquire, ReadCached, BrelseUnlock
  <2> QED BY <1>0, <1>2, <2>1, <2>2 DEF Types
<1>4. ASSUME NEW p \in Procs, ReadStart(p) \/ ReadDone(p) \/ BwriteStart(p) \/ Write0Done(p)
                              \/ Write1Done(p)
      PROVE  Types'
  <2>1. Onward(p) /\ pc[p] \in Holding
    BY <1>4 DEF Onward, Bread, Bwrite, ReadStart, ReadDone, BwriteStart, Write0Done, Write1Done,
                Holding
  <2>2. buf[p] \in Bufs /\ blockno[buf[p]] \in Physical
    BY <1>2, <2>1
  <2>3. /\ valid' = valid \/ valid' = [valid EXCEPT ![buf[p]] = TRUE]
        /\ data' = data \/ data' = [data EXCEPT ![buf[p]] = disk[blockno[buf[p]]]]
        /\ disk' = disk \/ disk' = [disk EXCEPT ![blockno[buf[p]]] = data[buf[p]]]
        /\ mirrorToo' = mirrorToo \/ mirrorToo' = [mirrorToo EXCEPT ![p] = ~(failDisk = 1)]
        /\ UNCHANGED <<refcnt, asleep, logged, toInstall, current, version, mishaps>>
    BY <1>4 DEF ReadStart, ReadDone, BwriteStart, Write0Done, Write1Done, SkipPbn1
  <2>4. (~(failDisk = 1)) \in BOOLEAN
    OBVIOUS
  <2>5. data' \in [Bufs -> Contents] /\ disk' \in [Physical -> Contents]
    BY <1>0, <2>2, <2>3 DEF Types
  <2>6. valid' \in [Bufs -> BOOLEAN] /\ mirrorToo' \in [Procs -> BOOLEAN]
    BY <1>0, <2>3, <2>4, Zenon DEF Types
  <2> QED BY <1>0, <1>2, <2>1, <2>3, <2>5, <2>6 DEF Types
<1>5. ASSUME NEW p \in Procs, LogWrite(p) PROVE Types'
  <2>1. p \in Updaters /\ pc[p] = "held" /\ version' = version + 1 /\ Onward(p)
    BY <1>5 DEF LogWrite, Onward
  <2>2. version' \in 0..MaxVersion /\ version' \in Contents
    BY <2>1, VersionFacts
  <2>3. want[p] \in WriteBlocks /\ want[p] \in Logical /\ blockno[buf[p]] = want[p]
    BY <2>1, Facts, Numerals DEF Sound, Numbers, Holding
  <2>4. /\ data' = [data EXCEPT ![buf[p]] = version']
        /\ current' = [current EXCEPT ![want[p]] = version']
        /\ UNCHANGED <<valid, asleep, disk, mirrorToo, toInstall, mishaps>>
        /\ logged' = logged \/ logged' = logged \cup {blockno[buf[p]]}
        /\ refcnt' = refcnt \/ refcnt' = [refcnt EXCEPT ![buf[p]] = @ + 1]
    BY <1>5 DEF LogWrite, Record
  <2>5. data' \in [Bufs -> Contents] /\ refcnt' \in [Bufs -> Int]
    <3>1. data' \in [Bufs -> Contents]
      BY <1>0, <2>2, <2>4 DEF Types
    <3>2. refcnt' \in [Bufs -> Int]
      BY <1>0, <2>4 DEF Types
    <3> QED BY <3>1, <3>2
  <2>6. current' \in [Logical -> 0..MaxVersion] /\ logged' \subseteq WriteBlocks
        /\ toInstall' \subseteq logged'
    BY <1>0, <2>2, <2>3, <2>4 DEF Types
  <2> QED BY <1>0, <1>2, <2>1, <2>2, <2>4, <2>5, <2>6 DEF Types
<1>6. ASSUME NEW p \in Procs, Bunpin(p) PROVE Types'
  <2>1. /\ refcnt' = [refcnt EXCEPT ![buf[p]] = @ - 1] /\ toInstall' = toInstall \ {want[p]}
        /\ UNCHANGED <<valid, data, asleep, disk, mirrorToo, logged, current, version, mishaps>>
        /\ Onward(p)
    BY <1>6 DEF Bunpin, Onward
  <2>2. toInstall' \subseteq logged'
    BY <1>0, <2>1 DEF Types
  <2>3. refcnt' \in [Bufs -> Int]
    <3>1. buf[p] \in Bufs
      BY <1>2, <2>1
    <3>2. refcnt' = [refcnt EXCEPT ![buf[p]] = @ - 1] /\ refcnt \in [Bufs -> Int]
      BY <1>0, <2>1 DEF Types
    <3> QED BY <3>1, <3>2
  <2> QED BY <1>0, <1>2, <2>1, <2>2, <2>3 DEF Types
<1>7. ASSUME NEW p \in Procs, RawRead(p) \/ RawWriteFails(p) PROVE Types'
  <2>1. pc[p] \in Holding /\ Onward(p)
    BY <1>7 DEF RawRead, RawWriteFails, Onward, RawCall, Holding
  <2>2. /\ UNCHANGED <<valid, refcnt, asleep, disk, mirrorToo, logged, toInstall, current,
                       version>>
        /\ mishaps' \subseteq mishaps \cup {"overwritten"}
        /\ \E d \in {disk[blockno[buf[p]]], data[buf[p]], Torn} :
             data' = [data EXCEPT ![buf[p]] = d]
    BY <1>7 DEF RawRead, RawWriteFails, Note
  <2>3. data' \in [Bufs -> Contents]
    <3>1. PICK d \in {disk[blockno[buf[p]]], data[buf[p]], Torn} :
             data' = [data EXCEPT ![buf[p]] = d]
      BY <2>2
    <3>2. Torn \in Contents
      BY BcacheAssumption DEF Contents, Torn
    <3>3. d \in Contents
      BY <1>0, <1>2, <2>1, <3>1, <3>2 DEF Types
    <3> QED BY <1>0, <3>1, <3>3 DEF Types
  <2>4. mishaps' \subseteq Mishaps
    BY <1>0, <2>2 DEF Types, Mishaps
  <2> QED BY <1>0, <1>2, <2>1, <2>2, <2>3, <2>4 DEF Types
<1>8. ASSUME NEW p \in Procs, RawWrite(p) PROVE Types'
  <2>1. pc[p] = "raw" /\ version' = version + 1 /\ p \in RawUsers /\ Onward(p)
        /\ pc[p] \in Holding
    BY <1>8, Facts DEF RawWrite, Onward, RawCall, Holding
  <2>2. version' \in 0..MaxVersion /\ version' \in Contents
    BY <2>1, VersionFacts
  <2>3. blockno[buf[p]] \in Physical /\ buf[p] \in Bufs
    BY <1>2, <2>1
  <2>4. /\ data' = [data EXCEPT ![buf[p]] = version']
        /\ valid' = [valid EXCEPT ![buf[p]] = TRUE]
        /\ disk' = [disk EXCEPT ![blockno[buf[p]]] = version']
        /\ current' = IF want[p] \in Logical THEN [current EXCEPT ![want[p]] = version']
                      ELSE current
        /\ UNCHANGED <<refcnt, asleep, mirrorToo, logged, toInstall>>
        /\ mishaps' \subseteq mishaps \cup {"overwritten", "unmirrored"}
    BY <1>8 DEF RawWrite, Note
  <2>5. valid' \in [Bufs -> BOOLEAN] /\ mishaps' \subseteq Mishaps
    BY <1>0, <2>4 DEF Types, Mishaps
  <2>6. current' \in [Logical -> 0..MaxVersion]
    BY <1>0, <2>2, <2>4 DEF Types
  <2>7. data' \in [Bufs -> Contents] /\ disk' \in [Physical -> Contents]
    BY <1>0, <2>2, <2>3, <2>4 DEF Types
  <2> QED BY <1>0, <1>2, <2>1, <2>2, <2>4, <2>5, <2>6, <2>7 DEF Types
<1>9. ASSUME NEW p \in Procs, BrelseUnref(p) PROVE Types'
  <2>1. /\ refcnt' = [refcnt EXCEPT ![buf[p]] = @ - 1] /\ pc' = [pc EXCEPT ![p] = "idle"]
        /\ buf' = [buf EXCEPT ![p] = None] /\ want' = [want EXCEPT ![p] = NoBlock]
        /\ mirrorToo' = [mirrorToo EXCEPT ![p] = FALSE]
        /\ UNCHANGED <<blockno, valid, data, owner, asleep, disk, failDisk, failBlock, logged,
                       toInstall, committing, current, version, calls, panicked, mishaps>>
    BY <1>9 DEF BrelseUnref
  <2>2. mirrorToo' \in [Procs -> BOOLEAN]
    BY <1>0, <2>1 DEF Types
  <2>3. buf[p] \in Bufs
    BY <1>9, Facts DEF BrelseUnref
  <2> QED BY <1>0, <2>1, <2>2, <2>3 DEF Types, Points
<1>10. CASE Still
  <2>1. /\ failDisk' \in -1..1 /\ failBlock' \in -1..(DiskSize - 1) /\ mishaps' \subseteq Mishaps
        /\ logged' \subseteq WriteBlocks /\ toInstall' \subseteq logged' /\ committing' \in BOOLEAN
    <3>1. CASE CommitStart \/ CommitEnd
      BY <1>0, <3>1 DEF CommitStart, CommitEnd, Types
    <3>2. CASE UNCHANGED logVars /\ Hook
      BY <1>0, <3>2, BcacheAssumption
      DEF Hook, ForceDiskFail, ForceFail, Failure, Mishaps, Types
    <3>3. CASE UNCHANGED logVars /\ UNCHANGED <<hookVars, mishaps>>
      BY <1>0, <3>3 DEF Types
    <3> QED BY <1>10, <3>1, <3>2, <3>3 DEF Still
  <2>2. panicked' \in BOOLEAN
    BY <1>0, <1>10 DEF Still, BgetPanic, Types
  <2> QED BY <1>0, <1>10, <2>1, <2>2 DEF Still, Types
<1> QED
  BY <1>1, <1>3, <1>4, <1>5, <1>6, <1>7, <1>8, <1>9, <1>10, Kinds
  DEF Onward, Bread, Bwrite, RawCall

LEMMA HooksNext ==
  ASSUME Sound, Tidy', [Next]_vars
  PROVE  Hooks'
<1>0. Hooks /\ mishaps \subseteq mishaps'
  BY MishapsGrow DEF Sound
<1>1. CASE UNCHANGED hookVars
  BY <1>0, <1>1 DEF hookVars, Hooks
<1>2. CASE Hook
  BY <1>0, <1>2, BcacheAssumption DEF Hook, ForceDiskFail, ForceFail, Failure, Hooks
<1>3. UNCHANGED hookVars \/ Hook
  BY Kinds, Moves DEF Takes, Still, BrelseUnref, CommitStart, CommitEnd
<1> QED BY <1>1, <1>2, <1>3

LEMMA RolesNext ==
  ASSUME Sound, Tidy', [Next]_vars
  PROVE  Roles'
<1>0. Roles /\ Types /\ None \notin Bufs /\ NoBlock \notin Physical
  BY Numerals, BcacheAssumption DEF Sound
<1>1. ASSUME NEW p \in Procs, Onward(p) PROVE Roles'
  <2>1. \A q \in Procs : q # p => pc'[q] = pc[q]
    BY <1>0, <1>1, Moves DEF Types
  <2>2. buf' = buf /\ want' = want /\ pc[p] # "idle" /\ pc'[p] # "idle"
    BY <1>1, Moves
  <2>3. ASSUME NEW q \in Procs, q # p
        PROVE  Roles!(q)'
    BY <1>0, <2>1, <2>2, <2>3 DEF Roles
  <2>4. Roles!(p)'
    BY <1>0, <1>1, <2>2, Moves DEF Roles
  <2> QED BY <2>3, <2>4 DEF Roles
<1>2. ASSUME NEW p \in Procs, NEW k \in Physical, NEW b \in Bufs, Takes(p, k, b) PROVE Roles'
  <2>1. /\ p \in Readers => k \in ReadBlocks
        /\ p \in Updaters \cup Committers => k \in WriteBlocks
        /\ p \in RawUsers => k \in RawBlocks
    BY <1>0, <1>2, BcacheAssumption DEF Takes, MayAsk, Types
  <2> QED BY <1>0, <1>2, <2>1 DEF Takes, Roles, Types
<1>3. ASSUME NEW p \in Procs, BrelseUnref(p) PROVE Roles'
  BY <1>0, <1>3 DEF BrelseUnref, Roles, Types
<1>4. CASE Still
  BY <1>0, <1>4 DEF Still, Roles
<1> QED BY <1>1, <1>2, <1>3, <1>4, Kinds

LEMMA BudgetNext ==
  ASSUME Sound, Tidy', [Next]_vars
  PROVE  Budget'
<1>0. Budget /\ Types /\ Roles /\ version \in Nat
  BY BcacheAssumption DEF Sound, Types
<1>1. ASSUME NEW p \in Procs, Onward(p), version' = version PROVE Budget'
  <2>1. Pending' \in SUBSET Pending
    <3>1. \A q \in Procs : q # p => pc'[q] = pc[q]
      BY <1>0, <1>1, Moves DEF Types
    <3>2. ASSUME p \in Updaters \cup RawUsers, pc[p] = "done" PROVE pc'[p] = "releasing"
      BY <1>0, <1>1, <3>2, BcacheAssumption
      DEF Onward, Acquire, Bread, ReadCached, ReadStart, ReadDone, LogWrite, Bwrite,
          BwriteStart, Write0Done, Write1Done, Bunpin, BrelseUnlock, RawCall, RawRead,
          RawWrite, RawWriteFails, Types
    <3>3. p \in Updaters \cup RawUsers =>
            pc[p] \in {"locking", "locked", "raw", "reading", "held", "done"}
      BY <1>1, Moves
    <3>4. p \in Pending' => p \in Pending
      BY <3>2, <3>3 DEF Pending
    <3> QED BY <3>1, <3>4 DEF Pending, Procs
  <2>2. Cardinality(Pending') <= Cardinality(Pending) /\ Cardinality(Pending') \in Nat
    BY <2>1, PendingFacts, FS_Subset, FS_CardinalityType
  <2> QED BY <1>0, <1>1, <2>2, PendingFacts, BcacheAssumption DEF Budget
<1>2. ASSUME NEW p \in Procs, LogWrite(p) \/ RawWrite(p) PROVE Budget'
  <2>1. /\ version' = version + 1 /\ pc' = [pc EXCEPT ![p] = "done"]
        /\ p \in Updaters \cup RawUsers /\ pc[p] \in {"raw", "held"}
    BY <1>2, Facts DEF LogWrite, RawWrite
  <2>2. Pending' = Pending \ {p} /\ p \in Pending
    BY <1>0, <2>1 DEF Pending, Types, Procs
  <2>3. Cardinality(Pending') = Cardinality(Pending) - 1
    BY <2>2, PendingFacts, FS_RemoveElement
  <2> QED BY <1>0, <2>1, <2>3, PendingFacts, BcacheAssumption DEF Budget
<1>3. ASSUME NEW p \in Procs, NEW k \in Physical, NEW b \in Bufs, Takes(p, k, b) PROVE Budget'
  <2>1. version' = version /\ pc' = [pc EXCEPT ![p] = "locking"]
    BY <1>3 DEF Takes
  <2>2. CASE p \in Updaters \cup RawUsers
    <3>1. version + Cardinality(Pending) < MaxVersion
      BY <1>3, <2>2, BcacheAssumption DEF Takes, MayAsk, MayChange
    <3>2. Pending' = Pending \cup {p}
      BY <1>0, <2>1, <2>2 DEF Pending, Types, Procs
    <3>3. Cardinality(Pending') <= Cardinality(Pending) + 1 /\ Cardinality(Pending') \in Nat
      BY <3>2, PendingFacts, FS_AddElement
    <3> QED BY <1>0, <2>1, <3>1, <3>3, PendingFacts, BcacheAssumption DEF Budget
  <2>3. CASE p \notin Updaters \cup RawUsers
    <3>1. Pending' = Pending
      BY <1>0, <2>1, <2>3 DEF Pending, Types, Procs
    <3> QED BY <1>0, <2>1, <3>1 DEF Budget
  <2> QED BY <2>2, <2>3
<1>4. ASSUME NEW p \in Procs, BrelseUnref(p) PROVE Budget'
  <2>1. version' = version /\ pc' = [pc EXCEPT ![p] = "idle"] /\ pc[p] = "releasing"
    BY <1>4 DEF BrelseUnref, ghostVars
  <2>2. Pending' = Pending
    BY <1>0, <2>1 DEF Pending, Types, Procs
  <2> QED BY <1>0, <2>1, <2>2 DEF Budget
<1>5. CASE Still
  BY <1>0, <1>5 DEF Still, Budget, Pending
<1>6. \A p \in Procs : Onward(p) => version' = version \/ LogWrite(p) \/ RawWrite(p)
  BY DEF Onward, Acquire, Bread, ReadCached, ReadStart, ReadDone, Bwrite, BwriteStart,
         Write0Done, Write1Done, Bunpin, BrelseUnlock, RawCall, RawRead, RawWriteFails,
         ghostVars
<1> QED BY <1>1, <1>2, <1>3, <1>4, <1>5, <1>6, Kinds

LEMMA CommitsNext ==
  ASSUME Sound, Tidy', [Next]_vars
  PROVE  Commits'
<1>0. Commits /\ Types /\ Roles
  BY DEF Sound
<1>1. ASSUME NEW p \in Procs, Onward(p) PROVE Commits'
  <2>1. /\ buf' = buf /\ want' = want /\ committing' = committing
        /\ \A q \in Procs : q # p => pc'[q] = pc[q]
        /\ pc[p] # "idle" /\ pc'[p] # "idle"
        /\ toInstall' = IF Bunpin(p) THEN toInstall \ {want[p]} ELSE toInstall
        /\ p \notin Committers => ~Bunpin(p)
    BY <1>0, <1>1, Moves DEF Types
  <2>2. committing' => \A q \in Updaters : pc'[q] = "idle"
    BY <1>0, <2>1 DEF Commits, Procs
  <2>3. ~committing' => toInstall' = {} /\ \A q \in Committers : pc'[q] = "idle"
    BY <1>0, <2>1 DEF Commits, Procs
  <2>4. ASSUME NEW q \in Committers, pc'[q] \notin {"idle", "done", "releasing"}
        PROVE  want'[q] \in toInstall'
    <3>1. CASE q = p
      <4>1. ~Bunpin(p) /\ pc[p] \notin {"idle", "done", "releasing"}
        BY <1>1, <2>4, <3>1, Moves DEF Holding
      <4> QED BY <1>0, <2>1, <2>4, <3>1, <4>1 DEF Commits
    <3>2. CASE q # p
      <4>1. q \in Procs /\ pc[q] = pc'[q]
        BY <2>1, <3>2 DEF Procs
      <4>2. ~Bunpin(p)
        BY <2>1, <3>2, BcacheAssumption
      <4> QED BY <1>0, <2>1, <2>4, <4>1, <4>2 DEF Commits
    <3> QED BY <3>1, <3>2
  <2> QED BY <2>2, <2>3, <2>4 DEF Commits
<1>2. ASSUME NEW p \in Procs, NEW k \in Physical, NEW b \in Bufs, Takes(p, k, b)
      PROVE  Commits'
  <2>1. /\ p \in Updaters => ~committing
        /\ p \in Committers => k \in toInstall
    BY <1>2, BcacheAssumption DEF Takes, MayAsk
  <2> QED BY <1>0, <1>2, <2>1 DEF Takes, Commits, Types, Procs, logVars
<1>3. ASSUME NEW p \in Procs, BrelseUnref(p) PROVE Commits'
  BY <1>0, <1>3 DEF BrelseUnref, Commits, Types, Procs, logVars
<1>4. CASE Still
  BY <1>0, <1>4 DEF Still, Commits, CommitStart, CommitEnd, procVars, logVars, Types, Procs
<1> QED BY <1>1, <1>2, <1>3, <1>4, Kinds

LEMMA SleeplocksNext ==
  ASSUME Sound, Tidy', [Next]_vars
  PROVE  Sleeplocks'
<1>0. Sleeplocks /\ Types /\ Roles /\ None \notin Procs /\ None \notin Bufs
  BY BcacheAssumption DEF Sound
<1>1. ASSUME NEW p \in Procs, Onward(p) PROVE Sleeplocks'
  <2>1. /\ buf' = buf /\ buf[p] \in Bufs /\ pc[p] # "idle"
        /\ \A q \in Procs : q # p => pc'[q] = pc[q]
    BY <1>0, <1>1, Moves, Facts DEF Types
  <2>2. /\ \A c \in Bufs : c # buf[p] => owner'[c] = owner[c]
        /\ owner'[buf[p]] = IF pc'[p] \in Holding THEN p ELSE None
    BY <1>1, Renames
  <2>3. owner[buf[p]] \in {p, None}
    <3>1. CASE pc[p] \in Holding
      BY <1>0, <2>1, <3>1 DEF Sleeplocks
    <3>2. CASE pc[p] \notin Holding
      <4>1. pc[p] = "locking"
        BY <1>1, <3>2, Moves
      <4>2. Acquire(p)
        BY <1>1, <4>1
        DEF Onward, Bread, ReadCached, ReadStart, ReadDone, LogWrite, Bwrite, BwriteStart,
            Write0Done, Write1Done, Bunpin, BrelseUnlock, RawCall, RawRead, RawWrite,
            RawWriteFails
      <4> QED BY <4>2 DEF Acquire
    <3> QED BY <3>1, <3>2
  <2>4. ASSUME NEW q \in Procs, NEW c \in Bufs
        PROVE  owner'[c] = q <=> buf'[q] = c /\ pc'[q] \in Holding
    <3>1. CASE c # buf[p]
      BY <1>0, <2>1, <2>2, <3>1 DEF Sleeplocks
    <3>2. CASE c = buf[p] /\ q = p
      BY <1>0, <2>1, <2>2, <3>2
    <3>3. CASE c = buf[p] /\ q # p
      <4>1. ~(buf[q] = c /\ pc[q] \in Holding)
        BY <1>0, <2>3, <3>3 DEF Sleeplocks
      <4> QED BY <1>0, <2>1, <2>2, <3>3, <4>1
    <3> QED BY <3>1, <3>2, <3>3
  <2> QED BY <2>4 DEF Sleeplocks
<1>4. ASSUME NEW p \in Procs, NEW k \in Physical, NEW b \in Bufs, Takes(p, k, b)
      PROVE  Sleeplocks'
  BY <1>0, <1>4 DEF Takes, Sleeplocks, Types, Holding, locks
<1>5. ASSUME NEW p \in Procs, BrelseUnref(p) PROVE Sleeplocks'
  BY <1>0, <1>5 DEF BrelseUnref, Sleeplocks, Types, Holding, locks
<1>6. CASE Still
  BY <1>0, <1>6 DEF Still, Sleeplocks
<1> QED BY <1>1, <1>4, <1>5, <1>6, Kinds

LEMMA NumbersNext ==
  ASSUME Sound, Tidy', [Next]_vars
  PROVE  Numbers'
<1>0. Numbers /\ Types /\ Roles /\ None \notin Bufs /\ mishaps \subseteq mishaps'
  BY MishapsGrow, BcacheAssumption DEF Sound
(* A process whose call, buffer and number stay the same.                  *)
<1> DEFINE Same(q) == /\ pc'[q] = pc[q] /\ buf'[q] = buf[q] /\ want'[q] = want[q]
                      /\ pc[q] # "idle" => Home(buf[q])' = Home(buf[q])
                      /\ pc[q] \in Holding => blockno'[buf[q]] = blockno[buf[q]]
<1>1. ASSUME NEW q \in Procs, Same(q) PROVE Numbers!(q)'
  <2>1. Numbers!(q)
    BY <1>0 DEF Numbers
  <2>2. pc'[q] # "idle" => Home(buf[q])' = want'[q]
    BY <1>1, <2>1
  <2> HIDE DEF Numbers
  <2>3. "reading" \in Holding /\ "write1" \in Holding
    BY DEF Holding
  <2> QED BY <1>0, <1>1, <2>1, <2>2, <2>3
<1>2. ASSUME NEW p \in Procs, Onward(p) PROVE Numbers'
  <2>1. /\ buf' = buf /\ want' = want /\ pc[p] # "idle" /\ pc'[p] # "idle"
        /\ \A q \in Procs : q # p => pc'[q] = pc[q]
        /\ pc[p] = "locking" \/ pc[p] \in Holding
        /\ \A q \in Procs : pc[q] # "idle" => buf[q] \in Bufs
    BY <1>0, <1>2, Moves, Facts DEF Types
  <2>2. ASSUME NEW q \in Procs, pc[q] # "idle" PROVE Home(buf[q])' = Home(buf[q])
    <3>1. PICK c \in Bufs : c = buf[q]
      BY <2>1, <2>2
    <3>2. Home(c)' = Home(c)
      BY <1>2, SameBlocks
    <3> QED BY <2>1, <3>1, <3>2 DEF Home
  <2>3. ASSUME NEW q \in Procs, q # p PROVE Same(q)
    <3>1. ASSUME pc[q] \in Holding PROVE blockno'[buf[q]] = blockno[buf[q]]
      <4>1. CASE buf[q] # buf[p]
        BY <1>2, <2>1, <3>1, <4>1, Renames DEF Holding
      <4>2. CASE buf[q] = buf[p]
        <5>1. pc[p] \notin Holding
          BY <2>3, <3>1, <4>2, Facts
        <5>2. Acquire(p)
          BY <1>2, <2>1, <5>1
          DEF Onward, Bread, ReadCached, ReadStart, ReadDone, LogWrite, Bwrite, BwriteStart,
              Write0Done, Write1Done, Bunpin, BrelseUnlock, RawCall, RawRead, RawWrite,
              RawWriteFails, Holding
        <5> QED BY <5>2 DEF Acquire
      <4> QED BY <4>1, <4>2
    <3> QED BY <2>1, <2>2, <2>3, <3>1
  <2>4. Numbers!(p)'
    <3>1. Home(buf[p])' = want'[p]
      BY <1>0, <2>1, <2>2 DEF Numbers
    <3> QED BY <1>0, <1>2, <2>1, <3>1, Renames
  <2> QED BY <1>1, <2>3, <2>4 DEF Numbers
<1>3. ASSUME NEW p \in Procs, NEW k \in Physical, NEW b \in Bufs, Takes(p, k, b)
      PROVE  Numbers'
  <2>1. /\ buf' = [buf EXCEPT ![p] = b] /\ want' = [want EXCEPT ![p] = k]
        /\ pc' = [pc EXCEPT ![p] = "locking"] /\ pc[p] = "idle"
    BY <1>3 DEF Takes
  <2>2. ASSUME NEW q \in Procs, pc[q] # "idle"
        PROVE  blockno'[buf[q]] = blockno[buf[q]] /\ Home(buf[q])' = Home(buf[q])
    <3>1. PICK c \in Bufs : c = buf[q]
      BY <2>2, Facts
    <3>2. c = b => Home(c) = k /\ blockno' = blockno
      <4>1. refcnt[b] = 0 => buf[q] # b
        BY FreeFacts
      <4> QED BY <1>3, <3>1, <4>1 DEF Takes
    <3>3. Home(c)' = Home(c) /\ blockno'[c] = blockno[c]
      BY <1>0, <1>3, <3>2, OtherBlocks DEF Takes, Types
    <3>4. buf'[q] = buf[q]
      BY <1>0, <2>1, <2>2 DEF Types
    <3> QED BY <3>1, <3>3, <3>4 DEF Home
  <2>3. ASSUME NEW q \in Procs, q # p PROVE Same(q)
    BY <1>0, <2>1, <2>2, <2>3 DEF Types, Holding
  <2>4. Numbers!(p)'
    <3>1. buf'[p] = b /\ want'[p] = k /\ pc'[p] = "locking"
      BY <1>0, <2>1 DEF Types
    <3>2. Home(b)' = k
      BY <1>3, OtherBlocks
    <3>3. Home(buf[p])' = want'[p]
      BY <3>1, <3>2 DEF Home
    <3> QED BY <3>1, <3>3 DEF Holding
  <2> QED BY <1>1, <2>3, <2>4 DEF Numbers
<1>4. ASSUME NEW p \in Procs, BrelseUnref(p) PROVE Numbers'
  <2>1. /\ pc' = [pc EXCEPT ![p] = "idle"] /\ buf' = [buf EXCEPT ![p] = None]
        /\ want' = [want EXCEPT ![p] = NoBlock] /\ blockno' = blockno
    BY <1>4 DEF BrelseUnref
  <2>2. ASSUME NEW q \in Procs, q # p PROVE Same(q)
    <3>1. pc'[q] = pc[q] /\ buf'[q] = buf[q] /\ want'[q] = want[q]
      BY <1>0, <2>1, <2>2 DEF Types
    <3>2. ASSUME pc[q] # "idle" PROVE Home(buf[q])' = Home(buf[q])
      <4>1. PICK c \in Bufs : c = buf[q]
        BY <3>2, Facts
      <4>2. Home(c)' = Home(c)
        BY <1>4, OtherBlocks
      <4> QED BY <3>1, <4>1, <4>2 DEF Home
    <3> QED BY <2>1, <3>1, <3>2
  <2>3. Numbers!(p)'
    BY <1>0, <2>1 DEF Types, Holding
  <2> QED BY <1>1, <2>2, <2>3 DEF Numbers
<1>5. CASE Still
  <2>1. ASSUME NEW q \in Procs PROVE Same(q)
    BY <1>5 DEF Still, Home, InTransfer
  <2> QED BY <1>1, <2>1 DEF Numbers
<1> QED BY <1>2, <1>3, <1>4, <1>5, Kinds

LEMMA DistinctNext ==
  ASSUME Sound, Tidy', [Next]_vars
  PROVE  Distinct'
<1>0. Distinct
  BY DEF Sound
<1>1. ASSUME \A c \in Bufs : Home(c)' = Home(c)
      PROVE  Distinct'
  BY <1>0, <1>1 DEF Distinct
<1>2. ASSUME NEW p \in Procs, NEW k \in Physical, NEW b \in Bufs, Takes(p, k, b)
      PROVE  Distinct'
  <2>1. /\ Home(b)' = k
        /\ \A c \in Bufs : c # b => Home(c)' = Home(c)
        /\ Home(b) # k => \A c \in Bufs : Home(c) # k
    BY <1>2, OtherBlocks
  <2> QED BY <1>0, <2>1 DEF Distinct
<1> QED BY <1>1, <1>2, Kinds, SameBlocks, OtherBlocks

(* The buffer of the block a process asked for.                            *)
LEMMA TheBuffer ==
  ASSUME Sound, NEW p \in Procs, pc[p] # "idle"
  PROVE  /\ buf[p] \in Bufs /\ Home(buf[p]) = want[p]
         /\ \A b \in Bufs : Home(b) = want[p] => b = buf[p]
BY Facts, Numerals DEF Sound, Distinct

(* The blocks still to be installed change only as one is logged or has    *)
(* been written.                                                           *)
LEMMA OutstandingNext ==
  ASSUME Sound
  PROVE  /\ \A p \in Procs : LogWrite(p) =>
              /\ p \in Updaters /\ want[p] \in Logical /\ p \notin RawUsers
              /\ ~committing /\ pc[p] = "held" /\ buf' = buf
              /\ blockno[buf[p]] = want[p] /\ Outstanding' = Outstanding \cup {want[p]}
         /\ \A p \in Procs : Bunpin(p) =>
              /\ p \in Committers /\ want[p] \in Logical /\ p \notin RawUsers
              /\ committing /\ pc[p] = "written" /\ buf' = buf
              /\ want[p] \in Outstanding /\ Outstanding' = Outstanding \ {want[p]}
         /\ \A p \in Procs : Onward(p) /\ ~LogWrite(p) /\ ~Bunpin(p) => Outstanding' = Outstanding
         /\ \A p \in Procs : BrelseUnref(p) => Outstanding' = Outstanding
         /\ \A p, k, b : Takes(p, k, b) => Outstanding' = Outstanding
         /\ Still => Outstanding' = Outstanding
<1>1. ASSUME NEW p \in Procs, LogWrite(p)
      PROVE  /\ p \in Updaters /\ want[p] \in Logical /\ p \notin RawUsers
             /\ ~committing /\ pc[p] = "held" /\ buf' = buf
             /\ blockno[buf[p]] = want[p] /\ Outstanding' = Outstanding \cup {want[p]}
  <2>1. p \in Updaters /\ pc[p] = "held" /\ committing' = committing /\ Record(buf[p])
        /\ buf' = buf
    BY <1>1 DEF LogWrite
  <2>2. ~committing /\ want[p] \in Logical /\ p \notin RawUsers
    BY <2>1, Facts, Numerals, BcacheAssumption
  <2>3. blockno[buf[p]] = want[p]
    BY <2>1 DEF Sound, Numbers, Holding
  <2>4. logged' = logged \cup {want[p]}
    BY <2>1, <2>3 DEF Record
  <2> QED BY <2>1, <2>2, <2>3, <2>4 DEF Outstanding
<1>2. ASSUME NEW p \in Procs, Bunpin(p)
      PROVE  /\ p \in Committers /\ want[p] \in Logical /\ p \notin RawUsers
             /\ committing /\ pc[p] = "written" /\ buf' = buf
             /\ want[p] \in Outstanding /\ Outstanding' = Outstanding \ {want[p]}
  <2>1. pc[p] = "written" /\ committing' = committing /\ toInstall' = toInstall \ {want[p]}
        /\ buf' = buf
    BY <1>2 DEF Bunpin
  <2>2. p \in Committers /\ p \notin RawUsers
    BY <2>1, Facts
  <2>3. committing /\ want[p] \in Logical /\ want[p] \in toInstall
    BY <2>1, <2>2, Facts DEF Sound, Commits
  <2> QED BY <2>1, <2>2, <2>3 DEF Outstanding
<1>3. ASSUME NEW p \in Procs, Onward(p), ~LogWrite(p), ~Bunpin(p)
      PROVE  Outstanding' = Outstanding
  <2>1. logged' = logged /\ toInstall' = toInstall /\ committing' = committing
    BY <1>3
    DEF Onward, Acquire, Bread, ReadCached, ReadStart, ReadDone, Bwrite, BwriteStart,
        Write0Done, Write1Done, BrelseUnlock, RawCall, RawRead, RawWrite, RawWriteFails, logVars
  <2> QED BY <2>1 DEF Outstanding
<1>4. ASSUME NEW p \in Procs, BrelseUnref(p) PROVE Outstanding' = Outstanding
  BY <1>4 DEF BrelseUnref, logVars, Outstanding
<1>5. ASSUME NEW p, NEW k, NEW b, Takes(p, k, b) PROVE Outstanding' = Outstanding
  BY <1>5 DEF Takes, logVars, Outstanding
<1>6. ASSUME Still PROVE Outstanding' = Outstanding
  BY <1>6 DEF Still, CommitStart, CommitEnd, logVars, Outstanding
<1> QED BY <1>1, <1>2, <1>3, <1>4, <1>5, <1>6

(* The counts after a step, said without priming Users.                    *)
CountsWith(out) ==
  /\ \A b \in Bufs :
       refcnt'[b] = Cardinality({q \in Procs : buf'[q] = b}) + (IF Home(b)' \in out THEN 1 ELSE 0)
  /\ \A k \in out : \E b \in Bufs : Home(b)' = k

LEMMA CountsNext ==
  ASSUME Sound, Tidy', [Next]_vars
  PROVE  Counts'
<1>0. /\ Counts /\ Types /\ Roles /\ None \notin Bufs
      /\ \A b \in Bufs : refcnt[b] \in Int /\ Cardinality(Users(b)) \in Nat
  BY FreeFacts, BcacheAssumption DEF Sound, Types
<1>1. ASSUME NEW out, Outstanding' = out, CountsWith(out) PROVE Counts'
  BY <1>1 DEF CountsWith, Counts, Users
<1>2. ASSUME NEW p \in Procs, Onward(p), ~LogWrite(p), ~Bunpin(p) PROVE Counts'
  <2>1. refcnt' = refcnt /\ buf' = buf
    BY <1>2
    DEF Onward, Acquire, Bread, ReadCached, ReadStart, ReadDone, Bwrite, BwriteStart,
        Write0Done, Write1Done, BrelseUnlock, RawCall, RawRead, RawWrite, RawWriteFails, bufVars
  <2>2. Outstanding' = Outstanding
    BY <1>2, OutstandingNext
  <2>3. \A b \in Bufs : Home(b)' = Home(b) /\ Users(b) = {q \in Procs : buf'[q] = b}
    BY <1>2, <2>1, SameBlocks DEF Users
  <2>4. CountsWith(Outstanding)
    BY <1>0, <2>1, <2>3 DEF Counts, CountsWith
  <2> QED BY <1>1, <2>2, <2>4
<1>3. ASSUME NEW p \in Procs, LogWrite(p) PROVE Counts'
  <2>1. /\ pc[p] # "idle" /\ ~committing /\ blockno[buf[p]] = want[p] /\ buf' = buf
        /\ Outstanding' = Outstanding \cup {want[p]} /\ Outstanding = logged
    BY <1>3, OutstandingNext DEF Outstanding
  <2>2. Record(buf[p]) /\ Onward(p)
    BY <1>3 DEF LogWrite, Onward
  <2>3. /\ buf[p] \in Bufs /\ Home(buf[p]) = want[p]
        /\ \A b \in Bufs : Home(b) = want[p] => b = buf[p]
    BY <2>1, TheBuffer
  <2>4. ASSUME NEW b \in Bufs
        PROVE  refcnt'[b] = refcnt[b] + (IF b = buf[p] /\ want[p] \notin Outstanding THEN 1 ELSE 0)
    BY <1>0, <2>1, <2>2 DEF Record, Types
  <2>5. \A b \in Bufs : Home(b)' = Home(b) /\ Users(b) = {q \in Procs : buf'[q] = b}
    BY <2>1, <2>2, SameBlocks DEF Users
  <2>6. ASSUME NEW b \in Bufs
        PROVE  refcnt'[b] = Cardinality(Users(b)) +
                 (IF Home(b) \in Outstanding \cup {want[p]} THEN 1 ELSE 0)
    <3>1. refcnt[b] = Cardinality(Users(b)) + (IF Home(b) \in Outstanding THEN 1 ELSE 0)
      BY <1>0 DEF Counts
    <3>2. CASE b = buf[p]
      BY <1>0, <2>3, <2>4, <3>1, <3>2
    <3>3. CASE b # buf[p]
      <4>1. Home(b) # want[p]
        BY <2>3, <3>3
      <4> QED BY <1>0, <2>4, <3>1, <3>3, <4>1
    <3> QED BY <3>2, <3>3
  <2>7. \A k \in Outstanding \cup {want[p]} : \E b \in Bufs : Home(b) = k
    BY <1>0, <2>3 DEF Counts
  <2>8. CountsWith(Outstanding \cup {want[p]})
    BY <2>5, <2>6, <2>7 DEF CountsWith
  <2> QED BY <1>1, <2>1, <2>8
<1>4. ASSUME NEW p \in Procs, Bunpin(p) PROVE Counts'
  <2>1. /\ pc[p] # "idle" /\ Onward(p)
        /\ buf' = buf /\ want[p] \in Outstanding /\ Outstanding' = Outstanding \ {want[p]}
    BY <1>4, OutstandingNext DEF Onward
  <2>2. refcnt' = [refcnt EXCEPT ![buf[p]] = @ - 1]
    BY <1>4 DEF Bunpin
  <2>3. /\ buf[p] \in Bufs /\ Home(buf[p]) = want[p]
        /\ \A b \in Bufs : Home(b) = want[p] => b = buf[p]
    BY <2>1, TheBuffer
  <2>4. \A b \in Bufs : Home(b)' = Home(b) /\ Users(b) = {q \in Procs : buf'[q] = b}
    BY <2>1, SameBlocks DEF Users
  <2>5. ASSUME NEW b \in Bufs
        PROVE  refcnt'[b] = Cardinality(Users(b)) +
                 (IF Home(b) \in Outstanding \ {want[p]} THEN 1 ELSE 0)
    <3>1. refcnt[b] = Cardinality(Users(b)) + (IF Home(b) \in Outstanding THEN 1 ELSE 0)
      BY <1>0 DEF Counts
    <3>2. CASE b = buf[p]
      <4>1. refcnt'[b] = refcnt[b] - 1
        BY <1>0, <2>2, <3>2 DEF Types
      <4> QED BY <1>0, <2>1, <2>3, <3>1, <3>2, <4>1
    <3>3. CASE b # buf[p]
      <4>1. Home(b) # want[p] /\ refcnt'[b] = refcnt[b]
        BY <1>0, <2>2, <2>3, <3>3 DEF Types
      <4> QED BY <3>1, <4>1
    <3> QED BY <3>2, <3>3
  <2>6. CountsWith(Outstanding \ {want[p]})
    BY <1>0, <2>4, <2>5 DEF Counts, CountsWith
  <2> QED BY <1>1, <2>1, <2>6
<1>5. ASSUME NEW p \in Procs, NEW k \in Physical, NEW b \in Bufs, Takes(p, k, b)
      PROVE  Counts'
  <2>1. /\ buf' = [buf EXCEPT ![p] = b] /\ pc[p] = "idle" /\ buf[p] = None
        /\ Outstanding' = Outstanding
    BY <1>0, <1>5, OutstandingNext DEF Takes, Roles
  <2>2. {q \in Procs : buf'[q] = b} = Users(b) \cup {p} /\ p \notin Users(b)
    BY <1>0, <2>1 DEF Users, Types
  <2>3. \A c \in Bufs : c # b => {q \in Procs : buf'[q] = c} = Users(c)
    BY <1>0, <2>1 DEF Users, Types
  <2>4. Cardinality(Users(b) \cup {p}) = Cardinality(Users(b)) + 1
    BY <2>2, FreeFacts, FS_AddElement
  <2>5. /\ Home(b)' = k
        /\ \A c \in Bufs : c # b => Home(c)' = Home(c)
        /\ Home(b) # k => \A c \in Bufs : Home(c) # k
    BY <1>5, OtherBlocks
  <2>6. Home(b) # k => k \notin Outstanding /\ Home(b) \notin Outstanding
    BY <1>0, <1>5, <2>5, FreeFacts DEF Counts, Takes
  <2>7. refcnt' = [refcnt EXCEPT ![b] = refcnt[b] + 1]
    BY <1>5 DEF Takes
  <2>8. ASSUME NEW c \in Bufs
        PROVE  refcnt'[c] = Cardinality({q \in Procs : buf'[q] = c}) +
                 (IF Home(c)' \in Outstanding THEN 1 ELSE 0)
    <3>1. refcnt[c] = Cardinality(Users(c)) + (IF Home(c) \in Outstanding THEN 1 ELSE 0)
      BY <1>0 DEF Counts
    <3>2. CASE c = b
      <4>1. refcnt'[c] = refcnt[c] + 1
        BY <1>0, <2>7, <3>2 DEF Types
      <4>2. Home(c)' \in Outstanding <=> Home(c) \in Outstanding
        BY <2>5, <2>6, <3>2
      <4>3. Cardinality({q \in Procs : buf'[q] = c}) = Cardinality(Users(c)) + 1
        BY <2>2, <2>4, <3>2
      <4>4. refcnt[c] \in Int /\ Cardinality(Users(c)) \in Nat
        BY <1>0
      <4> HIDE <1>0, <2>1, <2>2, <2>3, <2>4, <2>5
      <4> QED BY <3>1, <4>1, <4>2, <4>3, <4>4
    <3>3. CASE c # b
      <4>1. refcnt'[c] = refcnt[c]
        BY <1>0, <2>7, <3>3 DEF Types
      <4> QED BY <2>3, <2>5, <3>1, <3>3, <4>1
    <3> QED BY <3>2, <3>3
  <2>9. \A j \in Outstanding : \E c \in Bufs : Home(c)' = j
    BY <1>0, <2>5, <2>6 DEF Counts
  <2>10. CountsWith(Outstanding)
    BY <2>8, <2>9 DEF CountsWith
  <2> QED BY <1>1, <2>1, <2>10
<1>6. ASSUME NEW p \in Procs, BrelseUnref(p) PROVE Counts'
  <2>1. /\ buf[p] \in Bufs /\ buf' = [buf EXCEPT ![p] = None]
        /\ refcnt' = [refcnt EXCEPT ![buf[p]] = @ - 1] /\ Outstanding' = Outstanding
    BY <1>0, <1>6, Facts, OutstandingNext DEF BrelseUnref
  <2>2. Users(buf[p]) \ {p} = {q \in Procs : buf'[q] = buf[p]} /\ p \in Users(buf[p])
    BY <1>0, <2>1 DEF Users, Types
  <2>3. Cardinality(Users(buf[p]) \ {p}) = Cardinality(Users(buf[p])) - 1
    BY <2>1, <2>2, FreeFacts, FS_RemoveElement
  <2>4. \A c \in Bufs : Home(c)' = Home(c)
    BY <1>6, OtherBlocks
  <2>5. ASSUME NEW c \in Bufs
        PROVE  refcnt'[c] = Cardinality({q \in Procs : buf'[q] = c}) +
                 (IF Home(c) \in Outstanding THEN 1 ELSE 0)
    <3>1. refcnt[c] = Cardinality(Users(c)) + (IF Home(c) \in Outstanding THEN 1 ELSE 0)
      BY <1>0 DEF Counts
    <3>2. Cardinality(Users(c)) \in Nat /\ refcnt[c] \in Int
      BY <1>0
    <3>3. CASE c = buf[p]
      <4>1. refcnt'[c] = refcnt[c] - 1
        BY <1>0, <2>1, <3>3 DEF Types
      <4>2. {q \in Procs : buf'[q] = c} = Users(c) \ {p}
        BY <2>2, <3>3, Zenon
      <4>3. Cardinality({q \in Procs : buf'[q] = c}) = Cardinality(Users(c)) - 1
        BY <2>3, <3>3, <4>2, Zenon
      <4> QED BY <3>1, <3>2, <4>1, <4>3
    <3>4. CASE c # buf[p]
      <4>1. refcnt'[c] = refcnt[c] /\ {q \in Procs : buf'[q] = c} = Users(c)
        BY <1>0, <2>1, <3>4 DEF Types, Users
      <4> QED BY <3>1, <4>1
    <3> QED BY <3>3, <3>4
  <2>6. CountsWith(Outstanding)
    BY <1>0, <2>4, <2>5 DEF CountsWith, Counts
  <2> QED BY <1>1, <2>1, <2>6
<1>7. ASSUME Still PROVE Counts'
  <2>1. /\ Outstanding' = Outstanding /\ refcnt' = refcnt
        /\ \A b \in Bufs : Home(b)' = Home(b) /\ Users(b) = {q \in Procs : buf'[q] = b}
    BY <1>7, OutstandingNext, OtherBlocks DEF Still, Users
  <2>2. CountsWith(Outstanding)
    BY <1>0, <2>1 DEF CountsWith, Counts
  <2> QED BY <1>1, <2>1, <2>2
<1> QED BY <1>2, <1>3, <1>4, <1>5, <1>6, <1>7, Kinds

LEMMA SoundNext ==
  ASSUME Sound, Tidy', [Next]_vars
  PROVE  Sound'
<1>1. Types' /\ Order' /\ Hooks' /\ Budget' /\ Roles'
  BY TypesNext, OrderNext, HooksNext, BudgetNext, RolesNext
<1>2. Commits' /\ Sleeplocks' /\ Numbers' /\ Distinct' /\ Counts'
  BY CommitsNext, SleeplocksNext, NumbersNext, DistinctNext, CountsNext
<1> QED BY <1>1, <1>2 DEF Sound

(* Once bget has panicked, holding bcache.lock, nobody gives a buffer back *)
(* and no pin is dropped.                                                  *)
LEMMA PanicNext ==
  ASSUME Sound, PanicMeansFull, Tidy', [Next]_vars
  PROVE  PanicMeansFull'
<1>0. Types /\ Counts
  BY DEF Sound
<1>1. ASSUME NEW p, NEW k, BgetPanic(p, k), NEW b \in Bufs
      PROVE  Users(b) # {} \/ Home(b) \in Outstanding
  <2>1. refcnt[b] # 0
    BY <1>1, VictimFacts DEF BgetPanic, Sound
  <2>2. Home(b) \notin Outstanding => Cardinality(Users(b)) # 0
    BY <1>0, <2>1, FreeFacts DEF Counts
  <2> QED BY <2>2, FS_EmptySet
<1>2. panicked' => \A b \in Bufs : Users(b) # {} \/ Home(b) \in Outstanding
  <2>1. panicked' = panicked \/ \E p, k : BgetPanic(p, k)
    BY Kinds, Moves DEF Takes, BrelseUnref, Still
  <2> QED BY <1>1, <2>1 DEF PanicMeansFull
<1>3. ASSUME panicked', NEW p \in Procs, Onward(p) PROVE PanicMeansFull'
  <2>1. panicked /\ buf' = buf
    BY <1>3, Moves
  <2>2. Outstanding' = Outstanding
    BY <1>3, <2>1, OutstandingNext DEF LogWrite, Bunpin
  <2>3. \A b \in Bufs : Home(b)' = Home(b) /\ Users(b)' = Users(b)
    BY <1>3, <2>1, SameBlocks DEF Users
  <2> QED BY <1>2, <1>3, <2>2, <2>3 DEF PanicMeansFull
<1>4. ASSUME panicked', NEW p \in Procs, NEW k \in Physical, NEW b \in Bufs, Takes(p, k, b)
      PROVE  FALSE
  BY <1>4 DEF Takes
<1>5. ASSUME panicked', NEW p \in Procs, BrelseUnref(p) PROVE FALSE
  BY <1>5 DEF BrelseUnref
<1>6. ASSUME panicked', Still PROVE PanicMeansFull'
  <2>1. Outstanding' = Outstanding /\ \A b \in Bufs : Home(b)' = Home(b) /\ Users(b)' = Users(b)
    BY <1>6, OutstandingNext, OtherBlocks DEF Still, Users
  <2> QED BY <1>2, <1>6, <2>1 DEF PanicMeansFull
<1> QED BY <1>3, <1>4, <1>5, <1>6, Kinds DEF PanicMeansFull


-----------------------------------------------------------------------------
(* The contents.  A step of p touches its buffer and its block only, and,  *)
(* unless a raw call writes over a mirror, that block's place on the disks.*)
Quiet(p) ==
  \/ Acquire(p) \/ ReadCached(p) \/ ReadStart(p) \/ BwriteStart(p) \/ BrelseUnlock(p)
  \/ Bunpin(p)

LEMMA QuietFacts ==
  ASSUME Types
  PROVE  /\ \A p : Quiet(p) => UNCHANGED <<valid, data, disk, current>> /\ ~LogWrite(p)
         /\ \A p : Onward(p) => \/ Quiet(p) \/ ReadDone(p) \/ LogWrite(p) \/ Write0Done(p)
                                \/ Write1Done(p) \/ RawRead(p) \/ RawWrite(p)
                                \/ RawWriteFails(p)
<1>1. ASSUME NEW p, Quiet(p)
      PROVE  UNCHANGED <<valid, data, disk, current, version>>
  BY <1>1
  DEF Quiet, Acquire, ReadCached, ReadStart, BwriteStart, BrelseUnlock, Bunpin, bufVars,
      ghostVars, logVars
<1>2. ASSUME NEW p, Quiet(p) PROVE ~LogWrite(p)
  BY <1>1, <1>2, BcacheAssumption DEF LogWrite, Types
<1>3. \A p : Onward(p) => \/ Quiet(p) \/ ReadDone(p) \/ LogWrite(p) \/ Write0Done(p)
                          \/ Write1Done(p) \/ RawRead(p) \/ RawWrite(p) \/ RawWriteFails(p)
  BY DEF Onward, Bread, Bwrite, RawCall, Quiet
<1> QED BY <1>1, <1>2, <1>3

LEMMA Frame ==
  ASSUME Sound, NEW p \in Procs, Onward(p)
  PROVE  /\ \A c \in Bufs : c # buf[p] => valid'[c] = valid[c] /\ data'[c] = data[c]
         /\ \A k \in Logical : k # want[p] => current'[k] = current[k]
         /\ \A n \in Physical : n # blockno[buf[p]] => disk'[n] = disk[n]
         /\ \A q \in Procs : q # p => pc'[q] = pc[q] /\ mirrorToo'[q] = mirrorToo[q]
         /\ Outstanding' \subseteq Outstanding \cup {want[p]}
         /\ Outstanding \subseteq Outstanding' \cup {want[p]}
<1>0. Types
  BY DEF Sound
<1>1. ASSUME NEW c \in Bufs, c # buf[p] PROVE valid'[c] = valid[c] /\ data'[c] = data[c]
  <2>1. CASE ReadDone(p) \/ LogWrite(p) \/ RawRead(p) \/ RawWrite(p) \/ RawWriteFails(p)
    BY <1>0, <1>1, <2>1 DEF ReadDone, LogWrite, RawRead, RawWrite, RawWriteFails, Types
  <2>2. CASE Quiet(p) \/ Write0Done(p) \/ Write1Done(p)
    BY <1>0, <2>2, QuietFacts DEF Write0Done, Write1Done
  <2> QED BY <1>0, <2>1, <2>2, QuietFacts
<1>2. ASSUME NEW k \in Logical, k # want[p] PROVE current'[k] = current[k]
  <2>1. CASE LogWrite(p) \/ RawWrite(p)
    BY <1>0, <1>2, <2>1 DEF LogWrite, RawWrite, Types
  <2>2. CASE Quiet(p) \/ ReadDone(p) \/ Write0Done(p) \/ Write1Done(p) \/ RawRead(p)
             \/ RawWriteFails(p)
    BY <1>0, <2>2, QuietFacts
    DEF ReadDone, Write0Done, Write1Done, RawRead, RawWriteFails, ghostVars
  <2> QED BY <1>0, <2>1, <2>2, QuietFacts
<1>3. ASSUME NEW n \in Physical, n # blockno[buf[p]] PROVE disk'[n] = disk[n]
  <2>1. CASE Write0Done(p) \/ Write1Done(p) \/ RawWrite(p)
    BY <1>0, <1>3, <2>1 DEF Write0Done, Write1Done, RawWrite, Types
  <2>2. CASE Quiet(p) \/ ReadDone(p) \/ LogWrite(p) \/ RawRead(p) \/ RawWriteFails(p)
    BY <1>0, <2>2, QuietFacts DEF ReadDone, LogWrite, RawRead, RawWriteFails
  <2> QED BY <1>0, <2>1, <2>2, QuietFacts
<1>4. ASSUME NEW q \in Procs, q # p PROVE pc'[q] = pc[q] /\ mirrorToo'[q] = mirrorToo[q]
  <2>1. mirrorToo' = mirrorToo \/ mirrorToo' = [mirrorToo EXCEPT ![p] = ~SkipPbn1]
    BY DEF Onward, Acquire, Bread, ReadCached, ReadStart, ReadDone, LogWrite, Bwrite,
           BwriteStart, Write0Done, Write1Done, Bunpin, BrelseUnlock, RawCall, RawRead,
           RawWrite, RawWriteFails, procVars
  <2>2. pc'[q] = pc[q]
    BY <1>0, <1>4, Moves DEF Types
  <2> QED BY <1>0, <1>4, <2>1, <2>2 DEF Types
<1>5. /\ Outstanding' \subseteq Outstanding \cup {want[p]}
      /\ Outstanding \subseteq Outstanding' \cup {want[p]}
  BY OutstandingNext
<1> QED BY <1>1, <1>2, <1>3, <1>4, <1>5

LEMMA DiskFrame ==
  ASSUME Sound, Survived', NEW p \in Procs, Onward(p), NEW k \in Logical, k # want[p]
  PROVE  current'[k] = current[k] /\ disk'[k] = disk[k] /\ disk'[Mirror(k)] = disk[Mirror(k)]
<1>1. k \in Physical /\ Mirror(k) \in Physical /\ Mirror(k) \notin Logical
      /\ (want[p] \in Logical => Mirror(k) # Mirror(want[p]) /\ Mirror(want[p]) \notin Logical)
  BY Numerals
<1>2. CASE Write0Done(p) \/ Write1Done(p) \/ RawWrite(p)
  <2>1. blockno[buf[p]] \in {want[p], Mirror(want[p])} /\ want[p] \in Logical
    <3>1. CASE RawWrite(p)
      <4>1. pc[p] = "raw" /\ "overwritten" \notin mishaps'
        BY <3>1 DEF RawWrite, Survived
      <4>2. blockno[buf[p]] = want[p]
        BY <4>1 DEF Sound, Numbers, Holding
      <4>3. want[p] \in Logical
        BY <3>1, <4>1 DEF RawWrite, Note
      <4> QED BY <4>2, <4>3
    <3>2. CASE Write0Done(p) \/ Write1Done(p)
      <4>1. pc[p] \in {"write0", "write1"}
        BY <3>2 DEF Write0Done, Write1Done
      <4> QED BY <4>1, Facts DEF Sound, Numbers, Holding
    <3> QED BY <1>2, <3>1, <3>2
  <2> QED BY <1>1, <2>1, Frame
<1>3. CASE ~(Write0Done(p) \/ Write1Done(p) \/ RawWrite(p))
  <2>1. disk' = disk
    BY <1>3, QuietFacts DEF Sound, ReadDone, LogWrite, RawRead, RawWriteFails
  <2> QED BY <2>1, Frame
<1> QED BY <1>2, <1>3

(* Who holds another buffer, or the same while p takes its lock, is not    *)
(* disturbed.                                                              *)
LEMMA Undisturbed ==
  ASSUME Sound, NEW p \in Procs, Onward(p), NEW q \in Procs, q # p, pc[q] \in Holding
  PROVE  /\ valid'[buf[q]] = valid[buf[q]] /\ pc'[q] = pc[q] /\ mirrorToo'[q] = mirrorToo[q]
         /\ buf'[q] = buf[q] /\ want'[q] = want[q]
         /\ Survived' /\ want[q] \in Logical =>
              /\ current'[want[q]] = current[want[q]] /\ disk'[want[q]] = disk[want[q]]
              /\ disk'[Mirror(want[q])] = disk[Mirror(want[q])]
<1>1. pc[q] # "idle" /\ buf[q] \in Bufs /\ pc[p] # "idle" /\ buf' = buf /\ want' = want
  BY Facts, Moves DEF Holding
<1>2. pc'[q] = pc[q] /\ mirrorToo'[q] = mirrorToo[q]
  BY Frame
<1>3. CASE pc[p] \in Holding
  <2>1. buf[q] # buf[p]
    BY <1>3, Facts
  <2>2. want[q] # want[p]
    BY <1>1, <2>1, TheBuffer
  <2> QED BY <1>1, <1>2, <2>1, <2>2, Frame, DiskFrame
<1>4. CASE pc[p] \notin Holding
  <2>1. Acquire(p)
    BY <1>4
    DEF Onward, Bread, ReadCached, ReadStart, ReadDone, LogWrite, Bwrite, BwriteStart,
        Write0Done, Write1Done, Bunpin, BrelseUnlock, RawCall, RawRead, RawWrite,
        RawWriteFails, Holding
  <2>2. UNCHANGED <<valid, disk, current>>
    BY <2>1 DEF Acquire, ghostVars
  <2> QED BY <1>1, <1>2, <2>2
<1> QED BY <1>3, <1>4

(* The other steps change no contents; a buffer that bget recycles held no *)
(* logged change, and gets a block that has none.                          *)
Rest ==
  /\ UNCHANGED <<data, disk, current>> /\ Outstanding' = Outstanding
  /\ \A b \in Bufs : \/ valid'[b] = valid[b] /\ Home(b)' = Home(b)
                     \/ ~valid'[b] /\ Home(b)' \notin Outstanding
  /\ \A q \in Procs :
       \/ pc'[q] \in {"idle", "locking"}
       \/ /\ pc'[q] = pc[q] /\ buf'[q] = buf[q] /\ want'[q] = want[q]
          /\ mirrorToo'[q] = mirrorToo[q] /\ valid'[buf[q]] = valid[buf[q]]

LEMMA RestFacts ==
  ASSUME Sound, Tidy', [Next]_vars
  PROVE  Rest \/ \E p \in Procs : Onward(p)
<1>0. Types /\ Roles /\ Counts
  BY DEF Sound
<1>1. ASSUME NEW p \in Procs, NEW k \in Physical, NEW b \in Bufs, Takes(p, k, b) PROVE Rest
  <2>1. /\ UNCHANGED <<data, disk, current>> /\ Outstanding' = Outstanding
        /\ \A q \in Procs : q # p => /\ pc'[q] = pc[q] /\ buf'[q] = buf[q] /\ want'[q] = want[q]
                                     /\ mirrorToo'[q] = mirrorToo[q]
        /\ pc'[p] = "locking"
    BY <1>0, <1>1, OutstandingNext DEF Takes, Types
  <2>2. /\ Home(b)' = k
        /\ \A c \in Bufs : c # b => Home(c)' = Home(c)
    BY <1>1, OtherBlocks
  <2>3. CASE Home(b) = k /\ valid' = valid
    BY <2>1, <2>2, <2>3 DEF Rest
  <2>4. CASE (\A c \in Bufs : Home(c) # k) /\ refcnt[b] = 0 /\ valid' = [valid EXCEPT ![b] = FALSE]
    <3>1. k \notin Outstanding
      BY <1>0, <2>4 DEF Counts
    <3>2. ~valid'[b] /\ \A c \in Bufs : c # b => valid'[c] = valid[c]
      BY <1>0, <2>4 DEF Types
    <3>3. \A q \in Procs : buf[q] # b
      BY <2>4, FreeFacts
    <3>4. ASSUME NEW q \in Procs, pc'[q] \notin {"idle", "locking"}
          PROVE  valid'[buf[q]] = valid[buf[q]]
      <4>1. q # p /\ pc[q] # "idle"
        BY <2>1, <3>4
      <4>2. buf[q] \in Bufs
        BY <4>1, Facts
      <4> QED BY <3>2, <3>3, <4>2
    <3>5. \A c \in Bufs : \/ valid'[c] = valid[c] /\ Home(c)' = Home(c)
                          \/ ~valid'[c] /\ Home(c)' \notin Outstanding
      <4> SUFFICES ASSUME NEW c \in Bufs
                   PROVE  \/ valid'[c] = valid[c] /\ Home(c)' = Home(c)
                          \/ ~valid'[c] /\ Home(c)' \notin Outstanding
        OBVIOUS
      <4>1. CASE c = b
        BY <2>2, <3>1, <3>2, <4>1
      <4>2. CASE c # b
        BY <2>2, <3>2, <4>2
      <4> QED BY <4>1, <4>2
    <3>6. ASSUME NEW q \in Procs
          PROVE  \/ pc'[q] \in {"idle", "locking"}
                 \/ /\ pc'[q] = pc[q] /\ buf'[q] = buf[q] /\ want'[q] = want[q]
                    /\ mirrorToo'[q] = mirrorToo[q] /\ valid'[buf[q]] = valid[buf[q]]
      BY <2>1, <3>4
    <3> QED BY <2>1, <3>5, <3>6 DEF Rest
  <2> QED BY <1>1, <2>3, <2>4 DEF Takes
<1>2. ASSUME NEW p \in Procs, BrelseUnref(p) PROVE Rest
  <2>1. /\ UNCHANGED <<valid, data, disk, current>> /\ Outstanding' = Outstanding
        /\ \A c \in Bufs : Home(c)' = Home(c)
    BY <1>2, OutstandingNext, OtherBlocks DEF BrelseUnref, ghostVars
  <2>2. /\ pc'[p] = "idle"
        /\ \A q \in Procs : q # p => /\ pc'[q] = pc[q] /\ buf'[q] = buf[q] /\ want'[q] = want[q]
                                     /\ mirrorToo'[q] = mirrorToo[q]
    BY <1>0, <1>2 DEF BrelseUnref, Types
  <2> QED BY <2>1, <2>2 DEF Rest
<1>3. ASSUME Still PROVE Rest
  <2>1. Outstanding' = Outstanding /\ \A c \in Bufs : Home(c)' = Home(c)
    BY <1>3, OutstandingNext, OtherBlocks
  <2> QED BY <1>3, <2>1 DEF Still, Rest
<1> QED BY <1>1, <1>2, <1>3, Kinds

LEMMA KeptNext ==
  ASSUME Sound, Kept, Survived', Tidy', [Next]_vars
  PROVE  Kept'
<1>0. /\ Types /\ Hooks
      /\ \A b \in Bufs : Home(b) \in Outstanding => valid[b] /\ data[b] = current[Home(b)]
      /\ \A q \in Procs : /\ pc[q] \in {"held", "write0", "write1", "written"} => valid[buf[q]]
                          /\ pc[q] = "reading" => ~valid[buf[q]]
  BY DEF Sound, Kept
<1>1. CASE Rest
  BY <1>0, <1>1 DEF Rest, Kept
<1>2. ASSUME NEW p \in Procs, Onward(p) PROVE Kept'
  <2>1. /\ pc[p] # "idle" /\ buf[p] \in Bufs /\ Home(buf[p]) = want[p]
        /\ \A b \in Bufs : Home(b) = want[p] => b = buf[p]
        /\ buf' = buf /\ want' = want
        /\ \A b \in Bufs : Home(b)' = Home(b)
        /\ Outstanding \subseteq Logical
    BY <1>2, Moves, TheBuffer, SameBlocks, Facts
  <2>2. ASSUME NEW b \in Bufs, b # buf[p], Home(b) \in Outstanding'
        PROVE  valid'[b] /\ data'[b] = current'[Home(b)]
    <3>1. Home(b) # want[p] /\ Home(b) \in Outstanding /\ Home(b) \in Logical
      BY <1>2, <2>1, <2>2, Frame
    <3> QED BY <1>0, <1>2, <2>2, <3>1, Frame
  <2>3. want[p] \in Outstanding' => valid'[buf[p]] /\ data'[buf[p]] = current'[want[p]]
    <3>1. want[p] \in Outstanding => valid[buf[p]] /\ data[buf[p]] = current[want[p]]
      BY <1>0, <2>1
    <3>2. CASE LogWrite(p)
      <4>1. pc[p] = "held" /\ want[p] \in Logical
        BY <3>2, OutstandingNext
      <4> QED BY <1>0, <2>1, <3>2, <4>1 DEF LogWrite, Types
    <3>3. ~LogWrite(p) => Outstanding' \subseteq Outstanding
      BY <1>2, OutstandingNext
    <3>4. CASE Quiet(p) \/ Write0Done(p) \/ Write1Done(p)
      <4>1. UNCHANGED <<valid, data, current>> /\ ~LogWrite(p)
        BY <1>0, <3>4, QuietFacts DEF Write0Done, Write1Done, LogWrite, ghostVars
      <4> QED BY <3>1, <3>3, <4>1
    <3>5. CASE ReadDone(p)
      <4>1. ~valid[buf[p]] /\ ~LogWrite(p)
        BY <1>0, <3>5 DEF ReadDone, LogWrite
      <4> QED BY <3>1, <3>3, <4>1
    <3>6. CASE RawRead(p)
      <4>1. want[p] \notin Outstanding /\ ~LogWrite(p)
        BY <3>6 DEF RawRead, Note, Survived, LogWrite
      <4> QED BY <3>3, <4>1
    <3>7. CASE RawWrite(p)
      <4>1. want[p] \in Logical
        BY <3>7 DEF RawWrite, Note, Survived
      <4> QED BY <1>0, <2>1, <3>7, <4>1 DEF RawWrite, Types
    <3>8. CASE RawWriteFails(p)
      <4>1. PICK d \in {data[buf[p]], Torn} :
              data' = [data EXCEPT ![buf[p]] = d] /\ Note("overwritten", valid[buf[p]] /\ d = Torn)
        BY <3>8 DEF RawWriteFails
      <4>2. valid[buf[p]] => d = data[buf[p]]
        BY <4>1 DEF Note, Survived
      <4>3. valid' = valid /\ current' = current /\ ~LogWrite(p) /\ data'[buf[p]] = d
        BY <1>0, <2>1, <3>8, <4>1 DEF RawWriteFails, LogWrite, Types
      <4> QED BY <3>1, <3>3, <4>2, <4>3
    <3> QED BY <1>0, <1>2, <3>2, <3>4, <3>5, <3>6, <3>7, <3>8, QuietFacts
  <2>4. \A b \in Bufs : Home(b)' \in Outstanding' => valid'[b] /\ data'[b] = current'[Home(b)']
    <3> SUFFICES ASSUME NEW b \in Bufs, Home(b)' \in Outstanding'
                 PROVE  valid'[b] /\ data'[b] = current'[Home(b)']
      OBVIOUS
    <3>1. Home(b)' = Home(b)
      BY <2>1
    <3>2. CASE b = buf[p]
      BY <2>1, <2>3, <3>1, <3>2
    <3>3. CASE b # buf[p]
      BY <2>2, <3>1, <3>3
    <3> QED BY <3>2, <3>3
  <2>5. /\ pc'[p] \in {"held", "write0", "write1", "written"} => valid'[buf[p]]
        /\ pc'[p] = "reading" => ~valid'[buf[p]]
    <3>1. CASE ReadStart(p)
      <4>1. pc[p] = "locked" /\ p \notin RawUsers
        BY <3>1, Facts DEF ReadStart
      <4>2. want[p] \in Logical /\ "both" \notin mishaps
        BY <2>1, <4>1, Facts, MishapsGrow DEF Survived
      <4>3. ReadSource(want[p]) # NoBlock
        BY <1>0, <4>2, SourceFacts
      <4> QED BY <1>0, <3>1, <4>3 DEF ReadStart, Types
    <3>2. CASE ReadDone(p)
      BY <1>0, <2>1, <3>2 DEF ReadDone, Types
    <3>3. CASE BwriteStart(p) \/ Write0Done(p) \/ Write1Done(p)
      <4>1. pc[p] \in {"held", "write0", "write1"} /\ pc'[p] # "reading" /\ valid' = valid
        BY <1>0, <3>3 DEF BwriteStart, Write0Done, Write1Done, GoOn, Types
      <4> QED BY <1>0, <4>1
    <3>4. CASE ReadCached(p)
      BY <1>0, <3>4 DEF ReadCached, Types, bufVars
    <3>5. CASE Acquire(p) \/ BrelseUnlock(p) \/ LogWrite(p) \/ Bunpin(p) \/ RawCall(p)
      <4>1. pc'[p] \in {"locked", "raw", "releasing", "done"}
        BY <1>0, <3>5 DEF Acquire, BrelseUnlock, LogWrite, Bunpin, RawCall, RawRead, RawWrite,
                          RawWriteFails, Types
      <4> QED BY <4>1
    <3> QED BY <1>2, <3>1, <3>2, <3>3, <3>4, <3>5 DEF Onward, Bread, Bwrite
  <2>6. ASSUME NEW q \in Procs, q # p
        PROVE  /\ pc'[q] \in {"held", "write0", "write1", "written"} => valid'[buf[q]]
               /\ pc'[q] = "reading" => ~valid'[buf[q]]
    <3>1. pc'[q] = pc[q]
      BY <1>2, <2>6, Frame
    <3>2. CASE pc[q] \in Holding
      BY <1>0, <1>2, <2>6, <3>1, <3>2, Undisturbed
    <3>3. CASE pc[q] \notin Holding
      BY <3>1, <3>3 DEF Holding
    <3> QED BY <3>2, <3>3
  <2> QED BY <2>1, <2>4, <2>5, <2>6 DEF Kept
<1> QED BY <1>1, <1>2, RestFacts

(* bwrite writes the last version of a block still to be installed.        *)
LEMMA WriteFacts ==
  ASSUME Sound, Kept, NEW p \in Procs, Write0Done(p) \/ Write1Done(p)
  PROVE  /\ p \in Committers /\ want[p] \in Logical /\ want[p] \in Outstanding
         /\ Outstanding' = Outstanding /\ current' = current
         /\ Write0Done(p) => /\ disk' = [disk EXCEPT ![want[p]] = current[want[p]]]
                             /\ pc'[p] = IF mirrorToo[p] THEN "write1" ELSE "written"
                             /\ pc[p] = "write0"
         /\ Write1Done(p) => /\ disk' = [disk EXCEPT ![Mirror(want[p])] = current[want[p]]]
                             /\ pc'[p] = "written" /\ pc[p] = "write1"
<1>0. Types
  BY DEF Sound
<1>1. pc[p] \in {"write0", "write1"} /\ Onward(p) /\ ~LogWrite(p) /\ ~Bunpin(p)
      /\ current' = current
  BY DEF Write0Done, Write1Done, Onward, Bwrite, LogWrite, Bunpin, ghostVars
<1>2. Outstanding' = Outstanding
  BY <1>1, OutstandingNext
<1>3. p \in Committers /\ want[p] \in Logical /\ committing /\ buf[p] \in Bufs
      /\ Home(buf[p]) = want[p]
  BY <1>1, Facts
<1>4. want[p] \in Outstanding
  BY <1>1, <1>3 DEF Sound, Commits, Outstanding
<1>5. data[buf[p]] = current[want[p]]
  BY <1>3, <1>4 DEF Kept
<1>6. /\ pc[p] = "write0" => blockno[buf[p]] = want[p]
      /\ pc[p] = "write1" => blockno[buf[p]] = Mirror(want[p])
  BY <1>1 DEF Sound, Numbers, Holding
<1>7. Write0Done(p) => /\ disk' = [disk EXCEPT ![want[p]] = current[want[p]]]
                       /\ pc'[p] = IF mirrorToo[p] THEN "write1" ELSE "written"
                       /\ pc[p] = "write0"
  BY <1>0, <1>5, <1>6 DEF Write0Done, GoOn, Types
<1>8. Write1Done(p) => /\ disk' = [disk EXCEPT ![Mirror(want[p])] = current[want[p]]]
                       /\ pc'[p] = "written" /\ pc[p] = "write1"
  BY <1>0, <1>5, <1>6 DEF Write1Done, GoOn, Types
<1> QED BY <1>1, <1>2, <1>3, <1>4, <1>7, <1>8

(* A raw write, of a block and not of its mirror.                          *)
LEMMA RawWriteFacts ==
  ASSUME Sound, Survived', NEW p \in Procs, RawWrite(p)
  PROVE  /\ want[p] \in Logical /\ pc'[p] = "done"
         /\ data' = [data EXCEPT ![buf[p]] = version']
         /\ disk' = [disk EXCEPT ![want[p]] = version']
         /\ current' = [current EXCEPT ![want[p]] = version']
         /\ Outstanding' = Outstanding
         /\ want[p] \notin Outstanding => mishaps' # {}
<1>1. pc[p] = "raw" /\ want[p] \in Logical
  BY DEF RawWrite, Note, Survived
<1>2. blockno[buf[p]] = want[p]
  BY <1>1 DEF Sound, Numbers, Holding
<1>3. Onward(p) /\ ~LogWrite(p) /\ ~Bunpin(p)
  BY <1>1 DEF Onward, RawCall, LogWrite, Bunpin
<1>4. Outstanding' = Outstanding
  BY <1>3, OutstandingNext
<1> QED BY <1>1, <1>2, <1>4 DEF RawWrite, Note, Sound, Types

LEMMA ReachedNext ==
  ASSUME Sound, Kept, Reached, Survived', Tidy', [Next]_vars
  PROVE  Reached'
<1>0. /\ Types /\ Hooks /\ "both" \notin mishaps /\ Outstanding \subseteq Logical
      /\ \A k \in Logical \ Outstanding : current[k] > 0 => current[k] \in {disk[k], disk[Mirror(k)]}
      /\ \A q \in Committers : pc[q] = "written" =>
           current[want[q]] \in {disk[want[q]], disk[Mirror(want[q])]}
  BY MishapsGrow, Facts DEF Sound, Reached, OnADisk, Survived
<1>1. CASE Rest
  BY <1>0, <1>1 DEF Rest, Reached, OnADisk, Procs
<1>2. ASSUME NEW p \in Procs, Onward(p) PROVE Reached'
  <2>1. /\ pc[p] # "idle" /\ buf[p] \in Bufs /\ want[p] \in Physical /\ want' = want
        /\ want[p] \in Logical => want[p] \in Physical /\ Mirror(want[p]) \in Physical
    BY <1>2, Moves, Facts, Numerals
  <2>2. ASSUME NEW k \in Logical, k \notin Outstanding', k # want[p], current'[k] > 0
        PROVE  current'[k] \in {disk'[k], disk'[Mirror(k)]}
    <3>1. k \notin Outstanding
      BY <1>2, <2>2, Frame
    <3> QED BY <1>0, <1>2, <2>2, <3>1, DiskFrame
  <2>3. ASSUME want[p] \in Logical, want[p] \notin Outstanding', current'[want[p]] > 0
        PROVE  current'[want[p]] \in {disk'[want[p]], disk'[Mirror(want[p])]}
    <3>1. ~LogWrite(p) /\ ~Write0Done(p) /\ ~Write1Done(p)
      <4>1. LogWrite(p) => want[p] \in Outstanding'
        BY OutstandingNext
      <4>2. Write0Done(p) \/ Write1Done(p) => want[p] \in Outstanding'
        BY WriteFacts
      <4> QED BY <2>3, <4>1, <4>2
    <3>2. CASE RawWrite(p)
      <4>1. /\ disk' = [disk EXCEPT ![want[p]] = version']
            /\ current' = [current EXCEPT ![want[p]] = version']
        BY <3>2, RawWriteFacts
      <4> QED BY <1>0, <2>1, <2>3, <4>1 DEF Types
    <3>3. CASE ~RawWrite(p)
      <4>1. disk' = disk /\ current' = current
        BY <1>0, <1>2, <3>1, <3>3, QuietFacts DEF ReadDone, RawRead, RawWriteFails, ghostVars
      <4>2. CASE Bunpin(p)
        <5>1. p \in Committers /\ pc[p] = "written"
          BY <4>2, OutstandingNext
        <5> QED BY <1>0, <4>1, <5>1
      <4>3. CASE ~Bunpin(p)
        <5>1. Outstanding' = Outstanding
          BY <1>2, <3>1, <4>3, OutstandingNext
        <5> QED BY <1>0, <2>3, <4>1, <5>1
      <4> QED BY <4>2, <4>3
    <3> QED BY <3>2, <3>3
  <2>4. ASSUME NEW q \in Committers, pc'[q] = "written"
        PROVE  current'[want[q]] \in {disk'[want[q]], disk'[Mirror(want[q])]}
    <3>0. q \in Procs
      BY DEF Procs
    <3>1. CASE q # p
      <4>1. pc[q] = "written" /\ pc[q] \in Holding
        BY <1>2, <2>4, <3>0, <3>1, Frame DEF Holding
      <4>2. want[q] \in Logical
        BY <3>0, <4>1, Facts
      <4> QED BY <1>0, <1>2, <3>0, <3>1, <4>1, <4>2, Undisturbed
    <3>2. CASE q = p /\ (Write0Done(p) \/ Write1Done(p))
      <4>1. /\ want[p] \in Logical /\ current' = current
            /\ \/ disk' = [disk EXCEPT ![want[p]] = current[want[p]]]
               \/ disk' = [disk EXCEPT ![Mirror(want[p])] = current[want[p]]]
        BY <3>2, WriteFacts
      <4> QED BY <1>0, <2>1, <3>2, <4>1 DEF Types
    <3>3. CASE q = p /\ BwriteStart(p)
      <4>1. want[p] \in Logical
        BY <2>1, <3>3, Facts DEF BwriteStart
      <4>2. ~(failDisk = 1 /\ failBlock # -1) /\ want[p] # -1
        BY <1>0, <4>1, Numerals DEF Hooks
      <4>3. pc'[p] # "written"
        BY <1>0, <3>3, <4>2 DEF BwriteStart, SkipPbn0, SkipPbn1, GoOn, Types
      <4> QED BY <2>4, <3>3, <4>3
    <3>4. CASE q = p /\ ~Write0Done(p) /\ ~Write1Done(p) /\ ~BwriteStart(p)
      <4>1. pc'[p] # "written"
        BY <1>0, <1>2, <3>4
        DEF Onward, Acquire, Bread, ReadCached, ReadStart, ReadDone, LogWrite, Bwrite, Bunpin,
            BrelseUnlock, RawCall, RawRead, RawWrite, RawWriteFails, Types
      <4> QED BY <2>4, <3>4, <4>1
    <3> QED BY <3>1, <3>2, <3>3, <3>4
  <2> QED BY <2>1, <2>2, <2>3, <2>4 DEF Reached, OnADisk
<1> QED BY <1>1, <1>2, RestFacts

-----------------------------------------------------------------------------
(* While no disk fails, the buffers and the disks are current.             *)
LEMMA CurrentBuffersNext ==
  ASSUME Sound, Kept, CurrentBuffers, Written, Healthy', Tidy', [Next]_vars
  PROVE  CurrentBuffers'
<1>0. /\ Types /\ Outstanding \subseteq Logical /\ Survived' /\ "failure" \notin mishaps
      /\ \A b \in Bufs : valid[b] /\ Home(b) \in Logical => data[b] = current[Home(b)]
      /\ \A k \in Logical \ Outstanding : disk[k] = current[k]
  BY MishapsGrow, Facts DEF Sound, CurrentBuffers, Written, Healthy, Survived
<1>1. CASE Rest
  BY <1>0, <1>1 DEF Rest, CurrentBuffers
<1>2. ASSUME NEW p \in Procs, Onward(p) PROVE CurrentBuffers'
  <2>1. /\ pc[p] # "idle" /\ buf[p] \in Bufs /\ Home(buf[p]) = want[p]
        /\ \A b \in Bufs : Home(b) = want[p] => b = buf[p]
        /\ \A b \in Bufs : Home(b)' = Home(b)
    BY <1>2, Moves, TheBuffer, SameBlocks
  <2>2. ASSUME NEW b \in Bufs, b # buf[p], valid'[b], Home(b) \in Logical
        PROVE  data'[b] = current'[Home(b)]
    <3>1. Home(b) # want[p]
      BY <2>1, <2>2
    <3> QED BY <1>0, <1>2, <2>2, <3>1, Frame
  <2>3. valid'[buf[p]] /\ want[p] \in Logical => data'[buf[p]] = current'[want[p]]
    <3>1. valid[buf[p]] /\ want[p] \in Logical => data[buf[p]] = current[want[p]]
      BY <1>0, <2>1
    <3>2. CASE Quiet(p) \/ Write0Done(p) \/ Write1Done(p)
      <4>1. UNCHANGED <<valid, data, current>>
        BY <1>0, <3>2, QuietFacts DEF Write0Done, Write1Done, ghostVars
      <4> QED BY <3>1, <4>1
    <3>3. CASE ReadDone(p)
      <4>1. pc[p] = "reading" /\ want[p] \notin Outstanding
        BY <2>1, <3>3 DEF ReadDone, Kept
      <4>2. blockno[buf[p]] = want[p]
        BY <1>0, <4>1 DEF Sound, Numbers
      <4>3. data'[buf[p]] = disk[want[p]] /\ current' = current
        BY <1>0, <2>1, <3>3, <4>2 DEF ReadDone, ghostVars, Types
      <4> QED BY <1>0, <4>1, <4>3
    <3>4. CASE RawRead(p)
      <4>1. pc[p] = "raw" /\ want[p] \notin Outstanding
        BY <1>0, <3>4 DEF RawRead, Note, Survived
      <4>2. blockno[buf[p]] = want[p]
        BY <4>1 DEF Sound, Numbers, Holding
      <4>3. data'[buf[p]] = disk[want[p]] /\ current' = current
        BY <1>0, <2>1, <3>4, <4>2 DEF RawRead, Types
      <4> QED BY <1>0, <4>1, <4>3
    <3>5. CASE LogWrite(p)
      BY <1>0, <2>1, <3>5 DEF LogWrite, Types
    <3>6. CASE RawWrite(p)
      BY <1>0, <2>1, <3>6 DEF RawWrite, Types
    <3>7. CASE RawWriteFails(p)
      <4>1. PICK d \in {data[buf[p]], Torn} :
              data' = [data EXCEPT ![buf[p]] = d] /\ Note("overwritten", valid[buf[p]] /\ d = Torn)
        BY <3>7 DEF RawWriteFails
      <4>2. valid[buf[p]] => d = data[buf[p]]
        BY <1>0, <4>1 DEF Note, Survived
      <4>3. valid' = valid /\ current' = current /\ data'[buf[p]] = d
        BY <1>0, <2>1, <3>7, <4>1 DEF RawWriteFails, Types
      <4> QED BY <3>1, <4>2, <4>3
    <3> QED BY <1>0, <1>2, <3>2, <3>3, <3>4, <3>5, <3>6, <3>7, QuietFacts
  <2>4. ASSUME NEW b \in Bufs, valid'[b], Home(b)' \in Logical
        PROVE  data'[b] = current'[Home(b)']
    <3>1. Home(b)' = Home(b)
      BY <2>1
    <3>2. CASE b = buf[p]
      BY <2>1, <2>3, <2>4, <3>1, <3>2
    <3>3. CASE b # buf[p]
      BY <2>2, <2>4, <3>1, <3>3
    <3> QED BY <3>2, <3>3
  <2> QED BY <2>4 DEF CurrentBuffers
<1> QED BY <1>1, <1>2, RestFacts

LEMMA WrittenNext ==
  ASSUME Sound, Kept, Written, Transfers, Healthy', Tidy', [Next]_vars
  PROVE  Written'
<1>0. /\ Types /\ Outstanding \subseteq Logical /\ Survived'
      /\ mishaps' = {} => mishaps = {}
      /\ \A k \in Logical \ Outstanding :
           /\ disk[k] = current[k]
           /\ mishaps = {} /\ current[k] > 0 => disk[Mirror(k)] = current[k]
  BY MishapsGrow, Facts DEF Sound, Written, Healthy, Survived
<1>1. CASE Rest
  BY <1>0, <1>1 DEF Rest, Written
<1>2. ASSUME NEW p \in Procs, Onward(p) PROVE Written'
  <2>1. ASSUME NEW k \in Logical, k \notin Outstanding', k # want[p]
        PROVE  /\ disk'[k] = current'[k]
               /\ mishaps' = {} /\ current'[k] > 0 => disk'[Mirror(k)] = current'[k]
    <3>1. k \notin Outstanding
      BY <1>2, <2>1, Frame
    <3>2. current'[k] = current[k] /\ disk'[k] = disk[k] /\ disk'[Mirror(k)] = disk[Mirror(k)]
      BY <1>0, <1>2, <2>1, DiskFrame
    <3> QED BY <1>0, <3>1, <3>2
  <2>2. ASSUME want[p] \in Logical, want[p] \notin Outstanding'
        PROVE  /\ disk'[want[p]] = current'[want[p]]
               /\ mishaps' = {} /\ current'[want[p]] > 0 =>
                    disk'[Mirror(want[p])] = current'[want[p]]
    <3>1. ~LogWrite(p) /\ ~Write0Done(p) /\ ~Write1Done(p)
      <4>1. LogWrite(p) => want[p] \in Outstanding'
        BY OutstandingNext
      <4>2. Write0Done(p) \/ Write1Done(p) => want[p] \in Outstanding'
        BY WriteFacts
      <4> QED BY <2>2, <4>1, <4>2
    <3>2. CASE RawWrite(p)
      <4>1. /\ disk' = [disk EXCEPT ![want[p]] = version']
            /\ current' = [current EXCEPT ![want[p]] = version']
            /\ mishaps' # {}
        BY <1>0, <2>2, <3>2, RawWriteFacts
      <4>2. want[p] \in Physical
        BY <2>2, Numerals
      <4> QED BY <1>0, <2>2, <4>1, <4>2 DEF Types
    <3>3. CASE ~RawWrite(p)
      <4>1. disk' = disk /\ current' = current
        BY <1>0, <1>2, <3>1, <3>3, QuietFacts DEF ReadDone, RawRead, RawWriteFails, ghostVars
      <4>2. CASE Bunpin(p)
        <5>1. pc[p] = "written"
          BY <4>2, OutstandingNext
        <5> QED BY <4>1, <5>1 DEF Transfers
      <4>3. CASE ~Bunpin(p)
        <5>1. Outstanding' = Outstanding
          BY <1>2, <3>1, <4>3, OutstandingNext
        <5> QED BY <1>0, <2>2, <4>1, <5>1
      <4> QED BY <4>2, <4>3
    <3> QED BY <3>2, <3>3
  <2> QED BY <2>1, <2>2 DEF Written
<1> QED BY <1>1, <1>2, RestFacts

LEMMA TransfersNext ==
  ASSUME Sound, Kept, Transfers, Healthy', Tidy', [Next]_vars
  PROVE  Transfers'
<1>0. /\ Types /\ Survived' /\ failDisk = -1 /\ failBlock = -1
      /\ \A q \in Procs :
           /\ pc[q] = "write0" => mirrorToo[q]
           /\ pc[q] \in {"write1", "written"} => disk[want[q]] = current[want[q]]
           /\ pc[q] = "written" => disk[Mirror(want[q])] = current[want[q]]
  BY MishapsGrow DEF Sound, Hooks, Transfers, Healthy, Survived
<1>1. CASE Rest
  <2>1. ASSUME NEW q \in Procs
        PROVE  /\ pc'[q] = "write0" => mirrorToo'[q]
               /\ pc'[q] \in {"write1", "written"} => disk'[want'[q]] = current'[want'[q]]
               /\ pc'[q] = "written" => disk'[Mirror(want'[q])] = current'[want'[q]]
    BY <1>0, <1>1 DEF Rest
  <2> QED BY <2>1 DEF Transfers
<1>2. ASSUME NEW p \in Procs, Onward(p) PROVE Transfers'
  <2>1. want' = want /\ pc[p] # "idle"
    BY <1>2, Moves
  <2>2. ASSUME NEW q \in Procs, q # p
        PROVE  /\ pc'[q] = "write0" => mirrorToo'[q]
               /\ pc'[q] \in {"write1", "written"} => disk'[want[q]] = current'[want[q]]
               /\ pc'[q] = "written" => disk'[Mirror(want[q])] = current'[want[q]]
    <3>1. pc'[q] = pc[q]
      BY <1>2, <2>2, Frame
    <3>2. CASE pc[q] \in {"write0", "write1", "written"}
      <4>1. pc[q] \in Holding /\ want[q] \in Logical
        BY <3>2, Facts DEF Holding
      <4> QED BY <1>0, <1>2, <2>2, <3>1, <4>1, Undisturbed
    <3>3. CASE pc[q] \notin {"write0", "write1", "written"}
      BY <3>1, <3>3
    <3> QED BY <3>2, <3>3
  <2>3. /\ pc'[p] = "write0" => mirrorToo'[p]
        /\ pc'[p] \in {"write1", "written"} => disk'[want[p]] = current'[want[p]]
        /\ pc'[p] = "written" => disk'[Mirror(want[p])] = current'[want[p]]
    <3>1. CASE BwriteStart(p)
      <4>1. want[p] \in Logical
        BY <2>1, <3>1, Facts DEF BwriteStart
      <4>2. want[p] # -1
        BY <4>1, Numerals
      <4>3. ~SkipPbn0(want[p]) /\ ~SkipPbn1
        BY <1>0, <4>2 DEF SkipPbn0, SkipPbn1
      <4>4. pc'[p] = "write0" /\ mirrorToo' = [mirrorToo EXCEPT ![p] = ~SkipPbn1]
        BY <1>0, <3>1, <4>3 DEF BwriteStart, Types
      <4>5. mirrorToo'[p]
        <5>1. (~SkipPbn1) = TRUE
          BY <4>3
        <5>2. mirrorToo'[p] = (~SkipPbn1)
          BY <1>0, <4>4, Zenon DEF Types
        <5> QED BY <5>1, <5>2
      <4> QED BY <4>4, <4>5
    <3>2. CASE Write0Done(p) \/ Write1Done(p)
      <4>1. /\ want[p] \in Logical /\ current' = current
            /\ Write0Done(p) => /\ disk' = [disk EXCEPT ![want[p]] = current[want[p]]]
                                /\ pc'[p] = IF mirrorToo[p] THEN "write1" ELSE "written"
                                /\ pc[p] = "write0"
            /\ Write1Done(p) => /\ disk' = [disk EXCEPT ![Mirror(want[p])] = current[want[p]]]
                                /\ pc'[p] = "written" /\ pc[p] = "write1"
        BY <3>2, WriteFacts
      <4>2. want[p] \in Physical /\ Mirror(want[p]) \in Physical /\ Mirror(want[p]) # want[p]
        BY <4>1, Numerals
      <4> QED BY <1>0, <3>2, <4>1, <4>2 DEF Types
    <3>3. CASE ~BwriteStart(p) /\ ~Write0Done(p) /\ ~Write1Done(p)
      <4>1. pc'[p] \notin {"write0", "write1", "written"}
        BY <1>0, <1>2, <3>3
        DEF Onward, Acquire, Bread, ReadCached, ReadStart, ReadDone, LogWrite, Bwrite, Bunpin,
            BrelseUnlock, RawCall, RawRead, RawWrite, RawWriteFails, Types
      <4> QED BY <4>1
    <3> QED BY <3>1, <3>2, <3>3
  <2> QED BY <2>1, <2>2, <2>3 DEF Transfers
<1> QED BY <1>1, <1>2, RestFacts

-----------------------------------------------------------------------------
LEMMA InitOrder ==
  ASSUME Init
  PROVE  Order
<1> DEFINE n == Cardinality(Bufs)
<1>1. n \in Nat
  BY FS_CardinalityType, BcacheAssumption
<1>2. lru \in [1..n -> Bufs] /\ IsInjective(lru)
  BY DEF Init
<1>3. IsFiniteSet(1..n) /\ Cardinality(1..n) = n
  BY <1>1, FS_Interval
<1>4. lru \in Injection(1..n, Bufs)
  BY <1>2 DEF Injection
<1>5. lru \in Surjection(1..n, Bufs)
  BY <1>3, <1>4, FS_Injection, BcacheAssumption
<1>6. \A b \in Bufs : \E i \in 1..n : lru[i] = b
  BY <1>5 DEF Surjection
<1>7. lru \in Seq(Bufs) /\ Len(lru) = n /\ DOMAIN lru = 1..n
  BY <1>1, <1>2
<1>8. ToSet(lru) = Bufs
  BY <1>2, <1>6, <1>7 DEF ToSet
<1> QED BY <1>7, <1>8 DEF Order

LEMMA InitSound ==
  ASSUME Init
  PROVE  Sound
<1>1. Order
  BY InitOrder
<1>2. Types
  <2>1. /\ blockno \in [Bufs -> Physical \cup {NoBlock}] /\ valid \in [Bufs -> BOOLEAN]
        /\ refcnt \in [Bufs -> Int] /\ owner \in [Bufs -> Procs \cup {None}]
        /\ buf \in [Procs -> Bufs \cup {None}] /\ want \in [Procs -> Physical \cup {NoBlock}]
        /\ mirrorToo \in [Procs -> BOOLEAN] /\ pc \in [Procs -> Points]
    BY DEF Init, Points
  <2>2. 0 \in Contents /\ Blank \in Contents /\ 0 \in 0..MaxVersion /\ 0 \in 0..MaxCalls
    BY BcacheAssumption DEF Blank, Contents, Torn
  <2>3. data \in [Bufs -> Contents] /\ disk \in [Physical -> Contents]
        /\ current \in [Logical -> 0..MaxVersion] /\ version \in 0..MaxVersion
    BY <2>2 DEF Init
  <2>4. failDisk \in -1..1 /\ failBlock \in -1..(DiskSize - 1)
    BY BcacheAssumption DEF Init
  <2>5. /\ logged \subseteq WriteBlocks /\ toInstall \subseteq logged /\ committing \in BOOLEAN
        /\ panicked \in BOOLEAN /\ calls \in 0..MaxCalls /\ mishaps \subseteq Mishaps
        /\ asleep \subseteq Procs
    BY <2>2 DEF Init
  <2> QED BY <2>1, <2>3, <2>4, <2>5 DEF Types
<1>3. Budget
  <2>1. Pending = {}
    BY DEF Init, Pending, Procs
  <2> QED BY <2>1, FS_EmptySet, BcacheAssumption DEF Init, Budget
<1>4. Roles /\ Hooks
  BY DEF Init, Roles, Hooks
<1>5. Commits
  BY DEF Init, Commits, Procs
<1>6. Sleeplocks
  BY BcacheAssumption DEF Init, Sleeplocks
<1>7. Numbers
  BY DEF Init, Numbers
<1>8. \A b \in Bufs : Home(b) = NoBlock
  BY DEF Init, Home
<1>9. Distinct
  BY <1>8 DEF Distinct
<1>10. Outstanding = {}
  BY DEF Init, Outstanding
<1>11. Counts
  <2>1. ASSUME NEW b \in Bufs PROVE refcnt[b] = 0 /\ Cardinality(Users(b)) = 0
    <3>1. Users(b) = {}
      BY BcacheAssumption DEF Init, Users
    <3> QED BY <3>1, FS_EmptySet DEF Init
  <2> QED BY <1>10, <2>1 DEF Counts
<1> QED BY <1>1, <1>2, <1>3, <1>4, <1>5, <1>6, <1>7, <1>9, <1>11 DEF Sound

LEMMA InitIInv ==
  ASSUME Init
  PROVE  IInv
<1>1. Sound /\ PanicMeansFull
  BY InitSound DEF Init, PanicMeansFull
<1>2. Outstanding = {} /\ \A b \in Bufs : ~valid[b]
  BY DEF Init, Outstanding
<1>3. \A k \in Logical : disk[k] = 0 /\ current[k] = 0
  BY Numerals DEF Init, Logical
<1>4. Kept
  BY <1>2 DEF Init, Kept
<1>5. Reached
  BY <1>3 DEF Init, Reached, Procs
<1>6. CurrentBuffers /\ Written
  BY <1>2, <1>3 DEF CurrentBuffers, Written
<1>7. Transfers
  BY DEF Init, Transfers
<1> QED BY <1>1, <1>4, <1>5, <1>6, <1>7 DEF IInv

LEMMA NextIInv ==
  ASSUME IInv, [Next]_vars
  PROVE  IInv'
<1>1. /\ Tidy' => Tidy
      /\ Survived' => Survived /\ Tidy'
      /\ Healthy' => Healthy /\ Survived'
  BY MishapsGrow DEF Tidy, Survived, Healthy
<1>2. ASSUME Tidy' PROVE Sound' /\ PanicMeansFull'
  <2>1. Sound /\ PanicMeansFull
    BY <1>1, <1>2 DEF IInv
  <2> QED BY <1>2, <2>1, SoundNext, PanicNext
<1>3. ASSUME Survived' PROVE Kept' /\ Reached'
  <2>1. Sound /\ Kept /\ Reached /\ Tidy'
    BY <1>1, <1>3 DEF IInv
  <2> QED BY <1>3, <2>1, KeptNext, ReachedNext
<1>4. ASSUME Healthy' PROVE CurrentBuffers' /\ Written' /\ Transfers'
  <2>1. Sound /\ Kept /\ CurrentBuffers /\ Written /\ Transfers /\ Tidy'
    BY <1>1, <1>4 DEF IInv
  <2> QED BY <1>4, <2>1, CurrentBuffersNext, WrittenNext, TransfersNext
<1> QED BY <1>2, <1>3, <1>4 DEF IInv

THEOREM BcacheInvariant == Spec => []IInv
<1>1. Init => IInv
  BY InitIInv
<1>2. IInv /\ [Next]_vars => IInv'
  BY NextIInv
<1> QED BY <1>1, <1>2, PTL DEF Spec

-----------------------------------------------------------------------------
(* Until bget is asked for a block whose buffer a transfer has renamed,    *)
(* reference counts are exact, a process keeps the buffer it got for the   *)
(* block it asked for, no block is cached twice, and bget panics only when *)
(* every buffer is in use or pinned - whatever the hooks and raw calls do. *)
THEOREM BcacheBuffersExact == Spec => []BuffersExact
<1>1. IInv => BuffersExact
  <2> SUFFICES ASSUME Sound, PanicMeansFull PROVE TypeOK /\ BuffersSound
    BY DEF IInv, BuffersExact, Tidy
  <2>1. TypeOK
    <3>1. logged \subseteq Logical
      BY Numerals DEF Sound, Types
    <3> QED BY <3>1 DEF Sound, TypeOK, Types, Order, Points, Holding
  <2>2. RefcntExact
    BY DEF Sound, Counts, RefcntExact
  <2>3. HolderKeepsBlock
    <3> SUFFICES ASSUME NEW p \in Procs, buf[p] # None
                 PROVE  /\ Home(buf[p]) = want[p]
                        /\ owner[buf[p]] = p /\ ~InTransfer(p) => blockno[buf[p]] = want[p]
      BY DEF HolderKeepsBlock
    <3>1. pc[p] # "idle" /\ buf[p] \in Bufs /\ Home(buf[p]) = want[p]
      BY Facts DEF Sound, Roles
    <3>2. ASSUME owner[buf[p]] = p, ~InTransfer(p) PROVE blockno[buf[p]] = want[p]
      <4>1. pc[p] \in Holding
        BY <3>1, <3>2 DEF Sound, Sleeplocks
      <4> QED BY <3>1, <3>2, <4>1 DEF InTransfer, Sound, Numbers
    <3> QED BY <3>1, <3>2
  <2>4. OneBufferPerBlock
    BY DEF Sound, Distinct, OneBufferPerBlock
  <2> QED BY <2>1, <2>2, <2>3, <2>4 DEF BuffersSound
<1> QED BY <1>1, BcacheInvariant, PTL

(* Until a disk or block fails, bget is asked for a renamed block or a raw *)
(* call overwrites part of a buffer, what bread hands to its caller is the *)
(* version last stored in the block, from memory or from a disk, also while*)
(* others log and install that very block or write it with raw calls.      *)
THEOREM BcacheReadIsCurrent == Spec => []ReadIsCurrent
<1>1. IInv => ReadIsCurrent
  <2> SUFFICES ASSUME Sound, Kept, CurrentBuffers,
                      NEW p \in Readers \cup Updaters \cup Committers, pc[p] = "held"
               PROVE  valid[buf[p]] /\ data[buf[p]] = current[want[p]]
    BY DEF IInv, ReadIsCurrent, Tidy, Survived, Healthy
  <2>1. p \in Procs /\ p \notin RawUsers
    BY BcacheAssumption DEF Procs
  <2>2. buf[p] \in Bufs /\ Home(buf[p]) = want[p] /\ want[p] \in Logical
    BY <2>1, Facts
  <2>3. valid[buf[p]]
    BY <2>1 DEF Kept
  <2> QED BY <2>2, <2>3 DEF CurrentBuffers
<1> QED BY <1>1, BcacheInvariant, PTL

(* A change that is logged and not yet written home is in memory, valid,   *)
(* in a buffer bget cannot recycle, also while single disks or blocks fail *)
(* and raw calls write to homes: until both copies of a block fail, bget is*)
(* asked for a renamed block, or a raw call overwrites a logged change.    *)
THEOREM BcacheNoLostUpdate == Spec => []NoLostUpdate
<1>1. IInv => NoLostUpdate
  <2> SUFFICES ASSUME Sound, Kept, NEW k \in Outstanding
               PROVE  \E b \in Bufs : /\ Home(b) = k /\ refcnt[b] > 0 /\ valid[b]
                                      /\ data[b] = current[k]
    BY DEF IInv, NoLostUpdate, Tidy, Survived
  <2>1. PICK b \in Bufs : Home(b) = k
    BY DEF Sound, Counts
  <2>2. refcnt[b] = Cardinality(Users(b)) + 1 /\ Cardinality(Users(b)) \in Nat
    BY <2>1, FreeFacts DEF Sound, Counts
  <2>3. refcnt[b] > 0
    BY <2>2
  <2> QED BY <2>1, <2>3 DEF Kept
<1> QED BY <1>1, BcacheInvariant, PTL

(* As long as nothing has failed and none of the other four mishaps has    *)
(* happened, a block that is not in the log is the same on both disks.     *)
THEOREM BcacheMirrorsAgree == Spec => []MirrorsAgree
<1>1. IInv => MirrorsAgree
  <2> SUFFICES ASSUME Sound, Written, mishaps = {}, NEW k \in Logical \ logged, current[k] > 0
               PROVE  disk[k] = current[k] /\ disk[Mirror(k)] = current[k]
    BY DEF IInv, MirrorsAgree, Tidy, Survived, Healthy
  <2>1. k \notin Outstanding
    BY DEF Sound, Types, Outstanding
  <2> QED BY <2>1 DEF Written
<1> QED BY <1>1, BcacheInvariant, PTL

(* bwrite skips a copy only for a disk or block that fails: while the hooks*)
(* fail one disk or block at a time, changing it whenever they like, and   *)
(* none of the other mishaps but a raw write of a home has happened, a     *)
(* block that is not in the log has its last version on a disk.            *)
THEOREM BcacheWriteReachesADisk == Spec => []WriteReachesADisk
<1>1. IInv => WriteReachesADisk
  <2> SUFFICES ASSUME Sound, Reached, NEW k \in Logical \ logged, current[k] > 0
               PROVE  current[k] \in {disk[k], disk[Mirror(k)]}
    BY DEF IInv, WriteReachesADisk, Tidy, Survived
  <2>1. k \notin Outstanding
    BY DEF Sound, Types, Outstanding
  <2> QED BY <2>1 DEF Reached, OnADisk
<1> QED BY <1>1, BcacheInvariant, PTL
=============================================================================
