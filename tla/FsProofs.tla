------------------------------ MODULE FsProofs ------------------------------
(***************************************************************************)
(* The inode cache of mp4, the permissions of open() and the blocks of     *)
(* inodes, for every number of processes, inodes, entries of the cache and *)
(* blocks, and any calls.                                                  *)
(***************************************************************************)
EXTENDS Fs, FiniteSetTheorems, WellFoundedInduction, TLAPS

-----------------------------------------------------------------------------
(* The inductive invariant.                                                *)

Types == {"free", "DIR", "FILE", "SYMLINK"}
Dinodes == [type : Types, perm : SUBSET M_ALL, nlink : Int, addrs : SUBSET Blocks]
Inodes == [inum : 0 .. NInodes, ref : Nat, valid : BOOLEAN, lock : Procs \cup {None},
           type : Types, perm : SUBSET M_ALL, nlink : Int, addrs : SUBSET Blocks]
Fields == {"pc", "call", "path", "parent", "name", "ip", "dp", "old", "depth", "stack", "target",
           "then", "want", "locked", "put", "after", "cwd", "fd", "left"}

DiskTypes ==
    /\ setup \in Setups /\ disk \in [Inums -> Dinodes] /\ icache \in [Slots -> Inodes]
    /\ used \subseteq Blocks /\ DOMAIN data = Inums /\ DOMAIN proc = Procs

\* Where a process is, or will be when it has put an inode and locked another one.
WalkPoints == {"look", "link", "readlink", "follow"}
ParentPoints == {"creating", "unlinking", "linking"}
FoundPoints == {"open", "open2", "linkold", "chmod", "chdir"} \cup ParentPoints
IpPoints == {"look", "readlink", "exists", "newinode", "created", "install", "victim", "unlinked", "notlinked"}
            \cup FoundPoints
FdPoints == {"write", "bmap"}
LockPoints == IpPoints \cup FdPoints \cup {"unlinkbad", "linkbad"}
CodePoints == LockPoints \cup {"idle", "link", "follow", "linked"}

Putting == {"put", "put2"}
Waits(l) == l.pc = "lock" \/ (l.pc \in Putting /\ l.after = "lock")
Place(l) == IF Waits(l) THEN l.locked ELSE IF l.pc \in Putting THEN l.after ELSE l.pc

\* The inode it has locked there, and all that it has locked now.
Main(l) ==
    IF Place(l) \in IpPoints THEN l.ip
    ELSE IF Place(l) = "unlinkbad" THEN l.dp
    ELSE IF Place(l) = "linkbad" THEN l.old
    ELSE l.fd.ip
Held(l, s) ==
    \/ ~Waits(l) /\ Place(l) \in LockPoints /\ s = Main(l)
    \/ Place(l) \in {"newinode", "victim"} /\ s = l.dp
    \/ l.pc = "put2" /\ s = l.put

\* The call that leads to a place.
Aim(l) == IF Place(l) \in WalkPoints THEN l.then ELSE Place(l)
CallFits(l) ==
    /\ Aim(l) \in {"creating", "exists", "newinode", "created"} =>
          \/ l.call.fn \in {"mkdir", "symlink"}
          \/ l.call.fn = "open" /\ "CREATE" \in l.call.omode
    /\ Aim(l) = "chmod" => l.call.mode \subseteq M_ALL
    /\ Place(l) \in WalkPoints => l.then \in FoundPoints /\ (l.then \in ParentPoints => l.parent)

\* Which references a process has, and what it waits for.
Pointed(l) ==
    /\ l.ip \in Slots \cup {None} /\ l.dp \in Slots \cup {None} /\ l.old \in Slots \cup {None}
    /\ l.put \in Slots \cup {None} /\ l.cwd \in Slots /\ l.fd.ip \in Slots \cup {None}
    /\ l.fd # NoFile => l.fd.ip \in Slots
    /\ l.put # None <=> l.pc \in Putting
    /\ l.pc = "put2" => l.put \notin {l.ip, l.dp, l.old, l.cwd, l.fd.ip}
    /\ l.ip # None <=> Place(l) \in IpPoints \cup {"link"}
    /\ l.dp # None <=> Place(l) \in {"newinode", "victim", "unlinkbad"}
    /\ l.old # None <=> Aim(l) \in {"linking", "notlinked", "linkbad", "linked"}
    /\ Place(l) \in FdPoints => l.fd.ip \in Slots
    /\ Waits(l) => Place(l) \in LockPoints /\ l.want = Main(l)
    /\ Waits(l) \/ l.pc \in Putting => Place(l) # "install"

Shape(l) == DOMAIN l = Fields /\ Place(l) \in CodePoints /\ CallFits(l) /\ Pointed(l)
Apart(l) == Place(l) \in {"newinode", "victim"} /\ ~Waits(l) => l.ip # l.dp
Control(l) == Shape(l) /\ Apart(l)
Controls == \A p \in Procs : Control(proc[p])

Holders(s) == {h \in Procs \X Pointers : Pointer(h[1], h[2]) = s}
Refs == \A s \in Slots : icache[s].ref = Cardinality(Holders(s))
Locks == \A p \in Procs, s \in Slots : icache[s].lock = p <=> Held(proc[p], s)
Cached == (\A s \in Slots : icache[s].ref > 0 => icache[s].inum \in Inums) /\ OneEntryPerInode

\* An entry that has been locked is valid, and one that is valid is what is on the disk,
\* unless iput() has freed the inode and has not marked the entry yet.
Freeing(s) == \E p \in Procs : proc[p].pc = "put2" /\ proc[p].put = s
NoBmapCall == \A p \in Procs : \A call \in setup.calls[p] : call.fn # "get_disk_lbn"
Current(e, d) == d.type = e.type /\ d.perm = e.perm /\ d.nlink = e.nlink /\ (NoBmapCall => d.addrs = e.addrs)
Valids == \A p \in Procs, s \in Slots : Held(proc[p], s) => icache[s].valid
Currents ==
    \A s \in Slots : icache[s].ref > 0 /\ icache[s].valid /\ ~Freeing(s) =>
        icache[s].type # "free" /\ Current(icache[s], disk[icache[s].inum])

\* A directory's entries are inode numbers, and a free inode says nothing.
IsDirectory(d) == \A n \in DOMAIN d : d[n] \in Inums
Contents ==
    \A i \in Inums : /\ disk[i].type = "free" => data[i] = NoData
                     /\ disk[i].type = "DIR" => IsDirectory(data[i])

\* What kind of inode a process has found or made.
TypeAt(s) == disk[icache[s].inum].type
Kinds ==
    \A p \in Procs :
        /\ Place(proc[p]) \in ParentPoints => TypeAt(proc[p].ip) = "DIR"
        /\ Place(proc[p]) \in {"newinode", "created"} => TypeAt(proc[p].ip) = TypeOf(proc[p].call)

\* A file that is going to be opened may be, unless it has been created.
Permitted ==
    \A p \in Procs : proc[p].pc = "install" =>
        "CREATE" \in proc[p].call.omode \/ ~Denied(icache[proc[p].ip], proc[p].call.omode)

Bmaps == \A p \in Procs : Place(proc[p]) = "bmap" => ~NoBmapCall

IInv == /\ DiskTypes /\ Controls /\ Refs /\ Locks /\ Cached /\ Valids /\ Currents /\ Contents /\ Kinds
        /\ Permitted /\ Bmaps

-----------------------------------------------------------------------------
(* Counting references.                                                    *)

Ptr(l, v) == IF v = "fd" THEN l.fd.ip ELSE l[v]
One(b) == IF b THEN 1 ELSE 0

\* How many references of a process point to the entry s.
N(l, s) == One(l.ip = s) + One(l.dp = s) + One(l.old = s) + One(l.put = s) + One(l.cwd = s) + One(l.fd.ip = s)

\* Those among the references v of a process that are in F.
C(l, s, F) == Cardinality({w \in F : Ptr(l, w) = s})

LEMMA CountNext ==
  ASSUME NEW l, NEW s, NEW F, IsFiniteSet(F), NEW v, v \notin F, NEW G, G = F \cup {v}
  PROVE  IsFiniteSet(G) /\ C(l, s, G) = C(l, s, F) + One(Ptr(l, v) = s)
<1> DEFINE S == {w \in F : Ptr(l, w) = s}
           T == {w \in G : Ptr(l, w) = s}
<1>1. IsFiniteSet(S) /\ Cardinality(S) \in Nat /\ v \notin S
  BY FS_Subset, FS_CardinalityType
<1>2. IsFiniteSet(G)
  BY FS_AddElement
<1>3. C(l, s, F) = Cardinality(S) /\ C(l, s, G) = Cardinality(T)
  BY DEF C
<1>4. CASE Ptr(l, v) = s
  <2>1. T = S \cup {v}
    BY <1>4
  <2> HIDE DEF S, T
  <2>2. Cardinality(T) = Cardinality(S) + 1
    BY <1>1, <2>1, FS_AddElement
  <2>3. One(Ptr(l, v) = s) = 1
    BY <1>4 DEF One
  <2> QED BY <1>2, <1>3, <2>2, <2>3
<1>5. CASE Ptr(l, v) # s
  <2>1. T = S
    BY <1>5
  <2>2. One(Ptr(l, v) = s) = 0
    BY <1>5 DEF One
  <2> HIDE DEF S, T
  <2> QED BY <1>1, <1>2, <1>3, <2>1, <2>2
<1> QED BY <1>4, <1>5

LEMMA CountOwn ==
  ASSUME NEW l, NEW s
  PROVE  /\ IsFiniteSet({v \in Pointers : Ptr(l, v) = s})
         /\ Cardinality({v \in Pointers : Ptr(l, v) = s}) = N(l, s)
         /\ N(l, s) \in Nat
<1>0. C(l, s, {}) = 0 /\ IsFiniteSet({})
  <2>1. {v \in {} : Ptr(l, v) = s} = {}
    OBVIOUS
  <2> QED BY <2>1, FS_EmptySet DEF C
<1>1. IsFiniteSet({"ip"}) /\ C(l, s, {"ip"}) = C(l, s, {}) + One(Ptr(l, "ip") = s)
  BY <1>0, CountNext
<1>2. IsFiniteSet({"ip", "dp"}) /\ C(l, s, {"ip", "dp"}) = C(l, s, {"ip"}) + One(Ptr(l, "dp") = s)
  <2>1. {"ip", "dp"} = {"ip"} \cup {"dp"} /\ "dp" \notin {"ip"}
    OBVIOUS
  <2> QED BY <1>1, <2>1, CountNext
<1>3. /\ IsFiniteSet({"ip", "dp", "old"})
      /\ C(l, s, {"ip", "dp", "old"}) = C(l, s, {"ip", "dp"}) + One(Ptr(l, "old") = s)
  <2>1. {"ip", "dp", "old"} = {"ip", "dp"} \cup {"old"} /\ "old" \notin {"ip", "dp"}
    OBVIOUS
  <2> QED BY <1>2, <2>1, CountNext
<1>4. /\ IsFiniteSet({"ip", "dp", "old", "put"})
      /\ C(l, s, {"ip", "dp", "old", "put"}) = C(l, s, {"ip", "dp", "old"}) + One(Ptr(l, "put") = s)
  <2>1. {"ip", "dp", "old", "put"} = {"ip", "dp", "old"} \cup {"put"} /\ "put" \notin {"ip", "dp", "old"}
    OBVIOUS
  <2> QED BY <1>3, <2>1, CountNext
<1>5. /\ IsFiniteSet({"ip", "dp", "old", "put", "cwd"})
      /\ C(l, s, {"ip", "dp", "old", "put", "cwd"}) = C(l, s, {"ip", "dp", "old", "put"}) + One(Ptr(l, "cwd") = s)
  <2>1. /\ {"ip", "dp", "old", "put", "cwd"} = {"ip", "dp", "old", "put"} \cup {"cwd"}
        /\ "cwd" \notin {"ip", "dp", "old", "put"}
    OBVIOUS
  <2> QED BY <1>4, <2>1, CountNext
<1>6. /\ IsFiniteSet(Pointers)
      /\ C(l, s, Pointers) = C(l, s, {"ip", "dp", "old", "put", "cwd"}) + One(Ptr(l, "fd") = s)
  <2>1. /\ Pointers = {"ip", "dp", "old", "put", "cwd"} \cup {"fd"}
        /\ "fd" \notin {"ip", "dp", "old", "put", "cwd"}
    BY DEF Pointers
  <2> QED BY <1>5, <2>1, CountNext
<1>7. IsFiniteSet({v \in Pointers : Ptr(l, v) = s})
  BY <1>6, FS_Subset
<1>8. \A b : One(b) \in Nat
  BY DEF One
<1>9. /\ Ptr(l, "ip") = l.ip /\ Ptr(l, "dp") = l.dp /\ Ptr(l, "old") = l.old
      /\ Ptr(l, "put") = l.put /\ Ptr(l, "cwd") = l.cwd /\ Ptr(l, "fd") = l.fd.ip
  BY DEF Ptr
<1>10. C(l, s, Pointers) = N(l, s) /\ N(l, s) \in Nat
  BY <1>0, <1>1, <1>2, <1>3, <1>4, <1>5, <1>6, <1>8, <1>9 DEF N
<1> QED BY <1>7, <1>10 DEF C

\* The references of one process, and those of the others.
Others(p, s) == {h \in Holders(s) : h[1] # p}

LEMMA HoldersFinite ==
  ASSUME NEW s
  PROVE  IsFiniteSet(Holders(s)) /\ Cardinality(Holders(s)) \in Nat
<1>1. IsFiniteSet(Pointers)
  <2>1. Pointers = {"ip", "dp", "old"} \cup {"put", "cwd", "fd"}
    BY DEF Pointers
  <2>2. IsFiniteSet({"ip", "dp", "old"}) /\ IsFiniteSet({"put", "cwd", "fd"})
    <3>1. \A x, y, z : IsFiniteSet({x, y, z})
      <4> TAKE x, y, z
      <4>1. IsFiniteSet({x}) /\ IsFiniteSet({y}) /\ IsFiniteSet({z})
        BY FS_Singleton
      <4>2. IsFiniteSet({x} \cup {y})
        BY <4>1, FS_Union
      <4>3. IsFiniteSet(({x} \cup {y}) \cup {z})
        BY <4>1, <4>2, FS_Union
      <4>4. ({x} \cup {y}) \cup {z} = {x, y, z}
        OBVIOUS
      <4> QED BY <4>3, <4>4
    <3> QED BY <3>1
  <2> QED BY <2>1, <2>2, FS_Union
<1>2. IsFiniteSet(Procs)
  BY FsAssumption DEF FsAssumption
<1>3. IsFiniteSet(Procs \X Pointers)
  BY <1>1, <1>2, FS_Product
<1>4. Holders(s) \subseteq Procs \X Pointers
  BY DEF Holders
<1> QED BY <1>3, <1>4, FS_Subset, FS_CardinalityType

LEMMA HoldersSplit ==
  ASSUME NEW p \in Procs, NEW s
  PROVE  /\ Cardinality(Others(p, s)) \in Nat
         /\ Cardinality(Holders(s)) = Cardinality(Others(p, s)) + N(proc[p], s)
<1> DEFINE own == {v \in Pointers : Ptr(proc[p], v) = s}
           mine == {h \in Holders(s) : h[1] = p}
           f == [v \in own |-> <<p, v>>]
<1>1. IsFiniteSet(own) /\ Cardinality(own) = N(proc[p], s)
  BY CountOwn
<1>2. IsFiniteSet(mine) /\ IsFiniteSet(Others(p, s)) /\ Cardinality(Others(p, s)) \in Nat /\ Cardinality(mine) \in Nat
  BY HoldersFinite, FS_Subset, FS_CardinalityType DEF Others
<1>3. mine \cap Others(p, s) = {} /\ mine \cup Others(p, s) = Holders(s)
  BY DEF Others
<1>4. \A v : v \in own <=> <<p, v>> \in mine
  BY DEF Holders, Ptr, Pointer
<1>5. \A h \in mine : h = <<p, h[2]>> /\ h[2] \in own
  BY DEF Holders, Ptr, Pointer
<1> HIDE DEF own, mine
<1>6. f \in Bijection(own, mine)
  BY <1>4, <1>5 DEF Bijection, Injection, Surjection, IsInjective
<1>7. Cardinality(mine) = Cardinality(own)
  BY <1>1, <1>6, FS_Bijection DEF ExistsBijection
<1>8. Cardinality(Holders(s)) = Cardinality(mine) + Cardinality(Others(p, s)) - Cardinality(mine \cap Others(p, s))
  BY <1>2, <1>3, FS_Union
<1>9. Cardinality(mine \cap Others(p, s)) = 0
  BY <1>3, FS_EmptySet
<1> QED BY <1>1, <1>2, <1>7, <1>8, <1>9

\* What a step of p changes in the count of references.
LEMMA RefsMoved ==
  ASSUME Refs, DiskTypes, NEW p \in Procs, NEW m, proc' = [proc EXCEPT ![p] = m],
         \A s \in Slots : icache[s].ref \in Nat /\ icache'[s].ref + N(proc[p], s) = icache[s].ref + N(m, s)
                          /\ icache'[s].ref \in Int
  PROVE  Refs'
<1> SUFFICES ASSUME NEW s \in Slots PROVE icache'[s].ref = Cardinality(Holders(s)')
  BY DEF Refs
<1>1. icache[s].ref = Cardinality(Others(p, s)) + N(proc[p], s) /\ Cardinality(Others(p, s)) \in Nat
  BY HoldersSplit DEF Refs
<1>2. proc'[p] = m /\ DOMAIN proc = Procs /\ \A q \in Procs \ {p} : proc'[q] = proc[q]
  BY DEF DiskTypes
<1>3. Others(p, s)' = Others(p, s)
  BY <1>2 DEF Others, Holders, Pointer
<1>4. Cardinality(Holders(s)') = Cardinality(Others(p, s)') + N(proc'[p], s)
  <2>1. (Cardinality(Holders(s)) = Cardinality(Others(p, s)) + N(proc[p], s))'
    BY HoldersSplit, PTL
  <2> QED BY <2>1
<1>5. N(m, s) \in Nat /\ N(proc[p], s) \in Nat
  BY CountOwn
<1>6. icache'[s].ref \in Int /\ icache'[s].ref + N(proc[p], s) = icache[s].ref + N(m, s)
  OBVIOUS
<1>7. Cardinality(Holders(s)') = Cardinality(Others(p, s)) + N(m, s)
  BY <1>2, <1>3, <1>4
<1>8. \A a, b, c, d, e : a \in Int /\ b \in Int /\ c \in Int /\ d \in Int /\ a + b = c + d /\ e \in Int /\ c = e + b => a = e + d
  OBVIOUS
<1> QED BY <1>1, <1>5, <1>6, <1>7, <1>8

LEMMA PointedRef ==
  ASSUME Refs, NEW p \in Procs, NEW s \in Slots
  PROVE  icache[s].ref \in Nat /\ icache[s].ref >= N(proc[p], s) /\ N(proc[p], s) \in Nat
<1>1. icache[s].ref = Cardinality(Others(p, s)) + N(proc[p], s) /\ Cardinality(Others(p, s)) \in Nat
  BY HoldersSplit DEF Refs
<1>2. N(proc[p], s) \in Nat
  BY CountOwn
<1> QED BY <1>1, <1>2

-----------------------------------------------------------------------------
(* The locals of a process, and what iput(), ilock() and namex() make of   *)
(* them: lemmas about Put, Lock, Idle, Result and Walking.                 *)

Alike(m, l, F) == DOMAIN m = Fields /\ \A f \in Fields \ F : m[f] = l[f]

LEMMA NIsNat == ASSUME NEW l, NEW s PROVE N(l, s) \in Nat
BY CountOwn

\* A process that has an inode to put is where it was.
LEMMA PutShape ==
  ASSUME NEW l, Shape(l), l.pc \notin Putting \cup {"install"}, NEW s \in Slots
  PROVE  /\ Shape(Put(l, s)) /\ (Apart(Put(l, s)) <=> Apart(l))
         /\ Place(Put(l, s)) = Place(l) /\ Put(l, s).pc = "put" /\ Alike(Put(l, s), l, {"pc", "put", "after"})
         /\ \A t \in Slots : /\ Held(Put(l, s), t) <=> Held(l, t)
                             /\ N(Put(l, s), t) = N(l, t) + One(s = t)
<1> DEFINE m == Put(l, s)
<1>1. Alike(m, l, {"pc", "put", "after"}) /\ m.pc = "put" /\ m.put = s /\ m.after = l.pc
  BY DEF Put, Alike, Shape, Fields
<1>2. /\ m.ip = l.ip /\ m.dp = l.dp /\ m.old = l.old /\ m.cwd = l.cwd /\ m.fd = l.fd /\ m.call = l.call
      /\ m.then = l.then /\ m.want = l.want /\ m.locked = l.locked /\ m.parent = l.parent
  BY <1>1 DEF Alike, Fields
<1>3. DOMAIN m = Fields
  BY <1>1 DEF Alike
<1> HIDE DEF m
<1>4. Place(m) = Place(l) /\ (Waits(m) <=> Waits(l))
  BY <1>1, <1>2 DEF Place, Waits, Putting
<1>4a. Aim(m) = Aim(l)
  BY <1>2, <1>4 DEF Aim
<1>5. CallFits(m)
  BY <1>2, <1>4, <1>4a DEF CallFits, Shape
<1>6. Main(m) = Main(l)
  BY <1>2, <1>4 DEF Main
<1>7. s # None /\ l.put = None
  BY DEF Shape, Pointed, Slots, None
<1>8a. Place(m) # "install"
  <2>1. l.pc # "install" /\ (Waits(l) => Place(l) # "install")
    BY DEF Putting, Shape, Pointed
  <2>2. ~Waits(l) => Place(l) = l.pc
    BY DEF Place, Waits, Putting
  <2> QED BY <1>4, <2>1, <2>2
<1>8. Pointed(m)
  BY <1>1, <1>2, <1>4, <1>4a, <1>6, <1>7, <1>8a DEF Shape, Pointed, Putting
<1>9. \A t \in Slots : Held(m, t) <=> Held(l, t)
  BY <1>1, <1>2, <1>4, <1>6 DEF Held, Putting
<1>10. \A t \in Slots : N(m, t) = N(l, t) + One(s = t)
  <2> TAKE t \in Slots
  <2>1. \A b : One(b) \in {0, 1}
    BY DEF One
  <2>2. t # None
    BY DEF Slots, None
  <2>3. One(l.put = t) = 0
    BY <1>7, <2>2 DEF One
  <2> QED BY <1>1, <1>2, <2>1, <2>3 DEF N
<1>11. Shape(m) /\ (Apart(m) <=> Apart(l))
  BY <1>2, <1>3, <1>4, <1>5, <1>8 DEF Shape, Apart
<1> QED BY <1>1, <1>4, <1>9, <1>10, <1>11 DEF m

\* A process that waits for the inode it was to have locked has not locked it.
LEMMA LockShape ==
  ASSUME NEW l, Shape(l), l.pc \notin Putting \cup {"lock", "install"}, l.pc \in LockPoints
  PROVE  LET m == Lock(l, Main(l)) IN
         /\ Shape(m) /\ Apart(m) /\ Place(m) = l.pc /\ m.pc = "lock" /\ Alike(m, l, {"pc", "want", "locked"})
         /\ \A t : /\ Held(m, t) <=> l.pc \in {"newinode", "victim"} /\ t = l.dp
                   /\ N(m, t) = N(l, t)
<1> DEFINE m == Lock(l, Main(l))
<1>1. Alike(m, l, {"pc", "want", "locked"}) /\ m.pc = "lock" /\ m.want = Main(l) /\ m.locked = l.pc
  BY DEF Lock, Alike, Shape, Fields
<1>2. /\ m.ip = l.ip /\ m.dp = l.dp /\ m.old = l.old /\ m.cwd = l.cwd /\ m.fd = l.fd /\ m.call = l.call
      /\ m.then = l.then /\ m.put = l.put /\ m.parent = l.parent /\ DOMAIN m = Fields
  BY <1>1 DEF Alike, Fields
<1> HIDE DEF m
<1>3. Place(m) = l.pc /\ Place(l) = l.pc /\ Waits(m) /\ ~Waits(l)
  BY <1>1 DEF Place, Waits, Putting
<1>4. Aim(m) = Aim(l) /\ Main(m) = Main(l)
  BY <1>2, <1>3 DEF Aim, Main
<1>5. CallFits(m)
  BY <1>2, <1>3, <1>4 DEF CallFits, Shape
<1>6. Pointed(m)
  BY <1>1, <1>2, <1>3, <1>4 DEF Shape, Pointed, Putting
<1>7. Shape(m) /\ Apart(m)
  BY <1>2, <1>3, <1>5, <1>6 DEF Shape, Apart
<1>8. \A t : /\ Held(m, t) <=> l.pc \in {"newinode", "victim"} /\ t = l.dp
             /\ N(m, t) = N(l, t)
  BY <1>1, <1>2, <1>3 DEF Held, N
<1> QED BY <1>1, <1>3, <1>7, <1>8 DEF m

\* The call has returned: the current directory and the open file are left.
LEMMA IdleShape ==
  ASSUME NEW l, DOMAIN l = Fields, l.put = None, l.cwd \in Slots, l.fd.ip \in Slots \cup {None},
         l.fd # NoFile => l.fd.ip \in Slots
  PROVE  LET m == Idle(l) IN
         /\ Shape(m) /\ Apart(m) /\ Place(m) = "idle" /\ m.pc = "idle" /\ m.fd = l.fd
         /\ \A t : ~Held(m, t)
         /\ \A t \in Slots : N(m, t) = One(l.cwd = t) + One(l.fd.ip = t)
<1> DEFINE m == Idle(l)
<1>1. /\ m.pc = "idle" /\ m.ip = None /\ m.dp = None /\ m.old = None /\ m.put = None /\ m.cwd = l.cwd
      /\ m.fd = l.fd /\ DOMAIN m = Fields
  BY DEF Idle, Fields
<1> HIDE DEF m
<1>2. Place(m) = "idle" /\ ~Waits(m) /\ Aim(m) = "idle"
  BY <1>1 DEF Place, Waits, Putting, Aim, WalkPoints
<1>3. CallFits(m)
  BY <1>2 DEF CallFits, WalkPoints
<1>4. Pointed(m)
  BY <1>1, <1>2 DEF Pointed, Putting, IpPoints, FoundPoints, ParentPoints, FdPoints
<1>5. Shape(m) /\ Apart(m)
  BY <1>1, <1>2, <1>3, <1>4 DEF Shape, Apart, CodePoints
<1>6. \A t : ~Held(m, t)
  BY <1>1, <1>2 DEF Held, LockPoints, IpPoints, FoundPoints, ParentPoints, FdPoints
<1>7. \A t \in Slots : N(m, t) = One(l.cwd = t) + One(l.fd.ip = t)
  <2> TAKE t \in Slots
  <2>1. t # None
    BY DEF Slots, None
  <2>2. One(None = t) = 0
    BY <2>1 DEF One
  <2>3. One(l.cwd = t) \in Int /\ One(l.fd.ip = t) \in Int
    BY DEF One
  <2> QED BY <1>1, <2>2, <2>3 DEF N
<1> QED BY <1>1, <1>2, <1>5, <1>6, <1>7 DEF m

\* A process in namex(): what it has of the call it is in.
Creates(l) == l.call.fn \in {"mkdir", "symlink"} \/ (l.call.fn = "open" /\ "CREATE" \in l.call.omode)
Walks(l) ==
    /\ DOMAIN l = Fields /\ l.put = None /\ l.dp = None /\ l.cwd \in Slots
    /\ l.fd.ip \in Slots \cup {None} /\ (l.fd # NoFile => l.fd.ip \in Slots)
    /\ l.then \in FoundPoints /\ (l.then \in ParentPoints => l.parent)
    /\ l.old \in Slots \cup {None} /\ (l.old # None <=> l.then = "linking")
    /\ (l.then = "creating" => Creates(l)) /\ (l.then = "chmod" => l.call.mode \subseteq M_ALL)

\* The references it has but for the inode it has come to.
Rest(l, t) == One(l.old = t) + One(l.cwd = t) + One(l.fd.ip = t)

LEMMA WalksThere ==
  ASSUME NEW l, Control(l), l.pc \in WalkPoints
  PROVE  /\ Walks(l) /\ (l.pc # "follow" => l.ip \in Slots) /\ (l.pc = "follow" => l.ip = None)
         /\ \A t \in Slots : /\ N(l, t) = One(l.ip = t) + Rest(l, t)
                             /\ Held(l, t) <=> l.pc \in {"look", "readlink"} /\ t = l.ip
<1> USE DEF WalkPoints
<1>1. Place(l) = l.pc /\ ~Waits(l) /\ l.pc \notin Putting /\ Aim(l) = l.then
  BY DEF Place, Waits, Putting, Aim
<1>2. l.then \in FoundPoints /\ (l.then \in ParentPoints => l.parent)
  BY <1>1 DEF Control, Shape, CallFits
<1>3. /\ l.put = None /\ l.dp = None /\ l.cwd \in Slots /\ l.fd.ip \in Slots \cup {None}
      /\ (l.fd # NoFile => l.fd.ip \in Slots) /\ l.old \in Slots \cup {None}
  BY <1>1 DEF Control, Shape, Pointed
<1>4. l.old # None <=> l.then = "linking"
  BY <1>1, <1>2 DEF Control, Shape, Pointed, FoundPoints, ParentPoints
<1>5. /\ l.then = "creating" => Creates(l)
      /\ l.then = "chmod" => l.call.mode \subseteq M_ALL
  BY <1>1 DEF Control, Shape, CallFits, Creates
<1>6. Walks(l)
  BY <1>2, <1>3, <1>4, <1>5 DEF Walks, Control, Shape
<1>7. (l.pc # "follow" => l.ip \in Slots) /\ (l.pc = "follow" => l.ip = None)
  BY <1>1 DEF Control, Shape, Pointed, IpPoints, FoundPoints, ParentPoints
<1>8. ASSUME NEW t \in Slots PROVE N(l, t) = One(l.ip = t) + Rest(l, t)
  <2>1. t # None
    BY DEF Slots, None
  <2>2. One(l.dp = t) = 0 /\ One(l.put = t) = 0
    BY <1>3, <2>1 DEF One
  <2>3. \A b : One(b) \in Int
    BY DEF One
  <2> QED BY <2>2, <2>3 DEF N, Rest
<1>9. ASSUME NEW t \in Slots PROVE Held(l, t) <=> l.pc \in {"look", "readlink"} /\ t = l.ip
  BY <1>1, <1>3 DEF Held, Main, LockPoints, IpPoints, FoundPoints, ParentPoints, FdPoints, Putting
<1> QED BY <1>6, <1>7, <1>8, <1>9

LEMMA WalksAlike ==
  ASSUME NEW l, Walks(l), NEW m, Alike(m, l, {"pc", "path", "name", "ip", "depth", "stack", "target"})
  PROVE  Walks(m) /\ \A t : Rest(m, t) = Rest(l, t)
<1>1. /\ DOMAIN m = Fields /\ m.put = l.put /\ m.dp = l.dp /\ m.cwd = l.cwd /\ m.fd = l.fd /\ m.then = l.then
      /\ m.parent = l.parent /\ m.old = l.old /\ m.call = l.call
  BY DEF Alike, Fields
<1> QED BY <1>1 DEF Walks, Rest, Creates

\* The walk has come to s (None if there is no such path).
LEMMA ResultShape ==
  ASSUME NEW l, Walks(l), NEW s \in Slots \cup {None}
  PROVE  LET m == Result(l, s) IN
         /\ Shape(m) /\ Apart(m) /\ m.pc \in {"idle", "lock", "link"} /\ m.fd = l.fd
         /\ Place(m) \in {"idle", "linkbad", "link", l.then}
         /\ (s = None => Place(m) \in {"idle", "linkbad"}) /\ (Place(m) = l.then => m.ip = s)
         /\ \A t \in Slots : ~Held(m, t) /\ N(m, t) = One(s = t) + Rest(l, t)
<1> USE DEF IpPoints, LockPoints, FdPoints, CodePoints, WalkPoints, ParentPoints, FoundPoints, Putting
<1>0. \A b : One(b) \in Int
  BY DEF One
<1>1. CASE s # None /\ l.stack # <<>>
  <2> DEFINE m == [l EXCEPT !.pc = "link", !.ip = s, !.depth = Last(l.stack) + 1, !.stack = Front(@), !.path = <<>>]
  <2>1. Result(l, s) = m
    BY <1>1 DEF Result
  <2>2. Alike(m, l, {"pc", "ip", "depth", "stack", "path"}) /\ m.pc = "link" /\ m.ip = s
    BY DEF Alike, Walks, Fields
  <2> HIDE DEF m
  <2>3. /\ m.dp = None /\ m.old = l.old /\ m.cwd = l.cwd /\ m.fd = l.fd /\ m.call = l.call
        /\ m.then = l.then /\ m.parent = l.parent /\ m.put = None /\ DOMAIN m = Fields
    BY <2>2 DEF Alike, Fields, Walks
  <2>4. Place(m) = "link" /\ ~Waits(m) /\ Aim(m) = l.then
    BY <2>2, <2>3 DEF Place, Waits, Aim
  <2>5. CallFits(m) /\ Pointed(m)
    BY <1>1, <2>2, <2>3, <2>4 DEF CallFits, Pointed, Walks, Creates
  <2>6. \A t \in Slots : ~Held(m, t)
    BY <2>2, <2>4 DEF Held
  <2>7. \A t \in Slots : N(m, t) = One(s = t) + Rest(l, t)
    <3> TAKE t \in Slots
    <3>1. One(None = t) = 0
      BY DEF One, None, Slots
    <3> QED BY <1>0, <2>2, <2>3, <3>1 DEF N, Rest
  <2> QED BY <1>1, <2>1, <2>2, <2>3, <2>4, <2>5, <2>6, <2>7 DEF Shape, Apart, Walks
<1> DEFINE found == [l EXCEPT !.pc = l.then, !.ip = s, !.stack = <<>>, !.depth = 0, !.path = <<>>]
<1>2. Alike(found, l, {"pc", "ip", "stack", "depth", "path"}) /\ found.pc = l.then /\ found.ip = s
  BY DEF Alike, Walks, Fields
<1>2a. /\ found.dp = None /\ found.old = l.old /\ found.cwd = l.cwd /\ found.fd = l.fd /\ found.call = l.call
       /\ found.then = l.then /\ found.parent = l.parent /\ found.put = None /\ DOMAIN found = Fields
  <2> HIDE DEF found
  <2> QED BY <1>2 DEF Alike, Fields, Walks
<1>3. CASE s # None /\ l.stack = <<>>
  <2> HIDE DEF found
  <2>1. Place(found) = l.then /\ ~Waits(found) /\ Aim(found) = l.then /\ Main(found) = s
    BY <1>2, <1>2a DEF Place, Waits, Aim, Main, Walks
  <2>2. Shape(found)
    BY <1>2, <1>2a, <1>3, <2>1 DEF Shape, CallFits, Pointed, Walks, Creates
  <2>3. Result(l, s) = Lock(found, s)
    BY <1>3 DEF Result, found
  <2>4. found.pc \notin Putting \cup {"lock", "install"} /\ found.pc \in LockPoints
    BY <1>2 DEF Walks
  <2> DEFINE m == Lock(found, Main(found))
  <2>5. /\ Shape(m) /\ Apart(m) /\ Place(m) = l.then /\ m.pc = "lock" /\ Alike(m, found, {"pc", "want", "locked"})
        /\ \A t : (Held(m, t) <=> found.pc \in {"newinode", "victim"} /\ t = found.dp) /\ N(m, t) = N(found, t)
    BY <1>2, <2>2, <2>4, LockShape
  <2>6. \A t \in Slots : N(found, t) = One(s = t) + Rest(l, t)
    <3> TAKE t \in Slots
    <3>1. One(None = t) = 0
      BY DEF One, None, Slots
    <3> QED BY <1>0, <1>2, <1>2a, <3>1 DEF N, Rest
  <2> HIDE DEF m
  <2>7. Result(l, s) = m
    BY <2>1, <2>3 DEF m
  <2>8. m.ip = s /\ m.fd = l.fd /\ l.then \notin {"newinode", "victim"}
    BY <1>2, <1>2a, <2>5 DEF Alike, Fields, Walks
  <2> QED BY <1>2, <1>3, <2>5, <2>6, <2>7, <2>8
<1>4. CASE s = None /\ l.then = "linking"
  <2> DEFINE f == [found EXCEPT !.pc = "linkbad"]
  <2>1. Alike(f, found, {"pc"}) /\ f.pc = "linkbad"
    <3> HIDE DEF found
    <3> QED BY <1>2a DEF Alike, Fields
  <2>2. Result(l, s) = Lock(f, l.old)
    BY <1>4 DEF Result
  <2> HIDE DEF found, f
  <2>3. /\ f.dp = None /\ f.old = l.old /\ f.cwd = l.cwd /\ f.fd = l.fd /\ f.call = l.call
        /\ f.then = l.then /\ f.parent = l.parent /\ f.put = None /\ DOMAIN f = Fields /\ f.ip = s
    BY <1>2, <1>2a, <2>1 DEF Alike, Fields
  <2>4. Place(f) = "linkbad" /\ ~Waits(f) /\ Aim(f) = "linkbad" /\ Main(f) = l.old
    BY <2>1, <2>3 DEF Place, Waits, Aim, Main
  <2>5. Shape(f)
    BY <1>4, <2>1, <2>3, <2>4 DEF Shape, CallFits, Pointed, Walks
  <2> DEFINE m == Lock(f, Main(f))
  <2>6. /\ Shape(m) /\ Apart(m) /\ Place(m) = "linkbad" /\ m.pc = "lock" /\ Alike(m, f, {"pc", "want", "locked"})
        /\ \A t : (Held(m, t) <=> f.pc \in {"newinode", "victim"} /\ t = f.dp) /\ N(m, t) = N(f, t)
    BY <2>1, <2>5, LockShape
  <2>7. \A t \in Slots : N(f, t) = One(s = t) + Rest(l, t)
    <3> TAKE t \in Slots
    <3>1. One(None = t) = 0
      BY DEF One, None, Slots
    <3> QED BY <1>0, <2>3, <3>1 DEF N, Rest
  <2> HIDE DEF m
  <2>8. Result(l, s) = m
    BY <2>2, <2>4 DEF m
  <2>9. m.fd = l.fd
    BY <2>3, <2>6 DEF Alike, Fields
  <2> QED BY <1>4, <2>1, <2>6, <2>7, <2>8, <2>9
<1>5. CASE s = None /\ l.then # "linking"
  <2> DEFINE m == Idle(l)
  <2>1. Result(l, s) = m
    BY <1>5 DEF Result
  <2>2. /\ Shape(m) /\ Apart(m) /\ Place(m) = "idle" /\ m.pc = "idle" /\ m.fd = l.fd
        /\ \A t : ~Held(m, t)
        /\ \A t \in Slots : N(m, t) = One(l.cwd = t) + One(l.fd.ip = t)
    BY IdleShape DEF Walks
  <2>3. \A t \in Slots : N(m, t) = One(s = t) + Rest(l, t)
    <3> TAKE t \in Slots
    <3>1. One(s = t) = 0 /\ One(l.old = t) = 0
      BY <1>5 DEF One, None, Slots, Walks
    <3> QED BY <1>0, <2>2, <3>1 DEF Rest
  <2> HIDE DEF m
  <2>4. l.then # "idle"
    BY DEF Walks
  <2> QED BY <1>5, <2>1, <2>2, <2>3, <2>4
<1> QED BY <1>1, <1>3, <1>4, <1>5

\* The head of the loop of namex().
LEMMA WalkingShape ==
  ASSUME NEW l, Walks(l), NEW s \in Slots
  PROVE  LET m == Walking(l, s) IN
         /\ Shape(m) /\ Apart(m) /\ m.pc \in {"idle", "lock", "link", "put"} /\ m.fd = l.fd
         /\ Place(m) \in {"idle", "linkbad", "link", "look", l.then} \ ParentPoints
         /\ \A t \in Slots : ~Held(m, t) /\ N(m, t) = One(s = t) + Rest(l, t)
<1> USE DEF IpPoints, LockPoints, FdPoints, CodePoints, WalkPoints, ParentPoints, FoundPoints, Putting
<1>0. /\ \A b : One(b) \in Int
      /\ s # None
  BY DEF One, Slots, None
<1>1. CASE l.path # <<>>
  <2> DEFINE f == [l EXCEPT !.pc = "look", !.ip = s]
  <2>1. Walking(l, s) = Lock(f, s)
    BY <1>1 DEF Walking
  <2>2. Alike(f, l, {"pc", "ip"}) /\ f.pc = "look" /\ f.ip = s
    BY DEF Alike, Walks, Fields
  <2> HIDE DEF f
  <2>3. /\ f.dp = None /\ f.old = l.old /\ f.cwd = l.cwd /\ f.fd = l.fd /\ f.call = l.call
        /\ f.then = l.then /\ f.parent = l.parent /\ f.put = None /\ DOMAIN f = Fields
    BY <2>2 DEF Alike, Fields, Walks
  <2>4. Place(f) = "look" /\ ~Waits(f) /\ Aim(f) = l.then /\ Main(f) = s
    BY <2>2, <2>3 DEF Place, Waits, Aim, Main
  <2>5. Shape(f)
    BY <1>0, <2>2, <2>3, <2>4 DEF Shape, CallFits, Pointed, Walks, Creates
  <2> DEFINE m == Lock(f, Main(f))
  <2>6. /\ Shape(m) /\ Apart(m) /\ Place(m) = "look" /\ m.pc = "lock" /\ Alike(m, f, {"pc", "want", "locked"})
        /\ \A t : (Held(m, t) <=> f.pc \in {"newinode", "victim"} /\ t = f.dp) /\ N(m, t) = N(f, t)
    BY <2>2, <2>5, LockShape
  <2>7. \A t \in Slots : N(f, t) = One(s = t) + Rest(l, t)
    <3> TAKE t \in Slots
    <3>1. One(None = t) = 0
      BY DEF One, None, Slots
    <3> QED BY <1>0, <2>2, <2>3, <3>1 DEF N, Rest
  <2> HIDE DEF m
  <2>8. Walking(l, s) = m
    BY <2>1, <2>4 DEF m
  <2>9. m.fd = l.fd
    BY <2>3, <2>6 DEF Alike, Fields
  <2> QED BY <2>2, <2>6, <2>7, <2>8, <2>9
<1>2. CASE l.path = <<>> /\ l.parent
  <2> DEFINE r == Result(l, None)
  <2>1. Walking(l, s) = Put(r, s)
    BY <1>2 DEF Walking
  <2>2. /\ Shape(r) /\ Apart(r) /\ r.pc \in {"idle", "lock", "link"} /\ r.fd = l.fd /\ Place(r) \in {"idle", "linkbad"}
        /\ \A t \in Slots : ~Held(r, t) /\ N(r, t) = One(None = t) + Rest(l, t)
    BY ResultShape
  <2> HIDE DEF r
  <2>3. /\ Shape(Put(r, s)) /\ Apart(Put(r, s)) /\ Place(Put(r, s)) = Place(r) /\ Put(r, s).pc = "put"
        /\ Alike(Put(r, s), r, {"pc", "put", "after"})
        /\ \A t \in Slots : ~Held(Put(r, s), t) /\ N(Put(r, s), t) = N(r, t) + One(s = t)
    BY <2>2, PutShape
  <2> DEFINE m == Put(r, s)
  <2> HIDE DEF m
  <2>4. m.fd = l.fd
    BY <2>2, <2>3 DEF Alike, Fields, m
  <2>5. \A t \in Slots : N(m, t) = One(s = t) + Rest(l, t)
    <3> TAKE t \in Slots
    <3>1. One(None = t) = 0
      BY DEF One, None, Slots
    <3> QED BY <1>0, <2>2, <2>3, <3>1 DEF Rest, m
  <2> QED BY <2>1, <2>2, <2>3, <2>4, <2>5 DEF m
<1>3. CASE l.path = <<>> /\ ~l.parent
  <2> DEFINE m == Result(l, s)
  <2>1. Walking(l, s) = m
    BY <1>3 DEF Walking
  <2>2. /\ Shape(m) /\ Apart(m) /\ m.pc \in {"idle", "lock", "link"} /\ m.fd = l.fd
        /\ Place(m) \in {"idle", "linkbad", "link", l.then}
        /\ \A t \in Slots : ~Held(m, t) /\ N(m, t) = One(s = t) + Rest(l, t)
    BY ResultShape
  <2> HIDE DEF m
  <2>3. l.then \notin ParentPoints
    BY <1>3 DEF Walks
  <2> QED BY <2>1, <2>2, <2>3
<1> QED BY <1>1, <1>2, <1>3

-----------------------------------------------------------------------------
(* The entries of the inode cache.                                         *)

LEMMA MinIsLeast ==
  ASSUME NEW S \in SUBSET Nat, S # {}
  PROVE  Min(S) \in S /\ \A y \in S : Min(S) =< y
<1> DEFINE R == OpToRel(<, Nat)
<1>1. IsWellFoundedOn(R, Nat)
  BY NatLessThanWellFounded
<1>2. PICK q \in S : \A r \in S : ~(<<r, q>> \in R)
  BY <1>1, WFMin
<1>3. \A r \in S : ~(r < q)
  BY <1>2 DEF OpToRel
<1>4. \A r \in S : q =< r
  BY <1>3
<1> QED BY <1>2, <1>4 DEF Min

\* What two entries have in common that say the same.
Same(e, f) == /\ f.inum = e.inum /\ f.valid = e.valid /\ f.type = e.type /\ f.perm = e.perm
              /\ f.nlink = e.nlink /\ f.addrs = e.addrs

LEMMA EntryFacts ==
  ASSUME NEW c, NEW i, Entry(c, i) # None, \A s \in Slots : c[s].ref \in Nat
  PROVE  /\ Entry(c, i) \in Slots
         /\ c[Entry(c, i)].ref > 0 => c[Entry(c, i)].inum = i
         /\ c[Entry(c, i)].ref = 0 => \A s \in Slots : c[s].ref > 0 => c[s].inum # i
<1> DEFINE cached == {s \in Slots : c[s].ref > 0 /\ c[s].inum = i}
           empty == {s \in Slots : c[s].ref = 0}
<1>1. CASE cached # {}
  <2>1. Entry(c, i) \in cached
    BY <1>1 DEF Entry
  <2> QED BY <2>1
<1>2. CASE cached = {} /\ empty # {}
  <2>1. Entry(c, i) = Min(empty)
    BY <1>2 DEF Entry
  <2>2. empty \in SUBSET Nat
    BY DEF Slots
  <2>3. Entry(c, i) \in empty
    BY <1>2, <2>1, <2>2, MinIsLeast
  <2> QED BY <1>2, <2>3
<1>3. CASE cached = {} /\ empty = {}
  BY <1>3 DEF Entry
<1> QED BY <1>1, <1>2, <1>3

LEMMA EntrySame ==
  ASSUME NEW c, NEW d, NEW i, \A s \in Slots : d[s].ref = c[s].ref /\ d[s].inum = c[s].inum
  PROVE  Entry(d, i) = Entry(c, i)
<1> DEFINE cached(e) == {s \in Slots : e[s].ref > 0 /\ e[s].inum = i}
           empty(e) == {s \in Slots : e[s].ref = 0}
<1>1. cached(c) = cached(d) /\ empty(c) = empty(d)
  OBVIOUS
<1>2. \A e : Entry(e, i) = IF cached(e) # {} THEN CHOOSE s \in cached(e) : TRUE
                           ELSE IF empty(e) = {} THEN None ELSE Min(empty(e))
  BY DEF Entry
<1> HIDE DEF cached, empty
<1> QED BY <1>1, <1>2

LEMMA IgetFacts ==
  ASSUME NEW c \in [Slots -> Inodes], NEW i \in Inums, Entry(c, i) # None
  PROVE  /\ Iget(c, i) \in [Slots -> Inodes] /\ Entry(c, i) \in Slots
         /\ \A s \in Slots :
              /\ Iget(c, i)[s].ref = c[s].ref + One(Entry(c, i) = s) /\ Iget(c, i)[s].lock = c[s].lock
              /\ c[s].ref > 0 => Same(c[s], Iget(c, i)[s])
              /\ c[s].ref = 0 /\ Iget(c, i)[s].ref > 0 => s = Entry(c, i) /\ Iget(c, i)[s].valid = FALSE
              /\ s = Entry(c, i) => Iget(c, i)[s].inum = i
              /\ s # Entry(c, i) => Iget(c, i)[s] = c[s]
<1> DEFINE t == Entry(c, i)
           d == Iget(c, i)
<1>1. \A s \in Slots : c[s].ref \in Nat /\ c[s] \in Inodes
  BY DEF Inodes
<1>2. t \in Slots /\ (c[t].ref > 0 => c[t].inum = i)
  BY <1>1, EntryFacts
<1>3. i \in 0 .. NInodes
  BY FsAssumption DEF Inums, FsAssumption
<1>4. d = IF c[t].ref > 0 THEN [c EXCEPT ![t].ref = @ + 1]
          ELSE [c EXCEPT ![t].inum = i, ![t].ref = 1, ![t].valid = FALSE]
  BY DEF Iget
<1> HIDE DEF t, d
<1>5. CASE c[t].ref > 0
  <2>1. d = [c EXCEPT ![t].ref = @ + 1]
    BY <1>4, <1>5
  <2>2. d \in [Slots -> Inodes]
    BY <1>1, <1>2, <2>1 DEF Inodes
  <2>3. d[t].ref = c[t].ref + 1 /\ d[t].lock = c[t].lock /\ Same(c[t], d[t])
    BY <1>1, <1>2, <2>1 DEF Inodes, Same
  <2>4. \A s \in Slots \ {t} : d[s] = c[s] /\ Same(c[s], d[s])
    BY <2>1 DEF Same
  <2> QED BY <1>1, <1>2, <1>5, <2>2, <2>3, <2>4 DEF t, d, One, Same
<1>6. CASE ~(c[t].ref > 0)
  <2>1. d = [c EXCEPT ![t].inum = i, ![t].ref = 1, ![t].valid = FALSE]
    BY <1>4, <1>6
  <2>2. d \in [Slots -> Inodes]
    BY ZenonT(40), <1>1, <1>2, <1>3, <2>1 DEF Inodes
  <2>3. d[t].ref = 1 /\ d[t].lock = c[t].lock /\ d[t].inum = i /\ d[t].valid = FALSE /\ c[t].ref = 0
    BY <1>1, <1>2, <1>6, <2>1 DEF Inodes
  <2>4. \A s \in Slots \ {t} : d[s] = c[s] /\ Same(c[s], d[s])
    BY <2>1 DEF Same
  <2> QED BY <1>1, <1>2, <2>2, <2>3, <2>4 DEF t, d, One
<1> QED BY <1>5, <1>6

LEMMA UnlockFacts ==
  ASSUME NEW c \in [Slots -> Inodes], NEW s \in Slots
  PROVE  /\ Iunlock(c, s) \in [Slots -> Inodes] /\ Iunlock(c, s)[s].lock = None
         /\ \A t \in Slots : /\ t # s => Iunlock(c, s)[t] = c[t]
                             /\ Same(c[t], Iunlock(c, s)[t]) /\ Iunlock(c, s)[t].ref = c[t].ref
<1> DEFINE d == Iunlock(c, s)
<1>1. \A t \in Slots : c[t] \in Inodes
  OBVIOUS
<1>2. d = [c EXCEPT ![s].lock = None]
  BY DEF Iunlock
<1> HIDE DEF d
<1>3. d \in [Slots -> Inodes]
  BY <1>1, <1>2 DEF Inodes
<1>4. d[s].lock = None /\ Same(c[s], d[s]) /\ d[s].ref = c[s].ref
  BY <1>1, <1>2 DEF Inodes, Same
<1>5. \A t \in Slots \ {s} : d[t] = c[t] /\ Same(c[t], d[t])
  BY <1>2 DEF Same
<1> QED BY <1>3, <1>4, <1>5 DEF d

LEMMA HeldRef ==
  ASSUME IInv, NEW p \in Procs, NEW s, Held(proc[p], s)
  PROVE  s \in Slots /\ icache[s].ref > 0 /\ icache[s].valid /\ icache[s].lock = p
<1> DEFINE l == proc[p]
<1> HIDE DEF l
<1>1. Control(l)
  BY DEF l, IInv, Controls
<1>2. s \in {l.ip, l.dp, l.old, l.put, l.fd.ip} /\ s \in Slots
  <2>0. Held(l, s)
    BY DEF l
  <2>1. CASE ~Waits(l) /\ Place(l) \in LockPoints /\ s = Main(l)
    <3>1. Main(l) \in Slots
      BY <1>1, <2>1 DEF Main, Control, Shape, Pointed, LockPoints, IpPoints, FoundPoints, ParentPoints, FdPoints, WalkPoints, Aim
    <3> QED BY <2>1, <3>1 DEF Main
  <2>2. CASE Place(l) \in {"newinode", "victim"} /\ s = l.dp
    BY <1>1, <2>2 DEF Control, Shape, Pointed
  <2>3. CASE l.pc = "put2" /\ s = l.put
    BY <1>1, <2>3 DEF Control, Shape, Pointed, Putting
  <2> QED BY <2>0, <2>1, <2>2, <2>3 DEF Held
<1>3. N(l, s) > 0
  <2>1. \A b : One(b) \in {0, 1} /\ (b = TRUE => One(b) = 1)
    BY DEF One
  <2>2. \/ One(l.ip = s) = 1 \/ One(l.dp = s) = 1 \/ One(l.old = s) = 1 \/ One(l.put = s) = 1
        \/ One(l.fd.ip = s) = 1
    BY <1>2 DEF One
  <2> QED BY <2>1, <2>2 DEF N
<1>4. icache[s].ref > 0
  <2>1. icache[s].ref \in Nat /\ icache[s].ref >= N(l, s) /\ N(l, s) \in Nat
    BY <1>2, PointedRef DEF IInv, l
  <2> QED BY <1>3, <2>1
<1> QED BY <1>2, <1>4 DEF IInv, Valids, Locks

-----------------------------------------------------------------------------
(* What a step keeps.                                                      *)

LEMMA PanicKept ==
  ASSUME IInv, UNCHANGED <<setup, disk, data, used, icache, proc>>
  PROVE  IInv'
BY DEF IInv, DiskTypes, Controls, Refs, Holders, Pointer, Locks, Cached, OneEntryPerInode, Valids, Currents, Freeing,
       NoBmapCall, Current, Contents, Kinds, TypeAt, Permitted, Bmaps

\* A process gets a lock that is free, or gives up one that it has.
StepsControl(p, m) ==
    /\ proc' = [proc EXCEPT ![p] = m] /\ icache' \in [Slots -> Inodes] /\ Control(m)
    /\ \A t \in Slots :
          /\ icache'[t].ref + N(proc[p], t) = icache[t].ref + N(m, t)
          /\ Held(m, t) => icache'[t].lock = p /\ icache[t].lock \in {p, None}
          /\ ~Held(m, t) => icache'[t].lock = IF icache[t].lock = p THEN None ELSE icache[t].lock

LEMMA StepControl ==
  ASSUME IInv, NEW p \in Procs, NEW m, StepsControl(p, m)
  PROVE  Controls' /\ Refs' /\ Locks' /\ DOMAIN proc' = Procs /\ proc'[p] = m /\ \A q \in Procs \ {p} : proc'[q] = proc[q]
<1>1. DOMAIN proc = Procs /\ \A t \in Slots : icache[t].ref \in Nat /\ icache'[t].ref \in Int
  BY DEF IInv, DiskTypes, StepsControl, Inodes
<1>2. DOMAIN proc' = Procs /\ proc'[p] = m /\ \A q \in Procs \ {p} : proc'[q] = proc[q]
  BY <1>1 DEF StepsControl
<1>3. Controls'
  BY <1>2 DEF Controls, StepsControl, IInv
<1>4. Refs'
  <2>1. \A t \in Slots : icache[t].ref \in Nat /\ icache'[t].ref + N(proc[p], t) = icache[t].ref + N(m, t)
                         /\ icache'[t].ref \in Int
    BY <1>1 DEF StepsControl
  <2>2. Refs /\ DiskTypes /\ proc' = [proc EXCEPT ![p] = m]
    BY DEF IInv, StepsControl
  <2> QED BY <2>1, <2>2, RefsMoved
<1>5. Locks'
  <2> SUFFICES ASSUME NEW q \in Procs, NEW t \in Slots
               PROVE  icache'[t].lock = q <=> Held(proc'[q], t)
    BY DEF Locks
  <2>1. icache[t].lock = q <=> Held(proc[q], t)
    BY DEF IInv, Locks
  <2>2. p # None /\ q # None
    BY FsAssumption DEF FsAssumption, None
  <2>3. /\ Held(m, t) => icache'[t].lock = p /\ icache[t].lock \in {p, None}
        /\ ~Held(m, t) => icache'[t].lock = IF icache[t].lock = p THEN None ELSE icache[t].lock
    BY DEF StepsControl
  <2>4. CASE q = p
    BY <1>2, <2>2, <2>3, <2>4
  <2>5. CASE q # p
    BY <1>2, <2>1, <2>2, <2>3, <2>5
  <2> QED BY <2>4, <2>5
<1> QED BY <1>2, <1>3, <1>4, <1>5

\* A process goes on with the locals m, and does not lock anything.
GoesOn(p, m) ==
    /\ proc' = [proc EXCEPT ![p] = m] /\ setup' = setup /\ icache' \in [Slots -> Inodes]
    /\ Control(m) /\ m.pc # "put2"
    /\ \A t \in Slots :
          /\ icache'[t].ref + N(proc[p], t) = icache[t].ref + N(m, t)
          /\ Held(m, t) => Held(proc[p], t)
          /\ icache'[t].lock = IF icache[t].lock = p /\ ~Held(m, t) THEN None ELSE icache[t].lock
          /\ icache[t].ref = 0 /\ icache'[t].ref > 0 =>
                /\ ~icache'[t].valid /\ icache'[t].inum \in Inums
                /\ \A s \in Slots \ {t} : icache'[s].ref > 0 => icache'[s].inum # icache'[t].inum

\* What the call knows of its inode.
Knows(p, m) ==
    /\ Place(m) \in ParentPoints => disk'[icache'[m.ip].inum].type = "DIR"
    /\ Place(m) \in {"newinode", "created"} => disk'[icache'[m.ip].inum].type = TypeOf(m.call)
    /\ m.pc = "install" => "CREATE" \in m.call.omode \/ ~Denied(icache'[m.ip], m.call.omode)
    /\ Place(m) = "bmap" => ~NoBmapCall

\* It changes what it has locked, and writes it to the disk.
Edits(p) ==
    /\ disk' \in [Inums -> Dinodes] /\ used' \subseteq Blocks /\ DOMAIN data' = Inums /\ Contents'
    /\ \A t \in Slots :
          /\ icache[t].ref > 0 /\ ~Held(proc[p], t) => Same(icache[t], icache'[t])
          /\ Held(proc[p], t) => /\ icache'[t].inum = icache[t].inum /\ icache'[t].valid = icache[t].valid
                                 /\ icache'[t].type # "free"
                                 /\ Current(icache'[t], disk'[icache[t].inum])
    /\ \A i \in Inums : /\ disk'[i].type = disk[i].type
                        /\ (\A t \in Slots : Held(proc[p], t) => icache[t].inum # i) => disk'[i] = disk[i]

\* A slot that another process points to.
LEMMA PointsRef ==
  ASSUME IInv, NEW q \in Procs, Place(proc[q]) \in IpPoints
  PROVE  proc[q].ip \in Slots /\ icache[proc[q].ip].ref > 0
<1> DEFINE l == proc[q]
<1> HIDE DEF l
<1>1. l.ip \in Slots
  BY DEF l, IInv, Controls, Control, Shape, Pointed, None
<1>2. N(l, l.ip) > 0
  <2>1. \A b : One(b) \in {0, 1}
    BY DEF One
  <2>2. One(l.ip = l.ip) = 1
    BY DEF One
  <2> QED BY <2>1, <2>2 DEF N
<1>3. icache[l.ip].ref \in Nat /\ icache[l.ip].ref >= N(l, l.ip) /\ N(l, l.ip) \in Nat
  BY <1>1, PointedRef DEF IInv, l
<1> QED BY <1>1, <1>2, <1>3 DEF l

LEMMA StepKept ==
  ASSUME IInv, NEW p \in Procs, NEW m, proc[p].pc # "put2", GoesOn(p, m), Knows(p, m), Edits(p)
  PROVE  IInv'
<1>1. StepsControl(p, m)
  <2>1. \A t \in Slots : Held(m, t) => icache[t].lock = p
    BY HeldRef DEF GoesOn
  <2> QED BY <2>1 DEF GoesOn, StepsControl
<1>2. /\ Controls' /\ Refs' /\ Locks' /\ DOMAIN proc' = Procs /\ proc'[p] = m
      /\ \A q \in Procs \ {p} : proc'[q] = proc[q]
  BY <1>1, StepControl
<1>3. DiskTypes'
  BY <1>2 DEF DiskTypes, GoesOn, Edits, IInv
<1>4. \A t \in Slots : icache[t].ref \in Nat /\ icache'[t].ref \in Nat
  BY DEF IInv, DiskTypes, GoesOn, Inodes
<1>5. \A t \in Slots : icache[t].ref > 0 => icache'[t].inum = icache[t].inum /\ icache'[t].valid = icache[t].valid
  BY DEF Edits, Same
<1>6. Cached'
  <2>1. \A t \in Slots : icache'[t].ref > 0 => icache'[t].inum \in Inums
    BY <1>4, <1>5 DEF GoesOn, IInv, Cached
  <2>2. ASSUME NEW s \in Slots, NEW t \in Slots, icache'[s].ref > 0, icache'[t].ref > 0,
               icache'[s].inum = icache'[t].inum
        PROVE  s = t
    <3>1. CASE icache[s].ref = 0 \/ icache[t].ref = 0
      BY <2>2, <3>1 DEF GoesOn
    <3>2. CASE icache[s].ref > 0 /\ icache[t].ref > 0
      BY <1>5, <2>2, <3>2 DEF IInv, Cached, OneEntryPerInode
    <3> QED BY <1>4, <3>1, <3>2
  <2> QED BY <2>1, <2>2 DEF Cached, OneEntryPerInode
<1>7. ASSUME NEW q \in Procs, NEW t \in Slots, Held(proc'[q], t) PROVE Held(proc[q], t) /\ icache'[t].valid
  <2>1. Held(proc[q], t)
    BY <1>2, <1>7 DEF GoesOn
  <2> QED BY <1>5, <2>1, HeldRef
<1>8. Valids'
  BY <1>7 DEF Valids
<1>9. ASSUME NEW t \in Slots PROVE Freeing(t)' <=> Freeing(t)
  BY <1>2 DEF Freeing, GoesOn
<1>10. NoBmapCall' <=> NoBmapCall
  BY DEF NoBmapCall, GoesOn
<1>11. Currents'
  <2> SUFFICES ASSUME NEW t \in Slots, icache'[t].ref > 0, icache'[t].valid, ~Freeing(t)'
               PROVE  icache'[t].type # "free" /\ Current(icache[t], disk[icache[t].inum])'
    BY DEF Currents
  <2>0. icache[t].ref > 0 /\ icache[t].inum \in Inums
    BY <1>4 DEF GoesOn, IInv, Cached
  <2>1. CASE Held(proc[p], t)
    <3>1. Current(icache'[t], disk'[icache'[t].inum])
      BY <2>1 DEF Edits
    <3> QED BY <1>10, <2>1, <3>1 DEF Edits, Current
  <2>2. CASE ~Held(proc[p], t)
    <3>1. Same(icache[t], icache'[t])
      BY <2>0, <2>2 DEF Edits
    <3>2. icache[t].type # "free" /\ Current(icache[t], disk[icache[t].inum])
      BY <1>9, <2>0, <3>1 DEF IInv, Currents, Same
    <3>3. \A s \in Slots : Held(proc[p], s) => icache[s].inum # icache[t].inum
      BY <2>0, <2>2, HeldRef DEF IInv, Cached, OneEntryPerInode
    <3>4. disk'[icache[t].inum] = disk[icache[t].inum]
      BY <2>0, <3>3 DEF Edits
    <3> QED BY <1>10, <3>1, <3>2, <3>4 DEF Current, Same
  <2> QED BY <2>1, <2>2
<1>12. ASSUME NEW q \in Procs \ {p}, Place(proc[q]) \in IpPoints
       PROVE  disk'[icache'[proc[q].ip].inum].type = disk[icache[proc[q].ip].inum].type
  <2>1. proc[q].ip \in Slots /\ icache[proc[q].ip].ref > 0
    BY <1>12, PointsRef
  <2>2. icache[proc[q].ip].inum \in Inums /\ icache'[proc[q].ip].inum = icache[proc[q].ip].inum
    BY <1>5, <2>1 DEF IInv, Cached
  <2> QED BY <2>2 DEF Edits
<1>13. Kinds'
  <2> SUFFICES ASSUME NEW q \in Procs
               PROVE  /\ Place(proc'[q]) \in ParentPoints => disk'[icache'[proc'[q].ip].inum].type = "DIR"
                      /\ Place(proc'[q]) \in {"newinode", "created"} =>
                            disk'[icache'[proc'[q].ip].inum].type = TypeOf(proc'[q].call)
    BY DEF Kinds, TypeAt
  <2>1. CASE q = p
    BY <1>2, <2>1 DEF Knows
  <2>2. CASE q # p
    BY <1>2, <1>12, <2>2 DEF IInv, Kinds, TypeAt, IpPoints, FoundPoints
  <2> QED BY <2>1, <2>2
<1>14. Permitted'
  <2> SUFFICES ASSUME NEW q \in Procs, proc'[q].pc = "install"
               PROVE  "CREATE" \in proc'[q].call.omode \/ ~Denied(icache'[proc'[q].ip], proc'[q].call.omode)
    BY DEF Permitted
  <2>1. CASE q = p
    BY <1>2, <2>1 DEF Knows
  <2>2. CASE q # p
    <3> DEFINE s == proc[q].ip
    <3>1. proc'[q] = proc[q] /\ ("CREATE" \in proc[q].call.omode \/ ~Denied(icache[s], proc[q].call.omode))
      BY <1>2, <2>2 DEF IInv, Permitted
    <3>2. Place(proc[q]) = "install" /\ ~Waits(proc[q])
      BY <3>1 DEF Place, Waits, Putting
    <3>3. Held(proc[q], s) /\ s \in Slots /\ icache[s].ref > 0
      <4>1. Held(proc[q], s)
        BY <3>2 DEF Held, Main, LockPoints, IpPoints
      <4> QED BY <4>1, HeldRef
    <3>4. ~Held(proc[p], s)
      BY <2>2, <3>3, HeldRef
    <3>5. Same(icache[s], icache'[s])
      BY <3>3, <3>4 DEF Edits
    <3> QED BY <3>1, <3>5 DEF Same, Denied
  <2> QED BY <2>1, <2>2
<1>15. Bmaps'
  BY <1>2, <1>10 DEF Bmaps, Knows, IInv
<1> QED BY <1>2, <1>3, <1>6, <1>8, <1>11, <1>13, <1>14, <1>15 DEF IInv, Edits

\* What a process has locked is what the disk says.
LEMMA HeldCurrent ==
  ASSUME IInv, NEW p \in Procs, NEW t \in Slots, Held(proc[p], t), proc[p].pc # "put2"
  PROVE  /\ icache[t].ref > 0 /\ icache[t].inum \in Inums /\ icache[t].valid /\ icache[t].type # "free"
         /\ Current(icache[t], disk[icache[t].inum]) /\ TypeAt(t) = icache[t].type
<1>1. icache[t].ref > 0 /\ icache[t].valid /\ icache[t].lock = p
  BY HeldRef
<1>2. ~Freeing(t)
  <2> SUFFICES ASSUME NEW q \in Procs, proc[q].pc = "put2", proc[q].put = t PROVE FALSE
    BY DEF Freeing
  <2>1. Held(proc[q], t)
    BY DEF Held
  <2> QED BY <1>1, <2>1, HeldRef
<1>3. icache[t].type # "free" /\ Current(icache[t], disk[icache[t].inum])
  BY <1>1, <1>2 DEF IInv, Currents
<1> QED BY <1>1, <1>3 DEF IInv, Cached, TypeAt, Current

\* A step that changes nothing but references and locks.
Quiet1(p) ==
    /\ UNCHANGED <<disk, data, used>>
    /\ \A t \in Slots : icache[t].ref > 0 => Same(icache[t], icache'[t])

LEMMA QuietKept ==
  ASSUME IInv, NEW p \in Procs, NEW m, proc[p].pc # "put2", GoesOn(p, m), Knows(p, m), Quiet1(p)
  PROVE  IInv'
<1>1. Contents'
  BY DEF IInv, Contents, Quiet1
<1>2. ASSUME NEW t \in Slots, Held(proc[p], t)
      PROVE  /\ icache'[t].inum = icache[t].inum /\ icache'[t].valid = icache[t].valid
             /\ icache'[t].type # "free" /\ Current(icache'[t], disk'[icache[t].inum])
  <2>1. icache[t].ref > 0 /\ icache[t].type # "free" /\ Current(icache[t], disk[icache[t].inum])
    BY <1>2, HeldCurrent
  <2>2. Same(icache[t], icache'[t]) /\ disk' = disk
    BY <2>1 DEF Quiet1
  <2> QED BY <2>1, <2>2 DEF Same, Current
<1>3. Edits(p)
  BY <1>1, <1>2 DEF Edits, Quiet1, IInv, DiskTypes
<1> QED BY <1>3, StepKept

-----------------------------------------------------------------------------
(* Steps that read the disk at most.                                       *)

KnowsNow(m) ==
    /\ Place(m) \in ParentPoints => TypeAt(m.ip) = "DIR"
    /\ Place(m) \in {"newinode", "created"} => TypeAt(m.ip) = TypeOf(m.call)
    /\ m.pc = "install" => "CREATE" \in m.call.omode \/ ~Denied(icache[m.ip], m.call.omode)
    /\ Place(m) = "bmap" => ~NoBmapCall

\* There is nothing to know of the inode.
Plain(m) == Place(m) \notin ParentPoints \cup {"newinode", "created", "bmap"} /\ m.pc # "install"

LEMMA PlainKnows ==
  ASSUME NEW p, NEW m, Plain(m)
  PROVE  Knows(p, m) /\ KnowsNow(m)
BY DEF Plain, Knows, KnowsNow

LEMMA PeekSame ==
  ASSUME IInv, NEW p \in Procs, NEW m, Peek(p, m, icache), Control(m), KnowsNow(m),
         proc[p].pc # "put2", m.pc # "put2",
         \A t \in Slots : N(m, t) = N(proc[p], t) /\ (Held(m, t) <=> Held(proc[p], t))
  PROVE  IInv'
<1>1. icache' = icache /\ disk' = disk /\ data' = data /\ used' = used /\ setup' = setup /\ proc' = [proc EXCEPT ![p] = m]
  BY DEF Peek, Step
<1>2. icache \in [Slots -> Inodes] /\ \A t \in Slots : icache[t].ref \in Nat
  BY DEF IInv, DiskTypes, Inodes
<1>3. \A t \in Slots : N(proc[p], t) \in Nat /\ (Held(proc[p], t) <=> icache[t].lock = p)
  BY NIsNat DEF IInv, Locks
<1>4. GoesOn(p, m)
  BY <1>1, <1>2, <1>3 DEF GoesOn
<1>5. Knows(p, m)
  BY <1>1 DEF Knows, KnowsNow, TypeAt
<1>6. Quiet1(p)
  BY <1>1 DEF Quiet1, Same
<1> QED BY <1>4, <1>5, <1>6, QuietKept

LEMMA PeekUnlock ==
  ASSUME IInv, NEW p \in Procs, NEW m, NEW s \in Slots, Peek(p, m, Iunlock(icache, s)), Control(m), KnowsNow(m),
         proc[p].pc # "put2", m.pc # "put2", Held(proc[p], s),
         \A t \in Slots : N(m, t) = N(proc[p], t) /\ (Held(m, t) <=> Held(proc[p], t) /\ t # s)
  PROVE  IInv'
<1>1. /\ icache' = Iunlock(icache, s) /\ disk' = disk /\ data' = data /\ used' = used /\ setup' = setup
      /\ proc' = [proc EXCEPT ![p] = m]
  BY DEF Peek, Step
<1>2. icache \in [Slots -> Inodes] /\ \A t \in Slots : icache[t].ref \in Nat
  BY DEF IInv, DiskTypes, Inodes
<1>3. \A t \in Slots : N(proc[p], t) \in Nat /\ (Held(proc[p], t) <=> icache[t].lock = p)
  BY NIsNat DEF IInv, Locks
<1>4. /\ icache' \in [Slots -> Inodes] /\ icache'[s].lock = None
      /\ \A t \in Slots : /\ t # s => icache'[t] = icache[t]
                          /\ Same(icache[t], icache'[t]) /\ icache'[t].ref = icache[t].ref
  BY <1>1, <1>2, UnlockFacts
<1>5. GoesOn(p, m)
  BY <1>1, <1>2, <1>3, <1>4 DEF GoesOn
<1>6. Place(m) \in ParentPoints \cup {"newinode", "created", "install"} => m.ip \in Slots
  BY DEF Control, Shape, Pointed, IpPoints, FoundPoints, ParentPoints, None
<1>7. m.pc = "install" => Place(m) = "install"
  BY DEF Place, Waits, Putting
<1>8. Knows(p, m)
  BY <1>1, <1>4, <1>6, <1>7 DEF Knows, KnowsNow, TypeAt, Same, Denied
<1>9. Quiet1(p)
  BY <1>1, <1>4 DEF Quiet1
<1> QED BY <1>5, <1>8, <1>9, QuietKept

\* iget() of an inode, when all that is locked stays so, or when s is unlocked.
LEMMA PeekGet ==
  ASSUME IInv, NEW p \in Procs, NEW m, NEW c, NEW i \in Inums, NEW s \in Slots \cup {None},
         c = IF s = None THEN icache ELSE Iunlock(icache, s), Entry(icache, i) # None,
         Peek(p, m, Iget(c, i)), Control(m), Plain(m), proc[p].pc # "put2", m.pc # "put2",
         s # None => Held(proc[p], s),
         \A t \in Slots : /\ N(m, t) = N(proc[p], t) + One(Entry(icache, i) = t)
                          /\ Held(m, t) <=> Held(proc[p], t) /\ t # s
  PROVE  IInv'
<1> DEFINE e == Entry(icache, i)
<1>1. /\ icache' = Iget(c, i) /\ disk' = disk /\ data' = data /\ used' = used /\ setup' = setup
      /\ proc' = [proc EXCEPT ![p] = m]
  BY DEF Peek, Step
<1>2. icache \in [Slots -> Inodes] /\ \A t \in Slots : icache[t].ref \in Nat
  BY DEF IInv, DiskTypes, Inodes
<1>3. \A t \in Slots : N(proc[p], t) \in Nat /\ One(e = t) \in Nat /\ (Held(proc[p], t) <=> icache[t].lock = p)
  BY NIsNat DEF IInv, Locks, One
<1>4. /\ c \in [Slots -> Inodes] /\ (s # None => c[s].lock = None)
      /\ \A t \in Slots : /\ t # s => c[t] = icache[t]
                          /\ Same(icache[t], c[t]) /\ c[t].ref = icache[t].ref
  BY <1>2, UnlockFacts DEF Same
<1>5. Entry(c, i) = e
  BY <1>4, EntrySame DEF Same
<1> HIDE DEF e
<1>5a. /\ Iget(c, i) \in [Slots -> Inodes] /\ Entry(c, i) \in Slots
       /\ \A t \in Slots :
            /\ Iget(c, i)[t].ref = c[t].ref + One(Entry(c, i) = t) /\ Iget(c, i)[t].lock = c[t].lock
            /\ c[t].ref > 0 => Same(c[t], Iget(c, i)[t])
            /\ c[t].ref = 0 /\ Iget(c, i)[t].ref > 0 => t = Entry(c, i) /\ Iget(c, i)[t].valid = FALSE
            /\ t = Entry(c, i) => Iget(c, i)[t].inum = i
            /\ t # Entry(c, i) => Iget(c, i)[t] = c[t]
  BY ZenonT(30), <1>4, <1>5, IgetFacts DEF e
<1>6. /\ icache' \in [Slots -> Inodes] /\ e \in Slots
      /\ \A t \in Slots :
           /\ icache'[t].ref = c[t].ref + One(e = t) /\ icache'[t].lock = c[t].lock
           /\ c[t].ref > 0 => Same(c[t], icache'[t])
           /\ c[t].ref = 0 /\ icache'[t].ref > 0 => t = e /\ icache'[t].valid = FALSE
           /\ t = e => icache'[t].inum = i
           /\ t # e => icache'[t] = c[t]
  BY <1>1, <1>5, <1>5a
<1>7. icache[e].ref = 0 => \A t \in Slots : icache[t].ref > 0 => icache[t].inum # i
  BY <1>2, EntryFacts DEF e
<1>8. ASSUME NEW t \in Slots, icache[t].ref = 0, icache'[t].ref > 0
      PROVE  /\ ~icache'[t].valid /\ icache'[t].inum \in Inums
             /\ \A u \in Slots \ {t} : icache'[u].ref > 0 => icache'[u].inum # icache'[t].inum
  <2>1. t = e /\ ~icache'[t].valid /\ icache'[t].inum = i
    BY <1>4, <1>6, <1>8
  <2>2. ASSUME NEW u \in Slots \ {t}, icache'[u].ref > 0 PROVE icache'[u].inum # i
    <3>1. icache'[u] = c[u] /\ c[u].ref = icache[u].ref /\ c[u].inum = icache[u].inum
      BY <1>4, <1>6, <2>1 DEF Same
    <3> QED BY <1>7, <1>8, <2>1, <2>2, <3>1
  <2> QED BY <2>1, <2>2
<1>9. \A t \in Slots : icache'[t].ref + N(proc[p], t) = icache[t].ref + N(m, t)
  BY <1>2, <1>3, <1>4, <1>6 DEF e
<1>10. \A t \in Slots : icache'[t].lock = IF icache[t].lock = p /\ ~Held(m, t) THEN None ELSE icache[t].lock
  <2> TAKE t \in Slots
  <2>1. icache'[t].lock = c[t].lock /\ (Held(m, t) <=> Held(proc[p], t) /\ t # s) /\ t # None
    BY <1>6 DEF Slots, None
  <2>2. CASE t = s
    BY <1>3, <1>4, <2>1, <2>2
  <2>3. CASE t # s
    BY <1>3, <1>4, <2>1, <2>3
  <2> QED BY <2>2, <2>3
<1>11. GoesOn(p, m)
  BY <1>1, <1>6, <1>8, <1>9, <1>10 DEF GoesOn
<1>12. Quiet1(p)
  <2>1. ASSUME NEW t \in Slots, icache[t].ref > 0 PROVE Same(icache[t], icache'[t])
    BY <1>4, <1>6, <2>1 DEF Same
  <2> QED BY <1>1, <2>1 DEF Quiet1
<1> QED BY <1>11, <1>12, QuietKept, PlainKnows

-----------------------------------------------------------------------------
(* Where a process is.                                                     *)

LEMMA IpThere ==
  ASSUME NEW l, Control(l), l.pc \in IpPoints \ {"look", "readlink", "newinode", "victim"}
  PROVE  /\ DOMAIN l = Fields /\ l.ip \in Slots /\ l.dp = None /\ l.put = None /\ l.cwd \in Slots
         /\ l.fd.ip \in Slots \cup {None} /\ (l.fd # NoFile => l.fd.ip \in Slots)
         /\ l.old \in Slots \cup {None} /\ (l.old # None <=> l.pc \in {"linking", "notlinked"})
         /\ Place(l) = l.pc /\ (l.pc = "creating" => Creates(l)) /\ (l.pc \in {"exists", "created"} => Creates(l))
         /\ (l.pc = "chmod" => l.call.mode \subseteq M_ALL)
         /\ \A t \in Slots : /\ N(l, t) = One(l.ip = t) + Rest(l, t)
                             /\ Held(l, t) <=> t = l.ip
<1> USE DEF IpPoints, FoundPoints, ParentPoints
<1>1. Place(l) = l.pc /\ ~Waits(l) /\ l.pc \notin Putting /\ Aim(l) = l.pc
  BY DEF Place, Waits, Putting, Aim, WalkPoints
<1>2. /\ l.ip \in Slots /\ l.dp = None /\ l.put = None /\ l.cwd \in Slots
      /\ l.fd.ip \in Slots \cup {None} /\ (l.fd # NoFile => l.fd.ip \in Slots)
      /\ l.old \in Slots \cup {None} /\ (l.old # None <=> l.pc \in {"linking", "notlinked"})
  BY <1>1 DEF Control, Shape, Pointed
<1>3. /\ (l.pc = "creating" => Creates(l)) /\ (l.pc \in {"exists", "created"} => Creates(l))
      /\ (l.pc = "chmod" => l.call.mode \subseteq M_ALL)
  BY <1>1 DEF Control, Shape, CallFits, Creates
<1>4. ASSUME NEW t \in Slots PROVE N(l, t) = One(l.ip = t) + Rest(l, t)
  <2>1. One(l.dp = t) = 0 /\ One(l.put = t) = 0
    BY <1>2 DEF One, Slots, None
  <2>2. \A b : One(b) \in Int
    BY DEF One
  <2> QED BY <2>1, <2>2 DEF N, Rest
<1>5. ASSUME NEW t \in Slots PROVE Held(l, t) <=> t = l.ip
  BY <1>1, <1>2 DEF Held, Main, LockPoints, Putting
<1> QED BY <1>1, <1>2, <1>3, <1>4, <1>5 DEF Control, Shape

LEMMA PairThere ==
  ASSUME NEW l, Control(l), l.pc \in {"newinode", "victim"}
  PROVE  /\ DOMAIN l = Fields /\ l.ip \in Slots /\ l.dp \in Slots /\ l.ip # l.dp /\ l.put = None /\ l.cwd \in Slots
         /\ l.fd.ip \in Slots \cup {None} /\ (l.fd # NoFile => l.fd.ip \in Slots) /\ l.old = None
         /\ Place(l) = l.pc /\ (l.pc = "newinode" => Creates(l))
         /\ \A t \in Slots : /\ N(l, t) = One(l.ip = t) + One(l.dp = t) + Rest(l, t)
                             /\ Held(l, t) <=> t \in {l.ip, l.dp}
<1> USE DEF IpPoints, FoundPoints, ParentPoints
<1>1. Place(l) = l.pc /\ ~Waits(l) /\ l.pc \notin Putting /\ Aim(l) = l.pc
  BY DEF Place, Waits, Putting, Aim, WalkPoints
<1>2. /\ l.ip \in Slots /\ l.dp \in Slots /\ l.ip # l.dp /\ l.put = None /\ l.cwd \in Slots
      /\ l.fd.ip \in Slots \cup {None} /\ (l.fd # NoFile => l.fd.ip \in Slots) /\ l.old = None
  BY <1>1 DEF Control, Shape, Pointed, Apart
<1>3. l.pc = "newinode" => Creates(l)
  BY <1>1 DEF Control, Shape, CallFits, Creates
<1>4. ASSUME NEW t \in Slots PROVE N(l, t) = One(l.ip = t) + One(l.dp = t) + Rest(l, t)
  <2>1. One(l.put = t) = 0
    BY <1>2 DEF One, Slots, None
  <2>2. \A b : One(b) \in Int
    BY DEF One
  <2> QED BY <2>1, <2>2 DEF N, Rest
<1>5. ASSUME NEW t \in Slots PROVE Held(l, t) <=> t \in {l.ip, l.dp}
  BY <1>1, <1>2 DEF Held, Main, LockPoints, Putting
<1> QED BY <1>1, <1>2, <1>3, <1>4, <1>5 DEF Control, Shape

\* Where there is no inode in ip.
LEMMA NoIpThere ==
  ASSUME NEW l, Control(l), l.pc \in {"idle", "linked", "unlinkbad", "linkbad", "write", "bmap"}
  PROVE  /\ DOMAIN l = Fields /\ l.ip = None /\ l.put = None /\ l.cwd \in Slots
         /\ l.fd.ip \in Slots \cup {None} /\ (l.fd # NoFile => l.fd.ip \in Slots)
         /\ (l.pc = "unlinkbad" => l.dp \in Slots) /\ (l.pc # "unlinkbad" => l.dp = None)
         /\ (l.pc \in {"linked", "linkbad"} => l.old \in Slots) /\ (l.pc \notin {"linked", "linkbad"} => l.old = None)
         /\ (l.pc \in {"write", "bmap"} => l.fd.ip \in Slots)
         /\ Place(l) = l.pc
         /\ \A t \in Slots : /\ N(l, t) = One(l.dp = t) + Rest(l, t)
                             /\ Held(l, t) <=> \/ l.pc = "unlinkbad" /\ t = l.dp
                                               \/ l.pc = "linkbad" /\ t = l.old
                                               \/ l.pc \in {"write", "bmap"} /\ t = l.fd.ip
<1> USE DEF IpPoints, FoundPoints, ParentPoints, FdPoints
<1>1. Place(l) = l.pc /\ ~Waits(l) /\ l.pc \notin Putting /\ Aim(l) = l.pc
  BY DEF Place, Waits, Putting, Aim, WalkPoints
<1>2. /\ l.ip = None /\ l.put = None /\ l.cwd \in Slots
      /\ l.fd.ip \in Slots \cup {None} /\ (l.fd # NoFile => l.fd.ip \in Slots)
      /\ (l.pc = "unlinkbad" => l.dp \in Slots) /\ (l.pc # "unlinkbad" => l.dp = None)
      /\ (l.pc \in {"linked", "linkbad"} => l.old \in Slots) /\ (l.pc \notin {"linked", "linkbad"} => l.old = None)
      /\ (l.pc \in {"write", "bmap"} => l.fd.ip \in Slots)
  BY <1>1 DEF Control, Shape, Pointed
<1>4. ASSUME NEW t \in Slots PROVE N(l, t) = One(l.dp = t) + Rest(l, t)
  <2>1. One(l.put = t) = 0 /\ One(l.ip = t) = 0
    BY <1>2 DEF One, Slots, None
  <2>2. \A b : One(b) \in Int
    BY DEF One
  <2> QED BY <2>1, <2>2 DEF N, Rest
<1>5. ASSUME NEW t \in Slots
      PROVE  Held(l, t) <=> \/ l.pc = "unlinkbad" /\ t = l.dp
                            \/ l.pc = "linkbad" /\ t = l.old
                            \/ l.pc \in {"write", "bmap"} /\ t = l.fd.ip
  BY <1>1, <1>2 DEF Held, Main, LockPoints, Putting
<1> QED BY <1>1, <1>2, <1>4, <1>5 DEF Control, Shape

\* The end of a call: iput(s), which was unlocked.
LEMMA LeaveShape ==
  ASSUME NEW l, DOMAIN l = Fields, l.put = None, l.cwd \in Slots, l.fd.ip \in Slots \cup {None},
         l.fd # NoFile => l.fd.ip \in Slots, NEW s \in Slots
  PROVE  LET m == Put(Idle(l), s) IN
         /\ Control(m) /\ Plain(m) /\ m.pc = "put" /\ m.fd = l.fd
         /\ \A t \in Slots : ~Held(m, t) /\ N(m, t) = One(s = t) + One(l.cwd = t) + One(l.fd.ip = t)
<1> DEFINE i == Idle(l)
<1>1. /\ Shape(i) /\ Apart(i) /\ Place(i) = "idle" /\ i.pc = "idle" /\ i.fd = l.fd
      /\ \A t : ~Held(i, t)
      /\ \A t \in Slots : N(i, t) = One(l.cwd = t) + One(l.fd.ip = t)
  BY IdleShape
<1> HIDE DEF i
<1>2. i.pc \notin Putting
  BY <1>1 DEF Putting
<1> DEFINE m == Put(i, s)
<1>3. /\ Shape(m) /\ (Apart(m) <=> Apart(i)) /\ Place(m) = Place(i) /\ m.pc = "put"
      /\ Alike(m, i, {"pc", "put", "after"})
      /\ \A t \in Slots : (Held(m, t) <=> Held(i, t)) /\ N(m, t) = N(i, t) + One(s = t)
  BY <1>1, <1>2, PutShape
<1> HIDE DEF m
<1>4. \A t \in Slots : N(m, t) = One(s = t) + One(l.cwd = t) + One(l.fd.ip = t)
  <2>1. \A b : One(b) \in Int
    BY DEF One
  <2> QED BY <1>1, <1>3, <2>1
<1>5. Plain(m) /\ m.fd = l.fd
  BY <1>1, <1>3 DEF Plain, ParentPoints, Alike, Fields
<1> QED BY <1>1, <1>3, <1>4, <1>5 DEF m, i, Control

-----------------------------------------------------------------------------
(* namex()                                                                 *)

Ordinary == IpPoints \ {"look", "readlink", "newinode", "victim"}

\* The call gives up its inode and returns.
LEMMA GiveUp ==
  ASSUME IInv, NEW p \in Procs, proc[p].pc \in Ordinary, proc[p].old = None,
         Peek(p, Put(Idle(proc[p]), proc[p].ip), Iunlock(icache, proc[p].ip))
  PROVE  IInv'
<1> DEFINE l == proc[p]
           m == Put(Idle(l), l.ip)
<1> HIDE DEF l
<1>1. Control(l)
  BY DEF IInv, Controls, l
<1>2. /\ DOMAIN l = Fields /\ l.ip \in Slots /\ l.dp = None /\ l.put = None /\ l.cwd \in Slots
      /\ l.fd.ip \in Slots \cup {None} /\ (l.fd # NoFile => l.fd.ip \in Slots)
      /\ \A t \in Slots : /\ N(l, t) = One(l.ip = t) + Rest(l, t)
                          /\ Held(l, t) <=> t = l.ip
  BY <1>1, IpThere DEF l, Ordinary
<1>3. /\ Control(m) /\ Plain(m) /\ m.pc = "put" /\ m.fd = l.fd
      /\ \A t \in Slots : ~Held(m, t) /\ N(m, t) = One(l.ip = t) + One(l.cwd = t) + One(l.fd.ip = t)
  BY <1>2, LeaveShape
<1> HIDE DEF m
<1>4. \A t \in Slots : N(m, t) = N(l, t)
  <2> TAKE t \in Slots
  <2>1. One(l.old = t) = 0
    BY DEF l, One, Slots, None
  <2>2. \A b : One(b) \in Int
    BY DEF One
  <2> QED BY <1>2, <1>3, <2>1, <2>2 DEF Rest
<1>5. l.pc # "put2"
  BY DEF l, Ordinary, IpPoints, FoundPoints, ParentPoints
<1> QED BY <1>2, <1>3, <1>4, <1>5, PeekUnlock, PlainKnows DEF l, m

\* Directories name inodes.
LEMMA DirEntry ==
  ASSUME IInv, NEW s \in Slots, icache[s].ref > 0, TypeAt(s) = "DIR", NEW n \in DOMAIN data[icache[s].inum]
  PROVE  data[icache[s].inum][n] \in Inums
<1>1. icache[s].inum \in Inums
  BY DEF IInv, Cached
<1> QED BY <1>1 DEF IInv, Contents, TypeAt, IsDirectory

LEMMA FollowShape ==
  ASSUME NEW f, Walks(f), f.pc = "follow", f.ip = None
  PROVE  Shape(f) /\ Apart(f) /\ Place(f) = "follow" /\ \A t \in Slots : ~Held(f, t) /\ N(f, t) = Rest(f, t)
<1>1. Place(f) = "follow" /\ ~Waits(f) /\ Aim(f) = f.then
  BY DEF Place, Waits, Putting, Aim, WalkPoints
<1>2. Shape(f) /\ Apart(f)
  BY <1>1 DEF Shape, Apart, CallFits, Pointed, Walks, Creates, CodePoints, Putting, WalkPoints, IpPoints, FoundPoints,
              ParentPoints, FdPoints
<1>3. \A t \in Slots : ~Held(f, t)
  BY <1>1 DEF Held, LockPoints, IpPoints, FoundPoints, ParentPoints, FdPoints
<1>4. \A t \in Slots : N(f, t) = Rest(f, t)
  <2> TAKE t \in Slots
  <2>1. One(f.ip = t) = 0 /\ One(f.dp = t) = 0 /\ One(f.put = t) = 0
    BY DEF One, Slots, None, Walks
  <2>2. \A b : One(b) \in Int
    BY DEF One
  <2> QED BY <2>1, <2>2 DEF N, Rest
<1> QED BY <1>1, <1>2, <1>3, <1>4

\* A walk starts.
LEMMA StartWalkKept ==
  ASSUME IInv, NEW p \in Procs, NEW l, Walks(l), proc[p].pc # "put2", NEW path, StartWalk(p, l, path),
         \A t \in Slots : ~Held(proc[p], t) /\ N(proc[p], t) = Rest(l, t)
  PROVE  IInv'
<1> DEFINE s == IF path.abs THEN Entry(icache, Root) ELSE l.cwd
           f == [l EXCEPT !.path = path.elems, !.depth = 0]
           m == Walking(f, s)
<1>0. l.cwd \in Slots /\ Root \in Inums
  BY FsAssumption DEF Walks, FsAssumption, Root, Inums
<1>1. CASE s = None
  <2>1. \E w : Panic(w)
    BY <1>1 DEF StartWalk
  <2> QED BY <2>1, PanicKept DEF Panic
<1> SUFFICES ASSUME s # None PROVE IInv'
  BY <1>1
<1>2. s \in Slots
  <2>1. \A t \in Slots : icache[t].ref \in Nat
    BY DEF IInv, DiskTypes, Inodes
  <2> QED BY <1>0, <2>1, EntryFacts
<1>3. Walks(f) /\ \A t : Rest(f, t) = Rest(l, t)
  <2>1. Alike(f, l, {"pc", "path", "name", "ip", "depth", "stack", "target"})
    BY DEF Alike, Walks, Fields
  <2> HIDE DEF f
  <2> QED BY <2>1, WalksAlike
<1>4. Peek(p, m, IF path.abs THEN Iget(icache, Root) ELSE [icache EXCEPT ![s].ref = @ + 1])
  BY DEF StartWalk
<1> HIDE DEF f, s
<1>5. /\ Shape(m) /\ Apart(m) /\ m.pc \in {"idle", "lock", "link", "put"} /\ m.fd = f.fd
      /\ Place(m) \in {"idle", "linkbad", "link", "look", f.then} \ ParentPoints
      /\ \A t \in Slots : ~Held(m, t) /\ N(m, t) = One(s = t) + Rest(f, t)
  BY <1>2, <1>3, WalkingShape
<1> HIDE DEF m
<1>6. Control(m) /\ Plain(m) /\ m.pc # "put2"
  BY <1>3, <1>5 DEF Control, Plain, Walks, FoundPoints, ParentPoints
<1>7. \A t \in Slots : N(m, t) = N(proc[p], t) + One(s = t)
  <2>1. \A b : One(b) \in Int
    BY DEF One
  <2>2. \A t \in Slots : Rest(l, t) \in Int
    BY <2>1 DEF Rest
  <2> QED BY <1>3, <1>5, <2>1, <2>2
<1>8. CASE path.abs
  <2>1. s = Entry(icache, Root) /\ Peek(p, m, Iget(icache, Root))
    BY <1>4, <1>8 DEF s
  <2> QED BY <1>0, <1>5, <1>6, <1>7, <2>1, PeekGet
<1>9. CASE ~path.abs
  <2>1. /\ icache' = [icache EXCEPT ![s].ref = @ + 1] /\ disk' = disk /\ data' = data /\ used' = used /\ setup' = setup
        /\ proc' = [proc EXCEPT ![p] = m] /\ s = l.cwd
    BY <1>4, <1>9 DEF Peek, Step, s
  <2>2. icache \in [Slots -> Inodes] /\ \A t \in Slots : icache[t].ref \in Nat /\ N(proc[p], t) \in Nat /\ One(s = t) \in Nat
    BY NIsNat DEF IInv, DiskTypes, Inodes, One
  <2>3. icache[s].ref > 0
    <3>1. One(l.cwd = s) = 1 /\ One(l.old = s) \in Nat /\ One(l.fd.ip = s) \in Nat
      BY <2>1 DEF One
    <3>2. N(proc[p], s) > 0
      BY <1>2, <3>1 DEF Rest
    <3> QED BY <1>2, <2>2, <3>2, PointedRef DEF IInv
  <2>4. /\ icache' \in [Slots -> Inodes]
        /\ \A t \in Slots : /\ icache'[t].ref = icache[t].ref + One(s = t) /\ icache'[t].lock = icache[t].lock
                            /\ Same(icache[t], icache'[t])
    <3>1. icache' \in [Slots -> Inodes]
      BY <1>2, <2>1, <2>2 DEF Inodes
    <3>2. icache'[s].ref = icache[s].ref + 1 /\ icache'[s].lock = icache[s].lock /\ Same(icache[s], icache'[s])
      BY <1>2, <2>1, <2>2 DEF Inodes, Same
    <3>3. \A t \in Slots \ {s} : icache'[t] = icache[t]
      BY <2>1, <2>2
    <3>4. \A t \in Slots : One(s = t) = IF s = t THEN 1 ELSE 0
      BY DEF One
    <3> QED BY <2>2, <3>1, <3>2, <3>3, <3>4 DEF Same
  <2>5. GoesOn(p, m)
    <3>1. ASSUME NEW t \in Slots
          PROVE  /\ icache'[t].ref + N(proc[p], t) = icache[t].ref + N(m, t)
                 /\ Held(m, t) => Held(proc[p], t)
                 /\ icache'[t].lock = IF icache[t].lock = p /\ ~Held(m, t) THEN None ELSE icache[t].lock
                 /\ ~(icache[t].ref = 0 /\ icache'[t].ref > 0)
      <4>1. icache[t].lock # p
        BY DEF IInv, Locks
      <4>2. icache[t].ref = 0 => t # s
        BY <2>3
      <4>3. t # s => One(s = t) = 0
        BY DEF One
      <4> QED BY <1>5, <1>7, <2>2, <2>4, <4>1, <4>2, <4>3
    <3> QED BY <1>6, <2>1, <2>4, <3>1 DEF GoesOn
  <2>6. Quiet1(p)
    BY <2>1, <2>4 DEF Quiet1
  <2> QED BY <1>6, <2>5, <2>6, QuietKept, PlainKnows
<1> QED BY <1>8, <1>9

\* What there is of a process at a place of namex().
LEMMA WalkHere ==
  ASSUME IInv, NEW p \in Procs, proc[p].pc \in WalkPoints
  PROVE  /\ Control(proc[p]) /\ Walks(proc[p])
         /\ (proc[p].pc # "follow" => proc[p].ip \in Slots) /\ (proc[p].pc = "follow" => proc[p].ip = None)
         /\ proc[p].pc \notin Putting \cup {"lock"} /\ proc[p].pc # "put2"
         /\ \A t \in Slots : /\ N(proc[p], t) = One(proc[p].ip = t) + Rest(proc[p], t)
                             /\ Held(proc[p], t) <=> proc[p].pc \in {"look", "readlink"} /\ t = proc[p].ip
                             /\ One(proc[p].ip = t) \in Int /\ Rest(proc[p], t) \in Int
<1>1. Control(proc[p])
  BY DEF IInv, Controls
<1>2. \A t \in Slots : One(proc[p].ip = t) \in Int /\ Rest(proc[p], t) \in Int
  BY DEF One, Rest
<1> QED BY <1>1, <1>2, WalksThere DEF WalkPoints, Putting

LEMMA FollowKept ==
  ASSUME IInv, NEW p \in Procs, Follow(p)
  PROVE  IInv'
<1> DEFINE l == proc[p]
           f == [l EXCEPT !.target = NoData]
<1>1. l.pc = "follow"
  BY DEF Follow, At
<1>2. CASE Len(l.stack) >= KernelFrames
  <2>1. \E w : Panic(w)
    BY <1>2 DEF Follow
  <2> QED BY <2>1, PanicKept DEF Panic
<1>3. CASE ~(Len(l.stack) >= KernelFrames)
  <2>1. StartWalk(p, f, l.target)
    BY <1>3 DEF Follow
  <2>2. /\ Walks(l) /\ l.ip = None /\ l.pc # "put2"
        /\ \A t \in Slots : ~Held(l, t) /\ N(l, t) = One(l.ip = t) + Rest(l, t) /\ Rest(l, t) \in Int
    BY <1>1, WalkHere DEF WalkPoints
  <2>3. Walks(f) /\ \A t : Rest(f, t) = Rest(l, t)
    <3>1. Alike(f, l, {"pc", "path", "name", "ip", "depth", "stack", "target"})
      BY <2>2 DEF Alike, Walks, Fields
    <3> HIDE DEF f, l
    <3> QED BY <2>2, <3>1, WalksAlike
  <2>4. \A t \in Slots : N(l, t) = Rest(f, t)
    <3> TAKE t \in Slots
    <3>1. One(l.ip = t) = 0
      BY <2>2 DEF One, Slots, None
    <3> QED BY <2>2, <2>3, <3>1
  <2> HIDE DEF f
  <2> QED BY <2>1, <2>2, <2>3, <2>4, StartWalkKept
<1> QED BY <1>2, <1>3

LEMMA LinkKept ==
  ASSUME IInv, NEW p \in Procs, Link(p)
  PROVE  IInv'
<1> DEFINE l == proc[p]
           f == [l EXCEPT !.pc = "readlink"]
           r == Result(l, None)
<1>1. l.pc = "link"
  BY DEF Link, At
<1>2. /\ Control(l) /\ Walks(l) /\ l.ip \in Slots /\ l.pc # "put2"
      /\ \A t \in Slots : ~Held(l, t) /\ N(l, t) = One(l.ip = t) + Rest(l, t) /\ One(l.ip = t) \in Int /\ Rest(l, t) \in Int
  BY <1>1, WalkHere DEF WalkPoints
<1>3. \/ Peek(p, Lock(f, l.ip), icache)
      \/ Peek(p, Put(r, l.ip), icache)
      \/ Peek(p, Walking(l, l.ip), icache)
  BY DEF Link
<1> HIDE DEF l
<1>4. CASE Peek(p, Lock(f, l.ip), icache)
  <2>1. Alike(f, l, {"pc"}) /\ f.pc = "readlink"
    BY <1>2 DEF Alike, Walks, Fields
  <2> HIDE DEF f
  <2>2. /\ f.ip = l.ip /\ f.dp = None /\ f.old = l.old /\ f.cwd = l.cwd /\ f.fd = l.fd /\ f.call = l.call
        /\ f.then = l.then /\ f.parent = l.parent /\ f.put = None /\ DOMAIN f = Fields
    BY <1>2, <2>1 DEF Alike, Fields, Walks
  <2>3. Place(f) = "readlink" /\ ~Waits(f) /\ Aim(f) = l.then /\ Main(f) = l.ip /\ f.pc \notin Putting \cup {"lock", "install"}
    BY <2>1, <2>2 DEF Place, Waits, Aim, Main, Putting, WalkPoints, IpPoints
  <2>4. l.ip # None
    BY <1>2 DEF Slots, None
  <2>5. CallFits(f)
    BY <1>2, <2>2, <2>3 DEF CallFits, Walks, Creates, FoundPoints, ParentPoints
  <2>6. Pointed(f)
    BY <1>2, <2>1, <2>2, <2>3, <2>4 DEF Pointed, Walks, IpPoints, FdPoints, FoundPoints, ParentPoints, Putting
  <2>7. Shape(f) /\ f.pc \in LockPoints
    BY <2>1, <2>2, <2>3, <2>5, <2>6 DEF Shape, CodePoints, LockPoints, IpPoints
  <2> DEFINE m == Lock(f, Main(f))
  <2>8. /\ Shape(m) /\ Apart(m) /\ Place(m) = "readlink" /\ m.pc = "lock"
        /\ \A t : (Held(m, t) <=> f.pc \in {"newinode", "victim"} /\ t = f.dp) /\ N(m, t) = N(f, t)
    BY <2>1, <2>3, <2>7, LockShape
  <2>9. \A t \in Slots : N(f, t) = N(l, t)
    <3>1. l.put = None /\ l.dp = None
      BY <1>2 DEF Walks
    <3> QED BY <2>2, <3>1 DEF N
  <2>10. Peek(p, m, icache)
    BY <1>4, <2>3
  <2> HIDE DEF m
  <2>11. Control(m) /\ Plain(m)
    BY <2>8 DEF Control, Plain, ParentPoints
  <2>12. KnowsNow(m) /\ m.pc # "put2" /\ proc[p].pc # "put2"
    BY <1>2, <2>8, <2>11, PlainKnows DEF l
  <2>13. \A t \in Slots : N(m, t) = N(proc[p], t) /\ (Held(m, t) <=> Held(proc[p], t))
    BY <1>2, <2>1, <2>8, <2>9 DEF l
  <2> QED BY <2>10, <2>11, <2>12, <2>13, PeekSame
<1>5. CASE Peek(p, Put(r, l.ip), icache)
  <2>1. /\ Shape(r) /\ Apart(r) /\ r.pc \in {"idle", "lock", "link"} /\ Place(r) \in {"idle", "linkbad"}
        /\ \A t \in Slots : ~Held(r, t) /\ N(r, t) = One(None = t) + Rest(l, t)
    BY <1>2, ResultShape
  <2> HIDE DEF r
  <2> DEFINE m == Put(r, l.ip)
  <2>2. /\ Shape(m) /\ Apart(m) /\ Place(m) = Place(r) /\ m.pc = "put"
        /\ \A t \in Slots : (Held(m, t) <=> Held(r, t)) /\ N(m, t) = N(r, t) + One(l.ip = t)
    BY <1>2, <2>1, PutShape DEF Putting
  <2> HIDE DEF m
  <2>3. Control(m) /\ Plain(m)
    BY <2>1, <2>2 DEF Control, Plain, ParentPoints
  <2>4. \A t \in Slots : N(m, t) = N(l, t)
    <3> TAKE t \in Slots
    <3>1. One(None = t) = 0
      BY DEF One, None, Slots
    <3> QED BY <1>2, <2>1, <2>2, <3>1
  <2>5. Peek(p, m, icache)
    BY <1>5 DEF m
  <2>6. KnowsNow(m) /\ m.pc # "put2" /\ proc[p].pc # "put2"
    BY <1>2, <2>2, <2>3, PlainKnows DEF l
  <2>7. \A t \in Slots : N(m, t) = N(proc[p], t) /\ (Held(m, t) <=> Held(proc[p], t))
    BY <1>2, <2>1, <2>2, <2>4 DEF l
  <2> QED BY <2>3, <2>5, <2>6, <2>7, PeekSame
<1>6. CASE Peek(p, Walking(l, l.ip), icache)
  <2> DEFINE m == Walking(l, l.ip)
  <2>1. /\ Shape(m) /\ Apart(m) /\ m.pc \in {"idle", "lock", "link", "put"}
        /\ Place(m) \in {"idle", "linkbad", "link", "look", l.then} \ ParentPoints
        /\ \A t \in Slots : ~Held(m, t) /\ N(m, t) = One(l.ip = t) + Rest(l, t)
    BY <1>2, WalkingShape
  <2>2. Peek(p, m, icache)
    BY <1>6
  <2> HIDE DEF m
  <2>3. Control(m) /\ Plain(m) /\ m.pc # "put2"
    BY <1>2, <2>1 DEF Control, Plain, Walks, FoundPoints, ParentPoints
  <2>4. KnowsNow(m) /\ proc[p].pc # "put2"
    BY <1>2, <2>3, PlainKnows DEF l
  <2>5. \A t \in Slots : N(m, t) = N(proc[p], t) /\ (Held(m, t) <=> Held(proc[p], t))
    BY <1>2, <2>1 DEF l
  <2> QED BY <2>2, <2>3, <2>4, <2>5, PeekSame
<1> QED BY <1>3, <1>4, <1>5, <1>6

LEMMA ReadLinkKept ==
  ASSUME IInv, NEW p \in Procs, ReadLink(p)
  PROVE  IInv'
<1> DEFINE l == proc[p]
<1>1. l.pc = "readlink"
  BY DEF ReadLink, At
<1>2. /\ Control(l) /\ Walks(l) /\ l.ip \in Slots /\ l.pc # "put2"
      /\ \A t \in Slots : /\ Held(l, t) <=> t = l.ip
                          /\ N(l, t) = One(l.ip = t) + Rest(l, t) /\ One(l.ip = t) \in Int /\ Rest(l, t) \in Int
  BY <1>1, WalkHere DEF WalkPoints
<1>3. PICK text \in LinkText(l.ip) :
        Peek(p, Put([l EXCEPT !.pc = "follow", !.target = text, !.ip = None,
                              !.stack = Append(@, l.depth)], l.ip), Iunlock(icache, l.ip))
  BY DEF ReadLink
<1> HIDE DEF l
<1> DEFINE f == [l EXCEPT !.pc = "follow", !.target = text, !.ip = None, !.stack = Append(@, l.depth)]
           m == Put(f, l.ip)
<1>4. Alike(f, l, {"pc", "path", "name", "ip", "depth", "stack", "target"}) /\ f.pc = "follow" /\ f.ip = None
  BY <1>2 DEF Alike, Walks, Fields
<1> HIDE DEF f
<1>5. Walks(f) /\ \A t : Rest(f, t) = Rest(l, t)
  BY <1>2, <1>4, WalksAlike
<1>6. Shape(f) /\ Apart(f) /\ Place(f) = "follow" /\ \A t \in Slots : ~Held(f, t) /\ N(f, t) = Rest(f, t)
  BY <1>4, <1>5, FollowShape
<1>7. /\ Shape(m) /\ Apart(m) /\ Place(m) = "follow" /\ m.pc = "put"
      /\ \A t \in Slots : (Held(m, t) <=> Held(f, t)) /\ N(m, t) = N(f, t) + One(l.ip = t)
  BY <1>2, <1>4, <1>6, PutShape DEF Putting
<1>8. Peek(p, m, Iunlock(icache, l.ip))
  BY <1>3 DEF f
<1> HIDE DEF m
<1>9. Control(m) /\ Plain(m)
  BY <1>7 DEF Control, Plain, ParentPoints
<1>10. \A t \in Slots : N(m, t) = N(l, t) /\ (Held(m, t) <=> Held(l, t) /\ t # l.ip)
  BY <1>2, <1>5, <1>6, <1>7
<1>11. KnowsNow(m) /\ m.pc # "put2"
  BY <1>7, <1>9, PlainKnows
<1>12. /\ l.ip \in Slots /\ proc[p].pc # "put2" /\ Held(proc[p], l.ip)
       /\ \A t \in Slots : N(m, t) = N(proc[p], t) /\ (Held(m, t) <=> Held(proc[p], t) /\ t # l.ip)
  BY <1>2, <1>10 DEF l
<1> QED BY <1>8, <1>9, <1>11, <1>12, PeekUnlock

LEMMA LookKept ==
  ASSUME IInv, NEW p \in Procs, Look(p)
  PROVE  IInv'
<1> DEFINE l == proc[p]
           e == icache[l.ip]
           name == Head(l.path)
           next == Entry(icache, data[e.inum][name])
           c == Iunlock(icache, l.ip)
<1>1. l.pc = "look"
  BY DEF Look, At
<1>2. /\ Control(l) /\ Walks(l) /\ l.ip \in Slots /\ l.pc # "put2"
      /\ \A t \in Slots : /\ Held(l, t) <=> t = l.ip
                          /\ N(l, t) = One(l.ip = t) + Rest(l, t) /\ One(l.ip = t) \in Int /\ Rest(l, t) \in Int
  BY <1>1, WalkHere DEF WalkPoints
<1>3. icache[l.ip].ref > 0 /\ TypeAt(l.ip) = icache[l.ip].type
  BY <1>2, HeldCurrent
<1> DEFINE gone == Peek(p, Put(Result(l, None), l.ip), c)
           parent == e.type = "DIR" /\ Peek(p, Result([l EXCEPT !.name = name], l.ip), c)
           step == /\ e.type = "DIR" /\ name \in DOMAIN data[e.inum] /\ next # None
                   /\ Peek(p, Put([l EXCEPT !.pc = "link", !.ip = next, !.path = Tail(@), !.depth = 0], l.ip),
                           Iget(c, data[e.inum][name]))
<1>4. gone \/ parent \/ step \/ Panic("iget: no inodes")
  BY DEF Look
<1>5. CASE gone
  <2> DEFINE r == Result(l, None)
  <2>1. /\ Shape(r) /\ Apart(r) /\ r.pc \in {"idle", "lock", "link"} /\ Place(r) \in {"idle", "linkbad"}
        /\ \A t \in Slots : ~Held(r, t) /\ N(r, t) = One(None = t) + Rest(l, t)
    BY <1>2, ResultShape
  <2> HIDE DEF r, l
  <2> DEFINE m == Put(r, l.ip)
  <2>2. /\ Shape(m) /\ Apart(m) /\ Place(m) = Place(r) /\ m.pc = "put"
        /\ \A t \in Slots : (Held(m, t) <=> Held(r, t)) /\ N(m, t) = N(r, t) + One(l.ip = t)
    BY <1>2, <2>1, PutShape DEF Putting
  <2> HIDE DEF m
  <2>3. Control(m) /\ Plain(m)
    BY <2>1, <2>2 DEF Control, Plain, ParentPoints
  <2>4. \A t \in Slots : N(m, t) = N(l, t) /\ (Held(m, t) <=> Held(l, t) /\ t # l.ip)
    <3> TAKE t \in Slots
    <3>1. One(None = t) = 0
      BY DEF One, None, Slots
    <3> QED BY <1>2, <2>1, <2>2, <3>1
  <2>5. Peek(p, m, Iunlock(icache, l.ip))
    BY <1>5 DEF m, r
  <2>6. KnowsNow(m) /\ m.pc # "put2"
    BY <2>2, <2>3, PlainKnows
  <2>7. /\ l.ip \in Slots /\ proc[p].pc # "put2" /\ Held(proc[p], l.ip)
        /\ \A t \in Slots : N(m, t) = N(proc[p], t) /\ (Held(m, t) <=> Held(proc[p], t) /\ t # l.ip)
    BY <1>2, <2>4 DEF l
  <2> QED BY <2>3, <2>5, <2>6, <2>7, PeekUnlock
<1>6. CASE parent
  <2> DEFINE f == [l EXCEPT !.name = name]
             m == Result(f, l.ip)
  <2>0. Peek(p, m, Iunlock(icache, l.ip)) /\ icache[l.ip].type = "DIR"
    BY <1>6
  <2> HIDE DEF l, name
  <2>1. Alike(f, l, {"pc", "path", "name", "ip", "depth", "stack", "target"})
    BY <1>2 DEF Alike, Walks, Fields
  <2> HIDE DEF f
  <2>2. Walks(f) /\ \A t : Rest(f, t) = Rest(l, t)
    BY <1>2, <2>1, WalksAlike
  <2>3. /\ Shape(m) /\ Apart(m) /\ m.pc \in {"idle", "lock", "link"}
        /\ Place(m) \in {"idle", "linkbad", "link", f.then} /\ (Place(m) = f.then => m.ip = l.ip)
        /\ \A t \in Slots : ~Held(m, t) /\ N(m, t) = One(l.ip = t) + Rest(f, t)
    BY <1>2, <2>2, ResultShape
  <2> HIDE DEF m
  <2>4. KnowsNow(m)
    BY <1>3, <2>0, <2>2, <2>3 DEF KnowsNow, Walks, ParentPoints, FoundPoints
  <2>5. \A t \in Slots : N(m, t) = N(l, t) /\ (Held(m, t) <=> Held(l, t) /\ t # l.ip)
    BY <1>2, <2>2, <2>3
  <2>6. Control(m) /\ m.pc # "put2"
    BY <2>3 DEF Control
  <2> QED BY <1>2, <2>0, <2>4, <2>5, <2>6, PeekUnlock DEF l
<1>7. CASE step
  <2> DEFINE i == data[icache[l.ip].inum][name]
             f == [l EXCEPT !.pc = "link", !.ip = next, !.path = Tail(@), !.depth = 0]
             m == Put(f, l.ip)
  <2>0. /\ Peek(p, m, Iget(Iunlock(icache, l.ip), i)) /\ icache[l.ip].type = "DIR"
        /\ name \in DOMAIN data[icache[l.ip].inum] /\ next = Entry(icache, i) /\ next # None
    BY <1>7
  <2> HIDE DEF l, name, next
  <2>1. i \in Inums
    BY <1>2, <1>3, <2>0, DirEntry
  <2> HIDE DEF i
  <2>2. next \in Slots
    <3>1. \A s \in Slots : icache[s].ref \in Nat
      BY DEF IInv, DiskTypes, Inodes
    <3> QED BY <2>0, <3>1, EntryFacts
  <2>3. Alike(f, l, {"pc", "path", "name", "ip", "depth", "stack", "target"}) /\ f.pc = "link" /\ f.ip = next
    BY <1>2 DEF Alike, Walks, Fields
  <2> HIDE DEF f
  <2>4. Walks(f) /\ \A t : Rest(f, t) = Rest(l, t)
    BY <1>2, <2>3, WalksAlike
  <2>5. Place(f) = "link" /\ ~Waits(f) /\ Aim(f) = f.then
    BY <2>3 DEF Place, Waits, Putting, Aim, WalkPoints
  <2>6. Shape(f) /\ Apart(f)
    BY <2>0, <2>2, <2>3, <2>4, <2>5 DEF Shape, Apart, CallFits, Pointed, Walks, Creates, CodePoints, Putting, WalkPoints,
                                        IpPoints, FoundPoints, ParentPoints, FdPoints
  <2>7. \A t \in Slots : ~Held(f, t) /\ N(f, t) = One(next = t) + Rest(f, t)
    <3> TAKE t \in Slots
    <3>1. ~Held(f, t)
      BY <2>3, <2>5 DEF Held, LockPoints, IpPoints, FoundPoints, ParentPoints, FdPoints
    <3>2. One(f.dp = t) = 0 /\ One(f.put = t) = 0
      BY <2>4 DEF One, Slots, None, Walks
    <3>3. \A b : One(b) \in Int
      BY DEF One
    <3> QED BY <2>3, <3>1, <3>2, <3>3 DEF N, Rest
  <2>8. /\ Shape(m) /\ Apart(m) /\ Place(m) = "link" /\ m.pc = "put"
        /\ \A t \in Slots : (Held(m, t) <=> Held(f, t)) /\ N(m, t) = N(f, t) + One(l.ip = t)
    BY <1>2, <2>3, <2>5, <2>6, PutShape DEF Putting
  <2> HIDE DEF m
  <2>9. Control(m) /\ Plain(m)
    BY <2>8 DEF Control, Plain, ParentPoints
  <2>10. \A t \in Slots : N(m, t) = N(l, t) + One(next = t) /\ (Held(m, t) <=> Held(l, t) /\ t # l.ip)
    <3>1. \A b : One(b) \in Int
      BY DEF One
    <3> QED BY <1>2, <2>4, <2>7, <2>8, <3>1
  <2>11. l.ip # None
    BY <1>2 DEF Slots, None
  <2> DEFINE d == Iunlock(icache, l.ip)
  <2>12. d = (IF l.ip = None THEN icache ELSE Iunlock(icache, l.ip)) /\ Peek(p, m, Iget(d, i))
    BY <2>0, <2>11
  <2> HIDE DEF d
  <2> QED BY <1>2, <2>0, <2>1, <2>8, <2>9, <2>10, <2>11, <2>12, PeekGet DEF l
<1>8. CASE Panic("iget: no inodes")
  BY <1>8, PanicKept DEF Panic
<1> QED BY <1>4, <1>5, <1>6, <1>7, <1>8

-----------------------------------------------------------------------------
(* Calls that have found their inode.                                      *)

LEMMA OrdinaryHere ==
  ASSUME IInv, NEW p \in Procs, NEW l, l = proc[p], l.pc \in Ordinary
  PROVE  /\ Control(l) /\ DOMAIN l = Fields /\ l.ip \in Slots /\ l.dp = None /\ l.put = None /\ l.cwd \in Slots
         /\ l.fd.ip \in Slots \cup {None} /\ (l.fd # NoFile => l.fd.ip \in Slots)
         /\ l.old \in Slots \cup {None} /\ (l.old # None <=> l.pc \in {"linking", "notlinked"})
         /\ Place(l) = l.pc /\ (l.pc \in {"creating", "exists", "created"} => Creates(l))
         /\ (l.pc = "chmod" => l.call.mode \subseteq M_ALL)
         /\ proc[p].pc # "put2" /\ Held(proc[p], l.ip)
         /\ \A t \in Slots : /\ N(proc[p], t) = One(l.ip = t) + Rest(l, t)
                             /\ Held(proc[p], t) <=> t = l.ip
                             /\ One(l.ip = t) \in Int /\ Rest(l, t) \in Int
         /\ icache[l.ip].ref > 0 /\ icache[l.ip].inum \in Inums /\ TypeAt(l.ip) = icache[l.ip].type
<1>1. Control(l)
  BY DEF IInv, Controls
<1>2. \A t \in Slots : One(l.ip = t) \in Int /\ Rest(l, t) \in Int
  BY DEF One, Rest
<1>3. /\ DOMAIN l = Fields /\ l.ip \in Slots /\ l.dp = None /\ l.put = None /\ l.cwd \in Slots
      /\ l.fd.ip \in Slots \cup {None} /\ (l.fd # NoFile => l.fd.ip \in Slots)
      /\ l.old \in Slots \cup {None} /\ (l.old # None <=> l.pc \in {"linking", "notlinked"})
      /\ Place(l) = l.pc /\ (l.pc \in {"creating", "exists", "created"} => Creates(l))
      /\ (l.pc = "chmod" => l.call.mode \subseteq M_ALL)
      /\ \A t \in Slots : /\ N(l, t) = One(l.ip = t) + Rest(l, t)
                          /\ Held(l, t) <=> t = l.ip
  BY <1>1, IpThere DEF Ordinary
<1>4. l.pc # "put2"
  BY DEF Ordinary, IpPoints, FoundPoints, ParentPoints
<1>5. icache[l.ip].ref > 0 /\ icache[l.ip].inum \in Inums /\ TypeAt(l.ip) = icache[l.ip].type
  BY <1>3, <1>4, HeldCurrent
<1> QED BY <1>1, <1>2, <1>3, <1>4, <1>5

\* The call goes on with the inode locked.
LEMMA MoveShape ==
  ASSUME NEW l, Control(l), l.pc \in Ordinary, l.old = None, NEW x \in {"created", "install"},
         x = "created" => Creates(l)
  PROVE  LET m == [l EXCEPT !.pc = x] IN
         /\ Control(m) /\ Place(m) = x /\ m.pc = x /\ m.ip = l.ip /\ m.call = l.call
         /\ \A t \in Slots : N(m, t) = N(l, t) /\ (Held(m, t) <=> Held(l, t))
<1> DEFINE m == [l EXCEPT !.pc = x]
<1>1. /\ DOMAIN l = Fields /\ l.ip \in Slots /\ l.dp = None /\ l.put = None /\ l.cwd \in Slots
      /\ l.fd.ip \in Slots \cup {None} /\ (l.fd # NoFile => l.fd.ip \in Slots)
      /\ \A t \in Slots : Held(l, t) <=> t = l.ip
  BY IpThere DEF Ordinary
<1>2. Alike(m, l, {"pc"}) /\ m.pc = x
  BY <1>1 DEF Alike, Fields
<1> HIDE DEF m
<1>3. /\ m.ip = l.ip /\ m.dp = None /\ m.old = None /\ m.cwd = l.cwd /\ m.fd = l.fd /\ m.call = l.call
      /\ m.put = None /\ DOMAIN m = Fields
  BY <1>1, <1>2 DEF Alike, Fields
<1> USE DEF IpPoints, FoundPoints, ParentPoints
<1>4. Place(m) = x /\ ~Waits(m) /\ Aim(m) = x /\ m.pc \notin Putting
  BY <1>2 DEF Place, Waits, Aim, Putting, WalkPoints
<1>5. Shape(m) /\ Apart(m)
  BY <1>1, <1>2, <1>3, <1>4 DEF Shape, Apart, CallFits, Pointed, Creates, CodePoints, LockPoints, WalkPoints, FdPoints,
                                Slots, None
<1>6. \A t \in Slots : N(m, t) = N(l, t) /\ (Held(m, t) <=> Held(l, t))
  BY <1>1, <1>2, <1>3, <1>4 DEF N, Held, Main, LockPoints
<1> QED BY <1>2, <1>3, <1>4, <1>5, <1>6 DEF m, Control

LEMMA MoveKept ==
  ASSUME IInv, NEW p \in Procs, proc[p].pc \in Ordinary, proc[p].old = None, NEW x \in {"created", "install"},
         x = "created" => Creates(proc[p]) /\ TypeAt(proc[p].ip) = TypeOf(proc[p].call),
         x = "install" => "CREATE" \in proc[p].call.omode \/ ~Denied(icache[proc[p].ip], proc[p].call.omode),
         Peek(p, [proc[p] EXCEPT !.pc = x], icache)
  PROVE  IInv'
<1> DEFINE l == proc[p]
           m == [l EXCEPT !.pc = x]
<1>1. Control(l) /\ l.pc # "put2"
  BY OrdinaryHere
<1>2. /\ Control(m) /\ Place(m) = x /\ m.pc = x /\ m.ip = l.ip /\ m.call = l.call
      /\ \A t \in Slots : N(m, t) = N(l, t) /\ (Held(m, t) <=> Held(l, t))
  BY <1>1, MoveShape
<1> HIDE DEF m
<1>3. KnowsNow(m)
  BY <1>2 DEF KnowsNow, ParentPoints
<1>4. Peek(p, m, icache) /\ m.pc # "put2"
  BY <1>2 DEF m
<1> HIDE DEF l
<1>5. \A t \in Slots : N(m, t) = N(proc[p], t) /\ (Held(m, t) <=> Held(proc[p], t))
  BY <1>2 DEF l
<1> QED BY <1>1, <1>2, <1>3, <1>4, <1>5, PeekSame DEF l

LEMMA ExistsKept ==
  ASSUME IInv, NEW p \in Procs, Exists(p)
  PROVE  IInv'
<1> DEFINE l == proc[p]
<1>1. l.pc = "exists" /\ l.pc \in Ordinary
  BY DEF Exists, At, Ordinary, IpPoints
<1>2. l.old = None /\ Creates(l) /\ TypeAt(l.ip) = icache[l.ip].type
  BY <1>1, OrdinaryHere
<1>3. \/ icache[l.ip].type = TypeOf(l.call) /\ Peek(p, [l EXCEPT !.pc = "created"], icache)
      \/ Peek(p, Put(Idle(l), l.ip), Iunlock(icache, l.ip))
  BY DEF Exists
<1> QED BY <1>1, <1>2, <1>3, MoveKept, GiveUp

LEMMA OpenCheckKept ==
  ASSUME IInv, NEW p \in Procs, OpenCheck(p)
  PROVE  IInv'
<1> DEFINE l == proc[p]
<1>1. l.pc \in {"open", "open2"} /\ l.pc \in Ordinary
  BY DEF OpenCheck, Ordinary, IpPoints, FoundPoints
<1>2. l.old = None
  BY <1>1, OrdinaryHere
<1>3. \/ Peek(p, Put(Idle(l), l.ip), Iunlock(icache, l.ip))
      \/ ~Denied(icache[l.ip], l.call.omode) /\ Peek(p, [l EXCEPT !.pc = "install"], icache)
  BY DEF OpenCheck
<1> QED BY <1>1, <1>2, <1>3, MoveKept, GiveUp

LEMMA OpenLinkKept ==
  ASSUME IInv, NEW p \in Procs, OpenLink(p)
  PROVE  IInv'
<1> DEFINE l == proc[p]
           text == data[icache[l.ip].inum]
           f == [l EXCEPT !.pc = "follow", !.target = text, !.ip = None, !.then = "open2"]
           m == Put(f, l.ip)
<1>1. l.pc = "open" /\ l.pc \in Ordinary
  BY DEF OpenLink, At, Ordinary, IpPoints, FoundPoints
<1>2. /\ DOMAIN l = Fields /\ l.ip \in Slots /\ l.dp = None /\ l.put = None /\ l.cwd \in Slots
      /\ l.fd.ip \in Slots \cup {None} /\ (l.fd # NoFile => l.fd.ip \in Slots) /\ l.old = None
      /\ proc[p].pc # "put2" /\ Held(proc[p], l.ip)
      /\ \A t \in Slots : /\ N(proc[p], t) = One(l.ip = t) + Rest(l, t)
                          /\ Held(proc[p], t) <=> t = l.ip
                          /\ One(l.ip = t) \in Int /\ Rest(l, t) \in Int
  BY <1>1, OrdinaryHere
<1>3. Peek(p, m, Iunlock(icache, l.ip))
  BY DEF OpenLink
<1> HIDE DEF l, text
<1>4. Alike(f, l, {"pc", "target", "ip", "then"}) /\ f.pc = "follow" /\ f.ip = None /\ f.then = "open2"
  BY <1>2 DEF Alike, Fields
<1> HIDE DEF f
<1>5. /\ f.dp = None /\ f.old = None /\ f.cwd = l.cwd /\ f.fd = l.fd /\ f.put = None /\ DOMAIN f = Fields
  BY <1>2, <1>4 DEF Alike, Fields
<1>6. Walks(f) /\ \A t : Rest(f, t) = Rest(l, t)
  BY <1>2, <1>4, <1>5 DEF Walks, Rest, FoundPoints, ParentPoints
<1>7. Shape(f) /\ Apart(f) /\ Place(f) = "follow" /\ \A t \in Slots : ~Held(f, t) /\ N(f, t) = Rest(f, t)
  BY <1>4, <1>6, FollowShape
<1>8. /\ Shape(m) /\ Apart(m) /\ Place(m) = "follow" /\ m.pc = "put"
      /\ \A t \in Slots : (Held(m, t) <=> Held(f, t)) /\ N(m, t) = N(f, t) + One(l.ip = t)
  BY <1>2, <1>4, <1>7, PutShape DEF Putting
<1> HIDE DEF m
<1>9. Control(m) /\ Plain(m) /\ KnowsNow(m) /\ m.pc # "put2"
  BY <1>8, PlainKnows DEF Control, Plain, ParentPoints
<1>10. \A t \in Slots : N(m, t) = N(proc[p], t) /\ (Held(m, t) <=> Held(proc[p], t) /\ t # l.ip)
  BY <1>2, <1>6, <1>7, <1>8
<1> QED BY <1>2, <1>3, <1>9, <1>10, PeekUnlock

LEMMA ChdirKept ==
  ASSUME IInv, NEW p \in Procs, Chdir(p)
  PROVE  IInv'
<1> DEFINE l == proc[p]
           f == [l EXCEPT !.cwd = l.ip]
           m == Put(Idle(f), l.cwd)
<1>1. l.pc = "chdir" /\ l.pc \in Ordinary
  BY DEF Chdir, At, Ordinary, IpPoints, FoundPoints
<1>2. /\ DOMAIN l = Fields /\ l.ip \in Slots /\ l.dp = None /\ l.put = None /\ l.cwd \in Slots
      /\ l.fd.ip \in Slots \cup {None} /\ (l.fd # NoFile => l.fd.ip \in Slots) /\ l.old = None
      /\ proc[p].pc # "put2" /\ Held(proc[p], l.ip)
      /\ \A t \in Slots : /\ N(proc[p], t) = One(l.ip = t) + Rest(l, t)
                          /\ Held(proc[p], t) <=> t = l.ip
                          /\ One(l.ip = t) \in Int /\ Rest(l, t) \in Int
  BY <1>1, OrdinaryHere
<1>3. \/ Peek(p, Put(Idle(l), l.ip), Iunlock(icache, l.ip))
      \/ Peek(p, m, Iunlock(icache, l.ip))
  BY DEF Chdir
<1>4. CASE Peek(p, Put(Idle(l), l.ip), Iunlock(icache, l.ip))
  BY <1>1, <1>2, <1>4, GiveUp
<1>5. CASE Peek(p, m, Iunlock(icache, l.ip))
  <2> HIDE DEF l
  <2>1. f.cwd = l.ip /\ f.fd = l.fd /\ f.put = None /\ DOMAIN f = Fields
    BY <1>2 DEF Fields
  <2> HIDE DEF f
  <2>2. /\ Control(m) /\ Plain(m) /\ m.pc = "put" /\ m.fd = f.fd
        /\ \A t \in Slots : ~Held(m, t) /\ N(m, t) = One(l.cwd = t) + One(f.cwd = t) + One(f.fd.ip = t)
    BY <1>2, <2>1, LeaveShape
  <2> HIDE DEF m
  <2>3. KnowsNow(m) /\ m.pc # "put2"
    BY <2>2, PlainKnows
  <2>4. \A t \in Slots : N(m, t) = N(proc[p], t) /\ (Held(m, t) <=> Held(proc[p], t) /\ t # l.ip)
    <3> TAKE t \in Slots
    <3>1. One(l.old = t) = 0
      BY <1>2 DEF One, Slots, None
    <3>2. \A b : One(b) \in Int
      BY DEF One
    <3> QED BY <1>2, <2>1, <2>2, <3>1, <3>2 DEF Rest
  <2> QED BY <1>2, <1>5, <2>2, <2>3, <2>4, PeekUnlock
<1> QED BY <1>3, <1>4, <1>5

LEMMA CreateOldKept ==
  ASSUME IInv, NEW p \in Procs, CreateOld(p)
  PROVE  IInv'
<1> DEFINE l == proc[p]
           i == data[icache[l.ip].inum][l.name]
           there == Entry(icache, i)
           f == [l EXCEPT !.pc = "exists", !.ip = there]
           g == Lock(f, there)
           m == Put(g, l.ip)
<1>1. l.pc = "creating" /\ l.pc \in Ordinary /\ l.name \in DOMAIN data[icache[l.ip].inum]
  BY DEF CreateOld, At, Ordinary, IpPoints, FoundPoints, ParentPoints
<1>2. /\ DOMAIN l = Fields /\ l.ip \in Slots /\ l.dp = None /\ l.put = None /\ l.cwd \in Slots
      /\ l.fd.ip \in Slots \cup {None} /\ (l.fd # NoFile => l.fd.ip \in Slots) /\ l.old = None
      /\ proc[p].pc # "put2" /\ Held(proc[p], l.ip) /\ Creates(l) /\ Place(l) = "creating"
      /\ \A t \in Slots : /\ N(proc[p], t) = One(l.ip = t) + Rest(l, t)
                          /\ Held(proc[p], t) <=> t = l.ip
                          /\ One(l.ip = t) \in Int /\ Rest(l, t) \in Int
      /\ icache[l.ip].ref > 0
  BY <1>1, OrdinaryHere
<1>3. TypeAt(l.ip) = "DIR"
  BY <1>2 DEF IInv, Kinds, ParentPoints
<1>4. i \in Inums
  BY <1>1, <1>2, <1>3, DirEntry
<1>5. \/ there # None /\ Peek(p, m, Iget(Iunlock(icache, l.ip), i))
      \/ \E w : Panic(w)
  BY DEF CreateOld
<1>6. CASE \E w : Panic(w)
  BY <1>6, PanicKept DEF Panic
<1>7. CASE there # None /\ Peek(p, m, Iget(Iunlock(icache, l.ip), i))
  <2> HIDE DEF l, i
  <2>1. there \in Slots
    <3>1. \A s \in Slots : icache[s].ref \in Nat
      BY DEF IInv, DiskTypes, Inodes
    <3> QED BY <1>7, <3>1, EntryFacts
  <2>2. there = Entry(icache, i)
    OBVIOUS
  <2> HIDE DEF there
  <2>3. Alike(f, l, {"pc", "ip"}) /\ f.pc = "exists" /\ f.ip = there
    BY <1>2 DEF Alike, Fields
  <2> HIDE DEF f
  <2>4. /\ f.dp = None /\ f.old = None /\ f.cwd = l.cwd /\ f.fd = l.fd /\ f.call = l.call /\ f.put = None
        /\ DOMAIN f = Fields
    BY <1>2, <2>3 DEF Alike, Fields
  <2>5. Place(f) = "exists" /\ ~Waits(f) /\ Aim(f) = "exists" /\ Main(f) = there
    BY <2>3 DEF Place, Waits, Aim, Putting, WalkPoints, Main, IpPoints
  <2>6. Shape(f) /\ f.pc \in LockPoints /\ f.pc \notin Putting \cup {"lock", "install"}
    BY <1>2, <2>1, <2>3, <2>4, <2>5 DEF Shape, CallFits, Pointed, Creates, CodePoints, LockPoints, WalkPoints, FdPoints,
                                        IpPoints, FoundPoints, ParentPoints, Slots, None, Putting
  <2>7. g = Lock(f, Main(f))
    BY <2>5
  <2>8. /\ Shape(g) /\ Apart(g) /\ Place(g) = "exists" /\ g.pc = "lock"
        /\ \A t : (Held(g, t) <=> f.pc \in {"newinode", "victim"} /\ t = f.dp) /\ N(g, t) = N(f, t)
    BY <2>3, <2>6, <2>7, LockShape
  <2> HIDE DEF g
  <2>9. /\ Shape(m) /\ Apart(m) /\ Place(m) = "exists" /\ m.pc = "put"
        /\ \A t \in Slots : (Held(m, t) <=> Held(g, t)) /\ N(m, t) = N(g, t) + One(l.ip = t)
    BY <1>2, <2>8, PutShape DEF Putting
  <2>10. Peek(p, m, Iget(Iunlock(icache, l.ip), i))
    BY <1>7
  <2> HIDE DEF m
  <2>11. Control(m) /\ Plain(m) /\ m.pc # "put2"
    BY <2>9 DEF Control, Plain, ParentPoints
  <2>12. \A t \in Slots : N(m, t) = N(proc[p], t) + One(there = t) /\ (Held(m, t) <=> Held(proc[p], t) /\ t # l.ip)
    <3> TAKE t \in Slots
    <3>1. One(None = t) = 0
      BY DEF One, Slots, None
    <3>2. \A b : One(b) \in Int
      BY DEF One
    <3>3. N(f, t) = One(there = t) + Rest(l, t)
      BY <1>2, <2>3, <2>4, <3>1, <3>2 DEF N, Rest
    <3> QED BY <1>2, <2>3, <2>8, <2>9, <3>2, <3>3
  <2> DEFINE d == Iunlock(icache, l.ip)
  <2>13. d = (IF l.ip = None THEN icache ELSE Iunlock(icache, l.ip)) /\ Peek(p, m, Iget(d, i)) /\ l.ip # None
    BY <1>2, <2>10 DEF Slots, None
  <2> HIDE DEF d
  <2> QED BY <1>2, <1>4, <1>7, <2>2, <2>11, <2>12, <2>13, PeekGet
<1> QED BY <1>5, <1>6, <1>7

LEMMA UnlinkingKept ==
  ASSUME IInv, NEW p \in Procs, Unlinking(p)
  PROVE  IInv'
<1> DEFINE l == proc[p]
           i == data[icache[l.ip].inum][l.name]
           there == Entry(icache, i)
           f == [l EXCEPT !.pc = "victim", !.dp = l.ip, !.ip = there]
           m == Lock(f, there)
<1>1. l.pc = "unlinking" /\ l.pc \in Ordinary
  BY DEF Unlinking, At, Ordinary, IpPoints, FoundPoints, ParentPoints
<1>2. /\ DOMAIN l = Fields /\ l.ip \in Slots /\ l.dp = None /\ l.put = None /\ l.cwd \in Slots
      /\ l.fd.ip \in Slots \cup {None} /\ (l.fd # NoFile => l.fd.ip \in Slots) /\ l.old = None
      /\ proc[p].pc # "put2" /\ Held(proc[p], l.ip) /\ Place(l) = "unlinking"
      /\ \A t \in Slots : /\ N(proc[p], t) = One(l.ip = t) + Rest(l, t)
                          /\ Held(proc[p], t) <=> t = l.ip
                          /\ One(l.ip = t) \in Int /\ Rest(l, t) \in Int
      /\ icache[l.ip].ref > 0
  BY <1>1, OrdinaryHere
<1>3. TypeAt(l.ip) = "DIR"
  BY <1>2 DEF IInv, Kinds, ParentPoints
<1>4. \/ Peek(p, Put(Idle(l), l.ip), Iunlock(icache, l.ip))
      \/ l.name \in DOMAIN data[icache[l.ip].inum] /\ there # None /\ Peek(p, m, Iget(icache, i))
      \/ \E w : Panic(w)
  BY DEF Unlinking
<1>5. CASE \E w : Panic(w)
  BY <1>5, PanicKept DEF Panic
<1>6. CASE Peek(p, Put(Idle(l), l.ip), Iunlock(icache, l.ip))
  BY <1>1, <1>2, <1>6, GiveUp
<1>7. CASE l.name \in DOMAIN data[icache[l.ip].inum] /\ there # None /\ Peek(p, m, Iget(icache, i))
  <2>0. i \in Inums
    BY <1>2, <1>3, <1>7, DirEntry
  <2> HIDE DEF l, i
  <2>1. there \in Slots
    <3>1. \A s \in Slots : icache[s].ref \in Nat
      BY DEF IInv, DiskTypes, Inodes
    <3> QED BY <1>7, <3>1, EntryFacts
  <2>2. there = Entry(icache, i)
    OBVIOUS
  <2> HIDE DEF there
  <2>3. Alike(f, l, {"pc", "ip", "dp"}) /\ f.pc = "victim" /\ f.ip = there /\ f.dp = l.ip
    BY <1>2 DEF Alike, Fields
  <2> HIDE DEF f
  <2>4. /\ f.old = None /\ f.cwd = l.cwd /\ f.fd = l.fd /\ f.call = l.call /\ f.put = None
        /\ DOMAIN f = Fields
    BY <1>2, <2>3 DEF Alike, Fields
  <2>5. Place(f) = "victim" /\ ~Waits(f) /\ Aim(f) = "victim" /\ Main(f) = there
    BY <2>3 DEF Place, Waits, Aim, Putting, WalkPoints, Main, IpPoints
  <2>6. Shape(f) /\ f.pc \in LockPoints /\ f.pc \notin Putting \cup {"lock", "install"}
    BY <1>2, <2>1, <2>3, <2>4, <2>5 DEF Shape, CallFits, Pointed, CodePoints, LockPoints, WalkPoints, FdPoints,
                                        IpPoints, FoundPoints, ParentPoints, Slots, None, Putting
  <2>7. m = Lock(f, Main(f)) /\ Peek(p, m, Iget(icache, i))
    BY <1>7, <2>5
  <2>8. /\ Shape(m) /\ Apart(m) /\ Place(m) = "victim" /\ m.pc = "lock"
        /\ \A t : (Held(m, t) <=> f.pc \in {"newinode", "victim"} /\ t = f.dp) /\ N(m, t) = N(f, t)
    BY <2>3, <2>6, <2>7, LockShape
  <2> HIDE DEF m
  <2>11. Control(m) /\ Plain(m) /\ m.pc # "put2"
    BY <2>8 DEF Control, Plain, ParentPoints
  <2>12. \A t \in Slots : N(m, t) = N(proc[p], t) + One(there = t) /\ (Held(m, t) <=> Held(proc[p], t) /\ t # None)
    <3> TAKE t \in Slots
    <3>1. One(None = t) = 0 /\ t # None
      BY DEF One, Slots, None
    <3>2. \A b : One(b) \in Int
      BY DEF One
    <3>3. N(f, t) = One(there = t) + One(l.ip = t) + Rest(l, t)
      BY <1>2, <2>3, <2>4, <3>1, <3>2 DEF N, Rest
    <3> QED BY <1>2, <2>3, <2>8, <3>1, <3>2, <3>3
  <2>13. \A t \in Slots : /\ N(m, t) = N(proc[p], t) + One(Entry(icache, i) = t)
                          /\ Held(m, t) <=> Held(proc[p], t) /\ t # None
    BY <2>2, <2>12
  <2>14. Peek(p, m, Iget(icache, i)) /\ Entry(icache, i) # None /\ proc[p].pc # "put2"
    BY <1>2, <1>7, <2>2, <2>7
  <2> QED BY <2>0, <2>11, <2>13, <2>14, PeekGet
<1> QED BY <1>4, <1>5, <1>6, <1>7

\* The name is there already: dirlink() looks it up and puts what it has found.
LinkThere(p) ==
    /\ At(p, "linking")
    /\ LET l == proc[p]
           i == data[icache[l.ip].inum][l.name]
       IN /\ l.name \in DOMAIN data[icache[l.ip].inum] /\ Entry(icache, i) # None
          /\ Peek(p, Put([l EXCEPT !.pc = "notlinked"], Entry(icache, i)), Iget(icache, i))

LEMMA LinkThereKept ==
  ASSUME IInv, NEW p \in Procs, LinkThere(p)
  PROVE  IInv'
<1> DEFINE l == proc[p]
           i == data[icache[l.ip].inum][l.name]
           there == Entry(icache, i)
           f == [l EXCEPT !.pc = "notlinked"]
           m == Put(f, there)
<1>1. /\ l.pc = "linking" /\ l.pc \in Ordinary /\ l.name \in DOMAIN data[icache[l.ip].inum]
      /\ there # None /\ Peek(p, m, Iget(icache, i))
  BY DEF LinkThere, At, Ordinary, IpPoints, FoundPoints, ParentPoints
<1>2. /\ DOMAIN l = Fields /\ l.ip \in Slots /\ l.dp = None /\ l.put = None /\ l.cwd \in Slots
      /\ l.fd.ip \in Slots \cup {None} /\ (l.fd # NoFile => l.fd.ip \in Slots) /\ l.old \in Slots
      /\ proc[p].pc # "put2" /\ Place(l) = "linking"
      /\ \A t \in Slots : /\ N(proc[p], t) = One(l.ip = t) + Rest(l, t)
                          /\ Held(proc[p], t) <=> t = l.ip
                          /\ One(l.ip = t) \in Int /\ Rest(l, t) \in Int
      /\ icache[l.ip].ref > 0
  BY <1>1, OrdinaryHere
<1>3. TypeAt(l.ip) = "DIR"
  BY <1>2 DEF IInv, Kinds, ParentPoints
<1>4. i \in Inums
  BY <1>1, <1>2, <1>3, DirEntry
<1> HIDE DEF l, i
<1>5. there \in Slots
  <2>1. \A s \in Slots : icache[s].ref \in Nat
    BY DEF IInv, DiskTypes, Inodes
  <2> QED BY <1>1, <2>1, EntryFacts
<1>6. there = Entry(icache, i)
  OBVIOUS
<1> HIDE DEF there
<1>7. Alike(f, l, {"pc"}) /\ f.pc = "notlinked"
  BY <1>2 DEF Alike, Fields
<1> HIDE DEF f
<1>8. /\ f.ip = l.ip /\ f.dp = None /\ f.old = l.old /\ f.cwd = l.cwd /\ f.fd = l.fd /\ f.put = None
      /\ DOMAIN f = Fields
  BY <1>2, <1>7 DEF Alike, Fields
<1>9. Place(f) = "notlinked" /\ ~Waits(f) /\ Aim(f) = "notlinked" /\ Main(f) = l.ip
  BY <1>7, <1>8 DEF Place, Waits, Aim, Putting, WalkPoints, Main, IpPoints
<1>10. Shape(f) /\ f.pc \notin Putting \cup {"install"}
  BY <1>2, <1>7, <1>8, <1>9 DEF Shape, CallFits, Pointed, CodePoints, LockPoints, WalkPoints, FdPoints,
                                IpPoints, FoundPoints, ParentPoints, Slots, None, Putting
<1>11. Apart(f) /\ \A t \in Slots : (Held(f, t) <=> t = l.ip) /\ N(f, t) = One(l.ip = t) + Rest(l, t)
  <2>1. \A t \in Slots : One(None = t) = 0
    BY DEF One, Slots, None
  <2>2. \A b : One(b) \in Int
    BY DEF One
  <2>3. \A t \in Slots : N(f, t) = One(l.ip = t) + Rest(l, t)
    BY <1>8, <2>1, <2>2 DEF N, Rest
  <2> QED BY <1>7, <1>9, <2>3 DEF Apart, Held, LockPoints, IpPoints
<1>12. /\ Shape(m) /\ (Apart(m) <=> Apart(f)) /\ Place(m) = "notlinked" /\ m.pc = "put"
       /\ \A t \in Slots : (Held(m, t) <=> Held(f, t)) /\ N(m, t) = N(f, t) + One(there = t)
  BY <1>5, <1>9, <1>10, PutShape
<1> HIDE DEF m
<1>13. Control(m) /\ Plain(m) /\ m.pc # "put2"
  BY <1>11, <1>12 DEF Control, Plain, ParentPoints
<1>14. \A t \in Slots : N(m, t) = N(proc[p], t) + One(there = t) /\ (Held(m, t) <=> Held(proc[p], t) /\ t # None)
  BY <1>2, <1>11, <1>12 DEF Slots, None
<1> QED BY <1>1, <1>2, <1>4, <1>6, <1>13, <1>14, PeekGet

LEMMA NotLinkedKept ==
  ASSUME IInv, NEW p \in Procs, NotLinked(p)
  PROVE  IInv'
<1> DEFINE l == proc[p]
           f == [l EXCEPT !.pc = "linkbad", !.ip = None]
           g == Lock(f, l.old)
           m == Put(g, l.ip)
<1>1. l.pc = "notlinked" /\ l.pc \in Ordinary /\ Peek(p, m, Iunlock(icache, l.ip))
  BY DEF NotLinked, At, Ordinary, IpPoints
<1>2. /\ DOMAIN l = Fields /\ l.ip \in Slots /\ l.dp = None /\ l.put = None /\ l.cwd \in Slots
      /\ l.fd.ip \in Slots \cup {None} /\ (l.fd # NoFile => l.fd.ip \in Slots) /\ l.old \in Slots
      /\ proc[p].pc # "put2" /\ Held(proc[p], l.ip)
      /\ \A t \in Slots : /\ N(proc[p], t) = One(l.ip = t) + Rest(l, t)
                          /\ Held(proc[p], t) <=> t = l.ip
                          /\ One(l.ip = t) \in Int /\ Rest(l, t) \in Int
  BY <1>1, OrdinaryHere
<1> HIDE DEF l
<1>3. Alike(f, l, {"pc", "ip"}) /\ f.pc = "linkbad" /\ f.ip = None
  BY <1>2 DEF Alike, Fields
<1> HIDE DEF f
<1>4. /\ f.dp = None /\ f.old = l.old /\ f.cwd = l.cwd /\ f.fd = l.fd /\ f.put = None /\ DOMAIN f = Fields
  BY <1>2, <1>3 DEF Alike, Fields
<1>5. Place(f) = "linkbad" /\ ~Waits(f) /\ Aim(f) = "linkbad" /\ Main(f) = l.old
  BY <1>3, <1>4 DEF Place, Waits, Aim, Putting, WalkPoints, Main, IpPoints, FoundPoints, ParentPoints
<1>6. Shape(f) /\ f.pc \in LockPoints /\ f.pc \notin Putting \cup {"lock", "install"}
  BY <1>2, <1>3, <1>4, <1>5 DEF Shape, CallFits, Pointed, CodePoints, LockPoints, WalkPoints, FdPoints,
                                IpPoints, FoundPoints, ParentPoints, Slots, None, Putting
<1>7. g = Lock(f, Main(f))
  BY <1>5
<1>8. /\ Shape(g) /\ Apart(g) /\ Place(g) = "linkbad" /\ g.pc = "lock"
      /\ \A t : (Held(g, t) <=> f.pc \in {"newinode", "victim"} /\ t = f.dp) /\ N(g, t) = N(f, t)
  BY <1>3, <1>6, <1>7, LockShape
<1> HIDE DEF g
<1>9. /\ Shape(m) /\ Apart(m) /\ Place(m) = "linkbad" /\ m.pc = "put"
      /\ \A t \in Slots : (Held(m, t) <=> Held(g, t)) /\ N(m, t) = N(g, t) + One(l.ip = t)
  BY <1>2, <1>8, PutShape DEF Putting
<1> HIDE DEF m
<1>10. Control(m) /\ Plain(m) /\ KnowsNow(m) /\ m.pc # "put2"
  BY <1>9, PlainKnows DEF Control, Plain, ParentPoints
<1>11. \A t \in Slots : N(m, t) = N(proc[p], t) /\ (Held(m, t) <=> Held(proc[p], t) /\ t # l.ip)
  <2> TAKE t \in Slots
  <2>1. One(None = t) = 0
    BY DEF One, Slots, None
  <2>2. \A b : One(b) \in Int
    BY DEF One
  <2>3. N(f, t) = Rest(l, t)
    BY <1>3, <1>4, <2>1, <2>2 DEF N, Rest
  <2> QED BY <1>2, <1>3, <1>8, <1>9, <2>3
<1> QED BY <1>1, <1>2, <1>10, <1>11, PeekUnlock

\* What there is of a process at a place without an inode in ip.
LEMMA NoIpHere ==
  ASSUME IInv, NEW p \in Procs, NEW l, l = proc[p], l.pc \in {"idle", "linked", "unlinkbad", "linkbad", "write", "bmap"}
  PROVE  /\ DOMAIN l = Fields /\ l.ip = None /\ l.put = None /\ l.cwd \in Slots
         /\ l.fd.ip \in Slots \cup {None} /\ (l.fd # NoFile => l.fd.ip \in Slots)
         /\ (l.pc = "unlinkbad" => l.dp \in Slots) /\ (l.pc # "unlinkbad" => l.dp = None)
         /\ (l.pc \in {"linked", "linkbad"} => l.old \in Slots) /\ (l.pc \notin {"linked", "linkbad"} => l.old = None)
         /\ (l.pc \in {"write", "bmap"} => l.fd.ip \in Slots)
         /\ Place(l) = l.pc /\ proc[p].pc # "put2"
         /\ \A t \in Slots : /\ N(proc[p], t) = One(l.dp = t) + Rest(l, t) /\ One(l.dp = t) \in Int /\ Rest(l, t) \in Int
                             /\ Held(proc[p], t) <=> \/ l.pc = "unlinkbad" /\ t = l.dp
                                                     \/ l.pc = "linkbad" /\ t = l.old
                                                     \/ l.pc \in {"write", "bmap"} /\ t = l.fd.ip
<1>1. Control(l)
  BY DEF IInv, Controls
<1>2. \A t \in Slots : One(l.dp = t) \in Int /\ Rest(l, t) \in Int
  BY DEF One, Rest
<1> QED BY <1>1, <1>2, NoIpThere

LEMMA LinkedKept ==
  ASSUME IInv, NEW p \in Procs, Linked(p)
  PROVE  IInv'
<1> DEFINE l == proc[p]
           m == Put(Idle(l), l.old)
<1>1. l.pc = "linked" /\ Peek(p, m, icache)
  BY DEF Linked, At
<1>2. /\ DOMAIN l = Fields /\ l.ip = None /\ l.put = None /\ l.cwd \in Slots
      /\ l.fd.ip \in Slots \cup {None} /\ (l.fd # NoFile => l.fd.ip \in Slots) /\ l.dp = None /\ l.old \in Slots
      /\ proc[p].pc # "put2"
      /\ \A t \in Slots : N(proc[p], t) = One(l.dp = t) + Rest(l, t) /\ ~Held(proc[p], t)
  BY <1>1, NoIpHere
<1> HIDE DEF l
<1>3. /\ Control(m) /\ Plain(m) /\ m.pc = "put"
      /\ \A t \in Slots : ~Held(m, t) /\ N(m, t) = One(l.old = t) + One(l.cwd = t) + One(l.fd.ip = t)
  BY <1>2, LeaveShape
<1> HIDE DEF m
<1>4. \A t \in Slots : N(m, t) = N(proc[p], t) /\ (Held(m, t) <=> Held(proc[p], t))
  <2> TAKE t \in Slots
  <2>1. One(l.dp = t) = 0
    BY <1>2 DEF One, Slots, None
  <2>2. \A b : One(b) \in Int
    BY DEF One
  <2> QED BY <1>2, <1>3, <2>1, <2>2 DEF Rest
<1>5. KnowsNow(m) /\ m.pc # "put2"
  BY <1>3, PlainKnows
<1> QED BY <1>1, <1>2, <1>3, <1>4, <1>5, PeekSame

LEMMA UnlinkBadKept ==
  ASSUME IInv, NEW p \in Procs, UnlinkBad(p)
  PROVE  IInv'
<1> DEFINE l == proc[p]
           m == Put(Idle(l), l.dp)
<1>1. l.pc = "unlinkbad" /\ Peek(p, m, Iunlock(icache, l.dp))
  BY DEF UnlinkBad, At
<1>2. /\ DOMAIN l = Fields /\ l.ip = None /\ l.put = None /\ l.cwd \in Slots
      /\ l.fd.ip \in Slots \cup {None} /\ (l.fd # NoFile => l.fd.ip \in Slots) /\ l.dp \in Slots /\ l.old = None
      /\ proc[p].pc # "put2"
      /\ \A t \in Slots : N(proc[p], t) = One(l.dp = t) + Rest(l, t) /\ (Held(proc[p], t) <=> t = l.dp)
  BY <1>1, NoIpHere
<1> HIDE DEF l
<1>3. /\ Control(m) /\ Plain(m) /\ m.pc = "put"
      /\ \A t \in Slots : ~Held(m, t) /\ N(m, t) = One(l.dp = t) + One(l.cwd = t) + One(l.fd.ip = t)
  BY <1>2, LeaveShape
<1> HIDE DEF m
<1>4. \A t \in Slots : N(m, t) = N(proc[p], t) /\ (Held(m, t) <=> Held(proc[p], t) /\ t # l.dp)
  <2> TAKE t \in Slots
  <2>1. One(l.old = t) = 0
    BY <1>2 DEF One, Slots, None
  <2>2. \A b : One(b) \in Int
    BY DEF One
  <2> QED BY <1>2, <1>3, <2>1, <2>2 DEF Rest
<1>5. KnowsNow(m) /\ m.pc # "put2" /\ Held(proc[p], l.dp)
  BY <1>2, <1>3, PlainKnows
<1> QED BY <1>1, <1>2, <1>3, <1>4, <1>5, PeekUnlock

-----------------------------------------------------------------------------
(* Steps that change the one inode that is locked.                         *)

LEMMA UpdatedOne ==
  ASSUME NEW c, NEW s, NEW S, S = {s}
  PROVE  /\ DOMAIN Updated(c, S) = Inums
         /\ \A i \in Inums : Updated(c, S)[i] = IF c[s].inum = i THEN Dinode(c[s]) ELSE disk[i]
<1>1. ASSUME NEW i \in Inums PROVE Updated(c, S)[i] = IF c[s].inum = i THEN Dinode(c[s]) ELSE disk[i]
  <2>1. CASE c[s].inum = i
    <3>1. \E u \in S : c[u].inum = i
      BY <2>1
    <3>2. (CHOOSE u \in S : c[u].inum = i) \in S
      BY <3>1
    <3>3. Updated(c, S)[i] = Dinode(c[CHOOSE u \in S : c[u].inum = i])
      BY <3>1 DEF Updated
    <3> QED BY <2>1, <3>2, <3>3
  <2>2. CASE c[s].inum # i
    BY <2>2 DEF Updated
  <2> QED BY <2>1, <2>2
<1> QED BY <1>1 DEF Updated

LEMMA GrownFacts ==
  ASSUME NEW c \in [Slots -> Inodes], NEW s \in Slots, used \subseteq Blocks, c[s].addrs = {} => used # Blocks
  PROVE  /\ Grown(c, s) \in [Slots -> Inodes] /\ \A t \in Slots \ {s} : Grown(c, s)[t] = c[t]
         /\ Grown(c, s)[s].inum = c[s].inum /\ Grown(c, s)[s].ref = c[s].ref /\ Grown(c, s)[s].valid = c[s].valid
         /\ Grown(c, s)[s].lock = c[s].lock /\ Grown(c, s)[s].type = c[s].type /\ Grown(c, s)[s].perm = c[s].perm
         /\ Grown(c, s)[s].nlink = c[s].nlink /\ Grown(c, s)[s].addrs \subseteq Blocks
<1>1. c[s] \in Inodes
  OBVIOUS
<1>2. CASE c[s].addrs # {}
  BY <1>1, <1>2 DEF Grown, Inodes
<1>3. CASE c[s].addrs = {}
  <2> DEFINE b == Min(Blocks \ used)
  <2>1. b \in Blocks
    <3>1. Blocks \ used \in SUBSET Nat
      BY DEF Blocks
    <3>2. Blocks \ used # {}
      BY <1>3
    <3> QED BY <3>1, <3>2, MinIsLeast
  <2>2. Grown(c, s) = [c EXCEPT ![s].addrs = {b}]
    BY <1>3 DEF Grown
  <2> HIDE DEF b
  <2>3. Grown(c, s) \in [Slots -> Inodes]
    BY <1>1, <2>1, <2>2 DEF Inodes
  <2> QED BY <1>1, <2>1, <2>2, <2>3 DEF Inodes
<1> QED BY <1>2, <1>3

\* What a step does that edits the inode in s and unlocks it.
EditsOne(p, m, s) ==
    /\ proc' = [proc EXCEPT ![p] = m] /\ setup' = setup /\ icache' \in [Slots -> Inodes]
    /\ \A t \in Slots \ {s} : icache'[t] = icache[t]
    /\ icache'[s].inum = icache[s].inum /\ icache'[s].ref = icache[s].ref /\ icache'[s].valid = icache[s].valid
    /\ icache'[s].type = icache[s].type /\ icache'[s].lock = None
    /\ disk' \in [Inums -> Dinodes] /\ Current(icache'[s], disk'[icache[s].inum])
    /\ \A i \in Inums : i # icache[s].inum => disk'[i] = disk[i]
    /\ used' \subseteq Blocks /\ DOMAIN data' = Inums
    /\ \A i \in Inums : data'[i] # data[i] => disk[i].type # "free" /\ (disk[i].type = "DIR" => IsDirectory(data'[i]))

LEMMA EditOneOf ==
  ASSUME IInv, NEW p \in Procs, NEW m, NEW s \in Slots, EditsOne(p, m, s), Control(m), Plain(m), m.pc # "put2",
         proc[p].pc # "put2", Held(proc[p], s),
         \A t \in Slots : (Held(m, t) <=> Held(proc[p], t) /\ t # s) /\ N(m, t) = N(proc[p], t)
  PROVE  IInv'
<1>1. \A t \in Slots : icache[t].ref \in Nat /\ N(proc[p], t) \in Nat /\ (Held(proc[p], t) <=> icache[t].lock = p)
  BY NIsNat DEF IInv, DiskTypes, Inodes, Locks
<1>2. \A t \in Slots : Held(proc[p], t) => /\ icache[t].ref > 0 /\ icache[t].inum \in Inums /\ icache[t].type # "free"
                                          /\ Current(icache[t], disk[icache[t].inum])
  BY HeldCurrent
<1>3. GoesOn(p, m)
  <2>1. ASSUME NEW t \in Slots
        PROVE  /\ icache'[t].ref + N(proc[p], t) = icache[t].ref + N(m, t)
               /\ Held(m, t) => Held(proc[p], t)
               /\ icache'[t].lock = IF icache[t].lock = p /\ ~Held(m, t) THEN None ELSE icache[t].lock
               /\ ~(icache[t].ref = 0 /\ icache'[t].ref > 0)
    <3>1. CASE t = s
      BY <1>1, <3>1 DEF EditsOne
    <3>2. CASE t # s
      BY <1>1, <3>2 DEF EditsOne
    <3> QED BY <3>1, <3>2
  <2> QED BY <2>1 DEF GoesOn, EditsOne
<1>4. \A i \in Inums : disk'[i].type = disk[i].type
  BY <1>2 DEF EditsOne, Current
<1>5. Contents'
  <2> SUFFICES ASSUME NEW i \in Inums
               PROVE  /\ disk'[i].type = "free" => data'[i] = NoData
                      /\ disk'[i].type = "DIR" => IsDirectory(data'[i])
    BY DEF Contents
  <2> QED BY <1>4 DEF EditsOne, IInv, Contents
<1>6. Edits(p)
  <2>1. ASSUME NEW t \in Slots
        PROVE  /\ icache[t].ref > 0 /\ ~Held(proc[p], t) => Same(icache[t], icache'[t])
               /\ Held(proc[p], t) => /\ icache'[t].inum = icache[t].inum /\ icache'[t].valid = icache[t].valid
                                      /\ icache'[t].type # "free"
                                      /\ Current(icache'[t], disk'[icache[t].inum])
    <3>1. CASE t = s
      BY <1>2, <3>1 DEF EditsOne
    <3>2. CASE t # s
      <4>1. icache'[t] = icache[t] /\ Same(icache[t], icache'[t])
        BY <3>2 DEF EditsOne, Same
      <4>2. Held(proc[p], t) => icache[t].inum # icache[s].inum
        BY <1>2, <3>2 DEF IInv, Cached, OneEntryPerInode
      <4>3. Held(proc[p], t) => disk'[icache[t].inum] = disk[icache[t].inum]
        BY <1>2, <4>2 DEF EditsOne
      <4> QED BY <1>2, <4>1, <4>3
    <3> QED BY <3>1, <3>2
  <2>2. ASSUME NEW i \in Inums, \A t \in Slots : Held(proc[p], t) => icache[t].inum # i
        PROVE  disk'[i] = disk[i]
    BY <2>2 DEF EditsOne
  <2> QED BY <1>4, <1>5, <2>1, <2>2 DEF Edits, EditsOne
<1> QED BY <1>3, <1>6, PlainKnows, StepKept

LEMMA EditOne ==
  ASSUME IInv, NEW p \in Procs, NEW m, NEW s \in Slots, EditsOne(p, m, s), Control(m), Plain(m), m.pc # "put2",
         proc[p].pc # "put2",
         \A t \in Slots : (Held(proc[p], t) <=> t = s) /\ ~Held(m, t) /\ N(m, t) = N(proc[p], t)
  PROVE  IInv'
<1>1. \A t \in Slots : (Held(m, t) <=> Held(proc[p], t) /\ t # s) /\ N(m, t) = N(proc[p], t)
  OBVIOUS
<1> QED BY <1>1, EditOneOf

\* A step that edits an entry and writes all of it to the disk.
WritesOne(p, m, s, c) ==
    /\ Step(p, m, Iunlock(c, s)) /\ disk' = Updated(c, {s}) /\ c \in [Slots -> Inodes]
    /\ \A t \in Slots \ {s} : c[t] = icache[t]
    /\ c[s].inum = icache[s].inum /\ c[s].ref = icache[s].ref /\ c[s].valid = icache[s].valid
    /\ c[s].type = icache[s].type

LEMMA WriteOne ==
  ASSUME IInv, NEW p \in Procs, NEW m, NEW s \in Slots, NEW c, WritesOne(p, m, s, c), Held(proc[p], s),
         proc[p].pc # "put2", used' \subseteq Blocks, DOMAIN data' = Inums,
         \A i \in Inums : data'[i] # data[i] => disk[i].type # "free" /\ (disk[i].type = "DIR" => IsDirectory(data'[i]))
  PROVE  EditsOne(p, m, s)
<1>1. /\ icache' = Iunlock(c, s) /\ proc' = [proc EXCEPT ![p] = m] /\ setup' = setup
      /\ c \in [Slots -> Inodes] /\ disk' = Updated(c, {s})
  BY DEF WritesOne, Step
<1>2. /\ icache' \in [Slots -> Inodes] /\ icache'[s].lock = None
      /\ \A t \in Slots : (t # s => icache'[t] = c[t]) /\ Same(c[t], icache'[t]) /\ icache'[t].ref = c[t].ref
  BY <1>1, UnlockFacts
<1>3. icache[s].inum \in Inums
  BY HeldCurrent
<1>4. disk' \in [Inums -> Dinodes] /\ disk'[icache[s].inum] = Dinode(c[s])
      /\ \A i \in Inums : i # icache[s].inum => disk'[i] = disk[i]
  <2>1. /\ DOMAIN disk' = Inums
        /\ \A i \in Inums : disk'[i] = IF c[s].inum = i THEN Dinode(c[s]) ELSE disk[i]
    <3> DEFINE S == {s}
    <3>1. disk' = Updated(c, S)
      BY <1>1
    <3>2. S = {s}
      OBVIOUS
    <3> HIDE DEF S
    <3> QED BY <3>1, <3>2, UpdatedOne
  <2>2. Dinode(c[s]) \in Dinodes
    <3>1. c[s] \in Inodes
      BY <1>1
    <3> QED BY <3>1 DEF Inodes, Dinodes, Dinode
  <2>3. disk \in [Inums -> Dinodes]
    BY DEF IInv, DiskTypes
  <2>4. disk' = [i \in Inums |-> disk'[i]]
    BY <1>1 DEF Updated
  <2>5. \A i \in Inums : disk'[i] \in Dinodes
    BY <2>1, <2>2, <2>3
  <2> QED BY <1>3, <2>1, <2>4, <2>5 DEF WritesOne
<1>5. Current(icache'[s], disk'[icache[s].inum])
  BY <1>2, <1>4 DEF Current, Dinode, Same
<1> QED BY <1>1, <1>2, <1>4, <1>5 DEF EditsOne, WritesOne, Same

\* nlink changes.
LEMMA RelinkEdits ==
  ASSUME IInv, NEW p \in Procs, NEW s \in Slots, NEW delta \in Int, NEW m, Relink(p, s, delta, m),
         Held(proc[p], s), proc[p].pc # "put2"
  PROVE  EditsOne(p, m, s)
<1> DEFINE c == [icache EXCEPT ![s].nlink = @ + delta]
<1>1. Step(p, m, Iunlock(c, s)) /\ disk' = Updated(c, {s}) /\ data' = data /\ used' = used
  BY DEF Relink
<1>2. icache \in [Slots -> Inodes] /\ icache[s] \in Inodes /\ used \subseteq Blocks /\ DOMAIN data = Inums
  BY DEF IInv, DiskTypes
<1>3. /\ c \in [Slots -> Inodes] /\ \A t \in Slots \ {s} : c[t] = icache[t]
      /\ c[s].inum = icache[s].inum /\ c[s].ref = icache[s].ref /\ c[s].valid = icache[s].valid
      /\ c[s].type = icache[s].type
  BY <1>2 DEF Inodes
<1> HIDE DEF c
<1>4. WritesOne(p, m, s, c)
  BY <1>1, <1>3 DEF WritesOne
<1> QED BY <1>1, <1>2, <1>4, WriteOne

LEMMA UnlinkedKept ==
  ASSUME IInv, NEW p \in Procs, Unlinked(p)
  PROVE  IInv'
<1> DEFINE l == proc[p]
           m == Put(Idle(l), l.ip)
<1>1. l.pc = "unlinked" /\ l.pc \in Ordinary /\ Relink(p, l.ip, -1, m)
  BY DEF Unlinked, At, Ordinary, IpPoints
<1>2. /\ DOMAIN l = Fields /\ l.ip \in Slots /\ l.put = None /\ l.cwd \in Slots
      /\ l.fd.ip \in Slots \cup {None} /\ (l.fd # NoFile => l.fd.ip \in Slots) /\ l.old = None
      /\ proc[p].pc # "put2" /\ Held(proc[p], l.ip)
      /\ \A t \in Slots : N(proc[p], t) = One(l.ip = t) + Rest(l, t) /\ (Held(proc[p], t) <=> t = l.ip)
  BY <1>1, OrdinaryHere
<1> HIDE DEF l
<1>3. /\ Control(m) /\ Plain(m) /\ m.pc = "put"
      /\ \A t \in Slots : ~Held(m, t) /\ N(m, t) = One(l.ip = t) + One(l.cwd = t) + One(l.fd.ip = t)
  BY <1>2, LeaveShape
<1> HIDE DEF m
<1>4. EditsOne(p, m, l.ip)
  BY <1>1, <1>2, RelinkEdits
<1>5. \A t \in Slots : (Held(proc[p], t) <=> t = l.ip) /\ ~Held(m, t) /\ N(m, t) = N(proc[p], t)
  <2> TAKE t \in Slots
  <2>1. One(l.old = t) = 0
    BY <1>2 DEF One, Slots, None
  <2>2. \A b : One(b) \in Int
    BY DEF One
  <2> QED BY <1>2, <1>3, <2>1, <2>2 DEF Rest
<1> QED BY <1>2, <1>3, <1>4, <1>5, EditOne

LEMMA LinkBadKept ==
  ASSUME IInv, NEW p \in Procs, LinkBad(p)
  PROVE  IInv'
<1> DEFINE l == proc[p]
           m == Put(Idle(l), l.old)
<1>1. l.pc = "linkbad" /\ Relink(p, l.old, -1, m)
  BY DEF LinkBad, At
<1>2. /\ DOMAIN l = Fields /\ l.ip = None /\ l.put = None /\ l.cwd \in Slots
      /\ l.fd.ip \in Slots \cup {None} /\ (l.fd # NoFile => l.fd.ip \in Slots) /\ l.dp = None /\ l.old \in Slots
      /\ proc[p].pc # "put2"
      /\ \A t \in Slots : N(proc[p], t) = One(l.dp = t) + Rest(l, t) /\ (Held(proc[p], t) <=> t = l.old)
  BY <1>1, NoIpHere
<1> HIDE DEF l
<1>3. /\ Control(m) /\ Plain(m) /\ m.pc = "put"
      /\ \A t \in Slots : ~Held(m, t) /\ N(m, t) = One(l.old = t) + One(l.cwd = t) + One(l.fd.ip = t)
  BY <1>2, LeaveShape
<1> HIDE DEF m
<1>4. EditsOne(p, m, l.old)
  BY <1>1, <1>2, RelinkEdits
<1>5. \A t \in Slots : (Held(proc[p], t) <=> t = l.old) /\ ~Held(m, t) /\ N(m, t) = N(proc[p], t)
  <2> TAKE t \in Slots
  <2>1. One(l.dp = t) = 0
    BY <1>2 DEF One, Slots, None
  <2>2. \A b : One(b) \in Int
    BY DEF One
  <2> QED BY <1>2, <1>3, <2>1, <2>2 DEF Rest
<1> QED BY <1>2, <1>3, <1>4, <1>5, EditOne

LEMMA LinkOldKept ==
  ASSUME IInv, NEW p \in Procs, LinkOld(p)
  PROVE  IInv'
<1> DEFINE l == proc[p]
           m == [l EXCEPT !.pc = "follow", !.target = l.call.new, !.old = l.ip, !.ip = None,
                          !.parent = TRUE, !.then = "linking"]
<1>1. l.pc = "linkold" /\ l.pc \in Ordinary
  BY DEF LinkOld, At, Ordinary, IpPoints, FoundPoints
<1>2. /\ DOMAIN l = Fields /\ l.ip \in Slots /\ l.dp = None /\ l.put = None /\ l.cwd \in Slots
      /\ l.fd.ip \in Slots \cup {None} /\ (l.fd # NoFile => l.fd.ip \in Slots) /\ l.old = None
      /\ proc[p].pc # "put2" /\ Held(proc[p], l.ip)
      /\ \A t \in Slots : N(proc[p], t) = One(l.ip = t) + Rest(l, t) /\ (Held(proc[p], t) <=> t = l.ip)
  BY <1>1, OrdinaryHere
<1>3. \/ Peek(p, Put(Idle(l), l.ip), Iunlock(icache, l.ip))
      \/ Relink(p, l.ip, 1, m)
  BY DEF LinkOld
<1>4. CASE Peek(p, Put(Idle(l), l.ip), Iunlock(icache, l.ip))
  BY <1>1, <1>2, <1>4, GiveUp
<1>5. CASE Relink(p, l.ip, 1, m)
  <2> HIDE DEF l
  <2>1. /\ Alike(m, l, {"pc", "target", "old", "ip", "parent", "then"}) /\ m.pc = "follow" /\ m.old = l.ip
        /\ m.ip = None /\ m.parent = TRUE /\ m.then = "linking"
    BY <1>2 DEF Alike, Fields
  <2> HIDE DEF m
  <2>2. m.dp = None /\ m.cwd = l.cwd /\ m.fd = l.fd /\ m.put = None /\ DOMAIN m = Fields
    BY <1>2, <2>1 DEF Alike, Fields
  <2>3. Walks(m)
    BY <1>2, <2>1, <2>2 DEF Walks, FoundPoints, ParentPoints, Slots, None
  <2>4. Shape(m) /\ Apart(m) /\ Place(m) = "follow" /\ \A t \in Slots : ~Held(m, t) /\ N(m, t) = Rest(m, t)
    BY <2>1, <2>3, FollowShape
  <2>5. Control(m) /\ Plain(m) /\ m.pc # "put2"
    BY <2>1, <2>4 DEF Control, Plain, ParentPoints
  <2>6. EditsOne(p, m, l.ip)
    BY <1>2, <1>5, RelinkEdits
  <2>7. \A t \in Slots : (Held(proc[p], t) <=> t = l.ip) /\ ~Held(m, t) /\ N(m, t) = N(proc[p], t)
    <3> TAKE t \in Slots
    <3>1. One(l.old = t) = 0
      BY <1>2 DEF One, Slots, None
    <3>2. \A b : One(b) \in Int
      BY DEF One
    <3> QED BY <1>2, <2>1, <2>2, <2>4, <3>1, <3>2 DEF Rest
  <2> QED BY <1>2, <2>5, <2>6, <2>7, EditOne
<1> QED BY <1>3, <1>4, <1>5

LEMMA ChmodKept ==
  ASSUME IInv, NEW p \in Procs, Chmod(p)
  PROVE  IInv'
<1> DEFINE l == proc[p]
           c == [icache EXCEPT ![l.ip].perm = l.call.mode]
           m == Put(Idle(l), l.ip)
<1>1. l.pc = "chmod" /\ l.pc \in Ordinary
  BY DEF Chmod, At, Ordinary, IpPoints, FoundPoints
<1>2. /\ DOMAIN l = Fields /\ l.ip \in Slots /\ l.put = None /\ l.cwd \in Slots
      /\ l.fd.ip \in Slots \cup {None} /\ (l.fd # NoFile => l.fd.ip \in Slots) /\ l.old = None
      /\ proc[p].pc # "put2" /\ Held(proc[p], l.ip) /\ l.call.mode \subseteq M_ALL
      /\ \A t \in Slots : N(proc[p], t) = One(l.ip = t) + Rest(l, t) /\ (Held(proc[p], t) <=> t = l.ip)
  BY <1>1, OrdinaryHere
<1>3. Step(p, m, Iunlock(c, l.ip)) /\ disk' = Updated(c, {l.ip}) /\ data' = data /\ used' = used
  BY DEF Chmod
<1> HIDE DEF l
<1>4. /\ Control(m) /\ Plain(m) /\ m.pc = "put"
      /\ \A t \in Slots : ~Held(m, t) /\ N(m, t) = One(l.ip = t) + One(l.cwd = t) + One(l.fd.ip = t)
  BY <1>2, LeaveShape
<1> HIDE DEF m
<1>5. icache \in [Slots -> Inodes] /\ icache[l.ip] \in Inodes /\ used \subseteq Blocks /\ DOMAIN data = Inums
  BY <1>2 DEF IInv, DiskTypes
<1>6. /\ c \in [Slots -> Inodes] /\ \A t \in Slots \ {l.ip} : c[t] = icache[t]
      /\ c[l.ip].inum = icache[l.ip].inum /\ c[l.ip].ref = icache[l.ip].ref
      /\ c[l.ip].valid = icache[l.ip].valid /\ c[l.ip].type = icache[l.ip].type
  BY <1>2, <1>5 DEF Inodes
<1> HIDE DEF c
<1>7. WritesOne(p, m, l.ip, c)
  BY <1>3, <1>6 DEF WritesOne
<1>8. EditsOne(p, m, l.ip)
  BY <1>2, <1>3, <1>5, <1>7, WriteOne
<1>9. \A t \in Slots : (Held(proc[p], t) <=> t = l.ip) /\ ~Held(m, t) /\ N(m, t) = N(proc[p], t)
  <2> TAKE t \in Slots
  <2>1. One(l.old = t) = 0
    BY <1>2 DEF One, Slots, None
  <2>2. \A b : One(b) \in Int
    BY DEF One
  <2> QED BY <1>2, <1>4, <2>1, <2>2 DEF Rest
<1> QED BY <1>2, <1>4, <1>8, <1>9, EditOne

LEMMA CreatedKept ==
  ASSUME IInv, NEW p \in Procs, Created(p)
  PROVE  IInv'
<1> DEFINE l == proc[p]
           c == Grown(icache, l.ip)
           m == Put(Idle(l), l.ip)
<1>1. l.pc = "created" /\ l.pc \in Ordinary
  BY DEF Created, At, Ordinary, IpPoints
<1>2. /\ DOMAIN l = Fields /\ l.ip \in Slots /\ l.put = None /\ l.cwd \in Slots
      /\ l.fd.ip \in Slots \cup {None} /\ (l.fd # NoFile => l.fd.ip \in Slots) /\ l.old = None
      /\ proc[p].pc # "put2" /\ Held(proc[p], l.ip) /\ Creates(l) /\ Place(l) = "created"
      /\ \A t \in Slots : N(proc[p], t) = One(l.ip = t) + Rest(l, t) /\ (Held(proc[p], t) <=> t = l.ip)
      /\ icache[l.ip].inum \in Inums
  BY <1>1, OrdinaryHere
<1>3. disk[icache[l.ip].inum].type = TypeOf(l.call)
  BY <1>2 DEF IInv, Kinds, TypeAt
<1>4. \/ l.call.fn = "open" /\ Peek(p, [l EXCEPT !.pc = "install"], icache)
      \/ Peek(p, m, Iunlock(icache, l.ip))
      \/ \E w : Panic(w)
      \/ /\ l.call.fn = "symlink" /\ ~Full(l.ip) /\ Step(p, m, Iunlock(c, l.ip)) /\ disk' = Updated(c, {l.ip})
         /\ data' = [data EXCEPT ![c[l.ip].inum] = l.call.target]
         /\ used' = used \cup c[l.ip].addrs
  BY <1>2 DEF Created, Creates
<1>5. CASE l.call.fn = "open" /\ Peek(p, [l EXCEPT !.pc = "install"], icache)
  BY <1>1, <1>2, <1>5, MoveKept DEF Creates
<1>6. CASE Peek(p, m, Iunlock(icache, l.ip))
  BY <1>1, <1>2, <1>6, GiveUp
<1>7. CASE \E w : Panic(w)
  BY <1>7, PanicKept DEF Panic
<1>8. CASE /\ l.call.fn = "symlink" /\ ~Full(l.ip) /\ Step(p, m, Iunlock(c, l.ip)) /\ disk' = Updated(c, {l.ip})
           /\ data' = [data EXCEPT ![c[l.ip].inum] = l.call.target]
           /\ used' = used \cup c[l.ip].addrs
  <2> HIDE DEF l
  <2>1. /\ Control(m) /\ Plain(m) /\ m.pc = "put"
        /\ \A t \in Slots : ~Held(m, t) /\ N(m, t) = One(l.ip = t) + One(l.cwd = t) + One(l.fd.ip = t)
    BY <1>2, LeaveShape
  <2> HIDE DEF m
  <2>2. icache \in [Slots -> Inodes] /\ used \subseteq Blocks /\ DOMAIN data = Inums
    BY DEF IInv, DiskTypes
  <2>3. /\ c \in [Slots -> Inodes] /\ \A t \in Slots \ {l.ip} : c[t] = icache[t]
        /\ c[l.ip].inum = icache[l.ip].inum /\ c[l.ip].ref = icache[l.ip].ref
        /\ c[l.ip].valid = icache[l.ip].valid /\ c[l.ip].type = icache[l.ip].type /\ c[l.ip].addrs \subseteq Blocks
    BY <1>2, <1>8, <2>2, GrownFacts DEF Full
  <2> HIDE DEF c
  <2>4. WritesOne(p, m, l.ip, c)
    BY <1>8, <2>3 DEF WritesOne
  <2>5. TypeOf(l.call) = "SYMLINK"
    BY <1>8 DEF TypeOf
  <2>6. DOMAIN data' = Inums /\ \A i \in Inums : data'[i] # data[i] => disk[i].type = "SYMLINK"
    BY <1>3, <1>8, <2>2, <2>3, <2>5
  <2>7. EditsOne(p, m, l.ip)
    BY <1>2, <1>8, <2>2, <2>3, <2>4, <2>6, WriteOne
  <2>8. \A t \in Slots : (Held(proc[p], t) <=> t = l.ip) /\ ~Held(m, t) /\ N(m, t) = N(proc[p], t)
    <3> TAKE t \in Slots
    <3>1. One(l.old = t) = 0
      BY <1>2 DEF One, Slots, None
    <3>2. \A b : One(b) \in Int
      BY DEF One
    <3> QED BY <1>2, <2>1, <3>1, <3>2 DEF Rest
  <2> QED BY <1>2, <2>1, <2>7, <2>8, EditOne
<1> QED BY <1>4, <1>5, <1>6, <1>7, <1>8

LEMMA InstallKept ==
  ASSUME IInv, NEW p \in Procs, Install(p)
  PROVE  IInv'
<1> DEFINE l == proc[p]
           omode == l.call.omode
           truncates == "TRUNC" \in omode /\ icache[l.ip].type = "FILE"
           c == IF truncates THEN [icache EXCEPT ![l.ip].addrs = {}] ELSE icache
           f == [ip |-> l.ip, readable |-> omode \cap {"WRONLY", "NOACCESS"} = {},
                 writable |-> omode \cap {"WRONLY", "RDWR"} # {} /\ "NOACCESS" \notin omode]
           g == [l EXCEPT !.fd = f]
           m == Idle(g)
<1>1. l.pc = "install" /\ l.pc \in Ordinary
  BY DEF Install, At, Ordinary, IpPoints, FoundPoints
<1>2. /\ DOMAIN l = Fields /\ l.ip \in Slots /\ l.put = None /\ l.cwd \in Slots
      /\ l.fd.ip \in Slots \cup {None} /\ (l.fd # NoFile => l.fd.ip \in Slots) /\ l.old = None
      /\ proc[p].pc # "put2" /\ Held(proc[p], l.ip)
      /\ \A t \in Slots : N(proc[p], t) = One(l.ip = t) + Rest(l, t) /\ (Held(proc[p], t) <=> t = l.ip)
  BY <1>1, OrdinaryHere
<1>3. \/ Peek(p, Put(Idle(l), l.ip), Iunlock(icache, l.ip))
      \/ /\ l.fd = NoFile /\ Step(p, m, Iunlock(c, l.ip))
         /\ disk' = IF truncates THEN Updated(c, {l.ip}) ELSE disk
         /\ used' = IF truncates THEN used \ icache[l.ip].addrs ELSE used
         /\ data' = data
  BY DEF Install
<1>4. CASE Peek(p, Put(Idle(l), l.ip), Iunlock(icache, l.ip))
  BY <1>1, <1>2, <1>4, GiveUp
<1>5. CASE /\ l.fd = NoFile /\ Step(p, m, Iunlock(c, l.ip))
           /\ disk' = IF truncates THEN Updated(c, {l.ip}) ELSE disk
           /\ used' = IF truncates THEN used \ icache[l.ip].addrs ELSE used
           /\ data' = data
  <2>1. f.ip = l.ip
    OBVIOUS
  <2> HIDE DEF f, l
  <2>2. g.cwd = l.cwd /\ g.fd = f /\ g.put = None /\ DOMAIN g = Fields
    BY <1>2 DEF Fields
  <2> HIDE DEF g
  <2>3. /\ Shape(m) /\ Apart(m) /\ Place(m) = "idle" /\ m.pc = "idle" /\ \A t : ~Held(m, t)
        /\ \A t \in Slots : N(m, t) = One(l.cwd = t) + One(l.ip = t)
    BY <1>2, <2>1, <2>2, IdleShape
  <2> HIDE DEF m
  <2>4. Control(m) /\ Plain(m)
    BY <2>3 DEF Control, Plain, ParentPoints
  <2>5. /\ icache \in [Slots -> Inodes] /\ icache[l.ip] \in Inodes /\ used \subseteq Blocks /\ DOMAIN data = Inums
        /\ disk \in [Inums -> Dinodes]
    BY <1>2 DEF IInv, DiskTypes
  <2>6. \A t \in Slots : (Held(proc[p], t) <=> t = l.ip) /\ ~Held(m, t) /\ N(m, t) = N(proc[p], t)
    <3> TAKE t \in Slots
    <3>1. One(l.old = t) = 0 /\ One(l.fd.ip = t) = 0
      BY <1>2, <1>5 DEF One, Slots, None, NoFile
    <3>2. \A b : One(b) \in Int
      BY DEF One
    <3> QED BY <1>2, <2>3, <3>1, <3>2 DEF Rest
  <2>7. EditsOne(p, m, l.ip)
    <3>1. CASE truncates
      <4> DEFINE d == [icache EXCEPT ![l.ip].addrs = {}]
      <4>1. Step(p, m, Iunlock(d, l.ip)) /\ disk' = Updated(d, {l.ip})
        BY <1>5, <3>1
      <4>2. /\ d \in [Slots -> Inodes] /\ \A t \in Slots \ {l.ip} : d[t] = icache[t]
            /\ d[l.ip].inum = icache[l.ip].inum /\ d[l.ip].ref = icache[l.ip].ref
            /\ d[l.ip].valid = icache[l.ip].valid /\ d[l.ip].type = icache[l.ip].type
        BY <1>2, <2>5 DEF Inodes
      <4> HIDE DEF d
      <4>3. WritesOne(p, m, l.ip, d)
        BY <4>1, <4>2 DEF WritesOne
      <4> QED BY <1>2, <1>5, <2>5, <4>3, WriteOne
    <3>2. CASE ~truncates
      <4>1. /\ icache' = Iunlock(icache, l.ip) /\ disk' = disk /\ used' = used /\ proc' = [proc EXCEPT ![p] = m]
            /\ setup' = setup
        BY <1>5, <3>2 DEF Step
      <4>2. /\ icache' \in [Slots -> Inodes] /\ icache'[l.ip].lock = None
            /\ \A t \in Slots : (t # l.ip => icache'[t] = icache[t]) /\ Same(icache[t], icache'[t])
                                /\ icache'[t].ref = icache[t].ref
        BY <1>2, <2>5, <4>1, UnlockFacts
      <4>3. Current(icache[l.ip], disk[icache[l.ip].inum])
        BY <1>2, HeldCurrent
      <4> QED BY <1>2, <1>5, <2>5, <4>1, <4>2, <4>3 DEF EditsOne, Current, Same
    <3> QED BY <3>1, <3>2
  <2> QED BY <1>2, <2>3, <2>4, <2>6, <2>7, EditOne
<1> QED BY <1>3, <1>4, <1>5

LEMMA LinkingKept ==
  ASSUME IInv, NEW p \in Procs, Linking(p)
  PROVE  IInv'
<1> DEFINE l == proc[p]
           up == icache[l.ip].inum
           i == icache[l.old].inum
           f == [l EXCEPT !.pc = "linked", !.ip = None]
           m == Put(f, l.ip)
<1>1. l.pc = "linking" /\ l.pc \in Ordinary
  BY DEF Linking, At, Ordinary, IpPoints, FoundPoints, ParentPoints
<1>2. /\ DOMAIN l = Fields /\ l.ip \in Slots /\ l.dp = None /\ l.put = None /\ l.cwd \in Slots
      /\ l.fd.ip \in Slots \cup {None} /\ (l.fd # NoFile => l.fd.ip \in Slots) /\ l.old \in Slots
      /\ proc[p].pc # "put2" /\ Held(proc[p], l.ip) /\ Place(l) = "linking" /\ up \in Inums
      /\ \A t \in Slots : N(proc[p], t) = One(l.ip = t) + Rest(l, t) /\ (Held(proc[p], t) <=> t = l.ip)
  BY <1>1, OrdinaryHere
<1>3. disk[up].type = "DIR"
  BY <1>2 DEF IInv, Kinds, ParentPoints, TypeAt
<1>4. \/ LinkThere(p)
      \/ \E w : Panic(w)
      \/ /\ Step(p, m, Iunlock(icache, l.ip)) /\ disk' = disk /\ used' = used
         /\ data' = [data EXCEPT ![up] = Enlarged(@, l.name, i)]
  BY DEF Linking, LinkThere
<1>5. CASE \E w : Panic(w)
  BY <1>5, PanicKept DEF Panic
<1>6. CASE LinkThere(p)
  BY <1>6, LinkThereKept
<1>7. CASE /\ Step(p, m, Iunlock(icache, l.ip)) /\ disk' = disk /\ used' = used
           /\ data' = [data EXCEPT ![up] = Enlarged(@, l.name, i)]
  <2>1. i \in Inums
    <3>1. N(proc[p], l.old) > 0
      <4>1. \A b : One(b) \in {0, 1}
        BY DEF One
      <4>2. One(l.old = l.old) = 1
        BY DEF One
      <4> QED BY <1>2, <4>1, <4>2 DEF Rest
    <3>2. icache[l.old].ref > 0
      <4>1. icache[l.old].ref \in Nat /\ icache[l.old].ref >= N(proc[p], l.old) /\ N(proc[p], l.old) \in Nat
        BY <1>2, PointedRef DEF IInv
      <4> QED BY <3>1, <4>1
    <3> QED BY <1>2, <3>2 DEF IInv, Cached
  <2> HIDE DEF l, i
  <2>2. Alike(f, l, {"pc", "ip"}) /\ f.pc = "linked" /\ f.ip = None
    BY <1>2 DEF Alike, Fields
  <2> HIDE DEF f
  <2>3. /\ f.dp = None /\ f.old = l.old /\ f.cwd = l.cwd /\ f.fd = l.fd /\ f.put = None /\ DOMAIN f = Fields
    BY <1>2, <2>2 DEF Alike, Fields
  <2>4. Place(f) = "linked" /\ ~Waits(f) /\ Aim(f) = "linked"
    BY <2>2, <2>3 DEF Place, Waits, Aim, Putting, WalkPoints
  <2>5. Shape(f) /\ Apart(f) /\ f.pc \notin Putting \cup {"install"}
    BY <1>2, <2>2, <2>3, <2>4 DEF Shape, Apart, CallFits, Pointed, CodePoints, LockPoints, WalkPoints, FdPoints,
                                  IpPoints, FoundPoints, ParentPoints, Slots, None, Putting
  <2>6. /\ Shape(m) /\ (Apart(m) <=> Apart(f)) /\ Place(m) = "linked" /\ m.pc = "put"
        /\ \A t \in Slots : (Held(m, t) <=> Held(f, t)) /\ N(m, t) = N(f, t) + One(l.ip = t)
    BY <1>2, <2>4, <2>5, PutShape
  <2> HIDE DEF m
  <2>7. Control(m) /\ Plain(m) /\ m.pc # "put2"
    BY <2>5, <2>6 DEF Control, Plain, ParentPoints
  <2>8. \A t \in Slots : (Held(proc[p], t) <=> t = l.ip) /\ ~Held(m, t) /\ N(m, t) = N(proc[p], t)
    <3> TAKE t \in Slots
    <3>1. One(None = t) = 0
      BY DEF One, Slots, None
    <3>2. \A b : One(b) \in Int
      BY DEF One
    <3>3. N(f, t) = Rest(l, t)
      BY <2>2, <2>3, <3>1, <3>2 DEF N, Rest
    <3>4. ~Held(f, t)
      BY <2>2, <2>4 DEF Held, LockPoints, IpPoints, FoundPoints, ParentPoints, FdPoints
    <3>5. Rest(l, t) \in Int
      BY <3>2 DEF Rest
    <3> QED BY <1>2, <2>6, <3>2, <3>3, <3>4, <3>5
  <2>9. /\ icache \in [Slots -> Inodes] /\ used \subseteq Blocks /\ DOMAIN data = Inums /\ disk \in [Inums -> Dinodes]
    BY DEF IInv, DiskTypes
  <2>10. /\ icache' \in [Slots -> Inodes] /\ icache'[l.ip].lock = None
         /\ \A t \in Slots : (t # l.ip => icache'[t] = icache[t]) /\ Same(icache[t], icache'[t])
                             /\ icache'[t].ref = icache[t].ref
    BY <1>2, <1>7, <2>9, UnlockFacts DEF Step
  <2>11. Current(icache[l.ip], disk[icache[l.ip].inum])
    BY <1>2, HeldCurrent
  <2>12. IsDirectory(Enlarged(data[up], l.name, i))
    <3>1. IsDirectory(data[up])
      BY <1>2, <1>3 DEF IInv, Contents
    <3> QED BY <2>1, <3>1 DEF IsDirectory, Enlarged
  <2>13. DOMAIN data' = Inums /\ \A j \in Inums : data'[j] # data[j] => disk[j].type = "DIR" /\ IsDirectory(data'[j])
    <3> HIDE DEF up
    <3> QED BY <1>2, <1>3, <1>7, <2>9, <2>12
  <2>14. EditsOne(p, m, l.ip)
    BY <1>2, <1>7, <2>9, <2>10, <2>11, <2>13 DEF EditsOne, Current, Same, Step
  <2> QED BY <1>2, <2>7, <2>8, <2>14, EditOne
<1> QED BY <1>4, <1>5, <1>6, <1>7

\* A call on an open file ends.
LEMMA FileShape ==
  ASSUME IInv, NEW p \in Procs, NEW l, l = proc[p], l.pc \in {"write", "bmap"}
  PROVE  /\ l.fd.ip \in Slots /\ proc[p].pc # "put2" /\ Held(proc[p], l.fd.ip) /\ Place(l) = l.pc
         /\ Control(Idle(l)) /\ Plain(Idle(l)) /\ Idle(l).pc = "idle"
         /\ \A t \in Slots : (Held(proc[p], t) <=> t = l.fd.ip) /\ ~Held(Idle(l), t) /\ N(Idle(l), t) = N(proc[p], t)
<1>1. /\ DOMAIN l = Fields /\ l.put = None /\ l.cwd \in Slots
      /\ l.fd.ip \in Slots /\ l.dp = None /\ l.old = None /\ proc[p].pc # "put2" /\ Place(l) = l.pc
      /\ \A t \in Slots : N(proc[p], t) = One(l.dp = t) + Rest(l, t) /\ (Held(proc[p], t) <=> t = l.fd.ip)
  BY NoIpHere
<1> DEFINE m == Idle(l)
<1>2. /\ Shape(m) /\ Apart(m) /\ Place(m) = "idle" /\ m.pc = "idle" /\ \A t : ~Held(m, t)
      /\ \A t \in Slots : N(m, t) = One(l.cwd = t) + One(l.fd.ip = t)
  BY <1>1, IdleShape
<1> HIDE DEF m
<1>3. Control(m) /\ Plain(m)
  BY <1>2 DEF Control, Plain, ParentPoints
<1>4. \A t \in Slots : N(m, t) = N(proc[p], t)
  <2> TAKE t \in Slots
  <2>1. One(l.dp = t) = 0 /\ One(l.old = t) = 0
    BY <1>1 DEF One, Slots, None
  <2>2. \A b : One(b) \in Int
    BY DEF One
  <2> QED BY <1>1, <1>2, <2>1, <2>2 DEF Rest
<1> QED BY <1>1, <1>2, <1>3, <1>4 DEF m

LEMMA WriteKept ==
  ASSUME IInv, NEW p \in Procs, Write(p)
  PROVE  IInv'
<1> DEFINE l == proc[p]
           s == l.fd.ip
           c == Grown(icache, s)
           m == Idle(l)
<1>1. l.pc = "write"
  BY DEF Write, At
<1>2. /\ s \in Slots /\ proc[p].pc # "put2" /\ Held(proc[p], s) /\ Control(m) /\ Plain(m) /\ m.pc = "idle"
      /\ \A t \in Slots : (Held(proc[p], t) <=> t = s) /\ ~Held(m, t) /\ N(m, t) = N(proc[p], t)
  BY <1>1, FileShape
<1>3. CASE Full(s)
  <2>1. \E w : Panic(w)
    BY <1>3 DEF Write
  <2> QED BY <2>1, PanicKept DEF Panic
<1>4. CASE ~Full(s)
  <2>1. /\ Step(p, m, Iunlock(c, s)) /\ disk' = Updated(c, {s}) /\ used' = used \cup c[s].addrs /\ data' = data
    BY <1>4 DEF Write
  <2> HIDE DEF l, s, m
  <2>2. icache \in [Slots -> Inodes] /\ used \subseteq Blocks /\ DOMAIN data = Inums
    BY DEF IInv, DiskTypes
  <2>3. /\ c \in [Slots -> Inodes] /\ \A t \in Slots \ {s} : c[t] = icache[t]
        /\ c[s].inum = icache[s].inum /\ c[s].ref = icache[s].ref
        /\ c[s].valid = icache[s].valid /\ c[s].type = icache[s].type /\ c[s].addrs \subseteq Blocks
    BY <1>2, <1>4, <2>2, GrownFacts DEF Full
  <2> HIDE DEF c
  <2>4. WritesOne(p, m, s, c)
    BY <2>1, <2>3 DEF WritesOne
  <2>5. EditsOne(p, m, s)
    BY <1>2, <2>1, <2>2, <2>3, <2>4, WriteOne
  <2> QED BY <1>2, <2>5, EditOne
<1> QED BY <1>3, <1>4

LEMMA GetDiskLbnKept ==
  ASSUME IInv, NEW p \in Procs, GetDiskLbn(p)
  PROVE  IInv'
<1> DEFINE l == proc[p]
           s == l.fd.ip
           c == Grown(icache, s)
           m == Idle(l)
<1>1. l.pc = "bmap"
  BY DEF GetDiskLbn, At
<1>2. /\ s \in Slots /\ proc[p].pc # "put2" /\ Held(proc[p], s) /\ Control(m) /\ Plain(m) /\ m.pc = "idle"
      /\ Place(proc[p]) = "bmap"
      /\ \A t \in Slots : (Held(proc[p], t) <=> t = s) /\ ~Held(m, t) /\ N(m, t) = N(proc[p], t)
  BY <1>1, FileShape
<1>3. \/ \E w : Panic(w)
      \/ /\ ~Full(s) /\ Step(p, m, Iunlock(c, s)) /\ used' = used \cup c[s].addrs
         /\ disk' = disk /\ data' = data
  BY DEF GetDiskLbn
<1>4. CASE \E w : Panic(w)
  BY <1>4, PanicKept DEF Panic
<1>5. CASE /\ ~Full(s) /\ Step(p, m, Iunlock(c, s)) /\ used' = used \cup c[s].addrs
           /\ disk' = disk /\ data' = data
  <2> HIDE DEF l, s, m
  <2>1. /\ icache \in [Slots -> Inodes] /\ used \subseteq Blocks /\ DOMAIN data = Inums
        /\ disk \in [Inums -> Dinodes]
    BY DEF IInv, DiskTypes
  <2>2. /\ c \in [Slots -> Inodes] /\ \A t \in Slots \ {s} : c[t] = icache[t]
        /\ c[s].inum = icache[s].inum /\ c[s].ref = icache[s].ref /\ c[s].valid = icache[s].valid
        /\ c[s].type = icache[s].type /\ c[s].perm = icache[s].perm /\ c[s].nlink = icache[s].nlink
        /\ c[s].addrs \subseteq Blocks
    BY <1>2, <1>5, <2>1, GrownFacts DEF Full
  <2> HIDE DEF c
  <2>3. /\ icache' \in [Slots -> Inodes] /\ icache'[s].lock = None
        /\ \A t \in Slots : (t # s => icache'[t] = c[t]) /\ Same(c[t], icache'[t]) /\ icache'[t].ref = c[t].ref
    BY <1>2, <1>5, <2>2, UnlockFacts DEF Step
  <2>4. Current(icache[s], disk[icache[s].inum]) /\ ~NoBmapCall
    BY <1>2, HeldCurrent DEF IInv, Bmaps
  <2>5. Current(icache'[s], disk'[icache[s].inum])
    BY <1>2, <1>5, <2>2, <2>3, <2>4 DEF Current, Same
  <2>6. EditsOne(p, m, s)
    BY <1>2, <1>5, <2>1, <2>2, <2>3, <2>5 DEF EditsOne, Same, Step
  <2> QED BY <1>2, <2>6, EditOne
<1> QED BY <1>3, <1>4, <1>5

-----------------------------------------------------------------------------
(* A process enters a call.                                                *)

LEMMA CallsKnown ==
  ASSUME IInv, NEW p \in Procs, NEW call \in setup.calls[p]
  PROVE  call.fn \in CallNames /\ (call.fn = "chmod" => call.mode \subseteq M_ALL)
BY SetupsAssumption DEF SetupsAssumption, IInv, DiskTypes

\* namei() or nameiparent(), for the sake of what comes then.
LEMMA EnterWalk ==
  ASSUME IInv, NEW p \in Procs, proc[p].pc = "idle", NEW call \in setup.calls[p], NEW parent, NEW then, NEW path,
         then \in FoundPoints \ {"open2", "linking"}, then \in ParentPoints => parent,
         then = "creating" => call.fn \in {"mkdir", "symlink"} \/ (call.fn = "open" /\ "CREATE" \in call.omode),
         then = "chmod" => call.fn = "chmod",
         NEW k, StartWalk(p, [[proc[p] EXCEPT !.call = call, !.left = k] EXCEPT !.parent = parent, !.then = then], path)
  PROVE  IInv'
<1> DEFINE l == proc[p]
           f == [[l EXCEPT !.call = call, !.left = k] EXCEPT !.parent = parent, !.then = then]
<1>1. StartWalk(p, f, path) /\ l.pc = "idle"
  OBVIOUS
<1>2. /\ DOMAIN l = Fields /\ l.put = None /\ l.cwd \in Slots
      /\ l.fd.ip \in Slots \cup {None} /\ (l.fd # NoFile => l.fd.ip \in Slots) /\ l.dp = None /\ l.old = None
      /\ proc[p].pc # "put2"
      /\ \A t \in Slots : /\ N(proc[p], t) = One(l.dp = t) + Rest(l, t) /\ One(l.dp = t) \in Int /\ Rest(l, t) \in Int
                          /\ ~Held(proc[p], t)
  BY NoIpHere
<1> HIDE DEF l
<1>3. /\ Alike(f, l, {"call", "left", "parent", "then"}) /\ f.call = call /\ f.parent = parent /\ f.then = then
  BY <1>2 DEF Alike, Fields
<1> HIDE DEF f
<1>4. f.put = None /\ f.dp = None /\ f.cwd = l.cwd /\ f.fd = l.fd /\ f.old = None /\ DOMAIN f = Fields
  BY <1>2, <1>3 DEF Alike, Fields
<1>5. Walks(f)
  BY <1>2, <1>3, <1>4, CallsKnown DEF Walks, Creates
<1>6. \A t \in Slots : ~Held(proc[p], t) /\ N(proc[p], t) = Rest(f, t)
  <2> TAKE t \in Slots
  <2>1. One(l.dp = t) = 0 /\ Rest(f, t) = Rest(l, t)
    BY <1>2, <1>4 DEF One, Slots, None, Rest
  <2> QED BY <1>2, <2>1
<1> QED BY <1>1, <1>2, <1>5, <1>6, StartWalkKept

\* A call on the open file.
LEMMA EnterFile ==
  ASSUME IInv, NEW p \in Procs, proc[p].pc = "idle", NEW call \in setup.calls[p], NEW point \in FdPoints,
         point = "bmap" => call.fn = "get_disk_lbn", proc[p].fd # NoFile,
         NEW k, Peek(p, Lock([[proc[p] EXCEPT !.call = call, !.left = k] EXCEPT !.pc = point], proc[p].fd.ip), icache)
  PROVE  IInv'
<1> DEFINE l == proc[p]
           f == [[l EXCEPT !.call = call, !.left = k] EXCEPT !.pc = point]
           m == Lock(f, l.fd.ip)
<1>1. Peek(p, m, icache) /\ l.pc = "idle" /\ l.fd # NoFile
  OBVIOUS
<1>2. /\ DOMAIN l = Fields /\ l.ip = None /\ l.put = None /\ l.cwd \in Slots
      /\ l.fd.ip \in Slots \cup {None} /\ (l.fd # NoFile => l.fd.ip \in Slots) /\ l.dp = None /\ l.old = None
      /\ proc[p].pc # "put2" /\ l.fd.ip \in Slots
      /\ \A t \in Slots : ~Held(proc[p], t)
  BY <1>1, NoIpHere
<1> HIDE DEF l
<1>3. /\ Alike(f, l, {"call", "left", "pc"}) /\ f.call = call /\ f.pc = point
  BY <1>2 DEF Alike, Fields
<1> HIDE DEF f
<1>4. /\ f.ip = None /\ f.put = None /\ f.dp = None /\ f.cwd = l.cwd /\ f.fd = l.fd /\ f.old = None
      /\ DOMAIN f = Fields
  BY <1>2, <1>3 DEF Alike, Fields
<1>5. Place(f) = point /\ ~Waits(f) /\ Aim(f) = point /\ Main(f) = l.fd.ip
  BY <1>3, <1>4 DEF Place, Waits, Aim, Putting, WalkPoints, Main, IpPoints, FdPoints, FoundPoints, ParentPoints
<1>6. Shape(f) /\ f.pc \in LockPoints /\ f.pc \notin Putting \cup {"lock", "install"}
  BY <1>2, <1>3, <1>4, <1>5 DEF Shape, CallFits, Pointed, CodePoints, LockPoints, WalkPoints, FdPoints,
                                IpPoints, FoundPoints, ParentPoints, Slots, None, Putting
<1>7. m = Lock(f, Main(f))
  BY <1>5
<1>8. /\ Shape(m) /\ Apart(m) /\ Place(m) = point /\ m.pc = "lock"
      /\ \A t : (Held(m, t) <=> f.pc \in {"newinode", "victim"} /\ t = f.dp) /\ N(m, t) = N(f, t)
  BY <1>3, <1>6, <1>7, LockShape
<1> HIDE DEF m
<1>9. \A t \in Slots : N(m, t) = N(proc[p], t) /\ (Held(m, t) <=> Held(proc[p], t))
  <2>1. \A t : N(f, t) = N(proc[p], t)
    BY <1>2, <1>4 DEF N, l
  <2> QED BY <1>2, <1>3, <1>8, <2>1 DEF FdPoints
<1>10. point = "bmap" => ~NoBmapCall
  BY DEF NoBmapCall
<1>11. Control(m) /\ KnowsNow(m) /\ m.pc # "put2"
  BY <1>8, <1>10 DEF Control, KnowsNow, ParentPoints, FdPoints
<1> QED BY <1>1, <1>2, <1>9, <1>11, PeekSame

LEMMA EnterClose ==
  ASSUME IInv, NEW p \in Procs, proc[p].pc = "idle", NEW call, proc[p].fd # NoFile,
         NEW k, Peek(p, Put(Idle([[proc[p] EXCEPT !.call = call, !.left = k] EXCEPT !.fd = NoFile]), proc[p].fd.ip), icache)
  PROVE  IInv'
<1> DEFINE l == proc[p]
           f == [[l EXCEPT !.call = call, !.left = k] EXCEPT !.fd = NoFile]
           m == Put(Idle(f), l.fd.ip)
<1>1. Peek(p, m, icache) /\ l.pc = "idle" /\ l.fd # NoFile
  OBVIOUS
<1>2. /\ DOMAIN l = Fields /\ l.put = None /\ l.cwd \in Slots /\ l.dp = None /\ l.old = None
      /\ proc[p].pc # "put2" /\ l.fd.ip \in Slots
      /\ \A t \in Slots : N(proc[p], t) = One(l.dp = t) + Rest(l, t) /\ ~Held(proc[p], t)
  BY <1>1, NoIpHere
<1> HIDE DEF l
<1>3. f.fd = NoFile /\ f.put = None /\ f.cwd = l.cwd /\ DOMAIN f = Fields /\ f.fd.ip = None
  BY <1>2 DEF Fields, NoFile
<1> HIDE DEF f
<1>4. /\ Control(m) /\ Plain(m) /\ m.pc = "put"
      /\ \A t \in Slots : ~Held(m, t) /\ N(m, t) = One(l.fd.ip = t) + One(f.cwd = t) + One(f.fd.ip = t)
  BY <1>2, <1>3, LeaveShape
<1> HIDE DEF m
<1>5. \A t \in Slots : N(m, t) = N(proc[p], t) /\ (Held(m, t) <=> Held(proc[p], t))
  <2> TAKE t \in Slots
  <2>1. One(l.dp = t) = 0 /\ One(l.old = t) = 0 /\ One(f.fd.ip = t) = 0
    BY <1>2, <1>3 DEF One, Slots, None
  <2>2. \A b : One(b) \in Int
    BY DEF One
  <2> QED BY <1>2, <1>3, <1>4, <2>1, <2>2 DEF Rest
<1>6. KnowsNow(m) /\ m.pc # "put2"
  BY <1>4, PlainKnows
<1> QED BY <1>1, <1>2, <1>4, <1>5, <1>6, PeekSame

\* A process that enters a call, with the locals l, starts a walk, locks its open file, or closes it.
WalkCall(p, call, l) ==
    \E path, parent, then :
        /\ then \in FoundPoints \ {"open2", "linking"} /\ (then \in ParentPoints => parent)
        /\ then = "creating" => call.fn \in {"mkdir", "symlink"} \/ (call.fn = "open" /\ "CREATE" \in call.omode)
        /\ then = "chmod" => call.fn = "chmod"
        /\ StartWalk(p, [l EXCEPT !.parent = parent, !.then = then], path)
FileCall(p, call, l) ==
    \E point \in FdPoints : /\ point = "bmap" => call.fn = "get_disk_lbn"
                            /\ proc[p].fd # NoFile /\ Peek(p, Lock([l EXCEPT !.pc = point], proc[p].fd.ip), icache)
CloseCall(p, l) == proc[p].fd # NoFile /\ Peek(p, Put(Idle([l EXCEPT !.fd = NoFile]), proc[p].fd.ip), icache)

LEMMA EnterCases ==
  ASSUME IInv, NEW p \in Procs, Enter(p)
  PROVE  /\ proc[p].pc = "idle"
         /\ \E call \in setup.calls[p] : \E k :
               LET l == [proc[p] EXCEPT !.call = call, !.left = k]
               IN WalkCall(p, call, l) \/ FileCall(p, call, l) \/ CloseCall(p, l)
<1>1. proc[p].pc = "idle"
  BY DEF Enter, At
<1> DEFINE k == proc[p].left - 1
           L(call) == [proc[p] EXCEPT !.call = call, !.left = k]
           W(call, path, parent, then) == StartWalk(p, [L(call) EXCEPT !.parent = parent, !.then = then], path)
           F(call, point) == proc[p].fd # NoFile /\ Peek(p, Lock([L(call) EXCEPT !.pc = point], proc[p].fd.ip), icache)
<1>2. DOMAIN proc[p] = Fields
  BY <1>1, NoIpHere
<1>3. \A call : L(call).fd = proc[p].fd
  BY <1>2 DEF Fields
<1>3a. \A call : [proc[p] EXCEPT !.call = call, !.left = @ - 1] = L(call)
  BY <1>2 DEF Fields
<1>4. PICK call \in setup.calls[p] :
         LET l == [proc[p] EXCEPT !.call = call, !.left = @ - 1] IN
         /\ call.fn = "open" /\ "CREATE" \notin call.omode =>
               StartWalk(p, [l EXCEPT !.parent = FALSE, !.then = "open"], call.path)
         /\ call.fn = "open" /\ "CREATE" \in call.omode =>
               StartWalk(p, [l EXCEPT !.parent = TRUE, !.then = "creating"], call.path)
         /\ call.fn \in {"mkdir", "symlink"} => StartWalk(p, [l EXCEPT !.parent = TRUE, !.then = "creating"], call.path)
         /\ call.fn = "unlink" => StartWalk(p, [l EXCEPT !.parent = TRUE, !.then = "unlinking"], call.path)
         /\ call.fn = "link" => StartWalk(p, [l EXCEPT !.parent = FALSE, !.then = "linkold"], call.path)
         /\ call.fn = "chmod" => StartWalk(p, [l EXCEPT !.parent = FALSE, !.then = "chmod"], call.path)
         /\ call.fn = "chdir" => StartWalk(p, [l EXCEPT !.parent = FALSE, !.then = "chdir"], call.path)
         /\ call.fn = "write" => l.fd # NoFile /\ Peek(p, Lock([l EXCEPT !.pc = "write"], l.fd.ip), icache)
         /\ call.fn = "get_disk_lbn" => l.fd # NoFile /\ Peek(p, Lock([l EXCEPT !.pc = "bmap"], l.fd.ip), icache)
         /\ call.fn = "close" => l.fd # NoFile /\ Peek(p, Put(Idle([l EXCEPT !.fd = NoFile]), l.fd.ip), icache)
  BY DEF Enter
<1>5. call.fn \in CallNames
  BY CallsKnown
<1>6. ASSUME NEW parent, NEW then, then \in FoundPoints \ {"open2", "linking"}, then \in ParentPoints => parent,
             then = "creating" => call.fn \in {"mkdir", "symlink"} \/ (call.fn = "open" /\ "CREATE" \in call.omode),
             then = "chmod" => call.fn = "chmod", W(call, call.path, parent, then)
      PROVE  WalkCall(p, call, L(call))
  BY <1>6 DEF WalkCall
<1>7. ASSUME NEW point \in FdPoints, point = "bmap" => call.fn = "get_disk_lbn", F(call, point)
      PROVE  FileCall(p, call, L(call))
  BY <1>7 DEF FileCall
<1>8. ASSUME proc[p].fd # NoFile, Peek(p, Put(Idle([L(call) EXCEPT !.fd = NoFile]), proc[p].fd.ip), icache)
      PROVE  CloseCall(p, L(call))
  BY <1>8 DEF CloseCall
<1>8a. /\ call.fn = "open" /\ "CREATE" \notin call.omode => W(call, call.path, FALSE, "open")
       /\ call.fn = "open" /\ "CREATE" \in call.omode => W(call, call.path, TRUE, "creating")
       /\ call.fn \in {"mkdir", "symlink"} => W(call, call.path, TRUE, "creating")
       /\ call.fn = "unlink" => W(call, call.path, TRUE, "unlinking")
       /\ call.fn = "link" => W(call, call.path, FALSE, "linkold")
       /\ call.fn = "chmod" => W(call, call.path, FALSE, "chmod")
       /\ call.fn = "chdir" => W(call, call.path, FALSE, "chdir")
       /\ call.fn = "write" => F(call, "write")
       /\ call.fn = "get_disk_lbn" => F(call, "bmap")
       /\ call.fn = "close" => /\ proc[p].fd # NoFile
                               /\ Peek(p, Put(Idle([L(call) EXCEPT !.fd = NoFile]), proc[p].fd.ip), icache)
  BY <1>3, <1>3a, <1>4
<1>8b. SUFFICES WalkCall(p, call, L(call)) \/ FileCall(p, call, L(call)) \/ CloseCall(p, L(call))
  BY <1>1
<1> HIDE DEF W, F, L
<1> USE DEF FoundPoints, ParentPoints, FdPoints
<1>9. CASE call.fn = "open" /\ "CREATE" \notin call.omode
  BY <1>8a, <1>6, <1>9
<1>10. CASE call.fn = "open" /\ "CREATE" \in call.omode
  BY <1>8a, <1>6, <1>10
<1>11. CASE call.fn \in {"mkdir", "symlink"}
  BY <1>8a, <1>6, <1>11
<1>12. CASE call.fn = "unlink"
  BY <1>8a, <1>6, <1>12
<1>13. CASE call.fn = "link"
  BY <1>8a, <1>6, <1>13
<1>14. CASE call.fn = "chmod"
  BY <1>8a, <1>6, <1>14
<1>15. CASE call.fn = "chdir"
  BY <1>8a, <1>6, <1>15
<1>16. CASE call.fn = "write"
  BY <1>8a, <1>7, <1>16
<1>17. CASE call.fn = "get_disk_lbn"
  BY <1>8a, <1>7, <1>17
<1>18. CASE call.fn = "close"
  BY <1>8a, <1>8, <1>18
<1> QED BY <1>5, <1>9, <1>10, <1>11, <1>12, <1>13, <1>14, <1>15, <1>16, <1>17, <1>18 DEF CallNames

LEMMA EnterKept ==
  ASSUME IInv, NEW p \in Procs, Enter(p)
  PROVE  IInv'
<1>0. PICK call \in setup.calls[p] : \E k :
        LET l == [proc[p] EXCEPT !.call = call, !.left = k]
        IN WalkCall(p, call, l) \/ FileCall(p, call, l) \/ CloseCall(p, l)
  BY EnterCases
<1>1. PICK k :
        LET l == [proc[p] EXCEPT !.call = call, !.left = k]
        IN WalkCall(p, call, l) \/ FileCall(p, call, l) \/ CloseCall(p, l)
  BY <1>0
<1>2. proc[p].pc = "idle"
  BY EnterCases
<1> DEFINE l == [proc[p] EXCEPT !.call = call, !.left = k]
<1>3. CASE WalkCall(p, call, l)
  BY <1>2, <1>3, EnterWalk DEF WalkCall
<1>4. CASE FileCall(p, call, l)
  BY <1>2, <1>4, EnterFile DEF FileCall
<1>5. CASE CloseCall(p, l)
  BY <1>2, <1>5, EnterClose DEF CloseCall
<1> QED BY <1>1, <1>3, <1>4, <1>5

-----------------------------------------------------------------------------
(* Steps that have a directory and an inode in it locked.                  *)

LEMMA PairHere ==
  ASSUME IInv, NEW p \in Procs, NEW l, l = proc[p], l.pc \in {"newinode", "victim"}
  PROVE  /\ DOMAIN l = Fields /\ l.ip \in Slots /\ l.dp \in Slots /\ l.ip # l.dp /\ l.put = None /\ l.cwd \in Slots
         /\ l.fd.ip \in Slots \cup {None} /\ (l.fd # NoFile => l.fd.ip \in Slots) /\ l.old = None
         /\ Place(l) = l.pc /\ (l.pc = "newinode" => Creates(l)) /\ proc[p].pc # "put2"
         /\ \A t \in Slots : /\ N(proc[p], t) = One(l.ip = t) + One(l.dp = t) + Rest(l, t)
                             /\ Held(proc[p], t) <=> t \in {l.ip, l.dp}
                             /\ One(l.ip = t) \in Int /\ One(l.dp = t) \in Int /\ Rest(l, t) \in Int
         /\ \A t \in {l.ip, l.dp} : /\ icache[t].ref > 0 /\ icache[t].inum \in Inums /\ icache[t].type # "free"
                                    /\ Current(icache[t], disk[icache[t].inum]) /\ TypeAt(t) = icache[t].type
         /\ icache[l.ip].inum # icache[l.dp].inum
<1>1. Control(l)
  BY DEF IInv, Controls
<1>2. \A t \in Slots : One(l.ip = t) \in Int /\ One(l.dp = t) \in Int /\ Rest(l, t) \in Int
  BY DEF One, Rest
<1>3. /\ DOMAIN l = Fields /\ l.ip \in Slots /\ l.dp \in Slots /\ l.ip # l.dp /\ l.put = None /\ l.cwd \in Slots
      /\ l.fd.ip \in Slots \cup {None} /\ (l.fd # NoFile => l.fd.ip \in Slots) /\ l.old = None
      /\ Place(l) = l.pc /\ (l.pc = "newinode" => Creates(l))
      /\ \A t \in Slots : /\ N(l, t) = One(l.ip = t) + One(l.dp = t) + Rest(l, t)
                          /\ Held(l, t) <=> t \in {l.ip, l.dp}
  BY <1>1, PairThere
<1>4. \A t \in Slots : Held(proc[p], t) => /\ icache[t].ref > 0 /\ icache[t].inum \in Inums /\ icache[t].type # "free"
                                          /\ Current(icache[t], disk[icache[t].inum]) /\ TypeAt(t) = icache[t].type
  BY HeldCurrent
<1>5. icache[l.ip].inum # icache[l.dp].inum
  BY <1>3, <1>4 DEF IInv, Cached, OneEntryPerInode
<1> QED BY <1>2, <1>3, <1>4, <1>5

LEMMA VictimKept ==
  ASSUME IInv, NEW p \in Procs, Victim(p)
  PROVE  IInv'
<1> DEFINE l == proc[p]
           up == icache[l.dp].inum
           isdir == icache[l.ip].type = "DIR"
           c == IF isdir THEN [icache EXCEPT ![l.dp].nlink = @ - 1] ELSE icache
           g == [l EXCEPT !.pc = "unlinkbad", !.ip = None]
           f == [l EXCEPT !.pc = "unlinked", !.dp = None]
           rest == Restrict(data[up], DOMAIN data[up] \ {l.name})
<1>1. l.pc = "victim"
  BY DEF Victim, At
<1>2. /\ DOMAIN l = Fields /\ l.ip \in Slots /\ l.dp \in Slots /\ l.ip # l.dp /\ l.put = None /\ l.cwd \in Slots
      /\ l.fd.ip \in Slots \cup {None} /\ (l.fd # NoFile => l.fd.ip \in Slots) /\ l.old = None
      /\ proc[p].pc # "put2"
      /\ \A t \in Slots : /\ N(proc[p], t) = One(l.ip = t) + One(l.dp = t) + Rest(l, t)
                          /\ Held(proc[p], t) <=> t \in {l.ip, l.dp}
                          /\ One(l.ip = t) \in Int /\ One(l.dp = t) \in Int /\ Rest(l, t) \in Int
      /\ \A t \in {l.ip, l.dp} : /\ icache[t].ref > 0 /\ icache[t].inum \in Inums /\ icache[t].type # "free"
                                 /\ Current(icache[t], disk[icache[t].inum]) /\ TypeAt(t) = icache[t].type
  BY <1>1, PairHere
<1>3. \/ \E w : Panic(w)
      \/ Peek(p, Put(g, l.ip), Iunlock(icache, l.ip))
      \/ /\ Step(p, Put(f, l.dp), Iunlock(c, l.dp)) /\ used' = used
         /\ data' = [data EXCEPT ![up] = Restrict(@, DOMAIN @ \ {l.name})]
         /\ disk' = IF isdir THEN Updated(c, {l.dp}) ELSE disk
  BY DEF Victim
<1>4. CASE \E w : Panic(w)
  BY <1>4, PanicKept DEF Panic
<1>0. \A t \in Slots : One(None = t) = 0
  BY DEF One, Slots, None
<1>5. CASE Peek(p, Put(g, l.ip), Iunlock(icache, l.ip))
  <2> DEFINE m == Put(g, l.ip)
  <2>0. Peek(p, m, Iunlock(icache, l.ip))
    BY <1>5
  <2> HIDE DEF l
  <2>1. Alike(g, l, {"pc", "ip"}) /\ g.pc = "unlinkbad" /\ g.ip = None
    BY <1>2 DEF Alike, Fields
  <2> HIDE DEF g
  <2>2. /\ g.dp = l.dp /\ g.old = None /\ g.cwd = l.cwd /\ g.fd = l.fd /\ g.put = None /\ DOMAIN g = Fields
    BY <1>2, <2>1 DEF Alike, Fields
  <2>3. Place(g) = "unlinkbad" /\ ~Waits(g) /\ Aim(g) = "unlinkbad" /\ Main(g) = l.dp
    BY <2>1, <2>2 DEF Place, Waits, Aim, Putting, WalkPoints, Main, IpPoints, FoundPoints, ParentPoints
  <2>4. Shape(g) /\ Apart(g) /\ g.pc \notin Putting \cup {"install"}
    BY <1>2, <2>1, <2>2, <2>3 DEF Shape, Apart, CallFits, Pointed, CodePoints, LockPoints, WalkPoints, FdPoints,
                                  IpPoints, FoundPoints, ParentPoints, Slots, None, Putting
  <2>5. /\ Shape(m) /\ (Apart(m) <=> Apart(g)) /\ Place(m) = "unlinkbad" /\ m.pc = "put"
        /\ \A t \in Slots : (Held(m, t) <=> Held(g, t)) /\ N(m, t) = N(g, t) + One(l.ip = t)
    BY <1>2, <2>3, <2>4, PutShape
  <2> HIDE DEF m
  <2>6. Control(m) /\ Plain(m) /\ m.pc # "put2"
    BY <2>4, <2>5 DEF Control, Plain, ParentPoints
  <2>7. \A t \in Slots : N(m, t) = N(proc[p], t) /\ (Held(m, t) <=> Held(proc[p], t) /\ t # l.ip)
    <3> TAKE t \in Slots
    <3>1. \A b : One(b) \in Int
      BY DEF One
    <3>2. N(g, t) = One(l.dp = t) + Rest(l, t)
      BY <1>0, <1>2, <2>1, <2>2, <3>1 DEF N, Rest
    <3>3. Held(g, t) <=> t = l.dp
      BY <2>1, <2>3 DEF Held, LockPoints
    <3> QED BY <1>2, <2>5, <3>2, <3>3
  <2>8. KnowsNow(m) /\ Held(proc[p], l.ip)
    BY <1>2, <2>6, PlainKnows
  <2> QED BY <1>2, <2>0, <2>6, <2>7, <2>8, PeekUnlock
<1>6. CASE /\ Step(p, Put(f, l.dp), Iunlock(c, l.dp)) /\ used' = used
           /\ data' = [data EXCEPT ![up] = Restrict(@, DOMAIN @ \ {l.name})]
           /\ disk' = IF isdir THEN Updated(c, {l.dp}) ELSE disk
  <2> DEFINE m == Put(f, l.dp)
  <2>0. /\ Step(p, m, Iunlock(c, l.dp)) /\ used' = used
        /\ data' = [data EXCEPT ![up] = rest]
        /\ disk' = IF isdir THEN Updated(c, {l.dp}) ELSE disk
    BY <1>6
  <2> HIDE DEF l
  <2>1. Alike(f, l, {"pc", "dp"}) /\ f.pc = "unlinked" /\ f.dp = None
    BY <1>2 DEF Alike, Fields
  <2> HIDE DEF f
  <2>2. /\ f.ip = l.ip /\ f.old = None /\ f.cwd = l.cwd /\ f.fd = l.fd /\ f.put = None /\ DOMAIN f = Fields
    BY <1>2, <2>1 DEF Alike, Fields
  <2>3. Place(f) = "unlinked" /\ ~Waits(f) /\ Aim(f) = "unlinked" /\ Main(f) = l.ip
    BY <2>1, <2>2 DEF Place, Waits, Aim, Putting, WalkPoints, Main, IpPoints
  <2>4. Shape(f) /\ Apart(f) /\ f.pc \notin Putting \cup {"install"}
    BY <1>2, <2>1, <2>2, <2>3 DEF Shape, Apart, CallFits, Pointed, CodePoints, LockPoints, WalkPoints, FdPoints,
                                  IpPoints, FoundPoints, ParentPoints, Slots, None, Putting
  <2>5. /\ Shape(m) /\ (Apart(m) <=> Apart(f)) /\ Place(m) = "unlinked" /\ m.pc = "put"
        /\ \A t \in Slots : (Held(m, t) <=> Held(f, t)) /\ N(m, t) = N(f, t) + One(l.dp = t)
    BY <1>2, <2>3, <2>4, PutShape
  <2> HIDE DEF m
  <2>6. Control(m) /\ Plain(m) /\ m.pc # "put2"
    BY <2>4, <2>5 DEF Control, Plain, ParentPoints
  <2>7. \A t \in Slots : N(m, t) = N(proc[p], t) /\ (Held(m, t) <=> Held(proc[p], t) /\ t # l.dp)
    <3> TAKE t \in Slots
    <3>1. \A b : One(b) \in Int
      BY DEF One
    <3>2. N(f, t) = One(l.ip = t) + Rest(l, t)
      BY <1>0, <1>2, <2>1, <2>2, <3>1 DEF N, Rest
    <3>3. Held(f, t) <=> t = l.ip
      BY <2>1, <2>3 DEF Held, LockPoints, IpPoints
    <3> QED BY <1>2, <2>5, <3>2, <3>3
  <2>8. /\ icache \in [Slots -> Inodes] /\ icache[l.dp] \in Inodes /\ used \subseteq Blocks /\ DOMAIN data = Inums
        /\ disk \in [Inums -> Dinodes]
    BY <1>2 DEF IInv, DiskTypes
  <2>9. up \in Inums /\ disk[up].type # "free"
    BY <1>2 DEF TypeAt
  <2>10. disk[up].type = "DIR" => IsDirectory(rest)
    <3> SUFFICES ASSUME disk[up].type = "DIR" PROVE IsDirectory(rest)
      OBVIOUS
    <3>1. IsDirectory(data[up])
      BY <2>9 DEF IInv, Contents
    <3> QED BY <3>1 DEF IsDirectory, Restrict
  <2>11. /\ DOMAIN data' = Inums
         /\ \A i \in Inums : data'[i] # data[i] =>
               disk[i].type # "free" /\ (disk[i].type = "DIR" => IsDirectory(data'[i]))
    <3> HIDE DEF up, rest
    <3> QED BY <2>0, <2>8, <2>9, <2>10
  <2>12. Held(proc[p], l.dp)
    BY <1>2
  <2>13. EditsOne(p, m, l.dp)
    <3>1. CASE isdir
      <4> DEFINE d == [icache EXCEPT ![l.dp].nlink = @ - 1]
      <4>1. Step(p, m, Iunlock(d, l.dp)) /\ disk' = Updated(d, {l.dp})
        BY <2>0, <3>1
      <4>2. /\ d \in [Slots -> Inodes] /\ \A t \in Slots \ {l.dp} : d[t] = icache[t]
            /\ d[l.dp].inum = icache[l.dp].inum /\ d[l.dp].ref = icache[l.dp].ref
            /\ d[l.dp].valid = icache[l.dp].valid /\ d[l.dp].type = icache[l.dp].type
        BY <1>2, <2>8 DEF Inodes
      <4> HIDE DEF d
      <4>3. WritesOne(p, m, l.dp, d)
        BY <4>1, <4>2 DEF WritesOne
      <4> QED BY <1>2, <2>0, <2>8, <2>11, <2>12, <4>3, WriteOne
    <3>2. CASE ~isdir
      <4>1. /\ icache' = Iunlock(icache, l.dp) /\ disk' = disk /\ used' = used /\ proc' = [proc EXCEPT ![p] = m]
            /\ setup' = setup
        BY <2>0, <3>2 DEF Step
      <4>2. /\ icache' \in [Slots -> Inodes] /\ icache'[l.dp].lock = None
            /\ \A t \in Slots : (t # l.dp => icache'[t] = icache[t]) /\ Same(icache[t], icache'[t])
                                /\ icache'[t].ref = icache[t].ref
        BY <1>2, <2>8, <4>1, UnlockFacts
      <4>3. Current(icache[l.dp], disk[icache[l.dp].inum])
        BY <1>2
      <4> HIDE DEF up, rest
      <4> QED BY <1>2, <2>8, <2>11, <4>1, <4>2, <4>3 DEF EditsOne, Current, Same
    <3> QED BY <3>1, <3>2
  <2> QED BY <1>2, <2>6, <2>7, <2>12, <2>13, EditOneOf
<1> QED BY <1>3, <1>4, <1>5, <1>6

LEMMA UpdatedTwo ==
  ASSUME NEW c, NEW S, NEW s \in S, NEW t \in S, S = {s, t}, c[s].inum # c[t].inum
  PROVE  /\ DOMAIN Updated(c, S) = Inums
         /\ \A i \in Inums : Updated(c, S)[i] = IF c[s].inum = i THEN Dinode(c[s])
                                                ELSE IF c[t].inum = i THEN Dinode(c[t]) ELSE disk[i]
<1>1. ASSUME NEW i \in Inums
      PROVE  Updated(c, S)[i] = IF c[s].inum = i THEN Dinode(c[s]) ELSE IF c[t].inum = i THEN Dinode(c[t]) ELSE disk[i]
  <2> DEFINE u == CHOOSE u \in S : c[u].inum = i
  <2>1. CASE \E v \in S : c[v].inum = i
    <3>1. u \in S /\ c[u].inum = i
      BY <2>1
    <3>2. Updated(c, S)[i] = Dinode(c[u])
      BY <2>1 DEF Updated
    <3> HIDE DEF u
    <3> QED BY <3>1, <3>2
  <2>2. CASE ~\E v \in S : c[v].inum = i
    BY <2>2 DEF Updated
  <2> QED BY <2>1, <2>2
<1> QED BY <1>1 DEF Updated

LEMMA NewInodeKept ==
  ASSUME IInv, NEW p \in Procs, NewInode(p)
  PROVE  IInv'
<1> DEFINE l == proc[p]
           isdir == l.call.fn = "mkdir"
           up == icache[l.dp].inum
           i == icache[l.ip].inum
           c1 == [icache EXCEPT ![l.ip].nlink = 1, ![l.ip].perm = M_ALL]
           c == IF isdir THEN [Grown(c1, l.ip) EXCEPT ![l.dp].nlink = @ + 1] ELSE c1
           f == [l EXCEPT !.pc = "created", !.dp = None]
           m == Put(f, l.dp)
           S == {l.dp, l.ip}
           dir == Enlarged(data[up], l.name, i)
           new == IF isdir THEN Dots(i, up) ELSE NoData
<1>1. l.pc = "newinode"
  BY DEF NewInode, At
<1>2. /\ DOMAIN l = Fields /\ l.ip \in Slots /\ l.dp \in Slots /\ l.ip # l.dp /\ l.put = None /\ l.cwd \in Slots
      /\ l.fd.ip \in Slots \cup {None} /\ (l.fd # NoFile => l.fd.ip \in Slots) /\ l.old = None
      /\ Place(l) = "newinode" /\ Creates(l) /\ proc[p].pc # "put2"
      /\ \A t \in Slots : /\ N(proc[p], t) = One(l.ip = t) + One(l.dp = t) + Rest(l, t)
                          /\ Held(proc[p], t) <=> t \in {l.ip, l.dp}
                          /\ One(l.ip = t) \in Int /\ One(l.dp = t) \in Int /\ Rest(l, t) \in Int
      /\ \A t \in {l.ip, l.dp} : /\ icache[t].ref > 0 /\ icache[t].inum \in Inums /\ icache[t].type # "free"
                                 /\ Current(icache[t], disk[icache[t].inum]) /\ TypeAt(t) = icache[t].type
      /\ up # i
  BY <1>1, PairHere
<1>3. \/ \E w : Panic(w)
      \/ /\ ~(isdir /\ Full(l.ip)) /\ Step(p, m, Iunlock(c, l.dp)) /\ disk' = Updated(c, S)
         /\ data' = [data EXCEPT ![up] = Enlarged(@, l.name, i), ![i] = new]
         /\ used' = used \cup c[l.ip].addrs
  BY DEF NewInode
<1>4. CASE \E w : Panic(w)
  BY <1>4, PanicKept DEF Panic
<1>5. CASE /\ ~(isdir /\ Full(l.ip)) /\ Step(p, m, Iunlock(c, l.dp)) /\ disk' = Updated(c, S)
           /\ data' = [data EXCEPT ![up] = Enlarged(@, l.name, i), ![i] = new]
           /\ used' = used \cup c[l.ip].addrs
  <2>1. disk[i].type = TypeOf(l.call)
    BY <1>2 DEF IInv, Kinds, TypeAt
  <2>2. disk[i].type = "DIR" => isdir
    BY <1>2, <2>1 DEF TypeOf, Creates
  <2> HIDE DEF l
  <2>3. Alike(f, l, {"pc", "dp"}) /\ f.pc = "created" /\ f.dp = None
    BY <1>2 DEF Alike, Fields
  <2> HIDE DEF f
  <2>4. /\ f.ip = l.ip /\ f.old = None /\ f.cwd = l.cwd /\ f.fd = l.fd /\ f.put = None /\ DOMAIN f = Fields
        /\ f.call = l.call
    BY <1>2, <2>3 DEF Alike, Fields
  <2>5. Place(f) = "created" /\ ~Waits(f) /\ Aim(f) = "created" /\ Main(f) = l.ip
    BY <2>3, <2>4 DEF Place, Waits, Aim, Putting, WalkPoints, Main, IpPoints
  <2>6. Shape(f) /\ Apart(f) /\ f.pc \notin Putting \cup {"install"}
    BY <1>2, <2>3, <2>4, <2>5 DEF Shape, Apart, CallFits, Pointed, Creates, CodePoints, LockPoints, WalkPoints, FdPoints,
                                  IpPoints, FoundPoints, ParentPoints, Slots, None, Putting
  <2>7. /\ Shape(m) /\ (Apart(m) <=> Apart(f)) /\ Place(m) = "created" /\ m.pc = "put"
        /\ Alike(m, f, {"pc", "put", "after"})
        /\ \A t \in Slots : (Held(m, t) <=> Held(f, t)) /\ N(m, t) = N(f, t) + One(l.dp = t)
    BY <1>2, <2>5, <2>6, PutShape
  <2> HIDE DEF m
  <2>8. Control(m) /\ m.pc # "put2" /\ m.ip = l.ip /\ m.call = l.call
    BY <2>4, <2>6, <2>7 DEF Control, Alike, Fields
  <2>9. \A t \in Slots : N(m, t) = N(proc[p], t) /\ (Held(m, t) <=> t = l.ip)
    <3> TAKE t \in Slots
    <3>1. \A b : One(b) \in Int
      BY DEF One
    <3>2. One(None = t) = 0
      BY DEF One, Slots, None
    <3>3. N(f, t) = One(l.ip = t) + Rest(l, t)
      BY <1>2, <2>3, <2>4, <3>1, <3>2 DEF N, Rest
    <3>4. Held(f, t) <=> t = l.ip
      BY <2>3, <2>5 DEF Held, LockPoints, IpPoints
    <3> QED BY <1>2, <2>7, <3>3, <3>4
  <2>10. /\ icache \in [Slots -> Inodes] /\ icache[l.dp] \in Inodes /\ icache[l.ip] \in Inodes
         /\ used \subseteq Blocks /\ DOMAIN data = Inums /\ disk \in [Inums -> Dinodes]
    BY <1>2 DEF IInv, DiskTypes
  <2>11. /\ c1 \in [Slots -> Inodes] /\ \A t \in Slots \ {l.ip} : c1[t] = icache[t]
         /\ c1[l.ip].inum = i /\ c1[l.ip].ref = icache[l.ip].ref /\ c1[l.ip].valid = icache[l.ip].valid
         /\ c1[l.ip].type = icache[l.ip].type /\ c1[l.ip].lock = icache[l.ip].lock
         /\ c1[l.ip].addrs = icache[l.ip].addrs
    BY <1>2, <2>10 DEF Inodes
  <2> HIDE DEF c1
  <2>12. /\ c \in [Slots -> Inodes] /\ \A t \in Slots \ {l.ip, l.dp} : c[t] = icache[t]
         /\ \A t \in {l.ip, l.dp} : /\ c[t].inum = icache[t].inum /\ c[t].ref = icache[t].ref
                                    /\ c[t].valid = icache[t].valid /\ c[t].type = icache[t].type
                                    /\ c[t].lock = icache[t].lock
         /\ c[l.ip].addrs \subseteq Blocks
    <3>1. CASE isdir
      <4> DEFINE d == Grown(c1, l.ip)
      <4>1. c1[l.ip].addrs = {} => used # Blocks
        BY <1>5, <2>11, <3>1 DEF Full
      <4>2. /\ d \in [Slots -> Inodes] /\ \A t \in Slots \ {l.ip} : d[t] = c1[t]
            /\ d[l.ip].inum = c1[l.ip].inum /\ d[l.ip].ref = c1[l.ip].ref /\ d[l.ip].valid = c1[l.ip].valid
            /\ d[l.ip].lock = c1[l.ip].lock /\ d[l.ip].type = c1[l.ip].type /\ d[l.ip].addrs \subseteq Blocks
        BY <1>2, <2>10, <2>11, <4>1, GrownFacts
      <4>3. c = [d EXCEPT ![l.dp].nlink = @ + 1]
        BY <3>1
      <4> HIDE DEF d, c
      <4>4. d[l.dp] = icache[l.dp] /\ d[l.dp] \in Inodes
        BY <1>2, <2>10, <2>11, <4>2
      <4>5. c \in [Slots -> Inodes]
        BY <1>2, <4>2, <4>3, <4>4 DEF Inodes
      <4>6. \A t \in Slots \ {l.dp} : c[t] = d[t]
        BY <4>2, <4>3
      <4>7. /\ c[l.dp].inum = d[l.dp].inum /\ c[l.dp].ref = d[l.dp].ref /\ c[l.dp].valid = d[l.dp].valid
            /\ c[l.dp].type = d[l.dp].type /\ c[l.dp].lock = d[l.dp].lock
        BY <1>2, <4>2, <4>3, <4>4 DEF Inodes
      <4> QED BY <1>2, <2>11, <4>2, <4>4, <4>5, <4>6, <4>7
    <3>2. CASE ~isdir
      <4>1. c = c1 /\ c1[l.ip] \in Inodes
        BY <1>2, <2>11, <3>2
      <4> HIDE DEF c
      <4> QED BY <1>2, <2>11, <4>1 DEF Inodes
    <3> QED BY <3>1, <3>2
  <2> HIDE DEF c
  <2>13. /\ icache' = Iunlock(c, l.dp) /\ proc' = [proc EXCEPT ![p] = m] /\ setup' = setup
    BY <1>5 DEF Step
  <2>14. /\ icache' \in [Slots -> Inodes] /\ icache'[l.dp].lock = None
         /\ \A t \in Slots : (t # l.dp => icache'[t] = c[t]) /\ Same(c[t], icache'[t]) /\ icache'[t].ref = c[t].ref
    BY <1>2, <2>12, <2>13, UnlockFacts
  <2>15. /\ \A j \in Inums : disk'[j] = IF up = j THEN Dinode(c[l.dp]) ELSE IF i = j THEN Dinode(c[l.ip]) ELSE disk[j]
         /\ disk' \in [Inums -> Dinodes]
    <3>1. c[l.dp].inum = up /\ c[l.ip].inum = i
      BY <2>12
    <3>2. disk' = Updated(c, S)
      BY <1>5
    <3>3. S = {l.dp, l.ip}
      OBVIOUS
    <3> HIDE DEF S, up, i
    <3>4. /\ DOMAIN disk' = Inums
          /\ \A j \in Inums : disk'[j] = IF up = j THEN Dinode(c[l.dp]) ELSE IF i = j THEN Dinode(c[l.ip]) ELSE disk[j]
      <4>1. c[l.dp].inum # c[l.ip].inum
        BY <1>2, <3>1
      <4>2. /\ DOMAIN Updated(c, S) = Inums
            /\ \A j \in Inums : Updated(c, S)[j] = IF c[l.dp].inum = j THEN Dinode(c[l.dp])
                                                   ELSE IF c[l.ip].inum = j THEN Dinode(c[l.ip]) ELSE disk[j]
        <5>1. l.dp \in S /\ l.ip \in S
          BY <3>3
        <5> QED BY <3>3, <4>1, <5>1, UpdatedTwo
      <4> QED BY <3>1, <3>2, <4>2
    <3>5. Dinode(c[l.dp]) \in Dinodes /\ Dinode(c[l.ip]) \in Dinodes
      <4>1. c[l.dp] \in Inodes /\ c[l.ip] \in Inodes
        BY <1>2, <2>12
      <4> QED BY <4>1 DEF Inodes, Dinodes, Dinode
    <3>6. \A j \in Inums : disk'[j] \in Dinodes
      BY <2>10, <3>4, <3>5
    <3>7. disk' = [j \in Inums |-> disk'[j]]
      BY <3>2 DEF Updated
    <3> QED BY <3>4, <3>6, <3>7
  <2>16. \A t \in {l.ip, l.dp} : Current(icache'[t], disk'[icache[t].inum])
    <3>1. disk'[up] = Dinode(c[l.dp]) /\ disk'[i] = Dinode(c[l.ip])
      BY <1>2, <2>15
    <3>2. Same(c[l.dp], icache'[l.dp]) /\ Same(c[l.ip], icache'[l.ip])
      BY <1>2, <2>14
    <3> QED BY <3>1, <3>2 DEF Current, Dinode, Same
  <2>17. \A j \in Inums : disk'[j].type = disk[j].type
    <3>1. c[l.dp].type = disk[up].type /\ c[l.ip].type = disk[i].type
      BY <1>2, <2>12 DEF Current
    <3> HIDE DEF up, i
    <3> QED BY <2>15, <3>1 DEF Dinode
  <2>18. Contents' /\ DOMAIN data' = Inums
    <3>1. up \in Inums /\ i \in Inums /\ disk[up].type # "free" /\ disk[i].type # "free"
      BY <1>2 DEF TypeAt
    <3>2. disk[up].type = "DIR" => IsDirectory(dir)
      <4> SUFFICES ASSUME disk[up].type = "DIR" PROVE IsDirectory(dir)
        OBVIOUS
      <4>1. IsDirectory(data[up])
        BY <3>1 DEF IInv, Contents
      <4> HIDE DEF i, up
      <4> QED BY <3>1, <4>1 DEF IsDirectory, Enlarged
    <3>3. disk[i].type = "DIR" => IsDirectory(new)
      BY <2>2, <3>1 DEF IsDirectory, Dots
    <3>4. data' = [data EXCEPT ![up] = dir, ![i] = new]
      BY <1>5
    <3> HIDE DEF up, i, dir, new
    <3>5. /\ DOMAIN data' = Inums /\ data'[up] = dir /\ data'[i] = new
          /\ \A j \in Inums \ {up, i} : data'[j] = data[j]
      BY <1>2, <2>10, <3>1, <3>4
    <3>6. ASSUME NEW j \in Inums
          PROVE  /\ disk'[j].type = "free" => data'[j] = NoData
                 /\ disk'[j].type = "DIR" => IsDirectory(data'[j])
      BY <2>17, <3>1, <3>2, <3>3, <3>5 DEF IInv, Contents
    <3> QED BY <3>5, <3>6 DEF Contents
  <2>19. Knows(p, m)
    <3>1. icache'[l.ip].inum = i /\ i \in Inums
      BY <1>2, <2>12, <2>14
    <3>2. disk'[i].type = TypeOf(l.call)
      BY <2>1, <2>17, <3>1
    <3> QED BY <2>7, <2>8, <3>1, <3>2 DEF Knows, ParentPoints
  <2>20. \A t \in Slots : icache[t].ref \in Nat /\ N(proc[p], t) \in Nat /\ (Held(proc[p], t) <=> icache[t].lock = p)
    BY NIsNat DEF IInv, DiskTypes, Inodes, Locks
  <2>21. GoesOn(p, m)
    <3>1. ASSUME NEW t \in Slots
          PROVE  /\ icache'[t].ref + N(proc[p], t) = icache[t].ref + N(m, t)
                 /\ Held(m, t) => Held(proc[p], t)
                 /\ icache'[t].lock = IF icache[t].lock = p /\ ~Held(m, t) THEN None ELSE icache[t].lock
                 /\ ~(icache[t].ref = 0 /\ icache'[t].ref > 0)
      <4>1. icache'[t].ref = icache[t].ref
        BY <2>12, <2>14
      <4>2. Held(m, t) <=> t = l.ip
        BY <2>9
      <4>3. CASE t = l.dp
        BY <1>2, <2>9, <2>14, <2>20, <4>1, <4>2, <4>3
      <4>4. CASE t # l.dp
        <5>1. icache'[t].lock = icache[t].lock
          BY <2>12, <2>14, <4>4
        <5> QED BY <1>2, <2>9, <2>20, <4>1, <4>2, <4>4, <5>1
      <4> QED BY <4>3, <4>4
    <3> QED BY <2>8, <2>13, <2>14, <3>1 DEF GoesOn
  <2>22. Edits(p)
    <3>1. ASSUME NEW t \in Slots
          PROVE  /\ icache[t].ref > 0 /\ ~Held(proc[p], t) => Same(icache[t], icache'[t])
                 /\ Held(proc[p], t) => /\ icache'[t].inum = icache[t].inum /\ icache'[t].valid = icache[t].valid
                                        /\ icache'[t].type # "free"
                                        /\ Current(icache'[t], disk'[icache[t].inum])
      <4>1. CASE t \in {l.ip, l.dp}
        BY <1>2, <2>12, <2>14, <2>16, <4>1 DEF Same
      <4>2. CASE t \notin {l.ip, l.dp}
        <5>1. icache'[t] = icache[t]
          BY <2>12, <2>14, <4>2
        <5> QED BY <1>2, <4>2, <5>1 DEF Same
      <4> QED BY <4>1, <4>2
    <3>2. ASSUME NEW j \in Inums, \A t \in Slots : Held(proc[p], t) => icache[t].inum # j
          PROVE  disk'[j] = disk[j]
      <4>1. up # j /\ i # j
        BY <1>2, <3>2
      <4> QED BY <2>15, <4>1
    <3>3. used' \subseteq Blocks
      BY <1>5, <2>10, <2>12
    <3> QED BY <2>15, <2>17, <2>18, <3>1, <3>2, <3>3 DEF Edits
  <2> QED BY <1>2, <2>8, <2>19, <2>21, <2>22, StepKept
<1> QED BY <1>3, <1>4, <1>5

-----------------------------------------------------------------------------
(* ialloc(), ilock() and iput().                                           *)

\* What the others have locked and what they know is not changed.
LEMMA OthersKept ==
  ASSUME IInv, NEW p \in Procs, NEW m, StepsControl(p, m), setup' = setup, Knows(p, m),
         \A t \in Slots : Held(m, t) => icache'[t].valid,
         \A q \in Procs \ {p}, t \in Slots : Held(proc[q], t) =>
            icache'[t].valid = icache[t].valid /\ (proc[q].pc # "put2" => Same(icache[t], icache'[t])),
         \A q \in Procs \ {p} : Place(proc[q]) \in ParentPoints \cup {"newinode", "created"} =>
            LET s == proc[q].ip
            IN icache'[s].inum = icache[s].inum /\ disk'[icache[s].inum].type = disk[icache[s].inum].type
  PROVE  /\ Controls' /\ Refs' /\ Locks' /\ Valids' /\ Kinds' /\ Permitted' /\ Bmaps'
         /\ DOMAIN proc' = Procs /\ proc'[p] = m /\ \A q \in Procs \ {p} : proc'[q] = proc[q]
<1>1. /\ Controls' /\ Refs' /\ Locks' /\ DOMAIN proc' = Procs /\ proc'[p] = m
      /\ \A q \in Procs \ {p} : proc'[q] = proc[q]
  BY StepControl
<1>2. NoBmapCall' <=> NoBmapCall
  BY DEF NoBmapCall
<1>3. Valids'
  <2> SUFFICES ASSUME NEW q \in Procs, NEW t \in Slots, Held(proc'[q], t) PROVE icache'[t].valid
    BY DEF Valids
  <2>1. CASE q = p
    BY <1>1, <2>1
  <2>2. CASE q # p
    BY <1>1, <2>2 DEF IInv, Valids
  <2> QED BY <2>1, <2>2
<1>4. Kinds'
  <2> SUFFICES ASSUME NEW q \in Procs
               PROVE  /\ Place(proc'[q]) \in ParentPoints => disk'[icache'[proc'[q].ip].inum].type = "DIR"
                      /\ Place(proc'[q]) \in {"newinode", "created"} =>
                            disk'[icache'[proc'[q].ip].inum].type = TypeOf(proc'[q].call)
    BY DEF Kinds, TypeAt
  <2>1. CASE q = p
    BY <1>1, <2>1 DEF Knows
  <2>2. CASE q # p
    BY <1>1, <2>2 DEF IInv, Kinds, TypeAt
  <2> QED BY <2>1, <2>2
<1>5. Permitted'
  <2> SUFFICES ASSUME NEW q \in Procs, proc'[q].pc = "install"
               PROVE  "CREATE" \in proc'[q].call.omode \/ ~Denied(icache'[proc'[q].ip], proc'[q].call.omode)
    BY DEF Permitted
  <2>1. CASE q = p
    BY <1>1, <2>1 DEF Knows
  <2>2. CASE q # p
    <3> DEFINE s == proc[q].ip
    <3>1. proc'[q] = proc[q] /\ ("CREATE" \in proc[q].call.omode \/ ~Denied(icache[s], proc[q].call.omode))
      BY <1>1, <2>2 DEF IInv, Permitted
    <3>2. Place(proc[q]) = "install" /\ ~Waits(proc[q])
      BY <3>1 DEF Place, Waits, Putting
    <3>3. Held(proc[q], s)
      BY <3>2 DEF Held, Main, LockPoints, IpPoints
    <3>4. Same(icache[s], icache'[s])
      BY <1>1, <2>2, <3>3, HeldRef
    <3> QED BY <3>1, <3>4 DEF Same, Denied
  <2> QED BY <2>1, <2>2
<1>6. Bmaps'
  BY <1>1, <1>2 DEF Bmaps, Knows, IInv
<1> QED BY <1>1, <1>3, <1>4, <1>5, <1>6

LEMMA CreateNewKept ==
  ASSUME IInv, NEW p \in Procs, CreateNew(p)
  PROVE  IInv'
<1> DEFINE l == proc[p]
           type == TypeOf(l.call)
<1>1. l.pc = "creating" /\ l.pc \in Ordinary
  BY DEF CreateNew, At, Ordinary, IpPoints, FoundPoints, ParentPoints
<1>2. /\ DOMAIN l = Fields /\ l.ip \in Slots /\ l.dp = None /\ l.put = None /\ l.cwd \in Slots
      /\ l.fd.ip \in Slots \cup {None} /\ (l.fd # NoFile => l.fd.ip \in Slots) /\ l.old = None
      /\ proc[p].pc # "put2" /\ Held(proc[p], l.ip) /\ Creates(l)
      /\ \A t \in Slots : /\ N(proc[p], t) = One(l.ip = t) + Rest(l, t)
                          /\ Held(proc[p], t) <=> t = l.ip
                          /\ One(l.ip = t) \in Int /\ Rest(l, t) \in Int
      /\ icache[l.ip].ref > 0
  BY <1>1, OrdinaryHere
<1>3. \/ \E w : Panic(w)
      \/ \E i \in Inums :
            /\ disk[i].type = "free" /\ Entry(icache, i) # None
            /\ Step(p, Lock([l EXCEPT !.pc = "newinode", !.ip = Entry(icache, i), !.dp = l.ip], Entry(icache, i)),
                    [Iget(icache, i) EXCEPT ![Entry(icache, i)].perm = M_ALL])
            /\ disk' = [disk EXCEPT ![i] = [Free EXCEPT !.type = type]]
            /\ data' = data /\ used' = used
  BY DEF CreateNew
<1>4. CASE \E w : Panic(w)
  BY <1>4, PanicKept DEF Panic
<1>5. ASSUME NEW i \in Inums, disk[i].type = "free", NEW new, new = Entry(icache, i), new # None,
             Step(p, Lock([l EXCEPT !.pc = "newinode", !.ip = new, !.dp = l.ip], new),
                  [Iget(icache, i) EXCEPT ![new].perm = M_ALL]),
             disk' = [disk EXCEPT ![i] = [Free EXCEPT !.type = type]], data' = data, used' = used
      PROVE  IInv'
  <2> DEFINE f == [l EXCEPT !.pc = "newinode", !.ip = new, !.dp = l.ip]
             m == Lock(f, new)
             c == Iget(icache, i)
  <2>0. /\ icache' = [c EXCEPT ![new].perm = M_ALL] /\ proc' = [proc EXCEPT ![p] = m] /\ setup' = setup
    BY <1>5 DEF Step
  <2>1. type \in Types \ {"free"}
    BY <1>2 DEF TypeOf, Creates, Types
  <2> HIDE DEF l, type
  <2>2. /\ icache \in [Slots -> Inodes] /\ used \subseteq Blocks /\ DOMAIN data = Inums /\ disk \in [Inums -> Dinodes]
        /\ \A t \in Slots : icache[t].ref \in Nat /\ icache[t] \in Inodes
    BY DEF IInv, DiskTypes, Inodes
  <2>3. /\ new \in Slots
        /\ icache[new].ref > 0 => icache[new].inum = i
        /\ icache[new].ref = 0 => \A s \in Slots : icache[s].ref > 0 => icache[s].inum # i
    BY <1>5, <2>2, EntryFacts
  <2>4. /\ c \in [Slots -> Inodes]
        /\ \A s \in Slots :
              /\ c[s].ref = icache[s].ref + One(new = s) /\ c[s].lock = icache[s].lock
              /\ icache[s].ref > 0 => Same(icache[s], c[s])
              /\ icache[s].ref = 0 /\ c[s].ref > 0 => s = new /\ c[s].valid = FALSE
              /\ s = new => c[s].inum = i
              /\ s # new => c[s] = icache[s]
    <3> DEFINE e == Entry(icache, i)
    <3>1. e # None
      BY <1>5
    <3>2. /\ c \in [Slots -> Inodes]
          /\ \A s \in Slots :
                /\ c[s].ref = icache[s].ref + One(e = s) /\ c[s].lock = icache[s].lock
                /\ icache[s].ref > 0 => Same(icache[s], c[s])
                /\ icache[s].ref = 0 /\ c[s].ref > 0 => s = e /\ c[s].valid = FALSE
                /\ s = e => c[s].inum = i
                /\ s # e => c[s] = icache[s]
      BY ZenonT(30), <2>2, <3>1, IgetFacts
    <3>3. e = new
      BY <1>5
    <3> HIDE DEF e, c
    <3> QED BY <3>2, <3>3
  <2> HIDE DEF c
  <2>5. /\ icache' \in [Slots -> Inodes] /\ icache'[new].inum = i /\ icache'[new].valid = c[new].valid
        /\ \A s \in Slots : /\ icache'[s].ref = icache[s].ref + One(new = s) /\ icache'[s].lock = icache[s].lock
                            /\ s # new => icache'[s] = icache[s]
                            /\ icache[s].ref > 0 => icache'[s].inum = icache[s].inum /\ icache'[s].valid = icache[s].valid
    <3>1. c[new] \in Inodes /\ M_ALL \in SUBSET M_ALL
      BY <2>3, <2>4
    <3>2. icache' \in [Slots -> Inodes]
      BY <2>0, <2>3, <2>4, <3>1 DEF Inodes
    <3>3. /\ icache'[new].inum = c[new].inum /\ icache'[new].valid = c[new].valid /\ icache'[new].ref = c[new].ref
          /\ icache'[new].lock = c[new].lock
      BY <2>0, <2>3, <2>4, <3>1 DEF Inodes
    <3>4. \A s \in Slots \ {new} : icache'[s] = c[s]
      BY <2>0, <2>4
    <3> QED BY <2>3, <2>4, <3>2, <3>3, <3>4 DEF Same
  <2>6. Alike(f, l, {"pc", "ip", "dp"}) /\ f.pc = "newinode" /\ f.ip = new /\ f.dp = l.ip
    BY <1>2 DEF Alike, Fields
  <2> HIDE DEF f
  <2>7. /\ f.old = None /\ f.cwd = l.cwd /\ f.fd = l.fd /\ f.call = l.call /\ f.put = None /\ DOMAIN f = Fields
    BY <1>2, <2>6 DEF Alike, Fields
  <2>8. Place(f) = "newinode" /\ ~Waits(f) /\ Aim(f) = "newinode" /\ Main(f) = new
    BY <2>6 DEF Place, Waits, Aim, Putting, WalkPoints, Main, IpPoints
  <2>9. Shape(f) /\ f.pc \in LockPoints /\ f.pc \notin Putting \cup {"lock", "install"}
    BY <1>2, <2>3, <2>6, <2>7, <2>8 DEF Shape, CallFits, Pointed, Creates, CodePoints, LockPoints, WalkPoints, FdPoints,
                                        IpPoints, FoundPoints, ParentPoints, Slots, None, Putting
  <2>10. m = Lock(f, Main(f))
    BY <2>8
  <2>11. /\ Shape(m) /\ Apart(m) /\ Place(m) = "newinode" /\ m.pc = "lock" /\ Alike(m, f, {"pc", "want", "locked"})
         /\ \A t : (Held(m, t) <=> f.pc \in {"newinode", "victim"} /\ t = f.dp) /\ N(m, t) = N(f, t)
    BY <2>6, <2>9, <2>10, LockShape
  <2> HIDE DEF m
  <2>12. m.ip = new /\ m.call = l.call /\ Control(m)
    BY <2>6, <2>7, <2>11 DEF Alike, Fields, Control
  <2>13. \A t \in Slots : N(m, t) = N(proc[p], t) + One(new = t) /\ (Held(m, t) <=> t = l.ip)
    <3> TAKE t \in Slots
    <3>1. \A b : One(b) \in Int
      BY DEF One
    <3>2. One(None = t) = 0
      BY DEF One, Slots, None
    <3>3. N(f, t) = One(new = t) + One(l.ip = t) + Rest(l, t)
      BY <1>2, <2>6, <2>7, <3>1, <3>2 DEF N, Rest
    <3> QED BY <1>2, <2>6, <2>11, <3>1, <3>3
  <2>14. StepsControl(p, m)
    <3>1. ASSUME NEW t \in Slots
          PROVE  /\ icache'[t].ref + N(proc[p], t) = icache[t].ref + N(m, t)
                 /\ Held(m, t) => icache'[t].lock = p /\ icache[t].lock \in {p, None}
                 /\ ~Held(m, t) => icache'[t].lock = IF icache[t].lock = p THEN None ELSE icache[t].lock
      <4>1. N(proc[p], t) \in Nat /\ One(new = t) \in Nat /\ (Held(proc[p], t) <=> icache[t].lock = p)
        BY NIsNat DEF IInv, Locks, One
      <4> QED BY <1>2, <2>2, <2>5, <2>13, <4>1
    <3> QED BY <2>0, <2>5, <2>12, <3>1 DEF StepsControl
  <2>15. disk' \in [Inums -> Dinodes] /\ disk'[i].type = type /\ \A j \in Inums \ {i} : disk'[j] = disk[j]
    <3>1. [Free EXCEPT !.type = type] \in Dinodes /\ [Free EXCEPT !.type = type].type = type
      BY <2>1 DEF Dinodes, Free
    <3> QED BY <1>5, <2>2, <3>1
  \* what another process has locked, or found or made, is not the new inode
  <2>16. ASSUME NEW q \in Procs, NEW t \in Slots, Held(proc[q], t), proc[q].pc # "put2"
         PROVE  t # new
    <3>1. icache[t].ref > 0 /\ icache[t].type # "free" /\ TypeAt(t) = icache[t].type
      BY <2>16, HeldCurrent
    <3> QED BY <1>5, <2>3, <3>1 DEF TypeAt
  <2>17. ASSUME NEW q \in Procs, Place(proc[q]) \in ParentPoints \cup {"newinode", "created"}
         PROVE  /\ icache'[proc[q].ip].inum = icache[proc[q].ip].inum
                /\ disk'[icache[proc[q].ip].inum].type = disk[icache[proc[q].ip].inum].type
    <3>1. proc[q].ip \in Slots /\ icache[proc[q].ip].ref > 0
      BY <2>17, PointsRef DEF IpPoints, FoundPoints, ParentPoints
    <3>2. TypeAt(proc[q].ip) # "free"
      <4>1. CASE Place(proc[q]) \in ParentPoints
        BY <4>1 DEF IInv, Kinds
      <4>2. CASE Place(proc[q]) \in {"newinode", "created"}
        <5>1. TypeAt(proc[q].ip) = TypeOf(proc[q].call)
          BY <4>2 DEF IInv, Kinds
        <5>2. Creates(proc[q])
          BY <4>2 DEF IInv, Controls, Control, Shape, CallFits, Aim, WalkPoints, Creates
        <5> QED BY <5>1, <5>2 DEF TypeOf, Creates
      <4> QED BY <2>17, <4>1, <4>2
    <3>3. icache[proc[q].ip].inum \in Inums \ {i}
      BY <1>5, <3>1, <3>2 DEF IInv, Cached, TypeAt
    <3> QED BY <2>5, <2>15, <3>1, <3>3
  <2>18. Knows(p, m)
    BY <2>5, <2>11, <2>12, <2>15 DEF Knows, ParentPoints, type
  <2>19. \A t \in Slots : Held(m, t) => icache'[t].valid
    BY <1>2, <2>5, <2>13, HeldRef
  <2>20. ASSUME NEW q \in Procs \ {p}, NEW t \in Slots, Held(proc[q], t)
         PROVE  icache'[t].valid = icache[t].valid /\ (proc[q].pc # "put2" => Same(icache[t], icache'[t]))
    <3>1. icache'[t].valid = icache[t].valid
      BY <2>5, <2>20, HeldRef
    <3>2. proc[q].pc # "put2" => Same(icache[t], icache'[t])
      BY <2>5, <2>16, <2>20 DEF Same
    <3> QED BY <3>1, <3>2
  <2>21. /\ Controls' /\ Refs' /\ Locks' /\ Valids' /\ Kinds' /\ Permitted' /\ Bmaps'
         /\ DOMAIN proc' = Procs /\ proc'[p] = m /\ \A q \in Procs \ {p} : proc'[q] = proc[q]
    BY <2>0, <2>14, <2>17, <2>18, <2>19, <2>20, OthersKept
  <2>22. DiskTypes'
    BY <1>5, <2>0, <2>2, <2>5, <2>15, <2>21 DEF IInv, DiskTypes
  <2>23. \A t \in Slots \ {new} : icache[t].ref > 0 => icache[t].inum # i
    BY <2>2, <2>3 DEF IInv, Cached, OneEntryPerInode
  <2>24. Cached'
    <3>1. \A t \in Slots : icache'[t].ref > 0 => icache'[t].inum \in Inums
      BY <1>5, <2>5 DEF IInv, Cached
    <3>2. \A s, t \in Slots : icache'[s].ref > 0 /\ icache'[t].ref > 0 /\ icache'[s].inum = icache'[t].inum => s = t
      BY <2>5, <2>23 DEF IInv, Cached, OneEntryPerInode
    <3> QED BY <3>1, <3>2 DEF Cached, OneEntryPerInode
  <2>25. \A t \in Slots : Freeing(t)' <=> Freeing(t)
    BY <1>2, <2>11, <2>21 DEF Freeing
  <2>26. NoBmapCall' <=> NoBmapCall
    BY <2>0 DEF NoBmapCall
  <2>27. Currents'
    <3> SUFFICES ASSUME NEW t \in Slots, icache'[t].ref > 0, icache'[t].valid, ~Freeing(t)'
                 PROVE  icache'[t].type # "free" /\ Current(icache[t], disk[icache[t].inum])'
      BY DEF Currents
    <3>1. CASE t = new
      <4>1. icache[new].ref > 0 /\ icache[new].valid
        BY <2>2, <2>3, <2>4, <2>5, <3>1 DEF Same
      <4>2. icache[new].type # "free" /\ disk[i].type = icache[new].type
        BY <2>3, <2>25, <3>1, <4>1 DEF IInv, Currents, Current
      <4> QED BY <1>5, <4>2
    <3>2. CASE t # new
      <4>1. icache'[t] = icache[t] /\ icache[t].ref > 0
        BY <2>5, <3>2
      <4>2. icache[t].type # "free" /\ Current(icache[t], disk[icache[t].inum])
        BY <2>25, <4>1 DEF IInv, Currents
      <4>3. disk'[icache[t].inum] = disk[icache[t].inum]
        BY <2>15, <2>23, <3>2, <4>1 DEF IInv, Cached
      <4> QED BY <2>26, <4>1, <4>2, <4>3 DEF Current
    <3> QED BY <3>1, <3>2
  <2>28. Contents'
    <3>1. data'[i] = NoData
      BY <1>5 DEF IInv, Contents
    <3>2. IsDirectory(NoData)
      BY DEF IsDirectory, NoData
    <3>3. ASSUME NEW j \in Inums
          PROVE  /\ disk'[j].type = "free" => data'[j] = NoData
                 /\ disk'[j].type = "DIR" => IsDirectory(data'[j])
      BY <1>5, <2>1, <2>15, <3>1, <3>2 DEF IInv, Contents
    <3> QED BY <3>3 DEF Contents
  <2> QED BY <2>21, <2>22, <2>24, <2>27, <2>28 DEF IInv
<1> QED BY <1>3, <1>4, <1>5

\* What a process locks, or waits to lock, it has a reference to.
LEMMA MainRef ==
  ASSUME IInv, NEW p \in Procs, Place(proc[p]) \in LockPoints
  PROVE  Main(proc[p]) \in Slots /\ icache[Main(proc[p])].ref > 0
<1> DEFINE l == proc[p]
           s == Main(l)
<1> HIDE DEF l
<1>1. Control(l) /\ Place(l) \in LockPoints
  BY DEF l, IInv, Controls
<1>2. s \in {l.ip, l.dp, l.old, l.fd.ip} /\ s \in Slots
  BY <1>1 DEF Main, Control, Shape, Pointed, LockPoints, IpPoints, FoundPoints, ParentPoints, FdPoints, WalkPoints, Aim
<1> HIDE DEF s
<1>3. N(l, s) > 0
  <2>1. \A b : One(b) \in {0, 1}
    BY DEF One
  <2>2. One(l.ip = s) = 1 \/ One(l.dp = s) = 1 \/ One(l.old = s) = 1 \/ One(l.fd.ip = s) = 1
    BY <1>2 DEF One
  <2> QED BY <2>1, <2>2 DEF N
<1>4. icache[s].ref > 0
  <2>1. icache[s].ref \in Nat /\ icache[s].ref >= N(l, s) /\ N(l, s) \in Nat
    BY <1>2, PointedRef DEF IInv, l
  <2> QED BY <1>3, <2>1
<1> QED BY <1>2, <1>4 DEF s, l

\* ilock() has returned.
LEMMA LockedShape ==
  ASSUME NEW l, Control(l), l.pc = "lock", NEW m, m = [l EXCEPT !.pc = l.locked, !.want = None]
  PROVE  /\ l.locked \in LockPoints /\ l.locked # "install" /\ Place(l) = l.locked /\ l.want = Main(l)
         /\ Shape(m) /\ Place(m) = Place(l) /\ m.pc = l.locked /\ ~Waits(m) /\ Alike(m, l, {"pc", "want"})
         /\ \A t : N(m, t) = N(l, t)
         /\ \A t : Held(m, t) <=> Held(l, t) \/ t = l.want
<1>1. Waits(l) /\ Place(l) = l.locked /\ l.locked \in LockPoints /\ l.want = Main(l) /\ l.locked # "install"
      /\ DOMAIN l = Fields
  BY DEF Control, Shape, Pointed, Waits, Place
<1>2. Alike(m, l, {"pc", "want"}) /\ m.pc = l.locked
  BY <1>1 DEF Alike, Fields
<1>3. /\ m.ip = l.ip /\ m.dp = l.dp /\ m.old = l.old /\ m.cwd = l.cwd /\ m.fd = l.fd /\ m.call = l.call
      /\ m.then = l.then /\ m.put = l.put /\ m.parent = l.parent /\ DOMAIN m = Fields
  BY <1>2 DEF Alike, Fields
<1>4. m.pc \notin Putting \cup {"lock"}
  BY <1>1, <1>2 DEF Putting, LockPoints, IpPoints, FdPoints, FoundPoints, ParentPoints
<1>5. Place(m) = Place(l) /\ ~Waits(m)
  BY <1>1, <1>2, <1>4 DEF Place, Waits, Putting
<1>6. Aim(m) = Aim(l) /\ Main(m) = Main(l)
  BY <1>3, <1>5 DEF Aim, Main
<1>7. CallFits(m)
  BY <1>3, <1>5, <1>6 DEF CallFits, Control, Shape
<1>8. Pointed(m)
  BY <1>3, <1>4, <1>5, <1>6 DEF Control, Shape, Pointed, Putting
<1>9. Shape(m)
  BY <1>3, <1>5, <1>7, <1>8 DEF Shape, Control
<1>10. \A t : N(m, t) = N(l, t)
  BY <1>3 DEF N
<1>11. \A t : Held(m, t) <=> Held(l, t) \/ t = l.want
  BY <1>1, <1>3, <1>4, <1>5, <1>6 DEF Held, Putting
<1> QED BY <1>1, <1>2, <1>5, <1>9, <1>10, <1>11

LEMMA IlockKept ==
  ASSUME IInv, NEW p \in Procs, Ilock(p)
  PROVE  IInv'
<1> DEFINE l == proc[p]
           s == l.want
           e == icache[s]
           d == disk[e.inum]
           loaded == [e EXCEPT !.valid = TRUE, !.lock = p, !.type = d.type, !.perm = d.perm,
                               !.nlink = d.nlink, !.addrs = d.addrs]
           n == IF e.valid THEN [e EXCEPT !.lock = p] ELSE loaded
           m == [l EXCEPT !.pc = l.locked, !.want = None]
<1>1. l.pc = "lock" /\ e.lock = None
  BY DEF Ilock, At
<1>2. \/ \E w : Panic(w)
      \/ (e.valid \/ d.type # "free") /\ Peek(p, m, [icache EXCEPT ![s] = n])
  BY DEF Ilock
<1>3. CASE \E w : Panic(w)
  BY <1>3, PanicKept DEF Panic
<1>4. CASE (e.valid \/ d.type # "free") /\ Peek(p, m, [icache EXCEPT ![s] = n])
  <2>1. /\ icache' = [icache EXCEPT ![s] = n] /\ disk' = disk /\ data' = data /\ used' = used /\ setup' = setup
        /\ proc' = [proc EXCEPT ![p] = m]
    BY <1>4 DEF Peek, Step
  <2>2. Control(l)
    BY DEF IInv, Controls
  <2>3. /\ l.locked \in LockPoints /\ l.locked # "install" /\ Place(l) = l.locked /\ s = Main(l)
        /\ Shape(m) /\ Place(m) = Place(l) /\ m.pc = l.locked /\ ~Waits(m) /\ Alike(m, l, {"pc", "want"})
        /\ \A t : N(m, t) = N(l, t)
        /\ \A t : Held(m, t) <=> Held(l, t) \/ t = s
    BY <1>1, <2>2, LockedShape
  <2>4. s \in Slots /\ icache[s].ref > 0
    BY <2>3, MainRef
  <2>5. m.ip = l.ip /\ m.dp = l.dp /\ m.call = l.call
    BY <2>3 DEF Alike, Fields
  <2>6. m.pc \notin Putting
    BY <2>3 DEF Putting, LockPoints, IpPoints, FdPoints, FoundPoints, ParentPoints
  <2> HIDE DEF m
  <2>7. /\ icache \in [Slots -> Inodes] /\ used \subseteq Blocks /\ DOMAIN data = Inums /\ disk \in [Inums -> Dinodes]
        /\ e \in Inodes /\ e.inum \in Inums /\ d \in Dinodes
        /\ \A t \in Slots : icache[t].ref \in Nat
    BY <2>4 DEF IInv, DiskTypes, Inodes, Cached
  <2>8. /\ n \in Inodes /\ n.lock = p /\ n.valid = TRUE /\ n.inum = e.inum /\ n.ref = e.ref
        /\ e.valid => Same(e, n)
        /\ ~e.valid => n.type = d.type /\ n.perm = d.perm /\ n.nlink = d.nlink /\ n.addrs = d.addrs
    <3> HIDE DEF e, d
    <3> QED BY <2>7 DEF Inodes, Dinodes, Same
  <2> HIDE DEF n
  <2>9. /\ icache' \in [Slots -> Inodes] /\ icache'[s] = n /\ \A t \in Slots \ {s} : icache'[t] = icache[t]
    BY <2>1, <2>4, <2>7, <2>8
  <2>10. \A q \in Procs, t \in Slots : icache[t].lock = q <=> Held(proc[q], t)
    BY DEF IInv, Locks
  <2>11. p # None /\ \A q \in Procs : ~Held(proc[q], s)
    BY <1>1, <2>4, <2>10, FsAssumption DEF FsAssumption, None
  <2>12. Apart(m)
    <3> SUFFICES ASSUME Place(l) \in {"newinode", "victim"} PROVE l.ip # l.dp
      BY <2>3, <2>5 DEF Apart
    <3>1. s = l.ip /\ Held(l, l.dp)
      BY <2>3 DEF Main, IpPoints, Held
    <3> QED BY <2>11, <3>1
  <2>13. StepsControl(p, m)
    <3>1. ASSUME NEW t \in Slots
          PROVE  /\ icache'[t].ref + N(proc[p], t) = icache[t].ref + N(m, t)
                 /\ Held(m, t) => icache'[t].lock = p /\ icache[t].lock \in {p, None}
                 /\ ~Held(m, t) => icache'[t].lock = IF icache[t].lock = p THEN None ELSE icache[t].lock
      <4>1. CASE t = s
        BY <1>1, <2>3, <2>8, <2>9, <4>1
      <4>2. CASE t # s
        BY <2>3, <2>9, <2>10, <4>2
      <4> QED BY <4>1, <4>2
    <3> QED BY <2>1, <2>3, <2>9, <2>12, <3>1 DEF StepsControl, Control
  <2>14. \A t \in Slots : icache'[t].inum = icache[t].inum /\ icache'[t].ref = icache[t].ref
    BY <2>8, <2>9
  <2>15. Knows(p, m)
    <3>1. Place(m) \in ParentPoints \cup {"newinode", "created"} => m.ip \in Slots
      BY <2>3 DEF Shape, Pointed, IpPoints, FoundPoints, ParentPoints, None
    <3>2. Place(m) \in ParentPoints \cup {"newinode", "created"} => icache'[m.ip].inum = icache[l.ip].inum
      BY <2>5, <2>14, <3>1
    <3> QED BY <2>1, <2>3, <2>5, <3>2 DEF Knows, IInv, Kinds, TypeAt, Bmaps
  <2>16. \A t \in Slots : Held(m, t) => icache'[t].valid
    BY <2>3, <2>8, <2>9 DEF IInv, Valids
  <2>17. \A q \in Procs \ {p}, t \in Slots : Held(proc[q], t) =>
            icache'[t].valid = icache[t].valid /\ (proc[q].pc # "put2" => Same(icache[t], icache'[t]))
    BY <2>9, <2>11 DEF Same
  <2>18. ASSUME NEW q \in Procs \ {p}, Place(proc[q]) \in ParentPoints \cup {"newinode", "created"}
         PROVE  /\ icache'[proc[q].ip].inum = icache[proc[q].ip].inum
                /\ disk'[icache[proc[q].ip].inum].type = disk[icache[proc[q].ip].inum].type
    <3>1. proc[q].ip \in Slots
      BY <2>18, PointsRef DEF IpPoints, FoundPoints, ParentPoints
    <3> QED BY <2>1, <2>14, <3>1
  <2>19. /\ Controls' /\ Refs' /\ Locks' /\ Valids' /\ Kinds' /\ Permitted' /\ Bmaps'
         /\ DOMAIN proc' = Procs /\ proc'[p] = m /\ \A q \in Procs \ {p} : proc'[q] = proc[q]
    BY <2>1, <2>13, <2>15, <2>16, <2>17, <2>18, OthersKept
  <2>20. DiskTypes'
    BY <2>1, <2>7, <2>9, <2>19 DEF IInv, DiskTypes
  <2>21. Cached'
    BY <2>14 DEF IInv, Cached, OneEntryPerInode
  <2>22. \A t \in Slots : Freeing(t)' <=> Freeing(t)
    BY <1>1, <2>6, <2>19 DEF Freeing, Putting
  <2>23. NoBmapCall' <=> NoBmapCall
    BY <2>1 DEF NoBmapCall
  <2>24. Currents'
    <3> SUFFICES ASSUME NEW t \in Slots, icache'[t].ref > 0, icache'[t].valid, ~Freeing(t)'
                 PROVE  icache'[t].type # "free" /\ Current(icache[t], disk[icache[t].inum])'
      BY DEF Currents
    <3>1. icache[t].ref > 0 /\ ~Freeing(t) /\ disk'[icache'[t].inum] = disk[icache[t].inum]
      BY <2>1, <2>14, <2>22
    <3>2. CASE t = s /\ ~e.valid
      <4>1. icache'[t] = n /\ disk'[icache'[t].inum] = d
        BY <2>9, <3>1, <3>2
      <4>2. d.type # "free"
        BY <1>4, <3>2
      <4> QED BY <2>8, <3>2, <4>1, <4>2 DEF Current
    <3>3. CASE t # s \/ e.valid
      <4>1. Same(icache[t], icache'[t])
        BY <2>8, <2>9, <3>3 DEF Same
      <4>2. icache[t].valid
        BY <4>1 DEF Same
      <4>3. icache[t].type # "free" /\ Current(icache[t], disk[icache[t].inum])
        BY <3>1, <4>2 DEF IInv, Currents
      <4> QED BY <2>23, <3>1, <4>1, <4>3 DEF Current, Same
    <3> QED BY <3>2, <3>3
  <2>25. Contents'
    BY <2>1 DEF IInv, Contents
  <2> QED BY <2>19, <2>20, <2>21, <2>24, <2>25 DEF IInv
<1> QED BY <1>2, <1>3, <1>4

\* iput() has returned, or has freed the inode.
LEMMA PutDone ==
  ASSUME NEW l, Control(l), l.pc \in Putting, NEW m, Alike(m, l, {"pc", "put"}), m.pc = l.after, m.put = None
  PROVE  /\ Control(m) /\ Place(m) = Place(l) /\ m.pc \notin Putting \cup {"install"} /\ m.ip = l.ip /\ m.call = l.call
         /\ l.put \in Slots
         /\ \A t \in Slots : /\ N(l, t) = N(m, t) + One(l.put = t)
                             /\ Held(l, t) <=> Held(m, t) \/ (l.pc = "put2" /\ t = l.put)
                             /\ l.pc = "put2" /\ t = l.put => ~Held(m, t)
<1>1. DOMAIN l = Fields /\ l.put \in Slots /\ Place(l) \in CodePoints /\ Place(l) # "install"
  BY DEF Control, Shape, Pointed, None, Slots
<1>2. Alike(m, l, {"pc", "put"}) /\ m.pc = l.after /\ m.put = None
  OBVIOUS
<1>3. /\ m.ip = l.ip /\ m.dp = l.dp /\ m.old = l.old /\ m.cwd = l.cwd /\ m.fd = l.fd /\ m.call = l.call
      /\ m.then = l.then /\ m.want = l.want /\ m.locked = l.locked /\ m.parent = l.parent /\ DOMAIN m = Fields
  BY <1>2 DEF Alike, Fields
<1>4. Place(l) = IF l.after = "lock" THEN l.locked ELSE l.after
  BY DEF Place, Waits, Putting
<1>5. m.pc \notin Putting \cup {"install"}
  BY <1>1, <1>2, <1>4 DEF Putting, CodePoints, LockPoints, IpPoints, FdPoints, FoundPoints, ParentPoints
<1>6. Place(m) = Place(l) /\ (Waits(m) <=> Waits(l))
  BY <1>2, <1>3, <1>4, <1>5 DEF Place, Waits, Putting
<1>7. Aim(m) = Aim(l) /\ Main(m) = Main(l)
  BY <1>3, <1>6 DEF Aim, Main
<1>8. CallFits(m)
  BY <1>3, <1>6, <1>7 DEF CallFits, Control, Shape
<1>9. Pointed(m)
  BY <1>1, <1>2, <1>3, <1>5, <1>6, <1>7 DEF Control, Shape, Pointed, Putting
<1>10. Control(m)
  BY <1>3, <1>6, <1>8, <1>9 DEF Control, Shape, Apart
<1>11. ASSUME NEW t \in Slots PROVE N(l, t) = N(m, t) + One(l.put = t)
  <2>1. One(None = t) = 0
    BY DEF One, Slots, None
  <2>2. \A b : One(b) \in Int
    BY DEF One
  <2> QED BY <1>2, <1>3, <2>1, <2>2 DEF N
<1>12. ASSUME NEW t \in Slots
       PROVE  /\ Held(l, t) <=> Held(m, t) \/ (l.pc = "put2" /\ t = l.put)
              /\ l.pc = "put2" /\ t = l.put => ~Held(m, t)
  <2>1. Held(l, t) <=> Held(m, t) \/ (l.pc = "put2" /\ t = l.put)
    BY <1>3, <1>5, <1>6, <1>7 DEF Held, Putting
  <2>2. l.pc = "put2" => l.put \notin {l.ip, l.dp, l.old, l.cwd, l.fd.ip}
    BY DEF Control, Shape, Pointed
  <2>3. l.pc = "put2" /\ t = l.put => ~Held(m, t)
    BY <1>3, <1>5, <2>2 DEF Held, Main, Putting
  <2> QED BY <2>1, <2>3
<1> QED BY <1>1, <1>3, <1>5, <1>6, <1>10, <1>11, <1>12

LEMMA FreeingShape ==
  ASSUME NEW l, Control(l), l.pc = "put", l.put \notin {l.ip, l.dp, l.old, l.cwd, l.fd.ip},
         NEW m, Alike(m, l, {"pc"}), m.pc = "put2"
  PROVE  /\ Control(m) /\ Place(m) = Place(l) /\ m.pc = "put2" /\ m.put = l.put /\ m.ip = l.ip /\ m.call = l.call
         /\ \A t : N(m, t) = N(l, t) /\ (Held(m, t) <=> Held(l, t) \/ t = l.put)
<1>1. DOMAIN l = Fields
  BY DEF Control, Shape
<1>2. Alike(m, l, {"pc"}) /\ m.pc = "put2"
  OBVIOUS
<1>3. /\ m.ip = l.ip /\ m.dp = l.dp /\ m.old = l.old /\ m.cwd = l.cwd /\ m.fd = l.fd /\ m.call = l.call
      /\ m.then = l.then /\ m.want = l.want /\ m.locked = l.locked /\ m.parent = l.parent /\ m.put = l.put
      /\ m.after = l.after /\ DOMAIN m = Fields
  BY <1>2 DEF Alike, Fields
<1>4. Place(m) = Place(l) /\ (Waits(m) <=> Waits(l))
  BY <1>2, <1>3 DEF Place, Waits, Putting
<1>5. Aim(m) = Aim(l) /\ Main(m) = Main(l)
  BY <1>3, <1>4 DEF Aim, Main
<1>6. CallFits(m)
  BY <1>3, <1>4, <1>5 DEF CallFits, Control, Shape
<1>7. Pointed(m)
  BY <1>2, <1>3, <1>4, <1>5 DEF Control, Shape, Pointed, Putting
<1>8. Control(m)
  BY <1>3, <1>4, <1>6, <1>7 DEF Control, Shape, Apart
<1>9. \A t : N(m, t) = N(l, t) /\ (Held(m, t) <=> Held(l, t) \/ t = l.put)
  BY <1>2, <1>3, <1>4, <1>5 DEF N, Held
<1> QED BY <1>2, <1>3, <1>4, <1>8, <1>9

\* A reference is dropped.
LEMMA PutKept ==
  ASSUME IInv, NEW p \in Procs, proc[p].pc = "put",
         Peek(p, [proc[p] EXCEPT !.pc = proc[p].after, !.put = None], [icache EXCEPT ![proc[p].put].ref = @ - 1])
  PROVE  IInv'
<1> DEFINE l == proc[p]
           s == l.put
           m == [l EXCEPT !.pc = l.after, !.put = None]
<1>1. /\ icache' = [icache EXCEPT ![s].ref = @ - 1] /\ disk' = disk /\ data' = data /\ used' = used /\ setup' = setup
      /\ proc' = [proc EXCEPT ![p] = m]
  BY DEF Peek, Step
<1>2. Control(l) /\ l.pc = "put" /\ l.pc \in Putting
  BY DEF IInv, Controls, Putting
<1>3. /\ Control(m) /\ Place(m) = Place(l) /\ m.pc \notin Putting \cup {"install"} /\ m.ip = l.ip /\ m.call = l.call
      /\ s \in Slots
      /\ \A t \in Slots : N(l, t) = N(m, t) + One(s = t) /\ (Held(l, t) <=> Held(m, t))
  <2>1. Alike(m, l, {"pc", "put"}) /\ m.pc = l.after /\ m.put = None
    <3>1. DOMAIN l = Fields
      BY <1>2 DEF Control, Shape
    <3> HIDE DEF l
    <3> QED BY <3>1 DEF Alike, Fields
  <2> HIDE DEF l, m
  <2>2. /\ Control(m) /\ Place(m) = Place(l) /\ m.pc \notin Putting \cup {"install"} /\ m.ip = l.ip
        /\ m.call = l.call /\ l.put \in Slots
        /\ \A t \in Slots : /\ N(l, t) = N(m, t) + One(l.put = t)
                            /\ Held(l, t) <=> Held(m, t) \/ (l.pc = "put2" /\ t = l.put)
    BY <1>2, <2>1, PutDone
  <2> QED BY <1>2, <2>2
<1> HIDE DEF m
<1>4. \A t \in Slots : icache[t].ref \in Nat /\ N(m, t) \in Nat /\ One(s = t) \in Nat
                       /\ (Held(l, t) <=> icache[t].lock = p) /\ icache[t] \in Inodes
  BY NIsNat DEF IInv, Locks, DiskTypes, Inodes, One
<1>5. icache[s].ref >= 1
  <2>1. icache[s].ref >= N(l, s)
    BY <1>3, PointedRef DEF IInv
  <2>2. One(s = s) = 1
    BY DEF One
  <2>3. N(l, s) = N(m, s) + 1
    BY <1>3, <2>2
  <2> QED BY <1>3, <1>4, <2>1, <2>3
<1> HIDE DEF l
<1>6. /\ icache' \in [Slots -> Inodes]
      /\ \A t \in Slots : /\ icache'[t].ref = icache[t].ref - One(s = t) /\ icache'[t].lock = icache[t].lock
                          /\ Same(icache[t], icache'[t])
  <2>0. icache \in [Slots -> Inodes]
    BY DEF IInv, DiskTypes
  <2> HIDE DEF s
  <2>1. icache' \in [Slots -> Inodes]
    BY <1>1, <1>3, <1>4, <1>5, <2>0 DEF Inodes
  <2>2. icache'[s].ref = icache[s].ref - 1 /\ icache'[s].lock = icache[s].lock /\ Same(icache[s], icache'[s])
    BY <1>1, <1>3, <1>4, <2>0 DEF Inodes, Same
  <2>3. \A t \in Slots \ {s} : icache'[t] = icache[t]
    BY <1>1, <2>0
  <2>4. \A t \in Slots : One(s = t) = IF s = t THEN 1 ELSE 0
    BY DEF One
  <2> QED BY <1>4, <2>1, <2>2, <2>3, <2>4 DEF Same
<1>7. GoesOn(p, m)
  <2>1. ASSUME NEW t \in Slots
        PROVE  /\ icache'[t].ref + N(proc[p], t) = icache[t].ref + N(m, t)
               /\ Held(m, t) => Held(proc[p], t)
               /\ icache'[t].lock = IF icache[t].lock = p /\ ~Held(m, t) THEN None ELSE icache[t].lock
               /\ ~(icache[t].ref = 0 /\ icache'[t].ref > 0)
    BY <1>3, <1>4, <1>6 DEF l
  <2> QED BY <1>1, <1>3, <1>6, <2>1 DEF GoesOn, Putting
<1>8. Knows(p, m)
  <2>1. Place(m) \in ParentPoints \cup {"newinode", "created"} => m.ip \in Slots
    BY <1>3 DEF Control, Shape, Pointed, IpPoints, FoundPoints, ParentPoints, None
  <2>2. Place(m) \in ParentPoints \cup {"newinode", "created"} => icache'[m.ip].inum = icache[l.ip].inum
    BY <1>3, <1>6, <2>1 DEF Same
  <2> QED BY <1>1, <1>3, <2>2 DEF Knows, IInv, Kinds, TypeAt, Bmaps, l
<1>9. Quiet1(p)
  BY <1>1, <1>6 DEF Quiet1
<1>10. proc[p].pc # "put2"
  BY <1>2 DEF l
<1> QED BY <1>7, <1>8, <1>9, <1>10, QuietKept

\* The only reference to an entry is p's.
LEMMA LastRef ==
  ASSUME IInv, NEW p \in Procs, NEW s \in Slots, icache[s].ref = 1, proc[p].put = s
  PROVE  /\ s \notin {proc[p].ip, proc[p].dp, proc[p].old, proc[p].cwd, proc[p].fd.ip}
         /\ \A q \in Procs \ {p} : s # proc[q].ip
<1> DEFINE l == proc[p]
<1>1. icache[s].ref = Cardinality(Others(p, s)) + N(proc[p], s) /\ Cardinality(Others(p, s)) \in Nat
  BY HoldersSplit DEF IInv, Refs
<1>2. N(l, s) \in Nat
  BY NIsNat
<1>3. One(l.put = s) = 1 /\ \A b : One(b) \in {0, 1}
  BY DEF One
<1>4. N(l, s) >= 1
  BY <1>3 DEF N
<1>5. N(l, s) = 1 /\ Cardinality(Others(p, s)) = 0
  BY <1>1, <1>2, <1>4
<1>6. s \notin {l.ip, l.dp, l.old, l.cwd, l.fd.ip}
  <2>1. /\ s = l.ip => One(l.ip = s) = 1
        /\ s = l.dp => One(l.dp = s) = 1
        /\ s = l.old => One(l.old = s) = 1
        /\ s = l.cwd => One(l.cwd = s) = 1
        /\ s = l.fd.ip => One(l.fd.ip = s) = 1
    BY DEF One
  <2> HIDE DEF l
  <2>2. One(l.ip = s) = 0 /\ One(l.dp = s) = 0 /\ One(l.old = s) = 0 /\ One(l.cwd = s) = 0 /\ One(l.fd.ip = s) = 0
    BY <1>3, <1>5 DEF N
  <2> QED BY <2>1, <2>2
<1>7. Others(p, s) = {}
  <2>1. IsFiniteSet(Others(p, s))
    BY HoldersFinite, FS_Subset DEF Others
  <2> QED BY <1>5, <2>1, FS_EmptySet
<1>8. ASSUME NEW q \in Procs \ {p} PROVE s # proc[q].ip
  <2>1. s = proc[q].ip => <<q, "ip">> \in Others(p, s)
    BY DEF Others, Holders, Pointer, Pointers
  <2> QED BY <1>7, <2>1
<1> QED BY <1>6, <1>8

LEMMA IputKept ==
  ASSUME IInv, NEW p \in Procs, Iput(p)
  PROVE  IInv'
<1> DEFINE l == proc[p]
           s == l.put
           e == icache[s]
           i == e.inum
           c == [icache EXCEPT ![s].lock = p, ![s].type = "free", ![s].addrs = {}]
           m == [l EXCEPT !.pc = "put2"]
           S == {s}
<1>1. l.pc = "put"
  BY DEF Iput, At
<1>2. \/ \E w : Panic(w)
      \/ Peek(p, [l EXCEPT !.pc = l.after, !.put = None], [icache EXCEPT ![s].ref = @ - 1])
      \/ /\ e.ref = 1 /\ e.valid /\ e.lock = None
         /\ Step(p, m, c) /\ disk' = Updated(c, S) /\ data' = [data EXCEPT ![i] = NoData] /\ used' = used \ e.addrs
  BY DEF Iput
<1>3. CASE \E w : Panic(w)
  BY <1>3, PanicKept DEF Panic
<1>4. CASE Peek(p, [l EXCEPT !.pc = l.after, !.put = None], [icache EXCEPT ![s].ref = @ - 1])
  BY <1>1, <1>4, PutKept
<1>5. CASE /\ e.ref = 1 /\ e.valid /\ e.lock = None
           /\ Step(p, m, c) /\ disk' = Updated(c, S) /\ data' = [data EXCEPT ![i] = NoData] /\ used' = used \ e.addrs
  <2>1. Control(l)
    BY DEF IInv, Controls
  <2>2. s \in Slots /\ DOMAIN l = Fields
    BY <1>1, <2>1 DEF Control, Shape, Pointed, Putting, None, Slots
  <2>3. /\ s \notin {l.ip, l.dp, l.old, l.cwd, l.fd.ip}
        /\ \A q \in Procs \ {p} : s # proc[q].ip
    BY <1>5, <2>2, LastRef
  <2>4. /\ icache' = c /\ proc' = [proc EXCEPT ![p] = m] /\ setup' = setup
        /\ disk' = Updated(c, S) /\ data' = [data EXCEPT ![i] = NoData] /\ used' = used \ e.addrs
    BY <1>5 DEF Step
  <2>5. /\ icache \in [Slots -> Inodes] /\ used \subseteq Blocks /\ DOMAIN data = Inums /\ disk \in [Inums -> Dinodes]
        /\ \A t \in Slots : icache[t].ref \in Nat /\ icache[t] \in Inodes
    BY DEF IInv, DiskTypes, Inodes
  <2>6. i \in Inums /\ \A t \in Slots \ {s} : icache[t].ref > 0 => icache[t].inum # i
    BY <1>5, <2>2, <2>5 DEF IInv, Cached, OneEntryPerInode
  <2>7. Alike(m, l, {"pc"}) /\ m.pc = "put2"
    <3> HIDE DEF l
    <3> QED BY <2>2 DEF Alike, Fields
  <2> HIDE DEF m
  <2>8. /\ Control(m) /\ Place(m) = Place(l) /\ m.put = s /\ m.ip = l.ip /\ m.call = l.call
        /\ \A t : N(m, t) = N(l, t) /\ (Held(m, t) <=> Held(l, t) \/ t = s)
    <3> HIDE DEF l
    <3>1. l.put \notin {l.ip, l.dp, l.old, l.cwd, l.fd.ip}
      BY <2>3
    <3>2. /\ Control(m) /\ Place(m) = Place(l) /\ m.put = l.put /\ m.ip = l.ip /\ m.call = l.call
          /\ \A t : N(m, t) = N(l, t) /\ (Held(m, t) <=> Held(l, t) \/ t = l.put)
      BY <1>1, <2>1, <2>7, <3>1, FreeingShape
    <3> QED BY <3>2
  <2>9. /\ c \in [Slots -> Inodes] /\ c[s].lock = p /\ c[s].inum = i /\ c[s].ref = e.ref /\ c[s].valid = e.valid
        /\ c[s].type = "free" /\ \A t \in Slots \ {s} : c[t] = icache[t]
    <3>1. e \in Inodes /\ {} \in SUBSET Blocks
      BY <2>2, <2>5
    <3>2. c = [icache EXCEPT ![s] = [[[e EXCEPT !.lock = p] EXCEPT !.type = "free"] EXCEPT !.addrs = {}]]
      BY <2>2, <2>5
    <3>3. [[[e EXCEPT !.lock = p] EXCEPT !.type = "free"] EXCEPT !.addrs = {}] \in Inodes
      BY <3>1 DEF Inodes, Types
    <3> HIDE DEF l, s
    <3> QED BY <2>2, <2>5, <3>1, <3>2, <3>3 DEF Inodes
  <2> HIDE DEF c
  <2>10. /\ \A j \in Inums : disk'[j] = IF i = j THEN Dinode(c[s]) ELSE disk[j]
         /\ disk' \in [Inums -> Dinodes]
    <3>1. S = {s}
      OBVIOUS
    <3> HIDE DEF S, s, i
    <3>2. \A j \in Inums : Updated(c, S)[j] = IF c[s].inum = j THEN Dinode(c[s]) ELSE disk[j]
      BY <3>1, UpdatedOne
    <3>3. Dinode(c[s]) \in Dinodes
      <4>1. c[s] \in Inodes
        BY <2>2, <2>9
      <4> QED BY <4>1 DEF Inodes, Dinodes, Dinode
    <3>4. \A j \in Inums : disk'[j] = IF i = j THEN Dinode(c[s]) ELSE disk[j]
      BY <2>4, <2>9, <3>2
    <3>5. disk' = [j \in Inums |-> disk'[j]]
      BY <2>4 DEF Updated
    <3>6. \A j \in Inums : disk'[j] \in Dinodes
      BY <2>5, <3>3, <3>4
    <3> QED BY <3>4, <3>5, <3>6
  <2>11. \A q \in Procs, t \in Slots : icache[t].lock = q <=> Held(proc[q], t)
    BY DEF IInv, Locks
  <2>12. p # None /\ \A q \in Procs : ~Held(proc[q], s)
    BY <1>5, <2>2, <2>11, FsAssumption DEF FsAssumption, None
  <2>13. StepsControl(p, m)
    <3>1. ASSUME NEW t \in Slots
          PROVE  /\ icache'[t].ref + N(proc[p], t) = icache[t].ref + N(m, t)
                 /\ Held(m, t) => icache'[t].lock = p /\ icache[t].lock \in {p, None}
                 /\ ~Held(m, t) => icache'[t].lock = IF icache[t].lock = p THEN None ELSE icache[t].lock
      <4>1. CASE t = s
        BY <1>5, <2>4, <2>8, <2>9, <4>1
      <4>2. CASE t # s
        BY <2>4, <2>8, <2>9, <2>11, <4>2
      <4> QED BY <4>1, <4>2
    <3> QED BY <2>4, <2>8, <2>9, <3>1 DEF StepsControl
  \* what a process has found or made is not the inode that is freed
  <2>14. ASSUME NEW q \in Procs, Place(proc[q]) \in ParentPoints \cup {"newinode", "created"}
         PROVE  /\ icache'[proc[q].ip].inum = icache[proc[q].ip].inum
                /\ disk'[icache[proc[q].ip].inum].type = disk[icache[proc[q].ip].inum].type
    <3>1. proc[q].ip \in Slots /\ icache[proc[q].ip].ref > 0
      BY <2>14, PointsRef DEF IpPoints, FoundPoints, ParentPoints
    <3>2. proc[q].ip # s
      BY <2>3
    <3>3. icache[proc[q].ip].inum \in Inums \ {i}
      BY <2>6, <3>1, <3>2 DEF IInv, Cached
    <3> QED BY <2>4, <2>9, <2>10, <3>1, <3>2, <3>3
  <2>15. Knows(p, m)
    <3>1. Place(m) \in ParentPoints \cup {"newinode", "created"} =>
             disk'[icache'[m.ip].inum].type = disk[icache[m.ip].inum].type
      BY <2>8, <2>14
    <3> QED BY <2>7, <2>8, <3>1 DEF Knows, IInv, Kinds, TypeAt, Bmaps
  <2>16. \A t \in Slots : Held(m, t) => icache'[t].valid
    BY <1>5, <2>4, <2>8, <2>9 DEF IInv, Valids
  <2>17. \A q \in Procs \ {p}, t \in Slots : Held(proc[q], t) =>
            icache'[t].valid = icache[t].valid /\ (proc[q].pc # "put2" => Same(icache[t], icache'[t]))
    BY <2>4, <2>9, <2>12 DEF Same
  <2>18. /\ Controls' /\ Refs' /\ Locks' /\ Valids' /\ Kinds' /\ Permitted' /\ Bmaps'
         /\ DOMAIN proc' = Procs /\ proc'[p] = m /\ \A q \in Procs \ {p} : proc'[q] = proc[q]
    BY <2>4, <2>13, <2>14, <2>15, <2>16, <2>17, OthersKept
  <2>19. DiskTypes'
    <3>1. DOMAIN data' = Inums /\ used' \subseteq Blocks
      BY <2>4, <2>5
    <3> QED BY <2>4, <2>9, <2>10, <2>18, <3>1 DEF IInv, DiskTypes
  <2>20. Cached'
    <3>1. \A t \in Slots : icache'[t].inum = icache[t].inum /\ icache'[t].ref = icache[t].ref
      BY <2>4, <2>9
    <3> QED BY <3>1 DEF IInv, Cached, OneEntryPerInode
  <2>21. \A t \in Slots : t = s \/ Freeing(t) => Freeing(t)'
    BY <1>1, <2>7, <2>8, <2>18 DEF Freeing
  <2>22. NoBmapCall' <=> NoBmapCall
    BY <2>4 DEF NoBmapCall
  <2>23. Currents'
    <3> SUFFICES ASSUME NEW t \in Slots, icache'[t].ref > 0, icache'[t].valid, ~Freeing(t)'
                 PROVE  icache'[t].type # "free" /\ Current(icache[t], disk[icache[t].inum])'
      BY DEF Currents
    <3>1. t # s /\ ~Freeing(t)
      BY <2>21
    <3>2. icache'[t] = icache[t] /\ icache[t].ref > 0 /\ icache[t].valid
      BY <2>4, <2>9, <3>1
    <3>3. icache[t].type # "free" /\ Current(icache[t], disk[icache[t].inum])
      BY <3>1, <3>2 DEF IInv, Currents
    <3>4. disk'[icache[t].inum] = disk[icache[t].inum]
      BY <2>6, <2>10, <3>1, <3>2 DEF IInv, Cached
    <3> QED BY <2>22, <3>2, <3>3, <3>4 DEF Current
  <2>24. Contents'
    <3>1. disk'[i].type = "free" /\ \A j \in Inums \ {i} : disk'[j] = disk[j]
      <4>1. disk'[i] = Dinode(c[s])
        BY <2>6, <2>10
      <4> QED BY <2>9, <2>10, <4>1 DEF Dinode
    <3>0. data'[i] = NoData /\ \A j \in Inums \ {i} : data'[j] = data[j]
      <4> HIDE DEF i
      <4> QED BY <2>4, <2>5, <2>6
    <3>2. ASSUME NEW j \in Inums
          PROVE  /\ disk'[j].type = "free" => data'[j] = NoData
                 /\ disk'[j].type = "DIR" => IsDirectory(data'[j])
      BY <3>0, <3>1 DEF IInv, Contents
    <3> QED BY <3>2 DEF Contents
  <2> QED BY <2>18, <2>19, <2>20, <2>23, <2>24 DEF IInv
<1> QED BY <1>2, <1>3, <1>4, <1>5

LEMMA Iput2Kept ==
  ASSUME IInv, NEW p \in Procs, Iput2(p)
  PROVE  IInv'
<1> DEFINE l == proc[p]
           s == l.put
           e == icache[s]
           c == [icache EXCEPT ![s].valid = FALSE, ![s].lock = None, ![s].ref = @ - 1]
           m == [l EXCEPT !.pc = l.after, !.put = None]
<1>1. l.pc = "put2" /\ l.pc \in Putting
  BY DEF Iput2, At, Putting
<1>2. /\ icache' = c /\ disk' = disk /\ data' = data /\ used' = used /\ setup' = setup
      /\ proc' = [proc EXCEPT ![p] = m]
  BY DEF Iput2, Peek, Step
<1>3. Control(l) /\ DOMAIN l = Fields
  BY DEF IInv, Controls, Control, Shape
<1>4. /\ Control(m) /\ Place(m) = Place(l) /\ m.pc \notin Putting \cup {"install"} /\ m.ip = l.ip /\ m.call = l.call
      /\ s \in Slots
      /\ \A t \in Slots : N(l, t) = N(m, t) + One(s = t) /\ (Held(l, t) <=> Held(m, t) \/ t = s) /\ ~Held(m, s)
  <2>1. Alike(m, l, {"pc", "put"}) /\ m.pc = l.after /\ m.put = None
    <3> HIDE DEF l
    <3> QED BY <1>3 DEF Alike, Fields
  <2> HIDE DEF l, m
  <2>2. /\ Control(m) /\ Place(m) = Place(l) /\ m.pc \notin Putting \cup {"install"} /\ m.ip = l.ip
        /\ m.call = l.call /\ l.put \in Slots
        /\ \A t \in Slots : /\ N(l, t) = N(m, t) + One(l.put = t)
                            /\ Held(l, t) <=> Held(m, t) \/ (l.pc = "put2" /\ t = l.put)
                            /\ l.pc = "put2" /\ t = l.put => ~Held(m, t)
    BY <1>1, <1>3, <2>1, PutDone
  <2> QED BY <1>1, <2>2
<1> HIDE DEF m
<1>5. /\ icache \in [Slots -> Inodes] /\ used \subseteq Blocks /\ DOMAIN data = Inums /\ disk \in [Inums -> Dinodes]
      /\ \A t \in Slots : icache[t].ref \in Nat /\ icache[t] \in Inodes /\ N(m, t) \in Nat
                          /\ \A q \in Procs : icache[t].lock = q <=> Held(proc[q], t)
  BY NIsNat DEF IInv, DiskTypes, Inodes, Locks
<1>6. e.ref >= 1
  <2>1. icache[s].ref >= N(l, s)
    BY <1>4, PointedRef DEF IInv
  <2>2. One(s = s) = 1
    BY DEF One
  <2>3. N(l, s) = N(m, s) + 1
    BY <1>4, <2>2
  <2> QED BY <1>4, <1>5, <2>1, <2>3
<1>7. e.lock = p /\ p # None
  BY <1>4, <1>5, FsAssumption DEF FsAssumption, None
<1>8. /\ c \in [Slots -> Inodes] /\ c[s].lock = None /\ c[s].inum = e.inum /\ c[s].ref = e.ref - 1 /\ c[s].valid = FALSE
      /\ \A t \in Slots \ {s} : c[t] = icache[t]
  <2>1. e \in Inodes /\ e.ref - 1 \in Nat
    BY <1>4, <1>5, <1>6
  <2>2. c = [icache EXCEPT ![s] = [[[e EXCEPT !.valid = FALSE] EXCEPT !.lock = None] EXCEPT !.ref = e.ref - 1]]
    BY <1>4, <1>5, <2>1 DEF Inodes
  <2>3. [[[e EXCEPT !.valid = FALSE] EXCEPT !.lock = None] EXCEPT !.ref = e.ref - 1] \in Inodes
    BY <2>1 DEF Inodes
  <2> HIDE DEF c, s
  <2> QED BY <1>4, <1>5, <2>1, <2>2, <2>3 DEF Inodes
<1> HIDE DEF c
<1>9. StepsControl(p, m)
  <2>1. ASSUME NEW t \in Slots
        PROVE  /\ icache'[t].ref + N(proc[p], t) = icache[t].ref + N(m, t)
               /\ Held(m, t) => icache'[t].lock = p /\ icache[t].lock \in {p, None}
               /\ ~Held(m, t) => icache'[t].lock = IF icache[t].lock = p THEN None ELSE icache[t].lock
    <3>1. CASE t = s
      <4>1. One(s = t) = 1
        BY <3>1 DEF One
      <4> QED BY <1>2, <1>4, <1>5, <1>7, <1>8, <3>1, <4>1
    <3>2. CASE t # s
      <4>1. One(s = t) = 0
        BY <3>2 DEF One
      <4> QED BY <1>2, <1>4, <1>5, <1>8, <3>2, <4>1
    <3> QED BY <3>1, <3>2
  <2> QED BY <1>2, <1>4, <1>8, <2>1 DEF StepsControl
<1>10. \A t \in Slots : icache'[t].inum = icache[t].inum
  BY <1>2, <1>8
<1>11. ASSUME NEW q \in Procs, Place(proc[q]) \in ParentPoints \cup {"newinode", "created"}
       PROVE  /\ icache'[proc[q].ip].inum = icache[proc[q].ip].inum
              /\ disk'[icache[proc[q].ip].inum].type = disk[icache[proc[q].ip].inum].type
  <2>1. proc[q].ip \in Slots
    BY <1>11, PointsRef DEF IpPoints, FoundPoints, ParentPoints
  <2> QED BY <1>2, <1>10, <2>1
<1>12. Knows(p, m)
  <2>1. Place(m) \in ParentPoints \cup {"newinode", "created"} =>
           disk'[icache'[m.ip].inum].type = disk[icache[m.ip].inum].type
    BY <1>4, <1>11
  <2> QED BY <1>4, <2>1 DEF Knows, IInv, Kinds, TypeAt, Bmaps
<1>13. \A t \in Slots : Held(m, t) => icache'[t].valid
  BY <1>2, <1>4, <1>8 DEF IInv, Valids
<1>14. \A q \in Procs \ {p}, t \in Slots : Held(proc[q], t) =>
          icache'[t].valid = icache[t].valid /\ (proc[q].pc # "put2" => Same(icache[t], icache'[t]))
  BY <1>2, <1>4, <1>5, <1>7, <1>8 DEF Same
<1>15. /\ Controls' /\ Refs' /\ Locks' /\ Valids' /\ Kinds' /\ Permitted' /\ Bmaps'
       /\ DOMAIN proc' = Procs /\ proc'[p] = m /\ \A q \in Procs \ {p} : proc'[q] = proc[q]
  BY <1>2, <1>9, <1>11, <1>12, <1>13, <1>14, OthersKept
<1>16. DiskTypes'
  BY <1>2, <1>5, <1>8, <1>15 DEF IInv, DiskTypes
<1>17. Cached'
  <2>1. \A t \in Slots : icache'[t].inum = icache[t].inum /\ (icache'[t].ref > 0 => icache[t].ref > 0)
    BY <1>2, <1>5, <1>6, <1>8, <1>10
  <2> QED BY <2>1 DEF IInv, Cached, OneEntryPerInode
<1>18. \A t \in Slots \ {s} : Freeing(t) => Freeing(t)'
  BY <1>15 DEF Freeing
<1>19. NoBmapCall' <=> NoBmapCall
  BY <1>2 DEF NoBmapCall
<1>20. Currents'
  <2> SUFFICES ASSUME NEW t \in Slots, icache'[t].ref > 0, icache'[t].valid, ~Freeing(t)'
               PROVE  icache'[t].type # "free" /\ Current(icache[t], disk[icache[t].inum])'
    BY DEF Currents
  <2>1. t # s
    BY <1>2, <1>8
  <2>2. icache'[t] = icache[t] /\ icache[t].ref > 0 /\ icache[t].valid /\ ~Freeing(t)
    BY <1>2, <1>8, <1>18, <2>1
  <2> QED BY <1>2, <1>19, <2>2 DEF IInv, Currents, Current
<1>21. Contents'
  BY <1>2 DEF IInv, Contents
<1> QED BY <1>15, <1>16, <1>17, <1>20, <1>21 DEF IInv

-----------------------------------------------------------------------------
(* The invariant.                                                          *)

LEMMA InitIInv ==
  ASSUME Init
  PROVE  IInv
<1> DEFINE L(p) == [pc |-> "idle", call |-> [fn |-> "none"], path |-> <<>>, parent |-> FALSE, name |-> "",
                    ip |-> None, dp |-> None, old |-> None, depth |-> 0, stack |-> <<>>, target |-> NoData,
                    then |-> "idle", want |-> None, locked |-> "idle", put |-> None, after |-> "idle",
                    cwd |-> 1, fd |-> NoFile, left |-> setup.left[p]]
<1>1. /\ setup \in Setups
      /\ disk = [i \in Inums |-> IF i \in DOMAIN setup.image THEN setup.image[i].inode ELSE Free]
      /\ data = [i \in Inums |-> IF i \in DOMAIN setup.image THEN setup.image[i].data ELSE NoData]
      /\ used = UNION {disk[i].addrs : i \in Inums}
      /\ icache = [s \in Slots |-> IF s = 1 THEN [NoInode EXCEPT !.inum = Root, !.ref = Cardinality(Procs)]
                                   ELSE NoInode]
      /\ proc = [p \in Procs |-> Idle(L(p))]
  BY DEF Init, ImageDisk, ImageData
<1>2. 1 \in Slots /\ None \notin Slots /\ 1 \in Inums /\ Root \in 0 .. NInodes /\ None \in 0 .. NInodes
  BY FsAssumption DEF FsAssumption, Slots, Inums, None, Root
<1>3. \A p \in Procs : /\ DOMAIN L(p) = Fields /\ L(p).put = None /\ L(p).cwd = 1 /\ L(p).fd = NoFile
                       /\ L(p).ip = None /\ L(p).dp = None /\ L(p).old = None
  BY DEF Fields
<1>4. NoFile.ip = None
  BY DEF NoFile
<1>5. ASSUME NEW p \in Procs
      PROVE  /\ Control(proc[p]) /\ Place(proc[p]) = "idle" /\ proc[p].pc = "idle" /\ \A t : ~Held(proc[p], t)
             /\ proc[p].ip = None /\ proc[p].dp = None /\ proc[p].old = None /\ proc[p].put = None
             /\ proc[p].cwd = 1 /\ proc[p].fd.ip = None
  <2> DEFINE l == L(p)
             m == Idle(l)
  <2>1. DOMAIN l = Fields /\ l.put = None /\ l.cwd = 1 /\ l.fd = NoFile
    BY <1>3
  <2>2. proc[p] = m
    BY <1>1
  <2> HIDE DEF l
  <2>3. Shape(m) /\ Apart(m) /\ Place(m) = "idle" /\ m.pc = "idle" /\ m.fd = l.fd /\ \A t : ~Held(m, t)
    BY <1>2, <1>4, <2>1, IdleShape
  <2>4. m.ip = None /\ m.dp = None /\ m.old = None /\ m.put = None /\ m.cwd = 1
    BY <2>1 DEF Idle, Fields
  <2> QED BY <1>4, <2>1, <2>2, <2>3, <2>4 DEF Control
<1>6. disk \in [Inums -> Dinodes] /\ Contents
  <2>1. \A i \in DOMAIN setup.image :
           setup.image[i].inode \in [type : {"DIR", "FILE", "SYMLINK"}, perm : SUBSET M_ALL, nlink : Nat \ {0},
                                     addrs : SUBSET Blocks]
    BY <1>1, SetupsAssumption DEF SetupsAssumption, IsImage
  <2>2. Free \in Dinodes /\ Free.type = "free"
    BY DEF Free, Dinodes, Types
  <2>3. ASSUME NEW i \in Inums
        PROVE  disk[i] \in Dinodes /\ (disk[i].type = "free" => data[i] = NoData)
    <3>1. CASE i \in DOMAIN setup.image
      <4>1. disk[i] = setup.image[i].inode /\ data[i] = setup.image[i].data
        BY <1>1, <3>1
      <4>2. disk[i] \in [type : {"DIR", "FILE", "SYMLINK"}, perm : SUBSET M_ALL, nlink : Nat \ {0}, addrs : SUBSET Blocks]
        BY <2>1, <3>1, <4>1
      <4> QED BY <4>2 DEF Dinodes, Types
    <3>2. CASE i \notin DOMAIN setup.image
      BY <1>1, <2>2, <3>2
    <3> QED BY <3>1, <3>2
  <2>4. \A i \in Inums : disk[i].type = "DIR" => IsDirectory(data[i])
    <3>1. disk = ImageDisk(setup.image) /\ data = ImageData(setup.image)
      BY DEF Init
    <3>2. IsTree(disk, data)
      BY <1>1, <3>1, SetupsAssumption DEF SetupsAssumption, IsImage
    <3> QED BY <3>2 DEF IsTree, IsDirectory
  <2> QED BY <1>1, <2>3, <2>4 DEF Contents
<1>7. Cardinality(Procs) \in Nat /\ IsFiniteSet(Procs)
  BY FsAssumption, FS_CardinalityType DEF FsAssumption
<1>8. /\ icache \in [Slots -> Inodes]
      /\ icache[1].inum = Root /\ icache[1].ref = Cardinality(Procs)
      /\ \A s \in Slots : icache[s].valid = FALSE /\ icache[s].lock = None /\ (s # 1 => icache[s].ref = 0)
  <2> DEFINE first == [NoInode EXCEPT !.inum = Root, !.ref = Cardinality(Procs)]
  <2>1. NoInode \in Inodes /\ NoInode.valid = FALSE /\ NoInode.lock = None /\ NoInode.ref = 0
    BY <1>2 DEF NoInode, Inodes, Types
  <2>2. /\ first \in Inodes /\ first.valid = FALSE /\ first.lock = None
        /\ first.inum = Root /\ first.ref = Cardinality(Procs)
    <3>1. NoInode \in Inodes /\ Root \in 0 .. NInodes /\ Cardinality(Procs) \in Nat
      BY <1>2, <1>7, <2>1
    <3>2. NoInode.valid = FALSE /\ NoInode.lock = None
      BY <2>1
    <3> QED BY <3>1, <3>2 DEF Inodes
  <2>3. icache = [s \in Slots |-> IF s = 1 THEN first ELSE NoInode]
    BY <1>1
  <2> HIDE DEF first
  <2> QED BY <1>2, <2>1, <2>2, <2>3
<1>9. DiskTypes
  <2>1. used \subseteq Blocks
    BY <1>1, <1>6 DEF Dinodes
  <2> QED BY <1>1, <1>6, <1>8, <2>1 DEF DiskTypes
<1>10. Refs
  <2> SUFFICES ASSUME NEW s \in Slots PROVE icache[s].ref = Cardinality(Holders(s))
    BY DEF Refs
  <2>1. \A h \in Procs \X Pointers : Pointer(h[1], h[2]) = IF h[2] = "cwd" THEN 1 ELSE None
    BY <1>5 DEF Pointers, Pointer
  <2>2. CASE s = 1
    <3> DEFINE f == [p \in Procs |-> <<p, "cwd">>]
               H == Holders(s)
    <3>1. \A h : h \in H <=> h \in Procs \X Pointers /\ h[2] = "cwd"
      BY <2>1, <2>2 DEF Holders, None
    <3> HIDE DEF H
    <3>2. \A h \in H : h = <<h[1], "cwd">> /\ h[1] \in Procs
      BY <3>1
    <3>3. \A p \in Procs : <<p, "cwd">> \in H
      BY <3>1 DEF Pointers
    <3>4. f \in Bijection(Procs, H)
      BY <3>2, <3>3 DEF Bijection, Injection, Surjection, IsInjective
    <3>5. Cardinality(H) = Cardinality(Procs)
      BY <1>7, <3>4, FS_Bijection DEF ExistsBijection
    <3> QED BY <1>8, <2>2, <3>5 DEF H
  <2>3. CASE s # 1
    <3>1. Holders(s) = {}
      BY <1>2, <2>1, <2>3 DEF Holders
    <3> QED BY <1>8, <2>3, <3>1, FS_EmptySet
  <2> QED BY <2>2, <2>3
<1>11. Locks
  BY <1>5, <1>8, FsAssumption DEF Locks, FsAssumption, None
<1>12. Cached
  BY <1>2, <1>8 DEF Cached, OneEntryPerInode, Root
<1>13. Controls /\ Valids /\ Currents
  BY <1>5, <1>8 DEF Controls, Valids, Currents
<1>14. Kinds /\ Permitted /\ Bmaps
  BY <1>5 DEF Kinds, Permitted, Bmaps, ParentPoints
<1> QED BY <1>6, <1>9, <1>10, <1>11, <1>12, <1>13, <1>14 DEF IInv

LEMMA NextIInv ==
  ASSUME IInv, [Next]_vars
  PROVE  IInv'
<1>1. CASE UNCHANGED vars
  BY <1>1, PanicKept DEF vars
<1>2. ASSUME NEW p \in Procs, Enter(p) PROVE IInv'
  BY <1>2, EnterKept
<1>3. ASSUME NEW p \in Procs, Continue(p) PROVE IInv'
  <2>1. CASE Ilock(p) \/ Iput(p) \/ Iput2(p)
    BY <2>1, IlockKept, IputKept, Iput2Kept
  <2>2. CASE Look(p) \/ Link(p) \/ ReadLink(p) \/ Follow(p)
    BY <2>2, LookKept, LinkKept, ReadLinkKept, FollowKept
  <2>3. CASE CreateOld(p) \/ Exists(p) \/ CreateNew(p) \/ NewInode(p) \/ Created(p)
    BY <2>3, CreateOldKept, ExistsKept, CreateNewKept, NewInodeKept, CreatedKept
  <2>4. CASE OpenLink(p) \/ OpenCheck(p) \/ Install(p) \/ Chmod(p) \/ Chdir(p)
    BY <2>4, OpenLinkKept, OpenCheckKept, InstallKept, ChmodKept, ChdirKept
  <2>5. CASE Unlinking(p) \/ Victim(p) \/ UnlinkBad(p) \/ Unlinked(p)
    BY <2>5, UnlinkingKept, VictimKept, UnlinkBadKept, UnlinkedKept
  <2>6. CASE LinkOld(p) \/ Linking(p) \/ NotLinked(p) \/ Linked(p) \/ LinkBad(p)
    BY <2>6, LinkOldKept, LinkingKept, NotLinkedKept, LinkedKept, LinkBadKept
  <2>7. CASE Write(p) \/ GetDiskLbn(p)
    BY <2>7, WriteKept, GetDiskLbnKept
  <2> QED BY <1>3, <2>1, <2>2, <2>3, <2>4, <2>5, <2>6, <2>7 DEF Continue
<1> QED BY <1>1, <1>2, <1>3 DEF Next

\* The inductive invariant holds in every state, for every number of processes, of
\* inodes, of entries of the inode cache and of blocks, and whatever is called.
THEOREM FsInvariant == Spec => []IInv
<1>1. Init => IInv
  BY InitIInv
<1>2. IInv /\ [Next]_vars => IInv'
  BY NextIInv
<1> QED BY <1>1, <1>2, PTL DEF Spec

-----------------------------------------------------------------------------
(* The inode cache is sound.                                               *)

LEMMA SoundCache ==
  ASSUME IInv
  PROVE  TypeOK /\ RefsExact /\ OneEntryPerInode /\ (NoBmapCall => CacheIsCurrent)
<1>1. TypeOK
  <2>1. \A i \in Inums : disk[i].type \in {"free", "DIR", "FILE", "SYMLINK"} /\ disk[i].nlink \in Int
                         /\ disk[i].perm \subseteq M_ALL /\ disk[i].addrs \subseteq Blocks
    <3> TAKE i \in Inums
    <3>1. disk[i] \in Dinodes
      BY DEF IInv, DiskTypes
    <3> QED BY <3>1 DEF Dinodes, Types
  <2>2. \A s \in Slots : icache[s].inum \in 0 .. NInodes /\ icache[s].ref \in Nat
                         /\ icache[s].lock \in Procs \cup {None}
    <3> TAKE s \in Slots
    <3>1. icache[s] \in Inodes
      BY DEF IInv, DiskTypes
    <3> QED BY <3>1 DEF Inodes
  <2>3. \A p \in Procs, v \in Pointers : Pointer(p, v) \in Slots \cup {None}
    BY DEF IInv, Controls, Control, Shape, Pointed, Pointers, Pointer
  <2> QED BY <2>1, <2>2, <2>3 DEF TypeOK
<1>2. RefsExact
  BY DEF RefsExact, IInv, Refs, Holders
<1>3. OneEntryPerInode
  BY DEF IInv, Cached
<1>4. ASSUME NoBmapCall, NEW s \in Slots, icache[s].ref > 0, icache[s].valid, icache[s].lock = None
      PROVE  Dinode(icache[s]) = disk[icache[s].inum]
  <2>1. ~Freeing(s)
    <3> SUFFICES ASSUME NEW p \in Procs, proc[p].pc = "put2", proc[p].put = s PROVE FALSE
      BY DEF Freeing
    <3>1. Held(proc[p], s)
      BY DEF Held
    <3>2. icache[s].lock = p
      BY <3>1 DEF IInv, Locks
    <3> QED BY <1>4, <3>2, FsAssumption DEF FsAssumption, None
  <2>2. Current(icache[s], disk[icache[s].inum])
    BY <1>4, <2>1 DEF IInv, Currents
  <2>3. disk[icache[s].inum] \in Dinodes
    BY <1>4 DEF IInv, Cached, DiskTypes
  <2> QED BY <1>4, <2>2, <2>3 DEF Current, Dinode, Dinodes
<1> QED BY <1>1, <1>2, <1>3, <1>4 DEF CacheIsCurrent

\* Every entry of the inode cache has exactly the references the calls, the open files
\* and the current directories hold, and no inode is in it twice, so that the lock of
\* an entry is the lock of its inode, however iget(), iput() and ialloc() interleave.
\* What is cached and unlocked is what is on the disk, when nothing calls
\* get_disk_lbn(), which allocates a block and does not write the inode.
THEOREM FsCacheSound == Spec => [](NoBmapCall => CacheSound)
<1>1. IInv => (NoBmapCall => CacheSound)
  BY SoundCache DEF CacheSound
<1> QED BY <1>1, FsInvariant, PTL

\* Without that restriction all but the last of these holds.
THEOREM FsEntriesExact == Spec => [](TypeOK /\ RefsExact /\ OneEntryPerInode)
<1>1. IInv => TypeOK /\ RefsExact /\ OneEntryPerInode
  BY SoundCache
<1> QED BY <1>1, FsInvariant, PTL

-----------------------------------------------------------------------------
(* Open files.                                                             *)

\* m has the open file of l.
Keeps(m, l) == DOMAIN m = Fields /\ m.fd = l.fd
Untouched == \A q \in Procs : proc'[q].fd = proc[q].fd

LEMMA KeepsForms ==
  ASSUME NEW l, NEW m, Keeps(m, l), NEW s
  PROVE  /\ Keeps(Put(m, s), l) /\ Keeps(Lock(m, s), l) /\ Keeps(Idle(m), l)
         /\ Keeps(Result(m, s), l) /\ Keeps(Walking(m, s), l)
<1>1. ASSUME NEW f, Keeps(f, l), NEW t
      PROVE  Keeps(Put(f, t), l) /\ Keeps(Lock(f, t), l) /\ Keeps(Idle(f), l)
  BY <1>1 DEF Keeps, Fields, Put, Lock, Idle
<1>2. ASSUME NEW f, Keeps(f, l), NEW t PROVE Keeps(Result(f, t), l)
  <2> DEFINE linked == [f EXCEPT !.pc = "link", !.ip = t, !.depth = Last(f.stack) + 1, !.stack = Front(@), !.path = <<>>]
             found == [f EXCEPT !.pc = f.then, !.ip = t, !.stack = <<>>, !.depth = 0, !.path = <<>>]
             bad == [found EXCEPT !.pc = "linkbad"]
  <2>1. Keeps(linked, l) /\ Keeps(found, l)
    BY <1>2 DEF Keeps, Fields
  <2>2. Result(f, t) = IF t # None /\ f.stack # <<>> THEN linked
                       ELSE IF t # None THEN Lock(found, t)
                       ELSE IF f.then = "linking" THEN Lock(bad, f.old) ELSE Idle(f)
    BY DEF Result
  <2> HIDE DEF linked, found
  <2>3. Keeps(bad, l)
    BY <2>1 DEF Keeps, Fields
  <2> HIDE DEF bad
  <2> QED BY <1>1, <1>2, <2>1, <2>2, <2>3
<1>3. Keeps(Walking(m, s), l)
  <2> DEFINE f == [m EXCEPT !.pc = "look", !.ip = s]
  <2>1. Keeps(f, l)
    BY DEF Keeps, Fields
  <2>2. Walking(m, s) = IF m.path # <<>> THEN Lock(f, s)
                        ELSE IF m.parent THEN Put(Result(m, None), s) ELSE Result(m, s)
    BY DEF Walking
  <2> HIDE DEF f
  <2> QED BY <1>1, <1>2, <2>1, <2>2
<1> QED BY <1>1, <1>2, <1>3

LEMMA KeepsStep ==
  ASSUME DOMAIN proc = Procs, NEW p \in Procs, NEW m, NEW c, Step(p, m, c), Keeps(m, proc[p])
  PROVE  Untouched
BY DEF Step, Keeps, Untouched

LEMMA KeepsPanic ==
  ASSUME NEW w, Panic(w)
  PROVE  Untouched
BY DEF Panic, Untouched

LEMMA KeepsWalk ==
  ASSUME DOMAIN proc = Procs, NEW p \in Procs, NEW m, Keeps(m, proc[p]), NEW path, StartWalk(p, m, path)
  PROVE  Untouched
<1> DEFINE f == [m EXCEPT !.path = path.elems, !.depth = 0]
<1>1. Keeps(f, proc[p])
  BY DEF Keeps, Fields
<1>2. \/ Panic("iget: no inodes")
      \/ \E s, c : Peek(p, Walking(f, s), c)
  BY DEF StartWalk
<1> HIDE DEF f
<1> QED BY <1>1, <1>2, KeepsForms, KeepsStep, KeepsPanic DEF Peek

LEMMA IputKeeps ==
  ASSUME IInv, NEW p \in Procs, Ilock(p) \/ Iput(p) \/ Iput2(p)
  PROVE  Untouched
<1> DEFINE l == proc[p]
           m1 == [l EXCEPT !.pc = l.locked, !.want = None]
           m2 == [l EXCEPT !.pc = "put2"]
           m3 == [l EXCEPT !.pc = l.after, !.put = None]
<1>1. DOMAIN l = Fields /\ DOMAIN proc = Procs
  BY DEF IInv, DiskTypes, Controls, Control, Shape
<1>2. \/ \E w : Panic(w)
      \/ \E c : Step(p, m1, c) \/ Step(p, m2, c) \/ Step(p, m3, c)
  BY DEF Ilock, Iput, Iput2, Peek
<1>3. Keeps(m1, l) /\ Keeps(m2, l) /\ Keeps(m3, l)
  BY <1>1 DEF Keeps, Fields
<1> HIDE DEF m1, m2, m3
<1> QED BY <1>1, <1>2, <1>3, KeepsStep, KeepsPanic

LEMMA WalkKeeps ==
  ASSUME IInv, NEW p \in Procs, Look(p) \/ Link(p) \/ ReadLink(p) \/ Follow(p)
  PROVE  Untouched
<1> DEFINE l == proc[p]
<1>1. DOMAIN l = Fields /\ DOMAIN proc = Procs /\ Keeps(l, l)
  BY DEF IInv, DiskTypes, Controls, Control, Shape, Keeps
<1>2. CASE Look(p)
  <2> DEFINE name == Head(l.path)
             m1 == [l EXCEPT !.name = name]
             m2(s) == [l EXCEPT !.pc = "link", !.ip = s, !.path = Tail(@), !.depth = 0]
  <2>1. \/ \E w : Panic(w)
        \/ \E c : \/ Peek(p, Put(Result(l, None), l.ip), c)
                  \/ Peek(p, Result(m1, l.ip), c)
                  \/ \E s : Peek(p, Put(m2(s), l.ip), c)
    BY <1>2 DEF Look
  <2>2. Keeps(m1, l) /\ \A s : Keeps(m2(s), l)
    BY <1>1 DEF Keeps, Fields
  <2> HIDE DEF m1, m2
  <2>3. Keeps(Put(Result(l, None), l.ip), l) /\ Keeps(Result(m1, l.ip), l) /\ \A s : Keeps(Put(m2(s), l.ip), l)
    BY <1>1, <2>2, KeepsForms
  <2> QED BY <1>1, <2>1, <2>3, KeepsStep, KeepsPanic DEF Peek
<1>3. CASE Link(p)
  <2> DEFINE m1 == [l EXCEPT !.pc = "readlink"]
  <2>1. Peek(p, Lock(m1, l.ip), icache) \/ Peek(p, Put(Result(l, None), l.ip), icache) \/ Peek(p, Walking(l, l.ip), icache)
    BY <1>3 DEF Link
  <2>2. Keeps(m1, l)
    BY <1>1 DEF Keeps, Fields
  <2> HIDE DEF m1
  <2>3. Keeps(Lock(m1, l.ip), l) /\ Keeps(Put(Result(l, None), l.ip), l) /\ Keeps(Walking(l, l.ip), l)
    BY <1>1, <2>2, KeepsForms
  <2> QED BY <1>1, <2>1, <2>3, KeepsStep DEF Peek
<1>4. CASE ReadLink(p)
  <2> DEFINE m1(text) == [l EXCEPT !.pc = "follow", !.target = text, !.ip = None, !.stack = Append(@, l.depth)]
  <2>1. \E text : Peek(p, Put(m1(text), l.ip), Iunlock(icache, l.ip))
    BY <1>4 DEF ReadLink
  <2>2. \A text : Keeps(m1(text), l)
    BY <1>1 DEF Keeps, Fields
  <2> HIDE DEF m1
  <2>3. \A text : Keeps(Put(m1(text), l.ip), l)
    BY <2>2, KeepsForms
  <2> QED BY <1>1, <2>1, <2>3, KeepsStep DEF Peek
<1>5. CASE Follow(p)
  <2> DEFINE m1 == [l EXCEPT !.target = NoData]
  <2>1. (\E w : Panic(w)) \/ StartWalk(p, m1, l.target)
    BY <1>5 DEF Follow
  <2>2. Keeps(m1, l)
    BY <1>1 DEF Keeps, Fields
  <2> HIDE DEF m1
  <2> QED BY <1>1, <2>1, <2>2, KeepsWalk, KeepsPanic
<1> QED BY <1>2, <1>3, <1>4, <1>5

LEMMA CreateKeeps ==
  ASSUME IInv, NEW p \in Procs, CreateOld(p) \/ Exists(p) \/ CreateNew(p) \/ NewInode(p) \/ Created(p)
  PROVE  Untouched
<1> DEFINE l == proc[p]
           m1(old) == [l EXCEPT !.pc = "exists", !.ip = old]
           m2 == [l EXCEPT !.pc = "created"]
           m3(new) == [l EXCEPT !.pc = "newinode", !.ip = new, !.dp = l.ip]
           m4 == [l EXCEPT !.pc = "created", !.dp = None]
           m5 == [l EXCEPT !.pc = "install"]
<1>1. DOMAIN l = Fields /\ DOMAIN proc = Procs /\ Keeps(l, l)
  BY DEF IInv, DiskTypes, Controls, Control, Shape, Keeps
<1>2. Keeps(m2, l) /\ Keeps(m4, l) /\ Keeps(m5, l) /\ \A s : Keeps(m1(s), l) /\ Keeps(m3(s), l)
  BY <1>1 DEF Keeps, Fields
<1>3. CASE CreateOld(p)
  <2>1. (\E w : Panic(w)) \/ \E s, c : Step(p, Put(Lock(m1(s), s), l.ip), c)
    BY <1>3 DEF CreateOld, Peek
  <2> HIDE DEF l, m1
  <2>2. \A s : Keeps(Put(Lock(m1(s), s), l.ip), l)
    BY <1>2, KeepsForms
  <2> QED BY <1>1, <2>1, <2>2, KeepsStep, KeepsPanic DEF l
<1>4. CASE Exists(p)
  <2>1. \E c : Step(p, m2, c) \/ Step(p, Put(Idle(l), l.ip), c)
    BY <1>4 DEF Exists, Peek
  <2> HIDE DEF l, m2
  <2>2. Keeps(Put(Idle(l), l.ip), l)
    BY <1>1, KeepsForms
  <2> QED BY <1>1, <1>2, <2>1, <2>2, KeepsStep DEF l
<1>5. CASE CreateNew(p)
  <2>1. (\E w : Panic(w)) \/ \E s, c : Step(p, Lock(m3(s), s), c)
    BY <1>5 DEF CreateNew
  <2> HIDE DEF l, m3
  <2>2. \A s : Keeps(Lock(m3(s), s), l)
    BY <1>2, KeepsForms
  <2> QED BY <1>1, <2>1, <2>2, KeepsStep, KeepsPanic DEF l
<1>6. CASE NewInode(p)
  <2>1. (\E w : Panic(w)) \/ \E c : Step(p, Put(m4, l.dp), c)
    BY <1>6 DEF NewInode
  <2> HIDE DEF l, m4
  <2>2. Keeps(Put(m4, l.dp), l)
    BY <1>2, KeepsForms
  <2> QED BY <1>1, <2>1, <2>2, KeepsStep, KeepsPanic DEF l
<1>7. CASE Created(p)
  <2>1. (\E w : Panic(w)) \/ \E c : Step(p, m5, c) \/ Step(p, Put(Idle(l), l.ip), c)
    <3>1. Creates(l)
      <4>1. l.pc = "created" /\ Control(l)
        BY <1>7 DEF Created, At, IInv, Controls
      <4> QED BY <4>1, IpThere DEF IpPoints
    <3>2. l.call.fn \in {"open", "mkdir", "symlink"}
      BY <3>1 DEF Creates
    <3> QED BY <1>7, <3>2 DEF Created, Peek
  <2> HIDE DEF l, m5
  <2>2. Keeps(Put(Idle(l), l.ip), l)
    BY <1>1, KeepsForms
  <2> QED BY <1>1, <1>2, <2>1, <2>2, KeepsStep, KeepsPanic DEF l
<1> QED BY <1>3, <1>4, <1>5, <1>6, <1>7

LEMMA OpenKeeps ==
  ASSUME IInv, NEW p \in Procs, OpenLink(p) \/ OpenCheck(p) \/ Chmod(p) \/ Write(p) \/ GetDiskLbn(p)
  PROVE  Untouched
<1> DEFINE l == proc[p]
           m1(text) == [l EXCEPT !.pc = "follow", !.target = text, !.ip = None, !.then = "open2"]
           m2 == [l EXCEPT !.pc = "install"]
<1>1. DOMAIN l = Fields /\ DOMAIN proc = Procs /\ Keeps(l, l)
  BY DEF IInv, DiskTypes, Controls, Control, Shape, Keeps
<1>2. Keeps(m2, l) /\ \A t : Keeps(m1(t), l)
  BY <1>1 DEF Keeps, Fields
<1>3. \/ \E w : Panic(w)
      \/ \E c : \/ \E t : Step(p, Put(m1(t), l.ip), c)
                \/ Step(p, m2, c)
                \/ Step(p, Put(Idle(l), l.ip), c)
                \/ Step(p, Idle(l), c)
  BY DEF OpenLink, OpenCheck, Chmod, Write, GetDiskLbn, Peek
<1> HIDE DEF l, m1, m2
<1>4. Keeps(Put(Idle(l), l.ip), l) /\ Keeps(Idle(l), l) /\ \A t : Keeps(Put(m1(t), l.ip), l)
  BY <1>1, <1>2, KeepsForms
<1> QED BY <1>1, <1>2, <1>3, <1>4, KeepsStep, KeepsPanic DEF l

LEMMA ChdirKeeps ==
  ASSUME IInv, NEW p \in Procs, Chdir(p)
  PROVE  Untouched
<1> DEFINE l == proc[p]
           m == [l EXCEPT !.cwd = l.ip]
<1>1. DOMAIN l = Fields /\ DOMAIN proc = Procs /\ Keeps(l, l)
  BY DEF IInv, DiskTypes, Controls, Control, Shape, Keeps
<1>2. Keeps(m, l)
  BY <1>1 DEF Keeps, Fields
<1>3. \E c : Step(p, Put(Idle(l), l.ip), c) \/ Step(p, Put(Idle(m), l.cwd), c)
  BY DEF Chdir, Peek
<1> HIDE DEF l, m
<1>4. Keeps(Put(Idle(l), l.ip), l) /\ Keeps(Put(Idle(m), l.cwd), l)
  BY <1>1, <1>2, KeepsForms
<1> QED BY <1>1, <1>3, <1>4, KeepsStep DEF l

LEMMA UnlinkKeeps ==
  ASSUME IInv, NEW p \in Procs, Unlinking(p) \/ Victim(p) \/ UnlinkBad(p) \/ Unlinked(p)
  PROVE  Untouched
<1> DEFINE l == proc[p]
           m1(s) == [l EXCEPT !.pc = "victim", !.dp = l.ip, !.ip = s]
           m2 == [l EXCEPT !.pc = "unlinkbad", !.ip = None]
           m3 == [l EXCEPT !.pc = "unlinked", !.dp = None]
<1>1. DOMAIN l = Fields /\ DOMAIN proc = Procs /\ Keeps(l, l)
  BY DEF IInv, DiskTypes, Controls, Control, Shape, Keeps
<1>2. Keeps(m2, l) /\ Keeps(m3, l) /\ \A s : Keeps(m1(s), l)
  BY <1>1 DEF Keeps, Fields
<1>3. \/ \E w : Panic(w)
      \/ \E c, s : \/ Step(p, Lock(m1(s), s), c)
                   \/ Step(p, Put(m2, s), c)
                   \/ Step(p, Put(m3, s), c)
                   \/ Step(p, Put(Idle(l), s), c)
  BY DEF Unlinking, Victim, UnlinkBad, Unlinked, Relink, Peek
<1> HIDE DEF l, m1, m2, m3
<1>4. \A s : Keeps(Lock(m1(s), s), l) /\ Keeps(Put(m2, s), l) /\ Keeps(Put(m3, s), l) /\ Keeps(Put(Idle(l), s), l)
  BY <1>1, <1>2, KeepsForms
<1> QED BY <1>1, <1>3, <1>4, KeepsStep, KeepsPanic DEF l

LEMMA LinkKeeps ==
  ASSUME IInv, NEW p \in Procs, LinkOld(p) \/ Linking(p) \/ NotLinked(p) \/ Linked(p) \/ LinkBad(p)
  PROVE  Untouched
<1> DEFINE l == proc[p]
           m1 == [l EXCEPT !.pc = "follow", !.target = l.call.new, !.old = l.ip, !.ip = None,
                           !.parent = TRUE, !.then = "linking"]
           m2 == [l EXCEPT !.pc = "notlinked"]
           m3 == [l EXCEPT !.pc = "linked", !.ip = None]
           m4 == [l EXCEPT !.pc = "linkbad", !.ip = None]
<1>1. DOMAIN l = Fields /\ DOMAIN proc = Procs /\ Keeps(l, l)
  BY DEF IInv, DiskTypes, Controls, Control, Shape, Keeps
<1>2. Keeps(m1, l) /\ Keeps(m2, l) /\ Keeps(m3, l) /\ Keeps(m4, l)
  BY <1>1 DEF Keeps, Fields
<1>3. \/ \E w : Panic(w)
      \/ \E c, s : \/ Step(p, m1, c)
                   \/ Step(p, Put(m2, s), c)
                   \/ Step(p, Put(m3, s), c)
                   \/ Step(p, Put(Lock(m4, l.old), s), c)
                   \/ Step(p, Put(Idle(l), s), c)
  BY DEF LinkOld, Linking, NotLinked, Linked, LinkBad, Relink, Peek
<1> HIDE DEF l, m1, m2, m3, m4
<1>4. \A s : Keeps(Put(m2, s), l) /\ Keeps(Put(m3, s), l) /\ Keeps(Put(Lock(m4, l.old), s), l) /\ Keeps(Put(Idle(l), s), l)
  BY <1>1, <1>2, KeepsForms
<1> QED BY <1>1, <1>2, <1>3, <1>4, KeepsStep, KeepsPanic DEF l

LEMMA EnterKeeps ==
  ASSUME IInv, NEW p \in Procs, Enter(p), NEW q \in Procs, proc'[q].fd # proc[q].fd
  PROVE  proc'[q].fd = NoFile
<1> DEFINE k == proc[p].left - 1
           L(call) == [proc[p] EXCEPT !.call = call, !.left = k]
           W(call, parent, then) == [L(call) EXCEPT !.parent = parent, !.then = then]
           F(call, point) == [L(call) EXCEPT !.pc = point]
           G(call) == [L(call) EXCEPT !.fd = NoFile]
<1>1. DOMAIN proc[p] = Fields /\ DOMAIN proc = Procs
  BY DEF IInv, DiskTypes, Controls, Control, Shape
<1>2. \A call : Keeps(L(call), proc[p]) /\ [proc[p] EXCEPT !.call = call, !.left = @ - 1] = L(call)
  BY <1>1 DEF Keeps, Fields
<1>3. PICK call \in setup.calls[p] :
         LET l == [proc[p] EXCEPT !.call = call, !.left = @ - 1] IN
         /\ call.fn = "open" /\ "CREATE" \notin call.omode =>
               StartWalk(p, [l EXCEPT !.parent = FALSE, !.then = "open"], call.path)
         /\ call.fn = "open" /\ "CREATE" \in call.omode =>
               StartWalk(p, [l EXCEPT !.parent = TRUE, !.then = "creating"], call.path)
         /\ call.fn \in {"mkdir", "symlink"} => StartWalk(p, [l EXCEPT !.parent = TRUE, !.then = "creating"], call.path)
         /\ call.fn = "unlink" => StartWalk(p, [l EXCEPT !.parent = TRUE, !.then = "unlinking"], call.path)
         /\ call.fn = "link" => StartWalk(p, [l EXCEPT !.parent = FALSE, !.then = "linkold"], call.path)
         /\ call.fn = "chmod" => StartWalk(p, [l EXCEPT !.parent = FALSE, !.then = "chmod"], call.path)
         /\ call.fn = "chdir" => StartWalk(p, [l EXCEPT !.parent = FALSE, !.then = "chdir"], call.path)
         /\ call.fn = "write" => Peek(p, Lock([l EXCEPT !.pc = "write"], l.fd.ip), icache)
         /\ call.fn = "get_disk_lbn" => Peek(p, Lock([l EXCEPT !.pc = "bmap"], l.fd.ip), icache)
         /\ call.fn = "close" => Peek(p, Put(Idle([l EXCEPT !.fd = NoFile]), l.fd.ip), icache)
  BY DEF Enter
<1>4. call.fn \in CallNames
  BY CallsKnown
<1>5. \/ \E parent, then : StartWalk(p, W(call, parent, then), call.path)
      \/ \E point : Peek(p, Lock(F(call, point), L(call).fd.ip), icache)
      \/ Peek(p, Put(Idle(G(call)), L(call).fd.ip), icache)
  <2> HIDE DEF L
  <2> QED BY <1>2, <1>3, <1>4 DEF CallNames
<1> HIDE DEF L
<1>6. /\ \A parent, then : Keeps(W(call, parent, then), proc[p])
      /\ \A point : Keeps(F(call, point), proc[p])
      /\ DOMAIN G(call) = Fields /\ G(call).fd = NoFile
  BY <1>2 DEF Keeps, Fields
<1> HIDE DEF W, F, G
<1>7. ~Untouched
  BY DEF Untouched
<1>8. ~\E parent, then : StartWalk(p, W(call, parent, then), call.path)
  BY <1>1, <1>6, <1>7, KeepsWalk
<1>9. ~\E point : Peek(p, Lock(F(call, point), L(call).fd.ip), icache)
  <2>1. \A point : Keeps(Lock(F(call, point), L(call).fd.ip), proc[p])
    BY <1>6, KeepsForms
  <2> QED BY <1>1, <1>7, <2>1, KeepsStep DEF Peek
<1>10. Peek(p, Put(Idle(G(call)), L(call).fd.ip), icache)
  BY <1>5, <1>8, <1>9
<1>11. Put(Idle(G(call)), L(call).fd.ip).fd = NoFile
  <2>1. Keeps(G(call), G(call))
    BY <1>6 DEF Keeps
  <2>2. Keeps(Idle(G(call)), G(call))
    BY <2>1, KeepsForms
  <2>3. Keeps(Put(Idle(G(call)), L(call).fd.ip), G(call))
    BY <2>2, KeepsForms
  <2> QED BY <1>6, <2>3 DEF Keeps
<1> DEFINE m == Put(Idle(G(call)), L(call).fd.ip)
<1> HIDE DEF m
<1>12. proc' = [proc EXCEPT ![p] = m]
  BY <1>10 DEF Peek, Step, m
<1>13. q = p
  BY <1>1, <1>12
<1> QED BY <1>1, <1>11, <1>12, <1>13 DEF m

\* A file is opened by sys_open() where it has locked the inode and tested it.
LEMMA InstallPermits ==
  ASSUME IInv, NEW p \in Procs, Install(p), NEW q \in Procs, proc'[q].fd # proc[q].fd, proc'[q].fd.writable,
         "CREATE" \notin proc[q].call.omode, disk[icache[proc'[q].fd.ip].inum].type = "FILE"
  PROVE  M_WRITE \in disk[icache[proc'[q].fd.ip].inum].perm
<1> DEFINE l == proc[p]
           omode == l.call.omode
           f == [ip |-> l.ip, readable |-> omode \cap {"WRONLY", "NOACCESS"} = {},
                 writable |-> omode \cap {"WRONLY", "RDWR"} # {} /\ "NOACCESS" \notin omode]
           g == [l EXCEPT !.fd = f]
<1>1. DOMAIN l = Fields /\ DOMAIN proc = Procs /\ Keeps(l, l)
  BY DEF IInv, DiskTypes, Controls, Control, Shape, Keeps
<1>2. \E c : Step(p, Put(Idle(l), l.ip), c) \/ Step(p, Idle(g), c)
  BY DEF Install, Peek
<1>3. l.pc = "install" /\ l.pc \in Ordinary
  BY DEF Install, At, Ordinary, IpPoints, FoundPoints
<1>4. l.ip \in Slots /\ Held(proc[p], l.ip) /\ proc[p].pc # "put2"
  BY <1>3, OrdinaryHere
<1>5. TypeAt(l.ip) = icache[l.ip].type /\ Current(icache[l.ip], disk[icache[l.ip].inum])
  BY <1>4, HeldCurrent
<1>6. "CREATE" \in omode \/ ~Denied(icache[l.ip], omode)
  BY <1>3 DEF IInv, Permitted
<1>7. f.ip = l.ip /\ (f.writable <=> omode \cap {"WRONLY", "RDWR"} # {} /\ "NOACCESS" \notin omode)
  OBVIOUS
<1> HIDE DEF f, l
<1>8. DOMAIN g = Fields /\ g.fd = f
  BY <1>1 DEF Fields
<1> HIDE DEF g
<1>9. Keeps(Put(Idle(l), l.ip), l) /\ Idle(g).fd = f
  <2>1. Keeps(g, g)
    BY <1>8 DEF Keeps
  <2>2. Keeps(Idle(g), g) /\ Keeps(Idle(l), l)
    BY <1>1, <2>1, KeepsForms
  <2> QED BY <1>8, <2>2, KeepsForms DEF Keeps
<1>10. ~Untouched
  BY DEF Untouched
<1>11. \E c : Step(p, Idle(g), c)
  BY <1>1, <1>2, <1>9, <1>10, KeepsStep DEF l
<1> DEFINE m == Idle(g)
<1> HIDE DEF m
<1>12. proc' = [proc EXCEPT ![p] = m]
  BY <1>11 DEF Step, m
<1>13. q = p /\ proc'[q].fd = f
  BY <1>1, <1>9, <1>12 DEF m
<1>14. ~Denied(icache[l.ip], omode) /\ icache[l.ip].type = "FILE"
  BY <1>5, <1>6, <1>7, <1>13 DEF TypeAt, l
<1>15. M_WRITE \in icache[l.ip].perm
  BY <1>7, <1>13, <1>14 DEF Denied
<1> QED BY <1>5, <1>7, <1>13, <1>15 DEF Current

\* A file is not open for writing unless its permissions allowed it when it was opened,
\* or the open was one with O_CREATE: no chmod, truncation, unlink or reuse of the inode
\* comes between the test of sys_open() and filealloc(), for any number of processes.
THEOREM FsOpenKeepsPermissions == Spec => NoWriteWithoutPermission
<1>1. ASSUME IInv, [Next]_vars, NEW q \in Procs, proc'[q].fd # proc[q].fd, proc'[q].fd.writable,
             "CREATE" \notin proc[q].call.omode, disk[icache[proc'[q].fd.ip].inum].type = "FILE"
      PROVE  M_WRITE \in disk[icache[proc'[q].fd.ip].inum].perm
  <2>1. ~Untouched
    BY <1>1 DEF Untouched
  <2>2. PICK p \in Procs : Enter(p) \/ Continue(p)
    <3>1. Next
      BY <1>1 DEF vars
    <3> QED BY <3>1 DEF Next
  <2>3. ~Enter(p)
    BY <1>1, EnterKeeps DEF NoFile
  <2>4. Install(p)
    BY <1>1, <2>1, <2>2, <2>3, IputKeeps, WalkKeeps, CreateKeeps, OpenKeeps, ChdirKeeps, UnlinkKeeps, LinkKeeps
       DEF Continue
  <2> QED BY <1>1, <2>4, InstallPermits
<1>2. IInv /\ [Next]_vars => [\A p \in Procs : proc'[p].fd # proc[p].fd /\ proc'[p].fd.writable
                        /\ "CREATE" \notin proc[p].call.omode
                        /\ disk[icache[proc'[p].fd.ip].inum].type = "FILE" =>
          M_WRITE \in disk[icache[proc'[p].fd.ip].inum].perm]_vars
  BY <1>1
<1> QED BY <1>2, FsInvariant, PTL DEF Spec, NoWriteWithoutPermission

\* The bitmap and the inodes agree.
BlocksOne ==
    /\ \A b \in Blocks : b \in used <=> \E i \in Inums : b \in disk[i].addrs
    /\ \A i, j \in Inums : i # j => disk[i].addrs \cap disk[j].addrs = {}
    /\ \A i \in Inums : disk[i].type = "free" => disk[i].addrs = {}

\* What a step does to the blocks: inode j has the blocks a, and every other one what it had.
Assigns(j, a) ==
    /\ \A i \in Inums \ {j} : disk'[i].addrs = disk[i].addrs /\ disk'[i].type = disk[i].type
    /\ disk'[j].addrs = a /\ (disk'[j].type = "free" => a = {})
    /\ used' = (used \ disk[j].addrs) \cup a
    /\ a \cap (used \ disk[j].addrs) = {} /\ a \subseteq Blocks

LEMMA AssignsBlocks ==
  ASSUME BlocksOne, NEW j \in Inums, NEW a, Assigns(j, a)
  PROVE  BlocksOne'
<1>1. ASSUME NEW b \in Blocks PROVE b \in used' <=> \E i \in Inums : b \in disk'[i].addrs
  <2>1. CASE b \in a
    BY <2>1 DEF Assigns
  <2>2. CASE b \notin a
    <3>1. b \in used' <=> b \in used /\ b \notin disk[j].addrs
      BY <2>2 DEF Assigns
    <3>2. (\E i \in Inums : b \in disk'[i].addrs) <=> \E i \in Inums \ {j} : b \in disk[i].addrs
      BY <2>2 DEF Assigns
    <3>3. b \in used /\ b \notin disk[j].addrs <=> \E i \in Inums \ {j} : b \in disk[i].addrs
      BY DEF BlocksOne
    <3> QED BY <3>1, <3>2, <3>3
  <2> QED BY <2>1, <2>2
<1>2. ASSUME NEW i \in Inums, i # j PROVE disk'[i].addrs \cap disk'[j].addrs = {}
  <2> SUFFICES ASSUME NEW b, b \in disk[i].addrs, b \in a PROVE FALSE
    BY <1>2 DEF Assigns
  <2>1. b \notin disk[j].addrs
    BY <1>2 DEF BlocksOne
  <2>2. b \in used
    BY DEF BlocksOne, Assigns
  <2> QED BY <2>1, <2>2 DEF Assigns
<1>3. \A h, i \in Inums : h # i => disk'[h].addrs \cap disk'[i].addrs = {}
  <2> SUFFICES ASSUME NEW h \in Inums, NEW i \in Inums, h # i PROVE disk'[h].addrs \cap disk'[i].addrs = {}
    OBVIOUS
  <2>1. CASE h = j
    BY <1>2, <2>1
  <2>2. CASE i = j
    BY <1>2, <2>2
  <2>3. CASE h # j /\ i # j
    BY <2>3 DEF Assigns, BlocksOne
  <2> QED BY <2>1, <2>2, <2>3
<1>4. \A i \in Inums : disk'[i].type = "free" => disk'[i].addrs = {}
  BY DEF Assigns, BlocksOne
<1> QED BY <1>1, <1>3, <1>4 DEF BlocksOne

\* Nothing is allocated or freed.
LEMMA SameBlocks ==
  ASSUME BlocksOne, used' = used,
         \A i \in Inums : disk'[i].addrs = disk[i].addrs /\ (disk'[i].type = "free" => disk[i].type = "free")
  PROVE  BlocksOne'
BY DEF BlocksOne

\* A block that is found free is nobody's.
LEMMA GrownBlocks ==
  ASSUME NEW c, NEW s \in DOMAIN c, c[s] \in Inodes, c[s].addrs = {} => used # Blocks, used \subseteq Blocks
  PROVE  LET a == Grown(c, s)[s].addrs IN
         a \subseteq Blocks /\ \/ a = c[s].addrs
                               \/ c[s].addrs = {} /\ a \cap used = {}
<1>1. CASE c[s].addrs # {}
  BY <1>1 DEF Grown, Inodes
<1>2. CASE c[s].addrs = {}
  <2> DEFINE b == Min(Blocks \ used)
  <2>1. b \in Blocks \ used
    <3>1. Blocks \ used \in SUBSET Nat
      BY DEF Blocks
    <3>2. Blocks \ used # {}
      BY <1>2
    <3> QED BY <3>1, <3>2, MinIsLeast
  <2>2. Grown(c, s) = [c EXCEPT ![s].addrs = {b}]
    BY <1>2 DEF Grown
  <2> HIDE DEF b
  <2>3. Grown(c, s)[s].addrs = {b}
    BY <2>2 DEF Inodes
  <2> QED BY <1>2, <2>1, <2>3
<1> QED BY <1>1, <1>2

\* An inode that is locked is written, with its blocks or others.
LEMMA WrittenBlocks ==
  ASSUME IInv, NoBmapCall, BlocksOne, NEW p \in Procs, NEW s \in Slots, Held(proc[p], s), proc[p].pc # "put2",
         NEW c, c[s].inum = icache[s].inum, c[s].type = icache[s].type, disk' = Updated(c, {s}),
         c[s].addrs \subseteq Blocks,
         used' = (used \ icache[s].addrs) \cup c[s].addrs, c[s].addrs \cap (used \ icache[s].addrs) = {}
  PROVE  BlocksOne'
<1> DEFINE S == {s}
           j == icache[s].inum
<1>1. j \in Inums /\ icache[s].type # "free" /\ disk[j].addrs = icache[s].addrs
  BY HeldCurrent DEF Current
<1>2. disk' = Updated(c, S) /\ S = {s}
  OBVIOUS
<1> HIDE DEF S
<1>3. \A i \in Inums : disk'[i] = IF c[s].inum = i THEN Dinode(c[s]) ELSE disk[i]
  BY <1>2, UpdatedOne
<1>4. Dinode(c[s]).addrs = c[s].addrs /\ Dinode(c[s]).type = c[s].type
  BY DEF Dinode
<1>5. Assigns(j, c[s].addrs)
  BY <1>1, <1>3, <1>4 DEF Assigns
<1> QED BY <1>1, <1>5, AssignsBlocks

\* ... with the blocks it has.
LEMMA KeptBlocks ==
  ASSUME IInv, NoBmapCall, BlocksOne, NEW p \in Procs, NEW s \in Slots, Held(proc[p], s), proc[p].pc # "put2",
         NEW c, c[s].inum = icache[s].inum, c[s].type = icache[s].type, c[s].addrs = icache[s].addrs,
         disk' = Updated(c, {s}), used' = used
  PROVE  BlocksOne'
<1>1. icache[s].addrs = disk[icache[s].inum].addrs /\ icache[s].inum \in Inums
  BY HeldCurrent DEF Current
<1>2. icache[s].addrs \subseteq Blocks
  BY DEF IInv, DiskTypes, Inodes
<1>3. icache[s].addrs \subseteq used
  BY <1>1, <1>2 DEF BlocksOne
<1>4. /\ used' = (used \ icache[s].addrs) \cup c[s].addrs /\ c[s].addrs \cap (used \ icache[s].addrs) = {}
      /\ c[s].addrs \subseteq Blocks
  BY <1>2, <1>3
<1> QED BY <1>4, WrittenBlocks

\* ... and bmap() has given it a block if it had none.
LEMMA GrownWritten ==
  ASSUME IInv, NoBmapCall, BlocksOne, NEW p \in Procs, NEW s \in Slots, Held(proc[p], s), proc[p].pc # "put2",
         ~Full(s), NEW c, c = Grown(icache, s), disk' = Updated(c, {s}), used' = used \cup c[s].addrs
  PROVE  BlocksOne'
<1>1. icache[s].addrs = disk[icache[s].inum].addrs /\ icache[s].inum \in Inums
  BY HeldCurrent DEF Current
<1>2. /\ icache \in [Slots -> Inodes] /\ icache[s] \in Inodes /\ icache[s].addrs \subseteq Blocks /\ used \subseteq Blocks
      /\ s \in DOMAIN icache
  BY DEF IInv, DiskTypes, Inodes
<1>3. icache[s].addrs \subseteq used
  BY <1>1, <1>2 DEF BlocksOne
<1>4. c[s].inum = icache[s].inum /\ c[s].type = icache[s].type
  BY <1>2, GrownFacts DEF Full
<1>5. c[s].addrs \subseteq Blocks /\ (c[s].addrs = icache[s].addrs \/ (icache[s].addrs = {} /\ c[s].addrs \cap used = {}))
  BY <1>2, GrownBlocks DEF Full
<1>6. used' = (used \ icache[s].addrs) \cup c[s].addrs /\ c[s].addrs \cap (used \ icache[s].addrs) = {}
  BY <1>3, <1>5
<1> QED BY <1>4, <1>5, <1>6, WrittenBlocks

LEMMA StillBlocks ==
  ASSUME BlocksOne, disk' = disk, used' = used
  PROVE  BlocksOne'
BY DEF BlocksOne

LEMMA RelinkBlocks ==
  ASSUME IInv, NoBmapCall, BlocksOne, NEW p \in Procs, NEW s \in Slots, Held(proc[p], s), proc[p].pc # "put2",
         NEW delta, NEW m, Relink(p, s, delta, m)
  PROVE  BlocksOne'
<1> DEFINE c == [icache EXCEPT ![s].nlink = @ + delta]
<1>1. disk' = Updated(c, {s}) /\ used' = used
  BY DEF Relink
<1>2. icache \in [Slots -> Inodes] /\ icache[s] \in Inodes
  BY DEF IInv, DiskTypes
<1>3. c[s].inum = icache[s].inum /\ c[s].type = icache[s].type /\ c[s].addrs = icache[s].addrs
  BY <1>2 DEF Inodes
<1> HIDE DEF c
<1> QED BY <1>1, <1>3, KeptBlocks

LEMMA IputBlocks ==
  ASSUME IInv, NoBmapCall, BlocksOne, NEW p \in Procs, Iput(p)
  PROVE  BlocksOne'
<1> DEFINE s == proc[p].put
           e == icache[s]
           c == [icache EXCEPT ![s].lock = p, ![s].type = "free", ![s].addrs = {}]
           S == {s}
<1>1. \/ UNCHANGED <<disk, used>>
      \/ e.ref = 1 /\ e.valid /\ e.lock = None /\ disk' = Updated(c, S) /\ used' = used \ e.addrs
  BY DEF Iput, Peek, Panic
<1>2. s \in Slots
  <2>1. proc[p].pc = "put" /\ Control(proc[p])
    BY DEF Iput, At, IInv, Controls
  <2> QED BY <2>1 DEF Control, Shape, Pointed, Putting, None, Slots
<1>3. CASE e.ref = 1 /\ e.valid /\ e.lock = None /\ disk' = Updated(c, S) /\ used' = used \ e.addrs
  <2> HIDE DEF s
  <2>1. icache \in [Slots -> Inodes] /\ e \in Inodes
    BY <1>2 DEF IInv, DiskTypes
  <2>2. c[s].inum = e.inum /\ c[s].type = "free" /\ c[s].addrs = {}
    BY <1>2, <2>1 DEF Inodes
  <2>3. ~Freeing(s)
    <3> SUFFICES ASSUME NEW q \in Procs, proc[q].pc = "put2", proc[q].put = s PROVE FALSE
      BY DEF Freeing
    <3>1. Held(proc[q], s)
      BY DEF Held
    <3> QED BY <1>3, <3>1, HeldRef, FsAssumption DEF FsAssumption, None
  <2>4. e.inum \in Inums /\ disk[e.inum].addrs = e.addrs
    BY <1>2, <1>3, <2>3 DEF IInv, Currents, Current, Cached
  <2> HIDE DEF c
  <2>5. S = {s}
    OBVIOUS
  <2> HIDE DEF S
  <2>6. \A i \in Inums : Updated(c, S)[i] = IF c[s].inum = i THEN Dinode(c[s]) ELSE disk[i]
    BY <2>5, UpdatedOne
  <2>7. Dinode(c[s]).addrs = {} /\ Dinode(c[s]).type = "free"
    BY <2>2 DEF Dinode
  <2>8. Assigns(e.inum, {})
    BY <1>3, <2>2, <2>4, <2>6, <2>7 DEF Assigns
  <2> QED BY <2>4, <2>8, AssignsBlocks
<1> QED BY <1>1, <1>3, StillBlocks

LEMMA CreateNewBlocks ==
  ASSUME IInv, BlocksOne, NEW p \in Procs, CreateNew(p)
  PROVE  BlocksOne'
<1>1. \/ UNCHANGED <<disk, used>>
      \/ \E i \in Inums : /\ disk[i].type = "free" /\ disk' = [disk EXCEPT ![i] = [Free EXCEPT !.type = TypeOf(proc[p].call)]]
                          /\ used' = used
  BY DEF CreateNew, Panic
<1>2. ASSUME NEW i \in Inums, disk[i].type = "free", used' = used,
             disk' = [disk EXCEPT ![i] = [Free EXCEPT !.type = TypeOf(proc[p].call)]]
      PROVE  BlocksOne'
  <2>1. disk \in [Inums -> Dinodes] /\ disk[i].addrs = {}
    BY <1>2 DEF IInv, DiskTypes, BlocksOne
  <2>2. disk'[i].addrs = {} /\ \A j \in Inums \ {i} : disk'[j] = disk[j]
    BY <1>2, <2>1 DEF Free
  <2>3. \A j \in Inums : disk'[j].addrs = disk[j].addrs /\ (disk'[j].type = "free" => disk[j].type = "free")
    BY <1>2, <2>1, <2>2
  <2> QED BY <1>2, <2>3, SameBlocks
<1> QED BY <1>1, <1>2, StillBlocks

LEMMA NewInodeBlocks ==
  ASSUME IInv, NoBmapCall, BlocksOne, NEW p \in Procs, NewInode(p)
  PROVE  BlocksOne'
<1> DEFINE l == proc[p]
           isdir == l.call.fn = "mkdir"
           c1 == [icache EXCEPT ![l.ip].nlink = 1, ![l.ip].perm = M_ALL]
           c2 == Grown(c1, l.ip)
           c == IF isdir THEN [c2 EXCEPT ![l.dp].nlink = @ + 1] ELSE c1
           S == {l.dp, l.ip}
<1>1. l.pc = "newinode"
  BY DEF NewInode, At
<1>2. /\ l.ip \in Slots /\ l.dp \in Slots /\ l.ip # l.dp
      /\ \A t \in {l.ip, l.dp} : /\ icache[t].ref > 0 /\ icache[t].inum \in Inums /\ icache[t].type # "free"
                                 /\ Current(icache[t], disk[icache[t].inum]) /\ TypeAt(t) = icache[t].type
      /\ icache[l.ip].inum # icache[l.dp].inum
  BY <1>1, PairHere
<1>3. \/ UNCHANGED <<disk, used>>
      \/ ~(isdir /\ Full(l.ip)) /\ disk' = Updated(c, S) /\ used' = used \cup c[l.ip].addrs
  BY DEF NewInode, Panic
<1>4. CASE ~(isdir /\ Full(l.ip)) /\ disk' = Updated(c, S) /\ used' = used \cup c[l.ip].addrs
  <2> HIDE DEF l
  <2>1. icache \in [Slots -> Inodes] /\ icache[l.ip] \in Inodes /\ icache[l.dp] \in Inodes /\ used \subseteq Blocks
    BY <1>2 DEF IInv, DiskTypes
  <2>2. /\ c1 \in [Slots -> Inodes] /\ \A t \in Slots \ {l.ip} : c1[t] = icache[t]
        /\ c1[l.ip].inum = icache[l.ip].inum /\ c1[l.ip].type = icache[l.ip].type
        /\ c1[l.ip].addrs = icache[l.ip].addrs
    BY <1>2, <2>1 DEF Inodes
  <2>3. icache[l.ip].addrs = disk[icache[l.ip].inum].addrs /\ icache[l.dp].addrs = disk[icache[l.dp].inum].addrs
    BY <1>2 DEF Current
  <2>4. icache[l.ip].addrs \subseteq used
    BY <1>2, <2>1, <2>3 DEF BlocksOne, Inodes
  <2>5. /\ c[l.ip].inum = icache[l.ip].inum /\ c[l.ip].type = icache[l.ip].type
        /\ c[l.dp].inum = icache[l.dp].inum /\ c[l.dp].type = icache[l.dp].type
        /\ c[l.dp].addrs = icache[l.dp].addrs /\ c[l.ip].addrs \subseteq Blocks
        /\ (c[l.ip].addrs = icache[l.ip].addrs \/ (icache[l.ip].addrs = {} /\ c[l.ip].addrs \cap used = {}))
    <3>1. CASE ~isdir
      <4>1. c = c1
        BY <3>1
      <4> HIDE DEF c, c1
      <4> QED BY <1>2, <2>1, <2>2, <4>1 DEF Inodes
    <3>2. CASE isdir
      <4>1. c = [c2 EXCEPT ![l.dp].nlink = @ + 1]
        BY <3>2
      <4>2. c1[l.ip].addrs = {} => used # Blocks
        BY <1>4, <2>2, <3>2 DEF Full
      <4> HIDE DEF c, c1
      <4>3. /\ c2 \in [Slots -> Inodes] /\ \A t \in Slots \ {l.ip} : c2[t] = c1[t]
            /\ c2[l.ip].inum = c1[l.ip].inum /\ c2[l.ip].type = c1[l.ip].type
        BY <1>2, <2>1, <2>2, <4>2, GrownFacts
      <4>4. c2[l.ip].addrs \subseteq Blocks /\ (c2[l.ip].addrs = c1[l.ip].addrs \/ (c1[l.ip].addrs = {} /\ c2[l.ip].addrs \cap used = {}))
        BY <1>2, <2>1, <2>2, <4>2, GrownBlocks
      <4> HIDE DEF c2
      <4>5. c[l.ip] = c2[l.ip] /\ c[l.dp].inum = c2[l.dp].inum /\ c[l.dp].type = c2[l.dp].type /\ c[l.dp].addrs = c2[l.dp].addrs
        BY <1>2, <4>1, <4>3 DEF Inodes
      <4>6. c2[l.dp] = icache[l.dp]
        BY <1>2, <2>2, <4>3
      <4> QED BY <2>2, <4>3, <4>4, <4>5, <4>6
    <3> QED BY <3>1, <3>2
  <2> HIDE DEF c, c1, c2
  <2>6. l.dp \in S /\ l.ip \in S /\ S = {l.dp, l.ip}
    OBVIOUS
  <2> HIDE DEF S
  <2>7. c[l.dp].inum # c[l.ip].inum
    BY <1>2, <2>5
  <2>8. \A i \in Inums : Updated(c, S)[i] = IF c[l.dp].inum = i THEN Dinode(c[l.dp])
                                            ELSE IF c[l.ip].inum = i THEN Dinode(c[l.ip]) ELSE disk[i]
    BY <2>6, <2>7, UpdatedTwo
  <2>9. \A e : Dinode(e).addrs = e.addrs /\ Dinode(e).type = e.type
    BY DEF Dinode
  <2>10. disk[icache[l.dp].inum].type = icache[l.dp].type
    BY <1>2 DEF Current
  <2>11. Assigns(icache[l.ip].inum, c[l.ip].addrs)
    <3>1. \A i \in Inums \ {icache[l.ip].inum} : disk'[i].addrs = disk[i].addrs /\ disk'[i].type = disk[i].type
      BY <1>2, <1>4, <2>3, <2>5, <2>8, <2>9, <2>10
    <3>2. disk'[icache[l.ip].inum].addrs = c[l.ip].addrs /\ disk'[icache[l.ip].inum].type # "free"
      BY <1>2, <1>4, <2>5, <2>7, <2>8, <2>9
    <3>3. /\ used' = (used \ disk[icache[l.ip].inum].addrs) \cup c[l.ip].addrs
          /\ c[l.ip].addrs \cap (used \ disk[icache[l.ip].inum].addrs) = {}
      BY <1>4, <2>3, <2>4, <2>5
    <3> QED BY <2>5, <3>1, <3>2, <3>3 DEF Assigns
  <2> QED BY <1>2, <2>11, AssignsBlocks
<1> QED BY <1>3, <1>4, StillBlocks

LEMMA VictimBlocks ==
  ASSUME IInv, NoBmapCall, BlocksOne, NEW p \in Procs, Victim(p)
  PROVE  BlocksOne'
<1> DEFINE l == proc[p]
           d == [icache EXCEPT ![l.dp].nlink = @ - 1]
<1>1. l.pc = "victim"
  BY DEF Victim, At
<1>2. /\ l.dp \in Slots /\ proc[p].pc # "put2"
      /\ \A t \in Slots : Held(proc[p], t) <=> t \in {l.ip, l.dp}
  BY <1>1, PairHere
<1>3. UNCHANGED <<disk, used>> \/ (disk' = Updated(d, {l.dp}) /\ used' = used)
  BY DEF Victim, Panic, Peek
<1>4. CASE disk' = Updated(d, {l.dp}) /\ used' = used
  <2>1. icache \in [Slots -> Inodes] /\ icache[l.dp] \in Inodes
    BY <1>2 DEF IInv, DiskTypes
  <2>2. d[l.dp].inum = icache[l.dp].inum /\ d[l.dp].type = icache[l.dp].type /\ d[l.dp].addrs = icache[l.dp].addrs
    BY <1>2, <2>1 DEF Inodes
  <2> HIDE DEF d
  <2> QED BY <1>2, <1>4, <2>2, KeptBlocks
<1> QED BY <1>3, <1>4, StillBlocks

LEMMA OrdinaryBlocks ==
  ASSUME IInv, NoBmapCall, BlocksOne, NEW p \in Procs,
         Created(p) \/ Install(p) \/ Chmod(p) \/ Unlinked(p) \/ LinkOld(p)
  PROVE  BlocksOne'
<1> DEFINE l == proc[p]
           s == l.ip
<1>1. l.pc \in Ordinary
  BY DEF Created, Install, Chmod, Unlinked, LinkOld, At, Ordinary, IpPoints, FoundPoints
<1>2. s \in Slots /\ proc[p].pc # "put2" /\ Held(proc[p], s)
  BY <1>1, OrdinaryHere
<1>3. icache \in [Slots -> Inodes] /\ icache[s] \in Inodes
  BY <1>2 DEF IInv, DiskTypes
<1>4. ASSUME Created(p) PROVE BlocksOne'
  <2> DEFINE c == Grown(icache, s)
  <2>0. Creates(l)
    <3>1. l.pc = "created"
      BY <1>4 DEF Created, At
    <3> QED BY <1>1, <3>1, OrdinaryHere
  <2>1. \/ UNCHANGED <<disk, used>>
        \/ ~Full(s) /\ disk' = Updated(c, {s}) /\ used' = used \cup c[s].addrs
    BY <1>4, <2>0 DEF Created, Peek, Panic, Creates
  <2>2. CASE ~Full(s) /\ disk' = Updated(c, {s}) /\ used' = used \cup c[s].addrs
    <3>1. c = Grown(icache, s)
      OBVIOUS
    <3> HIDE DEF c, s
    <3> QED BY <1>2, <2>2, <3>1, GrownWritten
  <2> QED BY <2>1, <2>2, StillBlocks
<1>5. ASSUME Install(p) PROVE BlocksOne'
  <2> DEFINE c == [icache EXCEPT ![s].addrs = {}]
  <2>1. \/ UNCHANGED <<disk, used>>
        \/ disk' = Updated(c, {s}) /\ used' = used \ icache[s].addrs
    BY <1>5 DEF Install, Peek
  <2>2. CASE disk' = Updated(c, {s}) /\ used' = used \ icache[s].addrs
    <3>1. c[s].inum = icache[s].inum /\ c[s].type = icache[s].type /\ c[s].addrs = {}
      BY <1>2, <1>3 DEF Inodes
    <3> HIDE DEF c, s
    <3>2. /\ used' = (used \ icache[s].addrs) \cup c[s].addrs /\ c[s].addrs \cap (used \ icache[s].addrs) = {}
          /\ c[s].addrs \subseteq Blocks
      BY <2>2, <3>1
    <3> QED BY <1>2, <2>2, <3>1, <3>2, WrittenBlocks
  <2> QED BY <2>1, <2>2, StillBlocks
<1>6. ASSUME Chmod(p) PROVE BlocksOne'
  <2> DEFINE c == [icache EXCEPT ![s].perm = l.call.mode]
  <2>1. disk' = Updated(c, {s}) /\ used' = used
    BY <1>6 DEF Chmod
  <2>2. c[s].inum = icache[s].inum /\ c[s].type = icache[s].type /\ c[s].addrs = icache[s].addrs
    BY <1>2, <1>3 DEF Inodes
  <2> HIDE DEF c, s
  <2> QED BY <1>2, <2>1, <2>2, KeptBlocks
<1>7. ASSUME Unlinked(p) \/ LinkOld(p) PROVE BlocksOne'
  <2>1. UNCHANGED <<disk, used>> \/ \E delta, m : Relink(p, s, delta, m)
    BY <1>7 DEF Unlinked, LinkOld, Peek
  <2> QED BY <1>2, <2>1, RelinkBlocks, StillBlocks
<1> QED BY <1>4, <1>5, <1>6, <1>7

LEMMA FileBlocks ==
  ASSUME IInv, NoBmapCall, BlocksOne, NEW p \in Procs, LinkBad(p) \/ Write(p) \/ GetDiskLbn(p)
  PROVE  BlocksOne'
<1> DEFINE l == proc[p]
<1>1. ASSUME LinkBad(p) PROVE BlocksOne'
  <2>1. l.pc = "linkbad" /\ \E delta, m : Relink(p, l.old, delta, m)
    BY <1>1 DEF LinkBad, At
  <2>2. l.old \in Slots /\ Held(proc[p], l.old) /\ proc[p].pc # "put2"
    <3>1. Control(l) /\ Place(l) = "linkbad" /\ ~Waits(l)
      BY <2>1 DEF IInv, Controls, Place, Waits, Putting
    <3> QED BY <2>1, <3>1 DEF Control, Shape, Pointed, Held, Main, Aim, LockPoints, IpPoints, FoundPoints, ParentPoints,
                              WalkPoints, None, Slots
  <2> QED BY <2>1, <2>2, RelinkBlocks
<1>2. ASSUME Write(p) PROVE BlocksOne'
  <2> DEFINE s == l.fd.ip
             c == Grown(icache, s)
  <2>1. l.pc = "write" /\ (UNCHANGED <<disk, used>> \/ (~Full(s) /\ disk' = Updated(c, {s}) /\ used' = used \cup c[s].addrs))
    BY <1>2 DEF Write, At, Panic
  <2>2. s \in Slots /\ proc[p].pc # "put2" /\ Held(proc[p], s)
    BY <2>1, FileShape
  <2>3. c = Grown(icache, s)
    OBVIOUS
  <2> HIDE DEF c, s
  <2> QED BY <2>1, <2>2, <2>3, GrownWritten, StillBlocks
<1>3. ~GetDiskLbn(p)
  <2>1. GetDiskLbn(p) => l.pc = "bmap"
    BY DEF GetDiskLbn, At
  <2>2. l.pc = "bmap" => Place(l) = "bmap"
    BY DEF Place, Waits, Putting
  <2> QED BY <2>1, <2>2 DEF IInv, Bmaps
<1> QED BY <1>1, <1>2, <1>3

LEMMA NextBlocks ==
  ASSUME IInv, NoBmapCall, BlocksOne, [Next]_vars
  PROVE  BlocksOne'
<1>1. CASE UNCHANGED vars
  BY <1>1, StillBlocks DEF vars
<1>2. ASSUME NEW p \in Procs, Enter(p) PROVE BlocksOne'
  <2>1. \A m, path : StartWalk(p, m, path) => UNCHANGED <<disk, used>>
    BY DEF StartWalk, Peek, Panic
  <2>2. UNCHANGED <<disk, used>>
    BY <1>2, <2>1, CallsKnown DEF Enter, Peek, CallNames
  <2> QED BY <2>2, StillBlocks
<1>3. ASSUME NEW p \in Procs, Continue(p) PROVE BlocksOne'
  <2>1. CASE Ilock(p) \/ Iput2(p) \/ Look(p) \/ Link(p) \/ ReadLink(p)
    BY <2>1, StillBlocks DEF Ilock, Iput2, Look, Link, ReadLink, Peek, Panic
  <2>2. CASE Follow(p)
    BY <2>2, StillBlocks DEF Follow, StartWalk, Peek, Panic
  <2>3. CASE CreateOld(p) \/ Exists(p) \/ OpenLink(p) \/ OpenCheck(p) \/ Chdir(p)
    BY <2>3, StillBlocks DEF CreateOld, Exists, OpenLink, OpenCheck, Chdir, Peek, Panic
  <2>4. CASE Unlinking(p) \/ UnlinkBad(p) \/ Linking(p) \/ NotLinked(p) \/ Linked(p)
    BY <2>4, StillBlocks DEF Unlinking, UnlinkBad, Linking, NotLinked, Linked, Peek, Panic
  <2>5. CASE Iput(p) \/ CreateNew(p) \/ NewInode(p) \/ Victim(p)
    BY <2>5, IputBlocks, CreateNewBlocks, NewInodeBlocks, VictimBlocks
  <2>6. CASE Created(p) \/ Install(p) \/ Chmod(p) \/ Unlinked(p) \/ LinkOld(p)
    BY <2>6, OrdinaryBlocks
  <2>7. CASE LinkBad(p) \/ Write(p) \/ GetDiskLbn(p)
    BY <2>7, FileBlocks
  <2> QED BY <1>3, <2>1, <2>2, <2>3, <2>4, <2>5, <2>6, <2>7 DEF Continue
<1> QED BY <1>1, <1>2, <1>3 DEF Next

LEMMA SetupFixed ==
  ASSUME IInv, [Next]_vars
  PROVE  setup' = setup
<1>1. \A p, l, c : (Step(p, l, c) \/ Peek(p, l, c)) => setup' = setup
  BY DEF Peek, Step
<1>2. \A w : Panic(w) => setup' = setup
  BY DEF Panic
<1>3. \A p, l, path : StartWalk(p, l, path) => setup' = setup
  BY <1>1, <1>2 DEF StartWalk
<1>4. ASSUME NEW p \in Procs, Enter(p) PROVE setup' = setup
  BY <1>1, <1>3, <1>4, CallsKnown DEF Enter, CallNames
<1>5. ASSUME NEW p \in Procs, Continue(p) PROVE setup' = setup
  <2>1. CASE Ilock(p) \/ Iput(p) \/ Iput2(p) \/ Look(p) \/ Link(p) \/ ReadLink(p) \/ Follow(p)
    BY <1>1, <1>2, <1>3, <2>1 DEF Ilock, Iput, Iput2, Look, Link, ReadLink, Follow
  <2>2. CASE CreateOld(p) \/ Exists(p) \/ CreateNew(p) \/ NewInode(p)
    BY <1>1, <1>2, <2>2 DEF CreateOld, Exists, CreateNew, NewInode
  <2>3. CASE Created(p)
    <3>1. proc[p].pc = "created" /\ proc[p].pc \in Ordinary
      BY <2>3 DEF Created, At, Ordinary, IpPoints
    <3>2. Creates(proc[p])
      BY <3>1, OrdinaryHere
    <3> QED BY <1>1, <1>2, <2>3, <3>2 DEF Created, Creates
  <2>4. CASE OpenLink(p) \/ OpenCheck(p) \/ Install(p) \/ Chmod(p) \/ Chdir(p)
    BY <1>1, <1>2, <2>4 DEF OpenLink, OpenCheck, Install, Chmod, Chdir
  <2>5. CASE Unlinking(p) \/ Victim(p) \/ UnlinkBad(p) \/ Unlinked(p) \/ LinkBad(p) \/ LinkOld(p)
    BY <1>1, <1>2, <2>5 DEF Unlinking, Victim, UnlinkBad, Unlinked, LinkBad, LinkOld, Relink
  <2>6. CASE Linking(p) \/ NotLinked(p) \/ Linked(p) \/ Write(p) \/ GetDiskLbn(p)
    BY <1>1, <1>2, <2>6 DEF Linking, NotLinked, Linked, Write, GetDiskLbn
  <2> QED BY <1>5, <2>1, <2>2, <2>3, <2>4, <2>5, <2>6 DEF Continue
<1> QED BY <1>4, <1>5 DEF Next, vars

LEMMA InitBlocks ==
  ASSUME Init, SetupsAssumption
  PROVE  BlocksOne
<1>1. DOMAIN disk = Inums /\ \A i \in Inums : disk[i] = IF i \in DOMAIN setup.image THEN setup.image[i].inode ELSE Free
  BY DEF Init, ImageDisk
<1>2. used = UNION {disk[i].addrs : i \in Inums} /\ setup \in Setups
  BY DEF Init
<1>3. \A i \in DOMAIN setup.image : setup.image[i].inode.type # "free"
  BY <1>2, SetupsAssumption DEF SetupsAssumption, IsImage
<1>4. \A i, j \in Inums : i # j => disk[i].addrs \cap disk[j].addrs = {}
  <2>1. disk = ImageDisk(setup.image)
    BY DEF Init
  <2> QED BY <1>2, <2>1, SetupsAssumption DEF SetupsAssumption, IsImage
<1>5. Free.addrs = {}
  BY DEF Free
<1>6. \A i \in Inums : disk[i].type = "free" => disk[i].addrs = {}
  BY <1>1, <1>3, <1>5
<1>8. \A b \in Blocks : b \in used <=> \E i \in Inums : b \in disk[i].addrs
  BY <1>2
<1> QED BY <1>4, <1>6, <1>8 DEF BlocksOne

LEMMA SoundBlocks ==
  ASSUME IInv, BlocksOne
  PROVE  BlocksExact
<1>1. used \subseteq Blocks /\ \A i \in Inums : disk[i].addrs \subseteq Blocks
  BY DEF IInv, DiskTypes, Dinodes
<1>2. used = UNION {disk[i].addrs : i \in Inums}
  BY <1>1 DEF BlocksOne
<1> QED BY <1>2 DEF BlocksOne, BlocksExact

\* No block belongs to two inodes, and the bitmap has exactly those that belong to one.
THEOREM FsBlocksExact == Spec => [](NoBmapCall => BlocksExact)
<1>1. Init => BlocksOne
  BY InitBlocks, SetupsAssumption
<1>2. IInv /\ (NoBmapCall => BlocksOne) /\ [Next]_vars => (NoBmapCall => BlocksOne)'
  <2>1. IInv /\ [Next]_vars => setup' = setup
    BY SetupFixed
  <2> QED BY <2>1, NextBlocks DEF NoBmapCall
<1>3. IInv /\ (NoBmapCall => BlocksOne) => (NoBmapCall => BlocksExact)
  BY SoundBlocks
<1> QED BY <1>1, <1>2, <1>3, FsInvariant, PTL DEF Spec
=============================================================================
