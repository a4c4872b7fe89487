--------------------------------- MODULE Fs ---------------------------------
(***************************************************************************)
(* Inodes, directories and path names of mp4 (mp4/kernel/fs.c), and the    *)
(* system calls of mp4/kernel/sysfile.c on them, run by several processes. *)
(*                                                                         *)
(* ilock() is a step, iput() is one (two, if it frees the inode), and so   *)
(* is what a call does between them.  The disk is what the buffer cache    *)
(* holds of it, its log is the subject of Log.  Blocks are abstracted to   *)
(* what they say: the entries of a directory, the path of a symbolic link. *)
(***************************************************************************)
EXTENDS Integers, Sequences, SequencesExt, FiniteSetsExt

CONSTANTS
    Procs,
    NInodes,        \* inodes on the disk, 1 being the root
    NInode,         \* NINODE, the entries of the inode cache
    NBlocks,        \* data blocks on the disk
    KernelFrames,   \* activations of namex that fit in a kernel stack
    Setups          \* disk images and calls that are checked; see MCFs

ASSUME FsAssumption == {NInodes, NInode, NBlocks, KernelFrames} \subseteq Nat \ {0} /\ IsFiniteSet(Procs) /\ 0 \notin Procs

VARIABLES
    setup,     \* the image and what each process may call (fixed by Init)
    disk,      \* struct dinode of each inode number
    data,      \* what the blocks of an inode say
    used,      \* the bitmap of the data blocks
    icache,    \* struct inode of each entry
    proc,      \* the calls in progress: locals of the functions, fd and cwd
    panicked   \* the argument of panic(), or ""

vars == <<setup, disk, data, used, icache, proc, panicked>>

Inums == 1 .. NInodes
Slots == 1 .. NInode
Blocks == 1 .. NBlocks
Root == 1
FollowLimit == 10
None == 0

M_READ == "r"
M_WRITE == "w"
M_ALL == {M_READ, M_WRITE}

Free == [type |-> "free", perm |-> {}, nlink |-> 0, addrs |-> {}]
NoInode == [inum |-> None, ref |-> 0, valid |-> FALSE, lock |-> None,
            type |-> "free", perm |-> {}, nlink |-> 0, addrs |-> {}]
NoFile == [ip |-> None, readable |-> FALSE, writable |-> FALSE]
NoData == <<>>

-----------------------------------------------------------------------------
(* What is on a disk: k its inodes, d what their blocks say.               *)

DotNames == {".", ".."}
EntriesOf(k, d) == UNION {{<<i, n>> : n \in DOMAIN d[i]} : i \in {x \in Inums : k[x].type = "DIR"}}

\* the entries that name an inode; a directory that has none, has been removed
NamesOf(k, d, i) == {e \in EntriesOf(k, d) : e[2] \notin DotNames /\ d[e[1]][e[2]] = i}
InTree(k, d, i) == i = Root \/ NamesOf(k, d, i) # {}

\* the entries that count for nlink: all but "." and the ".." of a removed directory
LinksOf(k, d, i) ==
    {e \in EntriesOf(k, d) : d[e[1]][e[2]] = i /\ e[2] # "." /\ (e[2] = ".." => InTree(k, d, e[1]))}

ImageDisk(image) == [i \in Inums |-> IF i \in DOMAIN image THEN image[i].inode ELSE Free]
ImageData(image) == [i \in Inums |-> IF i \in DOMAIN image THEN image[i].data ELSE NoData]

\* the directories of an image are a tree
IsTree(k, d) ==
    /\ k[Root].type = "DIR" /\ NamesOf(k, d, Root) = {} /\ d[Root][".."] = Root
    /\ \A i \in Inums : k[i].type = "DIR" =>
          /\ DotNames \subseteq DOMAIN d[i] /\ d[i]["."] = i /\ IsFiniteSet(DOMAIN d[i])
          /\ \A n \in DOMAIN d[i] : d[i][n] \in Inums
          /\ i # Root => \E n \in DOMAIN d[d[i][".."]] : NamesOf(k, d, i) = {<<d[i][".."], n>>}

\* what mkfs makes, and what a quiet system has made of that
IsImage(image) ==
    LET k == ImageDisk(image)
        d == ImageData(image)
    IN /\ \A i \in DOMAIN image :
             image[i].inode \in [type : {"DIR", "FILE", "SYMLINK"}, perm : SUBSET M_ALL, nlink : Nat \ {0}, addrs : SUBSET Blocks]
       /\ IsTree(k, d)
       /\ \A i \in Inums : k[i].nlink = Cardinality(LinksOf(k, d, i))
       /\ \A i, j \in Inums : i # j => k[i].addrs \cap k[j].addrs = {}

\* and what a program may ask for
CallNames == {"open", "mkdir", "symlink", "unlink", "link", "chmod", "chdir", "write", "get_disk_lbn", "close"}
ASSUME SetupsAssumption ==
    \A st \in Setups :
        /\ IsImage(st.image)
        /\ \A p \in Procs : \A call \in st.calls[p] :
              call.fn \in CallNames /\ (call.fn = "chmod" => call.mode \subseteq M_ALL)

-----------------------------------------------------------------------------
(* The inode cache as operators on its value c.                            *)

\* iget(): the entry of inode i, or the first one that is free
Entry(c, i) ==
    LET cached == {s \in Slots : c[s].ref > 0 /\ c[s].inum = i}
        empty == {s \in Slots : c[s].ref = 0}
    IN IF cached # {} THEN CHOOSE s \in cached : TRUE
       ELSE IF empty = {} THEN None ELSE Min(empty)

Iget(c, i) ==
    LET s == Entry(c, i)
    IN IF c[s].ref > 0 THEN [c EXCEPT ![s].ref = @ + 1]
       ELSE [c EXCEPT ![s].inum = i, ![s].ref = 1, ![s].valid = FALSE]

\* a directory with an entry more, and a new one
Enlarged(d, name, i) == [n \in DOMAIN d \cup {name} |-> IF n = name THEN i ELSE d[n]]
Dots(i, up) == [n \in {".", ".."} |-> IF n = "." THEN i ELSE up]

Iunlock(c, s) == [c EXCEPT ![s].lock = None]

\* iupdate(): what of an entry goes to the disk
Dinode(e) == [type |-> e.type, perm |-> e.perm, nlink |-> e.nlink, addrs |-> e.addrs]

\* the disk after iupdate() of the entries S of c
Updated(c, S) ==
    [i \in Inums |-> IF \E s \in S : c[s].inum = i
                     THEN Dinode(c[CHOOSE s \in S : c[s].inum = i]) ELSE disk[i]]

-----------------------------------------------------------------------------
(* Control: the locals l of a process, and where it goes next (l.pc).      *)

\* first ilock(s), then go on at l.pc; first iput(s), then go on at l.pc
Lock(l, s) == [l EXCEPT !.pc = "lock", !.want = s, !.locked = l.pc]
Put(l, s)  == [l EXCEPT !.pc = "put", !.put = s, !.after = l.pc]

\* the call returns
Idle(l) ==
    [l EXCEPT !.pc = "idle", !.call = [fn |-> "none"], !.path = <<>>, !.parent = FALSE,
              !.name = "", !.ip = None, !.dp = None, !.old = None, !.depth = 0,
              !.stack = <<>>, !.then = "idle"]

\* namex() returns s: to the loop that follows a link, or to the call, which fails
\* when there is no such path, and locks the inode otherwise
Result(l, s) ==
    IF s # None /\ l.stack # <<>>
    THEN [l EXCEPT !.pc = "link", !.ip = s, !.depth = Last(l.stack) + 1, !.stack = Front(@), !.path = <<>>]
    ELSE LET found == [l EXCEPT !.pc = l.then, !.ip = s, !.stack = <<>>, !.depth = 0, !.path = <<>>]
         IN IF s # None THEN Lock(found, s)
            ELSE IF l.then = "linking" THEN Lock([found EXCEPT !.pc = "linkbad"], l.old)
            ELSE Idle(l)

\* the head of namex()'s loop, at the inode s
Walking(l, s) ==
    IF l.path # <<>> THEN Lock([l EXCEPT !.pc = "look", !.ip = s], s)
    ELSE IF l.parent THEN Put(Result(l, None), s) ELSE Result(l, s)

At(p, point) == panicked = "" /\ proc[p].pc = point

Panic(why) == panicked' = why /\ UNCHANGED <<setup, disk, data, used, icache, proc>>

\* p goes on with the locals l, and the inode cache becomes c
Step(p, l, c) ==
    /\ proc' = [proc EXCEPT ![p] = l]
    /\ icache' = c
    /\ UNCHANGED <<setup, panicked>>

Peek(p, l, c) == Step(p, l, c) /\ UNCHANGED <<disk, data, used>>

-----------------------------------------------------------------------------
(* ilock(), iput() and namex()                                             *)

\* an entry that is not valid is read from the disk
Ilock(p) ==
    /\ At(p, "lock")
    /\ LET l == proc[p]
           e == icache[l.want]
           d == disk[e.inum]
           loaded == [e EXCEPT !.valid = TRUE, !.lock = p, !.type = d.type, !.perm = d.perm,
                               !.nlink = d.nlink, !.addrs = d.addrs]
       IN /\ e.lock = None
          /\ IF ~e.valid /\ d.type = "free" THEN Panic("ilock: no type")
             ELSE Peek(p, [l EXCEPT !.pc = l.locked, !.want = None],
                       [icache EXCEPT ![l.want] = IF e.valid THEN [e EXCEPT !.lock = p] ELSE loaded])

\* the last reference to an inode without links: itrunc(), and it is free on disk
Iput(p) ==
    /\ At(p, "put")
    /\ LET l == proc[p]
           s == l.put
           e == icache[s]
           c == [icache EXCEPT ![s].lock = p, ![s].type = "free", ![s].addrs = {}]
       IN IF e.ref = 1 /\ e.valid /\ e.nlink = 0
          THEN IF e.lock # None THEN Panic("sched locks")
               ELSE /\ Step(p, [l EXCEPT !.pc = "put2"], c)
                    /\ disk' = Updated(c, {s})
                    /\ data' = [data EXCEPT ![e.inum] = NoData]
                    /\ used' = used \ e.addrs
          ELSE Peek(p, [l EXCEPT !.pc = l.after, !.put = None], [icache EXCEPT ![s].ref = @ - 1])

\* icache.lock was released meanwhile
Iput2(p) ==
    /\ At(p, "put2")
    /\ LET l == proc[p] IN
       Peek(p, [l EXCEPT !.pc = l.after, !.put = None],
            [icache EXCEPT ![l.put].valid = FALSE, ![l.put].lock = None, ![l.put].ref = @ - 1])

\* namex() starts from the root or from the current directory
StartWalk(p, l, path) ==
    LET s == IF path.abs THEN Entry(icache, Root) ELSE l.cwd
        c == IF path.abs THEN Iget(icache, Root) ELSE [icache EXCEPT ![s].ref = @ + 1]
    IN IF s = None THEN Panic("iget: no inodes")
       ELSE Peek(p, Walking([l EXCEPT !.path = path.elems, !.depth = 0], s), c)

\* with a directory locked: it is the parent, or the next name is looked up
Look(p) ==
    /\ At(p, "look")
    /\ LET l == proc[p]
           e == icache[l.ip]
           name == Head(l.path)
           c == Iunlock(icache, l.ip)
           next == Entry(icache, data[e.inum][name])
       IN IF e.type # "DIR" THEN Peek(p, Put(Result(l, None), l.ip), c)
          ELSE IF l.parent /\ Len(l.path) = 1
          THEN Peek(p, Result([l EXCEPT !.name = name], l.ip), c)
          ELSE IF name \notin DOMAIN data[e.inum] THEN Peek(p, Put(Result(l, None), l.ip), c)
          ELSE IF next = None THEN Panic("iget: no inodes")
          ELSE Peek(p, Put([l EXCEPT !.pc = "link", !.ip = next, !.path = Tail(@), !.depth = 0], l.ip),
                    Iget(c, data[e.inum][name]))

\* whether to follow a link is decided by ip->type as it is without the lock, and
\* whether or not the entry has been read from the disk
Link(p) ==
    /\ At(p, "link")
    /\ LET l == proc[p]
           follows == icache[l.ip].type = "SYMLINK" /\ l.path = <<>>
       IN Peek(p, IF follows /\ l.depth < FollowLimit THEN Lock([l EXCEPT !.pc = "readlink"], l.ip)
                  ELSE IF l.depth >= FollowLimit THEN Put(Result(l, None), l.ip)
                  ELSE Walking(l, l.ip), icache)

\* what readi() finds in an inode taken for a link: the path in a link, and in
\* anything else what its blocks, or the buffer on the kernel's stack, happen to hold
LinkText(s) == IF icache[s].type = "SYMLINK" THEN {data[icache[s].inum]} ELSE setup.garbage

ReadLink(p) ==
    /\ At(p, "readlink")
    /\ LET l == proc[p] IN
       \E text \in LinkText(l.ip) :
          Peek(p, Put([l EXCEPT !.pc = "follow", !.target = text, !.ip = None,
                                !.stack = Append(@, l.depth)], l.ip), Iunlock(icache, l.ip))

\* namei(target); each one is an activation more on the kernel stack
Follow(p) ==
    /\ At(p, "follow")
    /\ LET l == proc[p] IN
       IF Len(l.stack) >= KernelFrames THEN Panic("kernel stack overflow")
       ELSE StartWalk(p, [l EXCEPT !.target = NoData], l.target)

-----------------------------------------------------------------------------
(* System calls on paths.                                                  *)

\* a process enters a call
Enter(p) ==
    /\ At(p, "idle") /\ proc[p].left > 0
    /\ \E call \in setup.calls[p] :
       LET l == [proc[p] EXCEPT !.call = call, !.left = @ - 1]
           walk(path, parent, then) ==
               StartWalk(p, [l EXCEPT !.parent = parent, !.then = then], path)
           file(point) == l.fd # NoFile /\ Peek(p, Lock([l EXCEPT !.pc = point], l.fd.ip), icache)
       IN CASE call.fn = "open" /\ "CREATE" \notin call.omode -> walk(call.path, FALSE, "open")
            [] call.fn = "open" /\ "CREATE" \in call.omode -> walk(call.path, TRUE, "creating")
            [] call.fn \in {"mkdir", "symlink"} -> walk(call.path, TRUE, "creating")
            [] call.fn = "unlink" -> walk(call.path, TRUE, "unlinking")
            [] call.fn = "link"   -> walk(call.path, FALSE, "linkold")
            [] call.fn = "chmod"  -> walk(call.path, FALSE, "chmod")
            [] call.fn = "chdir"  -> walk(call.path, FALSE, "chdir")
            [] call.fn = "write"  -> l.fd.writable /\ file("write")
            [] call.fn = "get_disk_lbn" -> l.fd.readable /\ file("bmap")
            [] call.fn = "close"  -> l.fd # NoFile /\ Peek(p, Put(Idle([l EXCEPT !.fd = NoFile]), l.fd.ip), icache)

\* create(): the name is in the directory, which is locked
CreateOld(p) ==
    /\ At(p, "creating")
    /\ LET l == proc[p]
           i == data[icache[l.ip].inum][l.name]
           old == Entry(icache, i)
       IN /\ l.name \in DOMAIN data[icache[l.ip].inum]
          /\ IF old = None THEN Panic("iget: no inodes")
             ELSE Peek(p, Put(Lock([l EXCEPT !.pc = "exists", !.ip = old], old), l.ip),
                       Iget(Iunlock(icache, l.ip), i))

TypeOf(call) == CASE call.fn = "open" -> "FILE" [] call.fn = "mkdir" -> "DIR" [] call.fn = "symlink" -> "SYMLINK"

\* ... it may be used as it is
Exists(p) ==
    /\ At(p, "exists")
    /\ LET l == proc[p]
           same == icache[l.ip].type = TypeOf(l.call) /\ l.call.fn # "mkdir"
       IN IF same THEN Peek(p, [l EXCEPT !.pc = "created"], icache)
          ELSE Peek(p, Put(Idle(l), l.ip), Iunlock(icache, l.ip))

\* ... it is not: ialloc().  A free inode met first may be gone before it is locked
CreateNew(p) ==
    /\ At(p, "creating")
    /\ LET l == proc[p]
           frees == {i \in Inums : disk[i].type = "free"}
       IN /\ l.name \notin DOMAIN data[icache[l.ip].inum]
          /\ IF frees = {} THEN Panic("ialloc: no inodes")
             ELSE \E i \in frees :
                  LET new == Entry(icache, i)
                  IN IF new = None THEN Panic("iget: no inodes")
                     ELSE /\ Step(p, Lock([l EXCEPT !.pc = "newinode", !.ip = new, !.dp = l.ip], new),
                                  [Iget(icache, i) EXCEPT ![new].perm = M_ALL])
                          /\ disk' = [disk EXCEPT ![i] = [Free EXCEPT !.type = TypeOf(l.call)]]
                          /\ UNCHANGED <<data, used>>

\* bmap() for writei() to the entry s: the first block is allocated if there is none
Grown(c, s) == IF c[s].addrs # {} THEN c ELSE [c EXCEPT ![s].addrs = {Min(Blocks \ used)}]
Full(s) == icache[s].addrs = {} /\ used = Blocks

\* with both locked: the new inode gets its link, its directory gets the entry
NewInode(p) ==
    /\ At(p, "newinode")
    /\ LET l == proc[p]
           isdir == l.call.fn = "mkdir"
           up == icache[l.dp].inum
           i == icache[l.ip].inum
           c1 == [icache EXCEPT ![l.ip].nlink = 1, ![l.ip].perm = M_ALL]
           c == IF isdir THEN [Grown(c1, l.ip) EXCEPT ![l.dp].nlink = @ + 1] ELSE c1
       IN IF isdir /\ Full(l.ip) THEN Panic("balloc: out of blocks")
          ELSE /\ Step(p, Put([l EXCEPT !.pc = "created", !.dp = None], l.dp), Iunlock(c, l.dp))
               /\ disk' = Updated(c, {l.dp, l.ip})
               /\ data' = [data EXCEPT ![up] = Enlarged(@, l.name, i),
                                       ![i] = IF isdir THEN Dots(i, up) ELSE NoData]
               /\ used' = used \cup c[l.ip].addrs

\* create() has returned the inode locked
Created(p) ==
    /\ At(p, "created")
    /\ LET l == proc[p]
           c == Grown(icache, l.ip)
       IN CASE l.call.fn = "open" -> Peek(p, [l EXCEPT !.pc = "install"], icache)
            [] l.call.fn = "mkdir" -> Peek(p, Put(Idle(l), l.ip), Iunlock(icache, l.ip))
            [] l.call.fn = "symlink" ->
                 IF Full(l.ip) THEN Panic("balloc: out of blocks")
                 ELSE /\ Step(p, Put(Idle(l), l.ip), Iunlock(c, l.ip))
                      /\ disk' = Updated(c, {l.ip})
                      /\ data' = [data EXCEPT ![c[l.ip].inum] = l.call.target]
                      /\ used' = used \cup c[l.ip].addrs

\* sys_open() of what namei() found: it follows a link that namei() did not
OpenLink(p) ==
    /\ At(p, "open")
    /\ LET l == proc[p] IN
       /\ icache[l.ip].type = "SYMLINK" /\ "NOACCESS" \notin l.call.omode
       /\ Peek(p, Put([l EXCEPT !.pc = "follow", !.target = data[icache[l.ip].inum], !.ip = None,
                                !.then = "open2"], l.ip), Iunlock(icache, l.ip))

\* O_RDWR is not taken for a mode that writes
MutantDenied(e, omode) ==
    \/ /\ e.type = "FILE" /\ "NOACCESS" \notin omode
       /\ "RDWR" \in omode /\ M_WRITE \notin e.perm
    \/ e.type = "DIR" /\ omode # {}

\* the permissions, as they are tested: O_RDONLY is 0, so no bit of omode stands for it
Denied(e, omode) ==
    \/ /\ e.type = "FILE" /\ "NOACCESS" \notin omode
       /\ omode \cap {"WRONLY", "RDWR"} # {} /\ M_WRITE \notin e.perm
    \/ e.type = "DIR" /\ omode # {}

OpenCheck(p) ==
    /\ proc[p].pc \in {"open", "open2"} /\ panicked = ""
    /\ LET l == proc[p]
           e == icache[l.ip]
       IN /\ l.pc = "open2" \/ e.type # "SYMLINK" \/ "NOACCESS" \in l.call.omode
          /\ IF Denied(e, l.call.omode) THEN Peek(p, Put(Idle(l), l.ip), Iunlock(icache, l.ip))
             ELSE Peek(p, [l EXCEPT !.pc = "install"], icache)

\* filealloc() and fdalloc(), of one descriptor per process; O_TRUNC
Install(p) ==
    /\ At(p, "install")
    /\ LET l == proc[p]
           omode == l.call.omode
           e == icache[l.ip]
           truncates == "TRUNC" \in omode /\ e.type = "FILE"
           c == IF truncates THEN [icache EXCEPT ![l.ip].addrs = {}] ELSE icache
           f == [ip |-> l.ip, readable |-> omode \cap {"WRONLY", "NOACCESS"} = {},
                 writable |-> omode \cap {"WRONLY", "RDWR"} # {} /\ "NOACCESS" \notin omode]
       IN IF l.fd # NoFile THEN Peek(p, Put(Idle(l), l.ip), Iunlock(icache, l.ip))
          ELSE /\ Step(p, Idle([l EXCEPT !.fd = f]), Iunlock(c, l.ip))
               /\ disk' = IF truncates THEN Updated(c, {l.ip}) ELSE disk
               /\ used' = IF truncates THEN used \ e.addrs ELSE used
               /\ UNCHANGED data

\* sys_chmod()
Chmod(p) ==
    /\ At(p, "chmod")
    /\ LET l == proc[p]
           c == [icache EXCEPT ![l.ip].perm = l.call.mode]
       IN Step(p, Put(Idle(l), l.ip), Iunlock(c, l.ip)) /\ disk' = Updated(c, {l.ip})
    /\ UNCHANGED <<data, used>>

\* sys_chdir()
Chdir(p) ==
    /\ At(p, "chdir")
    /\ LET l == proc[p] IN
       Peek(p, IF icache[l.ip].type # "DIR" THEN Put(Idle(l), l.ip)
               ELSE Put(Idle([l EXCEPT !.cwd = l.ip]), l.cwd), Iunlock(icache, l.ip))

-----------------------------------------------------------------------------
(* sys_unlink() and sys_link()                                             *)

\* "." and ".." are not refused
MutantUnlinking(p) ==
    /\ At(p, "unlinking")
    /\ LET l == proc[p]
           dir == data[icache[l.ip].inum]
           victim == Entry(icache, dir[l.name])
       IN IF l.name \notin DOMAIN dir THEN Peek(p, Put(Idle(l), l.ip), Iunlock(icache, l.ip))
          ELSE Peek(p, Lock([l EXCEPT !.pc = "victim", !.dp = l.ip, !.ip = victim], victim),
                    Iget(icache, dir[l.name]))

\* the directory is locked: its entry is found, or it is given up
Unlinking(p) ==
    /\ At(p, "unlinking")
    /\ LET l == proc[p]
           dir == data[icache[l.ip].inum]
           victim == Entry(icache, dir[l.name])
       IN IF l.name \in {".", ".."} \/ l.name \notin DOMAIN dir
          THEN Peek(p, Put(Idle(l), l.ip), Iunlock(icache, l.ip))
          ELSE IF victim = None THEN Panic("iget: no inodes")
          ELSE Peek(p, Lock([l EXCEPT !.pc = "victim", !.dp = l.ip, !.ip = victim], victim),
                    Iget(icache, dir[l.name]))

\* both are locked: the entry is erased
Victim(p) ==
    /\ At(p, "victim")
    /\ LET l == proc[p]
           e == icache[l.ip]
           up == icache[l.dp].inum
           isdir == e.type = "DIR"
           c == IF isdir THEN [icache EXCEPT ![l.dp].nlink = @ - 1] ELSE icache
       IN IF e.nlink < 1 THEN Panic("unlink: nlink < 1")
          ELSE IF isdir /\ DOMAIN data[e.inum] # {".", ".."}
          THEN Peek(p, Put([l EXCEPT !.pc = "unlinkbad", !.ip = None], l.ip), Iunlock(icache, l.ip))
          ELSE /\ Step(p, Put([l EXCEPT !.pc = "unlinked", !.dp = None], l.dp), Iunlock(c, l.dp))
               /\ data' = [data EXCEPT ![up] = Restrict(@, DOMAIN @ \ {l.name})]
               /\ disk' = IF isdir THEN Updated(c, {l.dp}) ELSE disk
               /\ UNCHANGED used

\* without iupdate()
MutantRelink(p, s, delta, l) ==
    Step(p, l, Iunlock([icache EXCEPT ![s].nlink = @ + delta], s)) /\ UNCHANGED <<disk, data, used>>

\* nlink changes by delta, and iupdate()
Relink(p, s, delta, l) ==
    LET c == [icache EXCEPT ![s].nlink = @ + delta]
    IN Step(p, l, Iunlock(c, s)) /\ disk' = Updated(c, {s}) /\ UNCHANGED <<data, used>>

\* bad: the directory is not empty
UnlinkBad(p) ==
    At(p, "unlinkbad") /\ Peek(p, Put(Idle(proc[p]), proc[p].dp), Iunlock(icache, proc[p].dp))

Unlinked(p) == At(p, "unlinked") /\ Relink(p, proc[p].ip, -1, Put(Idle(proc[p]), proc[p].ip))

\* the link is not counted
MutantLinkOld(p) ==
    /\ At(p, "linkold")
    /\ LET l == proc[p] IN
       IF icache[l.ip].type = "DIR" THEN Peek(p, Put(Idle(l), l.ip), Iunlock(icache, l.ip))
       ELSE Relink(p, l.ip, 0, [l EXCEPT !.pc = "follow", !.target = l.call.new, !.old = l.ip, !.ip = None,
                                         !.parent = TRUE, !.then = "linking"])

\* the inode gets its link before its entry, with the walk to the entry in between
LinkOld(p) ==
    /\ At(p, "linkold")
    /\ LET l == proc[p] IN
       IF icache[l.ip].type = "DIR" THEN Peek(p, Put(Idle(l), l.ip), Iunlock(icache, l.ip))
       ELSE Relink(p, l.ip, 1, [l EXCEPT !.pc = "follow", !.target = l.call.new, !.old = l.ip, !.ip = None,
                                         !.parent = TRUE, !.then = "linking"])

\* dirlink() in the parent, which is locked; a name that is there is looked up and put
Linking(p) ==
    /\ At(p, "linking")
    /\ LET l == proc[p]
           up == icache[l.ip].inum
           there == Entry(icache, data[up][l.name])
       IN IF l.name \in DOMAIN data[up]
          THEN IF there = None THEN Panic("iget: no inodes")
               ELSE Peek(p, Put([l EXCEPT !.pc = "notlinked"], there), Iget(icache, data[up][l.name]))
          ELSE /\ Step(p, Put([l EXCEPT !.pc = "linked", !.ip = None], l.ip), Iunlock(icache, l.ip))
               /\ data' = [data EXCEPT ![up] = Enlarged(@, l.name, icache[l.old].inum)]
               /\ UNCHANGED <<disk, used>>

NotLinked(p) ==
    /\ At(p, "notlinked")
    /\ LET l == proc[p] IN
       Peek(p, Put(Lock([l EXCEPT !.pc = "linkbad", !.ip = None], l.old), l.ip), Iunlock(icache, l.ip))

Linked(p) == At(p, "linked") /\ Peek(p, Put(Idle(proc[p]), proc[p].old), icache)

\* bad: the link is taken back
LinkBad(p) == At(p, "linkbad") /\ Relink(p, proc[p].old, -1, Put(Idle(proc[p]), proc[p].old))

-----------------------------------------------------------------------------
(* Calls on an open file.                                                  *)

\* filewrite(), of one block
Write(p) ==
    /\ At(p, "write")
    /\ LET l == proc[p]
           c == Grown(icache, l.fd.ip)
       IN IF Full(l.fd.ip) THEN Panic("balloc: out of blocks")
          ELSE /\ Step(p, Idle(l), Iunlock(c, l.fd.ip))
               /\ disk' = Updated(c, {l.fd.ip})
               /\ used' = used \cup c[l.fd.ip].addrs
               /\ UNCHANGED data

\* sys_get_disk_lbn(): bmap() outside of a transaction, and without iupdate()
GetDiskLbn(p) ==
    /\ At(p, "bmap")
    /\ LET l == proc[p]
           c == Grown(icache, l.fd.ip)
           in_op == \E q \in Procs \ {p} : proc[q].pc # "idle" /\ proc[q].call.fn # "get_disk_lbn"
       IN IF Full(l.fd.ip) THEN Panic("balloc: out of blocks")
          ELSE IF c # icache /\ ~in_op THEN Panic("log_write outside of trans")
          ELSE /\ Step(p, Idle(l), Iunlock(c, l.fd.ip))
               /\ used' = used \cup c[l.fd.ip].addrs
               /\ UNCHANGED <<disk, data>>

-----------------------------------------------------------------------------

Init ==
    /\ setup \in Setups
    /\ disk = ImageDisk(setup.image) /\ data = ImageData(setup.image)
    /\ used = UNION {disk[i].addrs : i \in Inums}
    /\ icache = [s \in Slots |-> IF s = 1 THEN [NoInode EXCEPT !.inum = Root, !.ref = Cardinality(Procs)]
                                 ELSE NoInode]
    /\ proc = [p \in Procs |-> Idle(
                 [pc |-> "idle", call |-> [fn |-> "none"], path |-> <<>>, parent |-> FALSE, name |-> "",
                  ip |-> None, dp |-> None, old |-> None, depth |-> 0, stack |-> <<>>, target |-> NoData,
                  then |-> "idle", want |-> None, locked |-> "idle", put |-> None, after |-> "idle",
                  cwd |-> 1, fd |-> NoFile, left |-> setup.left[p]])]
    /\ panicked = ""

Continue(p) ==
    \/ Ilock(p) \/ Iput(p) \/ Iput2(p) \/ Look(p) \/ Link(p) \/ ReadLink(p) \/ Follow(p)
    \/ CreateOld(p) \/ Exists(p) \/ CreateNew(p) \/ NewInode(p) \/ Created(p)
    \/ OpenLink(p) \/ OpenCheck(p) \/ Install(p) \/ Chmod(p) \/ Chdir(p)
    \/ Unlinking(p) \/ Victim(p) \/ UnlinkBad(p) \/ Unlinked(p)
    \/ LinkOld(p) \/ Linking(p) \/ NotLinked(p) \/ Linked(p) \/ LinkBad(p)
    \/ Write(p) \/ GetDiskLbn(p)

Next == \E p \in Procs : Enter(p) \/ Continue(p)

Spec == Init /\ [][Next]_vars

\* every process runs on, and a sleep-lock is passed on: its waiters are woken in the
\* order of the process table, and the scheduler goes round that table
FairSpec == Spec /\ \A p \in Procs : WF_vars(Continue(p)) /\ SF_vars(Ilock(p))
-----------------------------------------------------------------------------
(* Properties.                                                             *)

Pointers == {"ip", "dp", "old", "put", "cwd", "fd"}
Pointer(p, v) == IF v = "fd" THEN proc[p].fd.ip ELSE proc[p][v]

Alive == {i \in Inums : disk[i].type # "free"}
LinksTo(i) == LinksOf(disk, data, i)

Quiet == \A p \in Procs : proc[p].pc = "idle"
MayFail == panicked # ""

TypeOK ==
    /\ \A i \in Inums : disk[i].type \in {"free", "DIR", "FILE", "SYMLINK"} /\ disk[i].nlink \in Int
                        /\ disk[i].perm \subseteq M_ALL /\ disk[i].addrs \subseteq Blocks
    /\ \A s \in Slots : icache[s].inum \in 0 .. NInodes /\ icache[s].ref \in Nat
                        /\ icache[s].lock \in Procs \cup {None}
    /\ \A p \in Procs, v \in Pointers : Pointer(p, v) \in Slots \cup {None}

\* An entry of the inode cache has exactly the references the processes hold: the
\* current directories, the open files and the locals of the calls in progress.
RefsExact ==
    ~MayFail => \A s \in Slots :
        icache[s].ref = Cardinality({h \in Procs \X Pointers : Pointer(h[1], h[2]) = s})

\* An inode is in the cache once, so that its lock is one lock.
OneEntryPerInode ==
    \A s, t \in Slots : icache[s].ref > 0 /\ icache[t].ref > 0 /\ icache[s].inum = icache[t].inum => s = t

\* What is cached and not being changed is what is on the disk (the cache is
\* write-through), although the inode was freed and allocated again in between.
CacheIsCurrent ==
    ~MayFail => \A s \in Slots : icache[s].ref > 0 /\ icache[s].valid /\ icache[s].lock = None =>
                    Dinode(icache[s]) = disk[icache[s].inum]

\* No entry of a directory names a free inode, and nlink never counts fewer entries
\* than there are: nothing that can be reached is freed, whatever is between
\* namei() and dirlink(), or between the erased entry and nlink--.
NothingDangles ==
    ~MayFail => \A i \in Inums : Cardinality(LinksTo(i)) <= disk[i].nlink

\* When no call is in progress nlink is exact, and an inode nobody can reach is free.
LinksExactWhenQuiet ==
    Quiet => \A i \in Alive :
        /\ disk[i].nlink = Cardinality(LinksTo(i))
        /\ disk[i].nlink = 0 => \E s \in Slots : icache[s].ref > 0 /\ icache[s].inum = i

\* A block in use belongs to one inode, and one that is not to none.
BlocksExact ==
    ~MayFail => /\ used = UNION {disk[i].addrs : i \in Inums}
                /\ \A i, j \in Inums : i # j => disk[i].addrs \cap disk[j].addrs = {}

\* None of the assertions of fs.c and sysfile.c fails.
NoPanic == panicked = ""

\* The inode cache is sound, and so is the disk, between any two steps of any two calls.
CacheSound == TypeOK /\ RefsExact /\ OneEntryPerInode /\ CacheIsCurrent
DiskSound == NothingDangles /\ LinksExactWhenQuiet /\ BlocksExact /\ NoPanic

\* Every call returns: no two calls wait for each other's inode, and no walk goes on
\* for ever.
CallsReturn == \A p \in Procs : proc[p].pc # "idle" ~> proc[p].pc = "idle"

\* A file is not open for writing unless it could be written when it was opened, or the
\* open was one with O_CREATE, however open and chmod interleave.
NoWriteWithoutPermission ==
    [][\A p \in Procs : proc'[p].fd # proc[p].fd /\ proc'[p].fd.writable
                        /\ "CREATE" \notin proc[p].call.omode
                        /\ disk[icache[proc'[p].fd.ip].inum].type = "FILE" =>
          M_WRITE \in disk[icache[proc'[p].fd.ip].inum].perm]_vars

\* Nobody goes up from a directory that has been removed to one that has been, too, or
\* makes an entry in a directory that has been removed.
RemovedUnused ==
    \A p \in Procs :
        LET l == proc[p]
            i == icache[l.ip].inum
            up == l.pc = "look" /\ icache[l.ip].type = "DIR" /\ Head(l.path) = ".." /\ ".." \in DOMAIN data[i]
        IN /\ up /\ ~(l.parent /\ Len(l.path) = 1) => disk[data[i][".."]].nlink > 0
           /\ l.pc \in {"creating", "linking"} => InTree(disk, data, i)
=============================================================================
