---------------------------- MODULE FsLinkProofs ----------------------------
(***************************************************************************)
(* The directory tree of mp4: link counts, names and the assertions of the *)
(* file system, for every number of processes, inodes, entries of the      *)
(* cache and blocks, and any calls, as long as a directory that has been   *)
(* removed is not used any more (RemovedUnused).  FsProofs has the         *)
(* invariant of the inode cache that this rests on.                        *)
(***************************************************************************)
EXTENDS FsProofs

-----------------------------------------------------------------------------
(* Links and the directory tree: what a change of one directory does to    *)
(* the entries of a disk.                                                  *)

LEMMA InEntries ==
  ASSUME NEW k, NEW d, NEW i, NEW n
  PROVE  <<i, n>> \in EntriesOf(k, d) <=> i \in Inums /\ k[i].type = "DIR" /\ n \in DOMAIN d[i]
<1>1. ASSUME <<i, n>> \in EntriesOf(k, d) PROVE i \in Inums /\ k[i].type = "DIR" /\ n \in DOMAIN d[i]
  <2>1. PICK x \in Inums : k[x].type = "DIR" /\ <<i, n>> \in {<<x, y>> : y \in DOMAIN d[x]}
    BY <1>1 DEF EntriesOf
  <2>2. PICK y \in DOMAIN d[x] : <<i, n>> = <<x, y>>
    BY <2>1
  <2> QED BY <2>1, <2>2
<1>2. ASSUME i \in Inums, k[i].type = "DIR", n \in DOMAIN d[i] PROVE <<i, n>> \in EntriesOf(k, d)
  <2>1. <<i, n>> \in {<<i, y>> : y \in DOMAIN d[i]}
    BY <1>2
  <2> QED BY <1>2, <2>1 DEF EntriesOf
<1> QED BY <1>1, <1>2

LEMMA EntryIsPair ==
  ASSUME NEW k, NEW d, NEW e \in EntriesOf(k, d)
  PROVE  e = <<e[1], e[2]>>
<1>1. PICK x \in Inums : e \in {<<x, y>> : y \in DOMAIN d[x]}
  BY DEF EntriesOf
<1>2. PICK y \in DOMAIN d[x] : e = <<x, y>>
  BY <1>1
<1> QED BY <1>2

LEMMA InNames ==
  ASSUME NEW k, NEW d, NEW j, NEW i, NEW n
  PROVE  <<i, n>> \in NamesOf(k, d, j) <=>
            i \in Inums /\ k[i].type = "DIR" /\ n \in DOMAIN d[i] /\ n \notin DotNames /\ d[i][n] = j
BY InEntries DEF NamesOf

LEMMA InLinks ==
  ASSUME NEW k, NEW d, NEW j, NEW i, NEW n
  PROVE  <<i, n>> \in LinksOf(k, d, j) <=>
            /\ i \in Inums /\ k[i].type = "DIR" /\ n \in DOMAIN d[i] /\ d[i][n] = j
            /\ n # "." /\ (n = ".." => InTree(k, d, i))
BY InEntries DEF LinksOf

LEMMA NamesArePairs ==
  ASSUME NEW k, NEW d, NEW j
  PROVE  /\ \A e \in NamesOf(k, d, j) : e = <<e[1], e[2]>>
         /\ \A e \in LinksOf(k, d, j) : e = <<e[1], e[2]>>
<1>1. NamesOf(k, d, j) \subseteq EntriesOf(k, d) /\ LinksOf(k, d, j) \subseteq EntriesOf(k, d)
  BY DEF NamesOf, LinksOf
<1> QED BY <1>1, EntryIsPair

LEMMA PairSets ==
  ASSUME NEW S, NEW T, \A e \in S : e = <<e[1], e[2]>>, \A e \in T : e = <<e[1], e[2]>>,
         \A i, n : <<i, n>> \in S <=> <<i, n>> \in T
  PROVE  S = T
<1>1. ASSUME NEW e, NEW A, NEW B, e \in A, e = <<e[1], e[2]>>, \A i, n : <<i, n>> \in A => <<i, n>> \in B
      PROVE  e \in B
  <2> DEFINE i == e[1]
             n == e[2]
  <2>1. e = <<i, n>> /\ <<i, n>> \in A
    BY <1>1
  <2> HIDE DEF i, n
  <2> QED BY <1>1, <2>1
<1>2. S \subseteq T /\ T \subseteq S
  BY <1>1
<1> QED BY <1>2

\* The same names make the same links.
LEMMA LinksFromNames ==
  ASSUME NEW k, NEW d, NEW k2, NEW d2,
         \A i, n, j : n \notin DotNames => (<<i, n>> \in NamesOf(k2, d2, j) <=> <<i, n>> \in NamesOf(k, d, j))
  PROVE  \A j : NamesOf(k2, d2, j) = NamesOf(k, d, j) /\ (InTree(k2, d2, j) <=> InTree(k, d, j))
<1> TAKE j
<1>1. \A i, n : <<i, n>> \in NamesOf(k2, d2, j) <=> <<i, n>> \in NamesOf(k, d, j)
  BY InNames
<1>2. NamesOf(k2, d2, j) = NamesOf(k, d, j)
  BY <1>1, NamesArePairs, PairSets
<1> QED BY <1>2 DEF InTree

\* Nothing changes in the directories, but for one that has been removed or is not there yet.
Bare(k, d, i) == k[i].type = "DIR" => DOMAIN d[i] \subseteq DotNames

LEMMA SameLinks ==
  ASSUME NEW k, NEW d, NEW k2, NEW d2, NEW i, ~InTree(k, d, i), Bare(k, d, i), Bare(k2, d2, i),
         \A j \in Inums \ {i} : k2[j].type = k[j].type /\ (k[j].type = "DIR" => d2[j] = d[j])
  PROVE  \A j : /\ NamesOf(k2, d2, j) = NamesOf(k, d, j) /\ (InTree(k2, d2, j) <=> InTree(k, d, j))
                /\ LinksOf(k2, d2, j) = LinksOf(k, d, j)
<1>1. \A j : NamesOf(k2, d2, j) = NamesOf(k, d, j) /\ (InTree(k2, d2, j) <=> InTree(k, d, j))
  <2>1. ASSUME NEW h, NEW n, NEW j, n \notin DotNames
        PROVE  <<h, n>> \in NamesOf(k2, d2, j) <=> <<h, n>> \in NamesOf(k, d, j)
    BY <2>1, InNames DEF Bare
  <2> QED BY <2>1, LinksFromNames
<1>2. ASSUME NEW j PROVE LinksOf(k2, d2, j) = LinksOf(k, d, j)
  <2>1. ASSUME NEW h, NEW n PROVE <<h, n>> \in LinksOf(k2, d2, j) <=> <<h, n>> \in LinksOf(k, d, j)
    <3>1. CASE h = i
      BY <1>1, <3>1, InLinks DEF Bare, DotNames
    <3>2. CASE h # i
      BY <1>1, <3>2, InLinks
    <3> QED BY <3>1, <3>2
  <2> QED BY <2>1, NamesArePairs, PairSets
<1> QED BY <1>1, <1>2

\* A directory in the tree gets an entry for i, which becomes a directory below it, or is none.
Adds(k, d, k2, d2, up, i, name) ==
    /\ up \in Inums /\ i \in Inums /\ i # up
    /\ k[up].type = "DIR" /\ InTree(k, d, up) /\ name \notin DOMAIN d[up] \cup DotNames
    /\ d2[up] = Enlarged(d[up], name, i)
    /\ \A j \in Inums : k2[j].type = k[j].type /\ (k[j].type = "DIR" /\ j \notin {i, up} => d2[j] = d[j])
    /\ k[i].type = "DIR" => DOMAIN d[i] = {} /\ d2[i] = Dots(i, up)

LEMMA AddedLinks ==
  ASSUME NEW k, NEW d, NEW k2, NEW d2, NEW up, NEW i, NEW name, Adds(k, d, k2, d2, up, i, name),
         NEW e, NEW f, e = <<up, name>>, f = <<i, "..">>
  PROVE  /\ NamesOf(k2, d2, i) = NamesOf(k, d, i) \cup {e}
         /\ \A j : j # i => NamesOf(k2, d2, j) = NamesOf(k, d, j) /\ (InTree(k2, d2, j) <=> InTree(k, d, j))
         /\ InTree(k2, d2, i)
         /\ LinksOf(k2, d2, i) = LinksOf(k, d, i) \cup {e} /\ e \notin LinksOf(k, d, i)
         /\ k[i].type = "DIR" => /\ LinksOf(k2, d2, up) = LinksOf(k, d, up) \cup {f}
                                 /\ f \notin LinksOf(k, d, up)
         /\ k[i].type # "DIR" => LinksOf(k2, d2, up) = LinksOf(k, d, up)
         /\ \A j : j \notin {i, up} => LinksOf(k2, d2, j) = LinksOf(k, d, j)
<1> USE DEF Adds
<1>1. /\ DOMAIN d2[up] = DOMAIN d[up] \cup {name} /\ d2[up][name] = i
      /\ \A n \in DOMAIN d[up] : d2[up][n] = d[up][n]
  BY DEF Enlarged
<1>2. k[i].type = "DIR" => DOMAIN d2[i] = DotNames /\ d2[i]["."] = i /\ d2[i][".."] = up
  BY DEF Dots, DotNames
<1>3. ASSUME NEW j, NEW h, NEW n
      PROVE  <<h, n>> \in NamesOf(k2, d2, j) <=> <<h, n>> \in NamesOf(k, d, j) \/ (j = i /\ h = up /\ n = name)
  <2>1. CASE h = up
    BY <1>1, <2>1, InNames
  <2>2. CASE h = i
    BY <1>2, <2>2, InNames
  <2>3. CASE h \notin {i, up}
    BY <2>3, InNames
  <2> QED BY <2>1, <2>2, <2>3
<1>4. NamesOf(k2, d2, i) = NamesOf(k, d, i) \cup {e}
  <2> DEFINE T == NamesOf(k, d, i) \cup {e}
  <2>1. ASSUME NEW h, NEW n PROVE <<h, n>> \in NamesOf(k2, d2, i) <=> <<h, n>> \in T
    <3>1. <<h, n>> = <<up, name>> <=> h = up /\ n = name
      OBVIOUS
    <3> QED BY <1>3, <3>1
  <2>2. \A z \in T : z = <<z[1], z[2]>>
    BY NamesArePairs
  <2> HIDE DEF T
  <2>3. NamesOf(k2, d2, i) = T
    BY <2>1, <2>2, NamesArePairs, PairSets
  <2> QED BY <2>3 DEF T
<1>5. ASSUME NEW j, j # i PROVE NamesOf(k2, d2, j) = NamesOf(k, d, j) /\ (InTree(k2, d2, j) <=> InTree(k, d, j))
  <2>1. \A h, n : <<h, n>> \in NamesOf(k2, d2, j) <=> <<h, n>> \in NamesOf(k, d, j)
    BY <1>3, <1>5
  <2>2. NamesOf(k2, d2, j) = NamesOf(k, d, j)
    BY <2>1, NamesArePairs, PairSets
  <2> QED BY <2>2 DEF InTree
<1>6. InTree(k2, d2, i)
  BY <1>4 DEF InTree
<1>7. ASSUME NEW j, NEW h, NEW n
      PROVE  <<h, n>> \in LinksOf(k2, d2, j) <=>
                \/ <<h, n>> \in LinksOf(k, d, j)
                \/ j = i /\ h = up /\ n = name
                \/ j = up /\ h = i /\ n = ".." /\ k[i].type = "DIR"
  <2>1. CASE h = up
    <3>1. InTree(k2, d2, up) /\ InTree(k, d, up)
      BY <1>5
    <3> QED BY <1>1, <2>1, <3>1, InLinks DEF DotNames
  <2>2. CASE h = i
    BY <1>2, <1>6, <2>2, InLinks DEF DotNames
  <2>3. CASE h \notin {i, up}
    BY <1>5, <2>3, InLinks
  <2> QED BY <2>1, <2>2, <2>3
<1>8. ASSUME NEW j, NEW X, \A z \in X : z = <<z[1], z[2]>>,
             \A h, n : <<h, n>> \in LinksOf(k2, d2, j) <=> <<h, n>> \in LinksOf(k, d, j) \cup X
      PROVE  LinksOf(k2, d2, j) = LinksOf(k, d, j) \cup X
  <2> DEFINE T == LinksOf(k, d, j) \cup X
  <2>1. (\A z \in T : z = <<z[1], z[2]>>) /\ \A h, n : <<h, n>> \in LinksOf(k2, d2, j) <=> <<h, n>> \in T
    BY <1>8, NamesArePairs
  <2> HIDE DEF T
  <2>2. LinksOf(k2, d2, j) = T
    BY <2>1, NamesArePairs, PairSets
  <2> QED BY <2>2 DEF T
<1>9. LinksOf(k2, d2, i) = LinksOf(k, d, i) \cup {e}
  <2>1. \A h, n : <<h, n>> \in LinksOf(k2, d2, i) <=> <<h, n>> \in LinksOf(k, d, i) \cup {e}
    BY <1>7
  <2>2. \A z \in {e} : z = <<z[1], z[2]>>
    OBVIOUS
  <2> QED BY <1>8, <2>1, <2>2
<1>10. ASSUME k[i].type = "DIR" PROVE LinksOf(k2, d2, up) = LinksOf(k, d, up) \cup {f}
  <2>1. ASSUME NEW h, NEW n
        PROVE  <<h, n>> \in LinksOf(k2, d2, up) <=> <<h, n>> \in LinksOf(k, d, up) \cup {f}
    <3>1. <<h, n>> = <<i, "..">> <=> h = i /\ n = ".."
      OBVIOUS
    <3> QED BY <1>7, <1>10, <3>1
  <2>2. \A z \in {f} : z = <<z[1], z[2]>>
    OBVIOUS
  <2> QED BY <1>8, <2>1, <2>2
<1>11. ASSUME NEW j, j # i, j = up => k[i].type # "DIR" PROVE LinksOf(k2, d2, j) = LinksOf(k, d, j)
  <2>1. \A h, n : <<h, n>> \in LinksOf(k2, d2, j) <=> <<h, n>> \in LinksOf(k, d, j)
    BY <1>7, <1>11
  <2> QED BY <2>1, NamesArePairs, PairSets
<1>12. e \notin LinksOf(k, d, i)
  BY InLinks
<1>13. k[i].type = "DIR" => f \notin LinksOf(k, d, up)
  BY InLinks
<1> QED BY <1>4, <1>5, <1>6, <1>9, <1>10, <1>11, <1>12, <1>13

\* An entry for v is erased; v is no directory or one without entries of its own.
Erases(k, d, k2, d2, up, v, name) ==
    /\ up \in Inums /\ v \in Inums /\ v # up
    /\ k[up].type = "DIR" /\ name \in DOMAIN d[up] \ DotNames /\ d[up][name] = v
    /\ d2[up] = Restrict(d[up], DOMAIN d[up] \ {name})
    /\ \A j \in Inums : k2[j].type = k[j].type /\ (k[j].type = "DIR" /\ j # up => d2[j] = d[j])
    /\ k[v].type = "DIR" => DOMAIN d[v] = DotNames /\ d[v][".."] = up /\ v # Root /\ NamesOf(k, d, v) = {<<up, name>>}

LEMMA ErasedLinks ==
  ASSUME NEW k, NEW d, NEW k2, NEW d2, NEW up, NEW v, NEW name, Erases(k, d, k2, d2, up, v, name),
         NEW e, NEW f, e = <<up, name>>, f = <<v, "..">>
  PROVE  /\ NamesOf(k2, d2, v) = NamesOf(k, d, v) \ {e} /\ e \in NamesOf(k, d, v)
         /\ \A j : j # v => NamesOf(k2, d2, j) = NamesOf(k, d, j) /\ (InTree(k2, d2, j) <=> InTree(k, d, j))
         /\ LinksOf(k2, d2, v) = LinksOf(k, d, v) \ {e} /\ e \in LinksOf(k, d, v)
         /\ k[v].type = "DIR" => /\ LinksOf(k2, d2, up) = LinksOf(k, d, up) \ {f}
                                 /\ f \in LinksOf(k, d, up) /\ ~InTree(k2, d2, v)
         /\ k[v].type # "DIR" => LinksOf(k2, d2, up) = LinksOf(k, d, up)
         /\ \A j : j \notin {v, up} => LinksOf(k2, d2, j) = LinksOf(k, d, j)
<1> USE DEF Erases
<1>1. DOMAIN d2[up] = DOMAIN d[up] \ {name} /\ \A n \in DOMAIN d[up] \ {name} : d2[up][n] = d[up][n]
  BY DEF Restrict
<1>2. ASSUME NEW j, NEW h, NEW n
      PROVE  <<h, n>> \in NamesOf(k2, d2, j) <=> <<h, n>> \in NamesOf(k, d, j) /\ ~(h = up /\ n = name)
  <2>1. CASE h = up
    <3>1. k2[up].type = "DIR" /\ n \in DOMAIN d2[up] <=> n \in DOMAIN d[up] /\ n # name
      BY <1>1
    <3>2. n \in DOMAIN d2[up] => d2[up][n] = d[up][n]
      BY <1>1
    <3> QED BY <2>1, <3>1, <3>2, InNames
  <2>2. CASE h # up
    BY <2>2, InNames
  <2> QED BY <2>1, <2>2
<1>3. e \in NamesOf(k, d, v) /\ e \in LinksOf(k, d, v)
  BY InNames, InLinks DEF DotNames
<1>4. NamesOf(k2, d2, v) = NamesOf(k, d, v) \ {e}
  <2> DEFINE T == NamesOf(k, d, v) \ {e}
  <2>1. \A h, n : <<h, n>> \in NamesOf(k2, d2, v) <=> <<h, n>> \in T
    BY <1>2
  <2>2. \A z \in T : z = <<z[1], z[2]>>
    BY NamesArePairs
  <2> HIDE DEF T
  <2>3. NamesOf(k2, d2, v) = T
    BY <2>1, <2>2, NamesArePairs, PairSets
  <2> QED BY <2>3 DEF T
<1>5. ASSUME NEW j, j # v PROVE NamesOf(k2, d2, j) = NamesOf(k, d, j) /\ (InTree(k2, d2, j) <=> InTree(k, d, j))
  <2>1. \A h, n : <<h, n>> \in NamesOf(k2, d2, j) <=> <<h, n>> \in NamesOf(k, d, j)
    <3>1. <<up, name>> \notin NamesOf(k, d, j)
      BY <1>5, InNames
    <3> QED BY <1>2, <3>1
  <2>2. NamesOf(k2, d2, j) = NamesOf(k, d, j)
    BY <2>1, NamesArePairs, PairSets
  <2> QED BY <2>2 DEF InTree
<1>6. k[v].type = "DIR" => ~InTree(k2, d2, v) /\ InTree(k, d, v)
  BY <1>3, <1>4 DEF InTree
<1>7. ASSUME NEW j, NEW h, NEW n
      PROVE  <<h, n>> \in LinksOf(k2, d2, j) <=>
                /\ <<h, n>> \in LinksOf(k, d, j)
                /\ ~(j = v /\ h = up /\ n = name)
                /\ ~(j = up /\ h = v /\ n = ".." /\ k[v].type = "DIR")
  <2>1. CASE h = up
    <3>1. InTree(k2, d2, up) <=> InTree(k, d, up)
      BY <1>5
    <3>2. k2[up].type = "DIR" /\ n \in DOMAIN d2[up] <=> n \in DOMAIN d[up] /\ n # name
      BY <1>1
    <3>3. n \in DOMAIN d2[up] => d2[up][n] = d[up][n]
      BY <1>1
    <3> QED BY <2>1, <3>1, <3>2, <3>3, InLinks DEF DotNames
  <2>2. CASE h = v
    <3>1. k[v].type = "DIR" => ~InTree(k2, d2, v) /\ InTree(k, d, v) /\ d[v][".."] = up /\ DOMAIN d[v] = DotNames /\ d2[v] = d[v]
      BY <1>6
    <3> QED BY <2>2, <3>1, InLinks DEF DotNames
  <2>3. CASE h \notin {v, up}
    BY <1>5, <2>3, InLinks
  <2> QED BY <2>1, <2>2, <2>3
<1>8. ASSUME NEW j, NEW x, NEW y,
             \A h, n : <<h, n>> \in LinksOf(k2, d2, j) <=> <<h, n>> \in LinksOf(k, d, j) \ {<<x, y>>}
      PROVE  LinksOf(k2, d2, j) = LinksOf(k, d, j) \ {<<x, y>>}
  <2> DEFINE T == LinksOf(k, d, j) \ {<<x, y>>}
  <2>1. (\A z \in T : z = <<z[1], z[2]>>) /\ \A h, n : <<h, n>> \in LinksOf(k2, d2, j) <=> <<h, n>> \in T
    BY <1>8, NamesArePairs
  <2> HIDE DEF T
  <2>2. LinksOf(k2, d2, j) = T
    BY <2>1, NamesArePairs, PairSets
  <2> QED BY <2>2 DEF T
<1>9. LinksOf(k2, d2, v) = LinksOf(k, d, v) \ {e}
  <2>1. \A h, n : <<h, n>> \in LinksOf(k2, d2, v) <=> <<h, n>> \in LinksOf(k, d, v) \ {e}
    BY <1>7
  <2> QED BY <1>8, <2>1
<1>10. ASSUME k[v].type = "DIR" PROVE LinksOf(k2, d2, up) = LinksOf(k, d, up) \ {f}
  <2>1. \A h, n : <<h, n>> \in LinksOf(k2, d2, up) <=> <<h, n>> \in LinksOf(k, d, up) \ {f}
    BY <1>7, <1>10
  <2> QED BY <1>8, <2>1
<1>11. ASSUME NEW j, j # v, j = up => k[v].type # "DIR" PROVE LinksOf(k2, d2, j) = LinksOf(k, d, j)
  <2>1. \A h, n : <<h, n>> \in LinksOf(k2, d2, j) <=> <<h, n>> \in LinksOf(k, d, j)
    BY <1>7, <1>11
  <2> QED BY <2>1, NamesArePairs, PairSets
<1>12. k[v].type = "DIR" => f \in LinksOf(k, d, up)
  BY <1>6, InLinks DEF DotNames
<1> QED BY <1>3, <1>4, <1>5, <1>6, <1>9, <1>10, <1>11, <1>12

-----------------------------------------------------------------------------
(* The invariant of the links.                                             *)

IsDir(i) == disk[i].type = "DIR"
Names(i) == NamesOf(disk, data, i)
InPlace(i) == InTree(disk, data, i)
Inum(s) == icache[s].inum

\* A process that has made an inode and has not linked it yet.
Makes(p) == Place(proc[p]) = "newinode"
Fresh(i) == \E p \in Procs : Makes(p) /\ Inum(proc[p].ip) = i

\* The directories are a tree but for ".", "..", and those that have been removed, which are empty.
Tree ==
    /\ IsDir(Root) /\ Names(Root) = {} /\ ".." \in DOMAIN data[Root] /\ data[Root][".."] = Root
    /\ \A i \in Inums : IsDir(i) =>
          /\ ~Fresh(i) => DotNames \subseteq DOMAIN data[i] /\ data[i]["."] = i
          /\ Names(i) # {} => \E n : Names(i) = {<<data[i][".."], n>>}
          /\ ~InPlace(i) => DOMAIN data[i] \subseteq DotNames

\* The inode whose nlink counts one entry that a process has not made yet, or has already erased.
OldPoints == {"linking", "notlinked", "linkbad"}
Owed(l) == IF Place(l) = "unlinked" THEN l.ip ELSE IF Aim(l) \in OldPoints THEN l.old ELSE None
Owing(i) == {p \in Procs : Owed(proc[p]) # None /\ Inum(Owed(proc[p])) = i}
Counted ==
    \A i \in Inums : IsFiniteSet(LinksTo(i)) /\ disk[i].nlink = Cardinality(LinksTo(i)) + Cardinality(Owing(i))

\* An inode that has just been made, or freed, is known to nobody else.
Lonely(s) ==
    \A q \in Procs, v \in Pointers : Pointer(q, v) = s => \/ Makes(q) /\ v = "ip"
                                                          \/ proc[q].pc = "put2" /\ v = "put"
Alone ==
    /\ \A p \in Procs : Makes(p) => /\ disk[Inum(proc[p].ip)].nlink = 0 /\ data[Inum(proc[p].ip)] = NoData
                                    /\ Lonely(proc[p].ip)
    /\ \A p, q \in Procs : Makes(p) /\ Makes(q) /\ proc[p].ip = proc[q].ip => p = q
    /\ \A p \in Procs : proc[p].pc = "put2" =>
          /\ Lonely(proc[p].put)
          /\ disk[Inum(proc[p].put)].type = "free" \/ Fresh(Inum(proc[p].put))

\* What a call knows of the entry it is going to make or to erase, and of what it links.
KnowsLinks(l) ==
    /\ Place(l) \in {"newinode", "victim"} => IsDir(Inum(l.dp))
    /\ Place(l) = "newinode" => l.name \notin DOMAIN data[Inum(l.dp)] /\ InPlace(Inum(l.dp))
    /\ Place(l) = "victim" => /\ l.name \in DOMAIN data[Inum(l.dp)] \ DotNames
                              /\ data[Inum(l.dp)][l.name] = Inum(l.ip)
    /\ Aim(l) \in OldPoints \cup {"linked"} => disk[Inum(l.old)].type \notin {"DIR", "free"}
Knowing == \A p \in Procs : KnowsLinks(proc[p])

\* An inode that is referred to is there, and one without links is referred to.
Live ==
    /\ \A i \in Inums : disk[i].type = "free" => disk[i].nlink = 0
    /\ \A s \in Slots : icache[s].ref > 0 => disk[Inum(s)].type # "free" \/ Freeing(s)
    /\ \A s \in Slots : icache[s].ref > 0 /\ ~icache[s].valid => disk[Inum(s)].nlink # 0 \/ Fresh(Inum(s))
    /\ \A i \in Inums : disk[i].type # "free" /\ disk[i].nlink = 0 => \E s \in Slots : icache[s].ref > 0 /\ Inum(s) = i

LInv == Tree /\ Counted /\ Alone /\ Knowing /\ Live

-----------------------------------------------------------------------------
(* What it says of an inode.                                               *)

\* What a process points to is referred to, and an entry that is referred to is pointed to.
Points == \A q \in Procs, v \in Pointers, s \in Slots :
             Pointer(q, v) = s => icache[s].ref > 0 /\ icache[s].inum \in Inums
Pointees == \A s \in Slots : icache[s].ref > 0 => \E q \in Procs, v \in Pointers : Pointer(q, v) = s

LEMMA PointersCount == IInv => Points /\ Pointees
<1> SUFFICES ASSUME IInv PROVE Points /\ Pointees
  OBVIOUS
<1>1. ASSUME NEW s \in Slots
      PROVE  /\ icache[s].ref > 0 <=> Holders(s) # {}
             /\ icache[s].ref > 0 => icache[s].inum \in Inums
  <2>1. IsFiniteSet(Holders(s)) /\ Cardinality(Holders(s)) \in Nat /\ icache[s].ref = Cardinality(Holders(s))
    BY HoldersFinite DEF IInv, Refs
  <2>2. Cardinality(Holders(s)) = 0 <=> Holders(s) = {}
    BY <2>1, FS_EmptySet
  <2>3. icache[s].ref > 0 <=> Holders(s) # {}
    BY <2>1, <2>2
  <2> QED BY <2>3 DEF IInv, Cached
<1>2. Points
  <2> SUFFICES ASSUME NEW q \in Procs, NEW v \in Pointers, NEW s \in Slots, Pointer(q, v) = s
               PROVE  icache[s].ref > 0 /\ icache[s].inum \in Inums
    BY DEF Points
  <2>1. <<q, v>> \in Holders(s)
    BY DEF Holders
  <2> QED BY <1>1, <2>1
<1>3. Pointees
  <2> SUFFICES ASSUME NEW s \in Slots, icache[s].ref > 0 PROVE \E q \in Procs, v \in Pointers : Pointer(q, v) = s
    BY DEF Pointees
  <2>1. PICK h \in Holders(s) : TRUE
    BY <1>1
  <2> QED BY <2>1 DEF Holders
<1> QED BY <1>2, <1>3

LEMMA OneSlot ==
  ASSUME IInv, NEW s \in Slots, NEW t \in Slots, icache[s].ref > 0, icache[t].ref > 0, Inum(s) = Inum(t)
  PROVE  s = t
BY DEF IInv, Cached, OneEntryPerInode, Inum

LEMMA CountPointers ==
  ASSUME NEW l, NEW s
  PROVE  N(l, s) \in Nat /\ (N(l, s) = 0 <=> \A v \in Pointers : Ptr(l, v) # s)
<1> DEFINE S == {v \in Pointers : Ptr(l, v) = s}
<1>1. IsFiniteSet(S) /\ Cardinality(S) = N(l, s) /\ N(l, s) \in Nat
  BY CountOwn
<1>2. S = {} <=> \A v \in Pointers : Ptr(l, v) # s
  OBVIOUS
<1> HIDE DEF S
<1> QED BY <1>1, <1>2, FS_EmptySet

\* A process that makes an inode.
LEMMA MakesFacts ==
  ASSUME IInv, NEW p \in Procs, Makes(p)
  PROVE  /\ proc[p].ip \in Slots /\ proc[p].dp \in Slots /\ icache[proc[p].ip].ref > 0 /\ icache[proc[p].dp].ref > 0
         /\ Inum(proc[p].ip) \in Inums /\ Inum(proc[p].dp) \in Inums
         /\ TypeAt(proc[p].ip) = TypeOf(proc[p].call) /\ Creates(proc[p]) /\ TypeAt(proc[p].ip) # "free"
         /\ proc[p].put # proc[p].ip \/ proc[p].pc # "put2"
<1> DEFINE l == proc[p]
<1>1. Control(l) /\ Place(l) = "newinode" /\ Aim(l) = "newinode"
  BY DEF IInv, Controls, Makes, Aim, WalkPoints
<1>2. l.ip \in Slots /\ l.dp \in Slots
  BY <1>1 DEF Control, Shape, Pointed, IpPoints, FoundPoints, ParentPoints, None
<1>3. Creates(l)
  BY <1>1 DEF Control, Shape, CallFits, Creates
<1>4. TypeAt(l.ip) = TypeOf(l.call) /\ TypeOf(l.call) # "free"
  BY <1>1, <1>3 DEF IInv, Kinds, TypeOf, Creates
<1>5. l.put # l.ip \/ l.pc # "put2"
  BY <1>1 DEF Control, Shape, Pointed
<1>6. /\ icache[l.ip].ref > 0 /\ icache[l.dp].ref > 0 /\ icache[l.ip].inum \in Inums /\ icache[l.dp].inum \in Inums
  <2>1. Pointer(p, "ip") = l.ip /\ Pointer(p, "dp") = l.dp /\ {"ip", "dp"} \subseteq Pointers
    BY DEF Pointer, Pointers
  <2> QED BY <1>2, <2>1, PointersCount DEF Points
<1> QED BY <1>2, <1>3, <1>4, <1>5, <1>6 DEF Inum

LEMMA OwingFinite ==
  ASSUME NEW i
  PROVE  IsFiniteSet(Owing(i)) /\ Cardinality(Owing(i)) \in Nat
<1>1. IsFiniteSet(Procs) /\ Owing(i) \subseteq Procs
  BY FsAssumption DEF FsAssumption, Owing
<1> QED BY <1>1, FS_Subset, FS_CardinalityType

\* An inode without links has no entry and nobody owes it one.
LEMMA NoLinks ==
  ASSUME IInv, LInv, NEW i \in Inums
  PROVE  /\ disk[i].nlink \in Nat
         /\ disk[i].nlink = 0 => LinksTo(i) = {} /\ Owing(i) = {} /\ Names(i) = {} /\ ~InPlace(i)
         /\ LinksTo(i) # {} => disk[i].nlink > 0
<1>1. /\ IsFiniteSet(LinksTo(i)) /\ Cardinality(LinksTo(i)) \in Nat
      /\ disk[i].nlink = Cardinality(LinksTo(i)) + Cardinality(Owing(i))
  BY FS_CardinalityType DEF LInv, Counted
<1>2. IsFiniteSet(Owing(i)) /\ Cardinality(Owing(i)) \in Nat
  BY OwingFinite
<1>3. disk[i].nlink = 0 => LinksTo(i) = {} /\ Owing(i) = {}
  BY <1>1, <1>2, FS_EmptySet
<1>4. LinksTo(i) # {} => disk[i].nlink > 0
  BY <1>1, <1>2, FS_EmptySet
<1>5. Names(i) \subseteq LinksTo(i)
  BY DEF Names, LinksTo, NamesOf, LinksOf, DotNames
<1>6. LinksTo(Root) # {}
  <2>1. Root \in Inums /\ IsDir(Root) /\ InPlace(Root) /\ ".." \in DOMAIN data[Root] /\ data[Root][".."] = Root
    BY FsAssumption DEF LInv, Tree, InPlace, InTree, FsAssumption, Inums, Root
  <2>2. <<Root, "..">> \in LinksTo(Root)
    BY <2>1, InLinks DEF LinksTo, IsDir, InPlace
  <2> QED BY <2>2
<1>7. i = Root => disk[i].nlink > 0
  BY <1>4, <1>6
<1> QED BY <1>1, <1>2, <1>3, <1>4, <1>5, <1>7 DEF InPlace, InTree, Names

LEMMA RootHasLinks ==
  ASSUME IInv, LInv
  PROVE  Root \in Inums /\ disk[Root].nlink > 0 /\ disk[Root].type = "DIR"
<1>1. Root \in Inums /\ InPlace(Root)
  BY FsAssumption DEF InPlace, InTree, FsAssumption, Inums, Root
<1>2. disk[Root].nlink \in Nat /\ disk[Root].nlink # 0
  BY <1>1, NoLinks
<1> QED BY <1>1, <1>2 DEF LInv, Tree, IsDir

\* An inode that only its maker knows has no links.
LEMMA HiddenNoLinks ==
  ASSUME IInv, LInv, NEW s \in Slots, icache[s].ref > 0, Lonely(s)
  PROVE  disk[Inum(s)].nlink = 0
<1>1. PICK q \in Procs, v \in Pointers : Pointer(q, v) = s
  BY PointersCount DEF Pointees
<1>2. Inum(s) \in Inums
  BY DEF IInv, Cached, Inum
<1>3. CASE Makes(q) /\ v = "ip"
  BY <1>1, <1>3 DEF LInv, Alone, Pointer
<1>4. CASE proc[q].pc = "put2" /\ v = "put"
  <2>1. disk[Inum(s)].type = "free" \/ Fresh(Inum(s))
    BY <1>1, <1>4 DEF LInv, Alone, Pointer
  <2>2. CASE disk[Inum(s)].type = "free"
    BY <1>2, <2>2 DEF LInv, Live
  <2>3. CASE Fresh(Inum(s))
    BY <2>3 DEF LInv, Alone, Fresh
  <2> QED BY <2>1, <2>2, <2>3
<1> QED BY <1>1, <1>3, <1>4 DEF Lonely

\* An inode that somebody else knows is neither.
LEMMA SeenNotHidden ==
  ASSUME IInv, LInv, NEW p \in Procs, NEW v \in Pointers, NEW s \in Slots, Pointer(p, v) = s,
         ~(Makes(p) /\ v = "ip"), ~(proc[p].pc = "put2" /\ v = "put")
  PROVE  /\ ~Lonely(s) /\ ~Fresh(Inum(s)) /\ icache[s].ref > 0 /\ Inum(s) \in Inums
         /\ disk[Inum(s)].type # "free" /\ ~Freeing(s)
         /\ \A q \in Procs : proc[q].pc = "put2" => Inum(proc[q].put) # Inum(s)
<1>1. ~Lonely(s) /\ icache[s].ref > 0 /\ Inum(s) \in Inums
  BY PointersCount DEF Lonely, Points, Inum
<1>2. ~Fresh(Inum(s))
  <2> SUFFICES ASSUME NEW q \in Procs, Makes(q), Inum(proc[q].ip) = Inum(s) PROVE FALSE
    BY DEF Fresh
  <2>1. proc[q].ip = s
    BY <1>1, MakesFacts, OneSlot
  <2> QED BY <1>1, <2>1 DEF LInv, Alone
<1>3. ASSUME NEW q \in Procs, proc[q].pc = "put2" PROVE Inum(proc[q].put) # Inum(s) /\ proc[q].put # s
  <2>1. proc[q].put \in Slots /\ Pointer(q, "put") = proc[q].put /\ "put" \in Pointers
    BY <1>3 DEF IInv, Controls, Control, Shape, Pointed, Putting, None, Pointer, Pointers
  <2>2. icache[proc[q].put].ref > 0
    BY <2>1, PointersCount DEF Points
  <2>3. Lonely(proc[q].put)
    BY <1>3 DEF LInv, Alone
  <2> QED BY <1>1, <2>1, <2>2, <2>3, OneSlot
<1>4. ~Freeing(s)
  BY <1>3 DEF Freeing
<1> QED BY <1>1, <1>2, <1>3, <1>4 DEF LInv, Live

-----------------------------------------------------------------------------
(* What a step of p leaves as it is: the others, and the inodes that they  *)
(* point to.                                                               *)

Moved(p, m) ==
    /\ proc' = [proc EXCEPT ![p] = m] /\ DOMAIN proc = Procs
    /\ \A s \in Slots : icache[s].ref > 0 /\ icache'[s].ref > 0 => icache'[s].inum = icache[s].inum

LEMMA MovedOthers ==
  ASSUME IInv, IInv', NEW p \in Procs, NEW m, Moved(p, m)
  PROVE  /\ proc'[p] = m /\ \A q \in Procs \ {p} : proc'[q] = proc[q]
         /\ \A q \in Procs \ {p}, v \in Pointers, s \in Slots : Pointer(q, v) = s =>
               /\ icache[s].ref > 0 /\ icache'[s].ref > 0 /\ Inum(s) \in Inums /\ Inum(s)' = Inum(s)
         /\ \A v \in Pointers, w \in Pointers, s \in Slots : Ptr(proc[p], v) = s /\ Ptr(m, w) = s =>
               /\ icache[s].ref > 0 /\ icache'[s].ref > 0 /\ Inum(s) \in Inums /\ Inum(s)' = Inum(s)
<1>1. proc'[p] = m /\ \A q \in Procs \ {p} : proc'[q] = proc[q]
  BY DEF Moved
<1>2. Points /\ Points'
  BY PointersCount, PTL
<1>3. ASSUME NEW q \in Procs \ {p}, NEW v \in Pointers, NEW s \in Slots, Pointer(q, v) = s
      PROVE  icache[s].ref > 0 /\ icache'[s].ref > 0 /\ Inum(s) \in Inums /\ Inum(s)' = Inum(s)
  <2>1. icache[s].ref > 0 /\ icache'[s].ref > 0 /\ icache[s].inum \in Inums
    BY <1>1, <1>2, <1>3 DEF Points, Pointer
  <2> QED BY <2>1 DEF Inum, Moved
<1>4. ASSUME NEW v \in Pointers, NEW w \in Pointers, NEW s \in Slots, Ptr(proc[p], v) = s, Ptr(m, w) = s
      PROVE  icache[s].ref > 0 /\ icache'[s].ref > 0 /\ Inum(s) \in Inums /\ Inum(s)' = Inum(s)
  <2>1. icache[s].ref > 0 /\ icache'[s].ref > 0 /\ icache[s].inum \in Inums
    BY <1>1, <1>2, <1>4 DEF Points, Pointer, Ptr
  <2> QED BY <2>1 DEF Inum, Moved
<1> QED BY <1>1, <1>3, <1>4

\* p comes to know no inode that is hidden, but for the one it makes or frees.
Discreet(p, m) ==
    \A v \in Pointers, s \in Slots : Ptr(m, v) = s /\ icache[s].ref > 0 /\ Lonely(s) =>
        (Place(m) = "newinode" /\ v = "ip") \/ (m.pc = "put2" /\ v = "put")

LEMMA LonelyKept ==
  ASSUME IInv, IInv', NEW p \in Procs, NEW m, Moved(p, m), Discreet(p, m), NEW s \in Slots, icache[s].ref > 0, Lonely(s)
  PROVE  Lonely(s)'
<1> SUFFICES ASSUME NEW q \in Procs, NEW v \in Pointers, Pointer(q, v)' = s
             PROVE  ((Makes(q) /\ v = "ip") \/ (proc[q].pc = "put2" /\ v = "put"))'
  BY DEF Lonely
<1>1. CASE q = p
  BY <1>1, MovedOthers DEF Discreet, Pointer, Ptr, Makes
<1>2. CASE q # p
  <2>1. proc'[q] = proc[q]
    BY <1>2, MovedOthers
  <2>2. Pointer(q, v) = s
    BY <2>1 DEF Pointer
  <2>3. (Makes(q) /\ v = "ip") \/ (proc[q].pc = "put2" /\ v = "put")
    BY <2>2 DEF Lonely
  <2> QED BY <2>1, <2>3 DEF Makes
<1> QED BY <1>1, <1>2

LEMMA AloneBy ==
  ASSUME IInv, IInv', LInv, NEW p \in Procs, NEW m, Moved(p, m),
         \A q \in Procs \ {p}, s \in Slots : icache[s].ref > 0 /\ Lonely(s)
            /\ ((Makes(q) /\ proc[q].ip = s) \/ (proc[q].pc = "put2" /\ proc[q].put = s)) => Lonely(s)',
         \A q \in Procs \ {p}, i \in Inums : Makes(q) /\ Inum(proc[q].ip) = i => disk'[i].nlink = 0 /\ data'[i] = NoData,
         \A s \in Slots, i \in Inums : Place(m) = "newinode" /\ m.ip = s /\ icache'[s].inum = i =>
            /\ disk'[i].nlink = 0 /\ data'[i] = NoData /\ Lonely(s)'
            /\ \A q \in Procs \ {p} : Makes(q) => proc[q].ip # s,
         \A q \in Procs \ {p}, i \in Inums : proc[q].pc = "put2" /\ Inum(proc[q].put) = i =>
            disk'[i].type = "free" \/ Fresh(i)',
         \A s \in Slots, i \in Inums : m.pc = "put2" /\ m.put = s /\ icache'[s].inum = i =>
            Lonely(s)' /\ (disk'[i].type = "free" \/ Fresh(i)')
  PROVE  Alone'
<1>1. proc'[p] = m /\ \A q \in Procs \ {p} : proc'[q] = proc[q]
  BY MovedOthers
<1>0. Points /\ Points'
  BY PointersCount, PTL
<1>a. "ip" \in Pointers /\ "put" \in Pointers /\ \A q : Pointer(q, "ip") = proc[q].ip /\ Pointer(q, "put") = proc[q].put
  BY DEF Pointers, Pointer
<1>b. \A q : Pointer(q, "ip")' = proc'[q].ip /\ Pointer(q, "put")' = proc'[q].put
  BY DEF Pointer
<1>c. Controls'
  BY DEF IInv
<1>2. ASSUME NEW q \in Procs, Makes(q)'
      PROVE  /\ (disk[Inum(proc[q].ip)].nlink = 0 /\ data[Inum(proc[q].ip)] = NoData /\ Lonely(proc[q].ip))'
             /\ q = p \/ (Makes(q) /\ proc'[q] = proc[q])
             /\ q # p /\ Place(m) = "newinode" => proc'[q].ip # m.ip
  <2>1. proc'[q].ip \in Slots
    <3>1. Control(proc'[q]) /\ Place(proc'[q]) = "newinode"
      BY <1>2, <1>c DEF Controls, Makes
    <3> QED BY <3>1 DEF Control, Shape, Pointed, IpPoints, FoundPoints, ParentPoints, None
  <2>2. PICK s \in Slots : s = proc'[q].ip
    BY <2>1
  <2>3. icache'[s].ref > 0 /\ icache'[s].inum \in Inums
    BY <1>0, <1>a, <1>b, <2>2 DEF Points
  <2>4. PICK i \in Inums : i = icache'[s].inum
    BY <2>3
  <2>5. disk'[i].nlink = 0 /\ data'[i] = NoData /\ Lonely(s)' /\ (q # p => proc[q].ip = s /\ Makes(q) /\ proc'[q] = proc[q])
    <3>1. CASE q = p
      BY <1>1, <1>2, <2>2, <2>4, <3>1 DEF Makes
    <3>2. CASE q # p
      <4>1. Makes(q) /\ proc[q].ip = s /\ proc'[q] = proc[q]
        BY <1>1, <1>2, <2>2, <3>2 DEF Makes
      <4>2. icache[s].ref > 0 /\ Inum(s) = i /\ Lonely(s)
        BY <1>a, <2>3, <2>4, <4>1, MakesFacts DEF LInv, Alone, Inum, Moved
      <4>3. Lonely(s)'
        BY <3>2, <4>1, <4>2
      <4> QED BY <3>2, <4>1, <4>2, <4>3
    <3> QED BY <3>1, <3>2
  <2>6. Inum(proc[q].ip)' = i
    BY <2>2, <2>4 DEF Inum
  <2>7. Lonely(proc[q].ip)'
    BY <2>2, <2>5 DEF Lonely
  <2>8. q # p /\ Place(m) = "newinode" => s # m.ip
    BY <2>4, <2>5
  <2> QED BY <2>2, <2>5, <2>6, <2>7, <2>8
<1>3. ASSUME NEW q \in Procs, NEW r \in Procs, Makes(q)', Makes(r)', (proc[q].ip = proc[r].ip)' PROVE q = r
  <2>1. CASE q # p /\ r # p
    BY <1>2, <1>3, <2>1 DEF LInv, Alone
  <2>2. CASE q = p \/ r = p
    BY <1>1, <1>2, <1>3, <2>2 DEF Makes
  <2> QED BY <2>1, <2>2
<1>4. ASSUME NEW q \in Procs, (proc[q].pc = "put2")'
      PROVE  (Lonely(proc[q].put) /\ (disk[Inum(proc[q].put)].type = "free" \/ Fresh(Inum(proc[q].put))))'
  <2>1. proc'[q].put \in Slots
    <3>1. Control(proc'[q]) /\ proc'[q].pc = "put2"
      BY <1>4, <1>c DEF Controls
    <3> QED BY <3>1 DEF Control, Shape, Pointed, Putting, None
  <2>2. PICK s \in Slots : s = proc'[q].put
    BY <2>1
  <2>3. icache'[s].ref > 0 /\ icache'[s].inum \in Inums
    BY <1>0, <1>a, <1>b, <2>2 DEF Points
  <2>4. PICK i \in Inums : i = icache'[s].inum
    BY <2>3
  <2>5. Lonely(s)' /\ (disk'[i].type = "free" \/ Fresh(i)')
    <3>1. CASE q = p
      BY <1>1, <1>4, <2>2, <2>4, <3>1
    <3>2. CASE q # p
      <4>1. proc[q].pc = "put2" /\ proc[q].put = s /\ proc'[q] = proc[q]
        BY <1>1, <1>4, <2>2, <3>2
      <4>2. icache[s].ref > 0 /\ Inum(s) = i /\ Lonely(s)
        BY <1>0, <1>a, <2>3, <2>4, <4>1 DEF LInv, Alone, Inum, Moved, Points
      <4>3. Lonely(s)'
        BY <3>2, <4>1, <4>2
      <4> QED BY <3>2, <4>1, <4>2, <4>3
    <3> QED BY <3>1, <3>2
  <2>6. Inum(proc[q].put)' = i
    BY <2>2, <2>4 DEF Inum
  <2>7. Lonely(proc[q].put)'
    BY <2>2, <2>5 DEF Lonely
  <2>8. Fresh(Inum(proc[q].put))' <=> Fresh(i)'
    BY <2>6 DEF Fresh
  <2>9. (disk[Inum(proc[q].put)].type = "free")' <=> disk'[i].type = "free"
    BY <2>6
  <2> QED BY <2>5, <2>7, <2>8, <2>9
<1> QED BY <1>2, <1>3, <1>4 DEF Alone

LEMMA AloneKept ==
  ASSUME IInv, IInv', LInv, NEW p \in Procs, NEW m, Moved(p, m), Discreet(p, m),
         \A q \in Procs \ {p}, i \in Inums : Makes(q) /\ Inum(proc[q].ip) = i => disk'[i].nlink = 0 /\ data'[i] = NoData,
         \A s \in Slots, i \in Inums : Place(m) = "newinode" /\ m.ip = s /\ icache'[s].inum = i =>
            /\ disk'[i].nlink = 0 /\ data'[i] = NoData /\ Lonely(s)'
            /\ \A q \in Procs \ {p} : Makes(q) => proc[q].ip # s,
         \A q \in Procs \ {p}, i \in Inums : proc[q].pc = "put2" /\ Inum(proc[q].put) = i =>
            disk'[i].type = "free" \/ Fresh(i)',
         \A s \in Slots, i \in Inums : m.pc = "put2" /\ m.put = s /\ icache'[s].inum = i =>
            Lonely(s)' /\ (disk'[i].type = "free" \/ Fresh(i)')
  PROVE  Alone'
<1>1. \A q \in Procs \ {p}, s \in Slots : icache[s].ref > 0 /\ Lonely(s)
         /\ ((Makes(q) /\ proc[q].ip = s) \/ (proc[q].pc = "put2" /\ proc[q].put = s)) => Lonely(s)'
  BY LonelyKept
<1> QED BY <1>1, AloneBy

\* A step that makes no inode and links none.
LEMMA FreshKept ==
  ASSUME IInv, IInv', NEW p \in Procs, NEW m, Moved(p, m),
         Makes(p) <=> Place(m) = "newinode", Makes(p) => m.ip = proc[p].ip
  PROVE  \A i : Fresh(i)' <=> Fresh(i)
<1> TAKE i
<1>1. proc'[p] = m /\ \A q \in Procs \ {p} : proc'[q] = proc[q]
  BY MovedOthers
<1>2. ASSUME NEW q \in Procs, Makes(q) PROVE Makes(q)' /\ proc'[q].ip = proc[q].ip
  BY <1>1, <1>2 DEF Makes
<1>3. ASSUME NEW q \in Procs, Makes(q)' PROVE Makes(q)
  BY <1>1, <1>3 DEF Makes
<1>4. ASSUME NEW q \in Procs, Makes(q) PROVE Inum(proc[q].ip)' = Inum(proc[q].ip)
  <2>1. PICK s \in Slots : s = proc[q].ip
    BY <1>4, MakesFacts
  <2>2. icache[s].ref > 0 /\ proc'[q].ip = s
    BY <1>2, <1>4, <2>1, MakesFacts
  <2>3. icache'[s].ref > 0
    <3>1. Points'
      BY PointersCount, PTL
    <3>2. Pointer(q, "ip")' = s /\ "ip" \in Pointers
      BY <2>2 DEF Pointer, Pointers
    <3> QED BY <3>1, <3>2 DEF Points
  <2> QED BY <2>1, <2>2, <2>3 DEF Inum, Moved
<1> QED BY <1>2, <1>3, <1>4 DEF Fresh

\* Whom an inode owes: p changes it by what it owes itself.
LEMMA OwingOthers ==
  ASSUME IInv, IInv', NEW p \in Procs, NEW m, Moved(p, m)
  PROVE  \A i, q : q # p => (q \in Owing(i)' <=> q \in Owing(i))
<1> TAKE i
<1>1. ASSUME NEW q \in Procs \ {p}, Owed(proc[q]) # None PROVE Inum(Owed(proc[q]))' = Inum(Owed(proc[q])) /\ proc'[q] = proc[q]
  <2>1. Control(proc[q])
    BY DEF IInv, Controls
  <2>2. PICK v \in {"ip", "old"} : Owed(proc[q]) = Pointer(q, v)
    BY <1>1 DEF Owed, Pointer
  <2>3. Owed(proc[q]) \in Slots
    BY <1>1, <2>1 DEF Owed, Control, Shape, Pointed
  <2>4. PICK s \in Slots : s = Owed(proc[q])
    BY <2>3
  <2>5. proc'[q] = proc[q]
    BY MovedOthers
  <2>6. icache'[s].inum = icache[s].inum
    BY <2>2, <2>4, MovedOthers DEF Inum, Pointers
  <2> QED BY <2>4, <2>5, <2>6 DEF Inum
<1>2. \A q \in Procs \ {p} : proc'[q] = proc[q]
  BY MovedOthers
<1> QED BY <1>1, <1>2 DEF Owing

LEMMA OwingStep ==
  ASSUME IInv, IInv', NEW p \in Procs, NEW m, Moved(p, m)
  PROVE  /\ Owed(m) = Owed(proc[p]) => \A i : Owing(i)' = Owing(i)
         /\ Owed(m) = None => \A i \in Inums :
               Cardinality(Owing(i)') = Cardinality(Owing(i)) - (IF p \in Owing(i) THEN 1 ELSE 0)
         /\ Owed(proc[p]) = None => \A i \in Inums :
               Cardinality(Owing(i)') = Cardinality(Owing(i)) + (IF Owed(m) # None /\ icache'[Owed(m)].inum = i THEN 1 ELSE 0)
<1>1. proc'[p] = m
  BY MovedOthers
<1>2. \A i : p \in Owing(i)' <=> Owed(m) # None /\ icache'[Owed(m)].inum = i
  BY <1>1 DEF Owing, Inum
<1>3. \A i : p \in Owing(i) <=> Owed(proc[p]) # None /\ Inum(Owed(proc[p])) = i
  BY DEF Owing
<1>4. \A i, q : q # p => (q \in Owing(i)' <=> q \in Owing(i))
  BY OwingOthers
<1>5. ASSUME Owed(m) = Owed(proc[p]), NEW i PROVE Owing(i)' = Owing(i)
  <2>1. Owed(m) # None => icache'[Owed(m)].inum = Inum(Owed(m))
    <3> SUFFICES ASSUME Owed(m) # None PROVE icache'[Owed(m)].inum = Inum(Owed(m))
      OBVIOUS
    <3>1. Control(m) /\ Control(proc[p])
      BY <1>1 DEF IInv, Controls
    <3>2. PICK v \in {"ip", "old"} : Owed(proc[p]) = Ptr(proc[p], v)
      BY <1>5 DEF Owed, Ptr
    <3>3. PICK w \in {"ip", "old"} : Owed(m) = Ptr(m, w)
      BY DEF Owed, Ptr
    <3>4. Owed(m) \in Slots
      BY <3>1 DEF Owed, Control, Shape, Pointed
    <3>5. PICK s \in Slots : s = Owed(m)
      BY <3>4
    <3>6. icache'[s].inum = icache[s].inum
      BY <1>5, <3>2, <3>3, <3>5, MovedOthers DEF Inum, Pointers
    <3> QED BY <3>5, <3>6 DEF Inum
  <2> QED BY <1>2, <1>3, <1>4, <1>5, <2>1
<1>6. ASSUME NEW i \in Inums
      PROVE  /\ IsFiniteSet(Owing(i)) /\ Cardinality(Owing(i)) \in Nat
             /\ IsFiniteSet(Owing(i)') /\ Cardinality(Owing(i)') \in Nat
             /\ p \notin Owing(i)' /\ p \in Owing(i) => Cardinality(Owing(i)') = Cardinality(Owing(i)) - 1
             /\ p \in Owing(i)' /\ p \notin Owing(i) => Cardinality(Owing(i)') = Cardinality(Owing(i)) + 1
             /\ p \notin Owing(i)' /\ p \notin Owing(i) => Cardinality(Owing(i)') = Cardinality(Owing(i))
  <2>1. IsFiniteSet(Owing(i)) /\ Cardinality(Owing(i)) \in Nat
    BY OwingFinite
  <2>2. IsFiniteSet(Owing(i)') /\ Cardinality(Owing(i)') \in Nat
    <3>1. Owing(i)' \subseteq Procs /\ IsFiniteSet(Procs)
      BY FsAssumption DEF FsAssumption, Owing
    <3> QED BY <3>1, FS_Subset, FS_CardinalityType
  <2>3. CASE p \notin Owing(i)' /\ p \in Owing(i)
    <3>1. Owing(i)' = Owing(i) \ {p}
      BY <1>4, <2>3
    <3> QED BY <2>1, <2>2, <2>3, <3>1, FS_RemoveElement
  <2>4. CASE p \in Owing(i)' /\ p \notin Owing(i)
    <3>1. Owing(i)' = Owing(i) \cup {p}
      BY <1>4, <2>4
    <3> QED BY <2>1, <2>2, <2>4, <3>1, FS_AddElement
  <2>5. CASE p \notin Owing(i)' /\ p \notin Owing(i)
    <3>1. Owing(i)' = Owing(i)
      BY <1>4, <2>5
    <3> QED BY <2>1, <2>2, <2>5, <3>1
  <2> QED BY <2>1, <2>2, <2>3, <2>4, <2>5
<1>7. ASSUME Owed(m) = None, NEW i \in Inums
      PROVE  Cardinality(Owing(i)') = Cardinality(Owing(i)) - (IF p \in Owing(i) THEN 1 ELSE 0)
  BY <1>2, <1>6, <1>7
<1>8. ASSUME Owed(proc[p]) = None, NEW i \in Inums
      PROVE  Cardinality(Owing(i)') = Cardinality(Owing(i)) + (IF Owed(m) # None /\ icache'[Owed(m)].inum = i THEN 1 ELSE 0)
  BY <1>2, <1>3, <1>6, <1>8
<1> QED BY <1>5, <1>7, <1>8

\* What the others know stays so, if the directories that they have locked are left alone.
LEMMA KnowingKept ==
  ASSUME IInv, IInv', LInv, NEW p \in Procs, NEW m, Moved(p, m), KnowsLinks(m)',
         \A q \in Procs \ {p}, i \in Inums : Aim(proc[q]) \in OldPoints \cup {"linked"} /\ Inum(proc[q].old) = i =>
            disk'[i].type = disk[i].type,
         \A q \in Procs \ {p}, i \in Inums : Place(proc[q]) \in {"newinode", "victim"} /\ Inum(proc[q].dp) = i =>
            disk'[i].type = disk[i].type /\ data'[i] = data[i] /\ (Place(proc[q]) = "newinode" => InPlace(i)')
  PROVE  Knowing'
<1> SUFFICES ASSUME NEW q \in Procs PROVE KnowsLinks(proc[q])'
  BY DEF Knowing
<1>1. CASE q = p
  <2>1. proc'[q] = m
    BY <1>1, MovedOthers
  <2> QED BY <2>1 DEF KnowsLinks, Inum, IsDir, InPlace
<1>2. CASE q # p
  <2> DEFINE l == proc[q]
  <2>1. proc'[q] = l
    BY <1>2, MovedOthers
  <2>2. Control(l) /\ KnowsLinks(l)
    BY DEF IInv, Controls, LInv, Knowing
  <2>3. /\ Place(l) \in {"newinode", "victim"} => l.dp \in Slots /\ l.ip \in Slots
        /\ Aim(l) \in OldPoints \cup {"linked"} => l.old \in Slots
    BY <2>2 DEF Control, Shape, Pointed, IpPoints, FoundPoints, ParentPoints, None, OldPoints, CodePoints
  <2>4. {"ip", "dp", "old"} \subseteq Pointers /\ \A v \in {"ip", "dp", "old"} : Pointer(q, v) = l[v]
    BY DEF Pointers, Pointer
  <2>5. ASSUME NEW v \in {"ip", "dp", "old"}, l[v] \in Slots PROVE icache'[l[v]].inum = Inum(l[v]) /\ Inum(l[v]) \in Inums
    <3>1. PICK s \in Slots : s = l[v]
      BY <2>5
    <3>2. icache'[s].inum = Inum(s) /\ Inum(s) \in Inums
      BY <1>2, <2>4, <3>1, MovedOthers DEF Inum
    <3> QED BY <3>1, <3>2
  <2>6. /\ Place(l) \in {"newinode", "victim"} => /\ icache'[l.dp].inum = Inum(l.dp) /\ icache'[l.ip].inum = Inum(l.ip)
                                                  /\ Inum(l.dp) \in Inums
        /\ Aim(l) \in OldPoints \cup {"linked"} => icache'[l.old].inum = Inum(l.old) /\ Inum(l.old) \in Inums
    BY <2>3, <2>5
  <2>7. Place(l) \in {"newinode", "victim"} =>
           /\ disk'[Inum(l.dp)].type = disk[Inum(l.dp)].type /\ data'[Inum(l.dp)] = data[Inum(l.dp)]
           /\ Place(l) = "newinode" => \E i : i = Inum(l.dp) /\ InTree(disk', data', i)
    <3> SUFFICES ASSUME Place(l) \in {"newinode", "victim"}
                 PROVE  /\ disk'[Inum(l.dp)].type = disk[Inum(l.dp)].type /\ data'[Inum(l.dp)] = data[Inum(l.dp)]
                        /\ Place(l) = "newinode" => \E i : i = Inum(l.dp) /\ InTree(disk', data', i)
      OBVIOUS
    <3>1. PICK i \in Inums : i = Inum(l.dp)
      BY <2>6
    <3>2. disk'[i].type = disk[i].type /\ data'[i] = data[i] /\ (Place(l) = "newinode" => InTree(disk', data', i))
      BY <1>2, <3>1 DEF InPlace
    <3> QED BY <3>1, <3>2
  <2> HIDE DEF l
  <2>8. Place(l) \in {"newinode", "victim"} =>
           /\ disk'[icache'[l.dp].inum].type = "DIR"
           /\ Place(l) = "newinode" => l.name \notin DOMAIN data'[icache'[l.dp].inum] /\ InTree(disk', data', icache'[l.dp].inum)
           /\ Place(l) = "victim" => /\ l.name \in DOMAIN data'[icache'[l.dp].inum] \ DotNames
                                     /\ data'[icache'[l.dp].inum][l.name] = icache'[l.ip].inum
    BY <2>2, <2>6, <2>7 DEF KnowsLinks, IsDir, Inum
  <2>9. Aim(l) \in OldPoints \cup {"linked"} => disk'[icache'[l.old].inum].type \notin {"DIR", "free"}
    BY <1>2, <2>2, <2>6 DEF KnowsLinks, Inum, l
  <2> QED BY <2>1, <2>8, <2>9 DEF KnowsLinks, IsDir, Inum, InPlace
<1> QED BY <1>1, <1>2

\* The references stay, and nlink changes only of inodes that are referred to and have been read.
LEMMA LiveKept ==
  ASSUME IInv, LInv,
         \A s \in Slots : /\ icache'[s].ref = icache[s].ref /\ icache'[s].inum = icache[s].inum
                          /\ icache'[s].valid = icache[s].valid /\ (Freeing(s) => Freeing(s)'),
         \A i \in Inums : /\ disk'[i].type = disk[i].type
                          /\ \/ disk'[i].nlink = disk[i].nlink /\ (Fresh(i) => Fresh(i)')
                             \/ \E s \in Slots : icache[s].ref > 0 /\ icache[s].valid /\ Inum(s) = i /\ disk[i].type # "free"
  PROVE  Live'
<1>0. \A s \in Slots : icache[s].ref > 0 => Inum(s) \in Inums
  BY DEF IInv, Cached, Inum
<1>1. \A i \in Inums : disk'[i].type = "free" => disk'[i].nlink = 0
  BY DEF LInv, Live
<1>2. ASSUME NEW s \in Slots, icache'[s].ref > 0 PROVE disk'[icache'[s].inum].type # "free" \/ Freeing(s)'
  BY <1>0, <1>2 DEF LInv, Live, Inum
<1>3. ASSUME NEW s \in Slots, icache'[s].ref > 0, ~icache'[s].valid PROVE disk'[icache'[s].inum].nlink # 0 \/ Fresh(Inum(s))'
  <2>1. PICK i \in Inums : i = Inum(s)
    BY <1>0, <1>3
  <2>2. icache[s].ref > 0 /\ ~icache[s].valid /\ icache'[s].inum = i
    BY <1>3, <2>1 DEF Inum
  <2>3. disk[i].nlink # 0 \/ Fresh(i)
    BY <2>1, <2>2 DEF LInv, Live
  <2>4. disk'[i].nlink = disk[i].nlink /\ (Fresh(i) => Fresh(i)')
    BY <2>1, <2>2, OneSlot
  <2>5. Fresh(i)' => Fresh(Inum(s))'
    BY <2>2 DEF Fresh, Inum
  <2> QED BY <2>2, <2>3, <2>4, <2>5
<1>4. ASSUME NEW i \in Inums, disk'[i].type # "free", disk'[i].nlink = 0
      PROVE  \E s \in Slots : icache'[s].ref > 0 /\ icache'[s].inum = i
  <2>1. \E s \in Slots : icache[s].ref > 0 /\ Inum(s) = i
    BY <1>4 DEF LInv, Live
  <2> QED BY <2>1 DEF Inum
<1> QED BY <1>1, <1>2, <1>3, <1>4 DEF Live, Inum

\* The directories stay.
LEMMA TreeKept ==
  ASSUME IInv, LInv,
         \A i \in Inums : disk'[i].type = disk[i].type /\ (disk[i].type = "DIR" => data'[i] = data[i]),
         \A i : Fresh(i)' <=> Fresh(i)
  PROVE  Tree' /\ \A j : LinksTo(j)' = LinksTo(j) /\ (InPlace(j)' <=> InPlace(j))
<1>1. \A j : /\ NamesOf(disk', data', j) = NamesOf(disk, data, j)
             /\ InTree(disk', data', j) <=> InTree(disk, data, j)
             /\ LinksOf(disk', data', j) = LinksOf(disk, data, j)
  <2>1. ASSUME NEW j, NEW h, NEW n
        PROVE <<h, n>> \in NamesOf(disk', data', j) <=> <<h, n>> \in NamesOf(disk, data, j)
    BY InNames
  <2>2. \A j : NamesOf(disk', data', j) = NamesOf(disk, data, j) /\ (InTree(disk', data', j) <=> InTree(disk, data, j))
    BY <2>1, LinksFromNames
  <2>3. ASSUME NEW j PROVE LinksOf(disk', data', j) = LinksOf(disk, data, j)
    <3>1. ASSUME NEW h, NEW n PROVE <<h, n>> \in LinksOf(disk', data', j) <=> <<h, n>> \in LinksOf(disk, data, j)
      <4>1. InTree(disk', data', h) <=> InTree(disk, data, h)
        BY <2>2
      <4> QED BY <4>1, InLinks
    <3> QED BY <3>1, NamesArePairs, PairSets
  <2> QED BY <2>2, <2>3
<1>2. \A j : LinksTo(j)' = LinksTo(j) /\ (InPlace(j)' <=> InPlace(j)) /\ Names(j)' = Names(j)
  BY <1>1 DEF LinksTo, InPlace, Names
<1>3. Root \in Inums
  BY RootHasLinks
<1> QED BY <1>2, <1>3 DEF LInv, Tree, IsDir

-----------------------------------------------------------------------------
(* Steps that change no entry and no nlink.                                *)

\* A reference that is taken is to an inode that has links, or that p has already.
Quietly(p, m) ==
    /\ Moved(p, m) /\ proc[p].pc # "put2" /\ m.pc # "put2"
    /\ \A i \in Inums : /\ disk'[i].type = disk[i].type /\ disk'[i].nlink = disk[i].nlink
                        /\ data'[i] # data[i] => disk[i].type # "DIR" /\ ~Fresh(i)
    /\ \A s \in Slots :
          /\ icache'[s].ref > icache[s].ref =>
                disk[icache'[s].inum].nlink # 0 \/ (~Makes(p) /\ \E v \in Pointers : Ptr(proc[p], v) = s)
          /\ icache[s].ref > 0 /\ icache'[s].ref > 0 /\ icache[s].valid => icache'[s].valid
          /\ icache[s].ref > 0 /\ icache'[s].ref = 0 => disk[icache[s].inum].nlink # 0
    /\ Owed(m) = Owed(proc[p])
    /\ Makes(p) <=> Place(m) = "newinode"
    /\ Makes(p) => m.ip = proc[p].ip /\ \A v \in Pointers : Ptr(m, v) \in {Ptr(proc[p], v), None}

LEMMA RefsBy ==
  ASSUME IInv, IInv', NEW p \in Procs, NEW m, Moved(p, m), NEW s \in Slots
  PROVE  /\ icache'[s].ref + N(proc[p], s) = icache[s].ref + N(m, s)
         /\ icache[s].ref \in Nat /\ icache'[s].ref \in Nat
<1>1. icache[s].ref = Cardinality(Others(p, s)) + N(proc[p], s) /\ Cardinality(Others(p, s)) \in Nat
  BY HoldersSplit DEF IInv, Refs
<1>2. proc'[p] = m /\ \A q \in Procs \ {p} : proc'[q] = proc[q]
  BY MovedOthers
<1>3. Others(p, s)' = Others(p, s)
  BY <1>2 DEF Others, Holders, Pointer
<1>4. Cardinality(Holders(s)') = Cardinality(Others(p, s)') + N(proc'[p], s)
  <2>1. (Cardinality(Holders(s)) = Cardinality(Others(p, s)) + N(proc[p], s))'
    BY HoldersSplit, PTL
  <2> QED BY <2>1
<1>5. Refs'
  BY DEF IInv
<1>6. icache'[s].ref = Cardinality(Holders(s)')
  BY <1>5 DEF Refs
<1>7. N(m, s) \in Nat /\ N(proc[p], s) \in Nat
  BY CountOwn
<1>8. icache'[s].ref = Cardinality(Others(p, s)) + N(m, s)
  BY <1>2, <1>3, <1>4, <1>6
<1> QED BY <1>1, <1>7, <1>8

LEMMA QuietlyDiscreet ==
  ASSUME IInv, IInv', LInv, NEW p \in Procs, NEW m, Quietly(p, m)
  PROVE  Discreet(p, m)
<1> SUFFICES ASSUME NEW v \in Pointers, NEW s \in Slots, Ptr(m, v) = s, icache[s].ref > 0, Lonely(s)
             PROVE  Place(m) = "newinode" /\ v = "ip"
  BY DEF Discreet
<1>1. CASE Makes(p)
  <2>1. Pointer(p, v) = s
    BY <1>1 DEF Quietly, Pointer, Ptr, Slots, None
  <2> QED BY <1>1, <2>1 DEF Quietly, Lonely
<1>2. CASE ~Makes(p)
  <2>1. \A w \in Pointers : Ptr(proc[p], w) # s
    BY <1>2 DEF Quietly, Lonely, Pointer, Ptr
  <2>2. N(proc[p], s) = 0 /\ N(m, s) \in Nat /\ N(m, s) # 0
    BY <2>1, CountPointers
  <2>3. Moved(p, m)
    BY DEF Quietly
  <2>4. icache'[s].ref > icache[s].ref /\ icache'[s].ref > 0
    BY <2>2, <2>3, RefsBy
  <2>5. disk[icache'[s].inum].nlink # 0
    BY <2>1, <2>4 DEF Quietly
  <2>6. icache'[s].inum = Inum(s)
    BY <2>3, <2>4 DEF Moved, Inum
  <2> QED BY <2>5, <2>6, HiddenNoLinks
<1> QED BY <1>1, <1>2

LEMMA QuietlyKept ==
  ASSUME IInv, IInv', LInv, NEW p \in Procs, NEW m, Quietly(p, m), KnowsLinks(m)'
  PROVE  LInv'
<1>1. Moved(p, m) /\ Discreet(p, m)
  BY QuietlyDiscreet DEF Quietly
<1>2. proc'[p] = m /\ \A q \in Procs \ {p} : proc'[q] = proc[q]
  BY <1>1, MovedOthers
<1>3. Makes(p) => m.ip = proc[p].ip
  BY DEF Quietly, Ptr, Pointers
<1>4. \A i : Fresh(i)' <=> Fresh(i)
  BY <1>1, <1>3, FreshKept DEF Quietly
<1>5. Tree' /\ \A j : LinksTo(j)' = LinksTo(j) /\ (InPlace(j)' <=> InPlace(j))
  <2>1. \A i \in Inums : disk'[i].type = disk[i].type /\ (disk[i].type = "DIR" => data'[i] = data[i])
    BY DEF Quietly
  <2> QED BY <1>4, <2>1, TreeKept
<1>6. \A i : Owing(i)' = Owing(i)
  BY <1>1, OwingStep DEF Quietly
<1>7. Counted'
  BY <1>5, <1>6 DEF LInv, Counted, Quietly
<1>8. \A s \in Slots, v \in Pointers, q \in Procs : Pointer(q, v) = s => icache[s].ref > 0 /\ Inum(s) \in Inums
  BY PointersCount DEF Points, Inum
<1>9. Alone'
  <2>1. ASSUME NEW q \in Procs, NEW i \in Inums, Makes(q), Inum(proc[q].ip) = i PROVE disk'[i].nlink = 0 /\ data'[i] = NoData
    <3>1. disk[i].nlink = 0 /\ data[i] = NoData /\ Fresh(i)
      BY <2>1 DEF LInv, Alone, Fresh
    <3> QED BY <3>1 DEF Quietly
  <2>2. ASSUME NEW s \in Slots, NEW i \in Inums, Place(m) = "newinode", m.ip = s, icache'[s].inum = i
        PROVE  /\ disk'[i].nlink = 0 /\ data'[i] = NoData /\ Lonely(s)'
               /\ \A q \in Procs \ {p} : Makes(q) => proc[q].ip # s
    <3>1. Makes(p) /\ proc[p].ip = s
      BY <1>3, <2>2 DEF Quietly
    <3>2. Ptr(proc[p], "ip") = s /\ Ptr(m, "ip") = s /\ "ip" \in Pointers
      BY <2>2, <3>1 DEF Ptr, Pointers
    <3>3. icache[s].ref > 0 /\ Inum(s)' = Inum(s)
      BY <1>1, <3>2, MovedOthers
    <3>4. Inum(s) = i /\ Lonely(s)
      BY <2>2, <3>1, <3>3 DEF Inum, LInv, Alone
    <3>5. Lonely(s)'
      BY <1>1, <3>3, <3>4, LonelyKept
    <3> QED BY <2>1, <3>1, <3>4, <3>5 DEF LInv, Alone
  <2>3. ASSUME NEW q \in Procs \ {p}, NEW i \in Inums, proc[q].pc = "put2", Inum(proc[q].put) = i
        PROVE  disk'[i].type = "free" \/ Fresh(i)'
    <3>1. disk[i].type = "free" \/ Fresh(i)
      BY <2>3 DEF LInv, Alone
    <3> QED BY <1>4, <3>1 DEF Quietly
  <2>4. m.pc # "put2"
    BY DEF Quietly
  <2> QED BY <1>1, <2>1, <2>2, <2>3, <2>4, AloneKept
<1>10. Knowing'
  <2>1. ASSUME NEW q \in Procs \ {p}, NEW i \in Inums, Place(proc[q]) \in {"newinode", "victim"}, Inum(proc[q].dp) = i
        PROVE  disk'[i].type = disk[i].type /\ data'[i] = data[i] /\ (Place(proc[q]) = "newinode" => InPlace(i)')
    <3>1. KnowsLinks(proc[q])
      BY DEF LInv, Knowing
    <3>2. disk[i].type = "DIR" /\ (Place(proc[q]) = "newinode" => InPlace(i))
      BY <2>1, <3>1 DEF KnowsLinks, IsDir
    <3> QED BY <1>5, <3>2 DEF Quietly
  <2>2. \A i \in Inums : disk'[i].type = disk[i].type
    BY DEF Quietly
  <2> QED BY <1>1, <2>1, <2>2, KnowingKept
<1>11. Live'
  <2>0. \A s \in Slots : icache[s].ref \in Nat /\ icache'[s].ref \in Nat
    BY <1>1, RefsBy
  <2>00. Cached'
    BY DEF IInv
  <2>1. \A i \in Inums : disk'[i].type = "free" => disk'[i].nlink = 0
    BY DEF LInv, Live, Quietly
  <2>2. ASSUME NEW s \in Slots, icache'[s].ref > 0
        PROVE  /\ disk'[icache'[s].inum].type # "free" \/ Freeing(s)'
               /\ ~icache'[s].valid => disk'[icache'[s].inum].nlink # 0 \/ Fresh(Inum(s))'
    <3>1. PICK i \in Inums : i = icache'[s].inum
      BY <2>00, <2>2 DEF Cached
    <3>2. Fresh(i) => Fresh(Inum(s))'
      BY <1>4, <3>1 DEF Fresh, Inum
    <3>3. CASE disk[i].nlink # 0
      BY <3>1, <3>3 DEF LInv, Live, Quietly
    <3>4. CASE icache[s].ref > 0
      <4>1. i = Inum(s)
        BY <1>1, <2>2, <3>1, <3>4 DEF Moved, Inum
      <4>2. Freeing(s) => Freeing(s)'
        BY <1>2 DEF Freeing, Quietly
      <4>3. disk[i].type # "free" \/ Freeing(s)
        BY <3>4, <4>1 DEF LInv, Live
      <4>4. ~icache'[s].valid => disk[i].nlink # 0 \/ Fresh(i)
        BY <2>2, <3>4, <4>1 DEF LInv, Live, Quietly
      <4> QED BY <3>1, <3>2, <4>2, <4>3, <4>4 DEF Quietly
    <3>5. icache[s].ref > 0 \/ disk[i].nlink # 0
      <4> SUFFICES ASSUME icache[s].ref = 0, disk[i].nlink = 0 PROVE FALSE
        BY <2>0
      <4>1. icache'[s].ref > icache[s].ref
        BY <2>0, <2>2
      <4>2. \E v \in Pointers : Pointer(p, v) = s
        BY <3>1, <4>1 DEF Quietly, Pointer, Ptr
      <4> QED BY <1>8, <4>2
    <3> QED BY <3>3, <3>4, <3>5
  <2>3. ASSUME NEW i \in Inums, disk'[i].type # "free", disk'[i].nlink = 0
        PROVE  \E s \in Slots : icache'[s].ref > 0 /\ icache'[s].inum = i
    <3>1. disk[i].type # "free" /\ disk[i].nlink = 0
      BY <2>3 DEF Quietly
    <3>2. PICK s \in Slots : icache[s].ref > 0 /\ Inum(s) = i
      BY <3>1 DEF LInv, Live
    <3>3. icache'[s].ref > 0
      BY <2>0, <3>1, <3>2 DEF Quietly, Inum
    <3> QED BY <1>1, <3>2, <3>3 DEF Moved, Inum
  <2> QED BY <2>1, <2>2, <2>3 DEF Live, Inum
<1> QED BY <1>5, <1>7, <1>9, <1>10, <1>11 DEF LInv

-----------------------------------------------------------------------------
(* What a process owes depends on where it is, and on its link if it is in *)
(* link().                                                                  *)

LEMMA LockOld ==
  ASSUME NEW l, DOMAIN l = Fields, NEW s
  PROVE  Lock(l, s).old = l.old /\ DOMAIN Lock(l, s) = Fields
BY DEF Lock, Fields

LEMMA PutOld ==
  ASSUME NEW l, DOMAIN l = Fields, NEW s
  PROVE  Put(l, s).old = l.old /\ DOMAIN Put(l, s) = Fields
BY DEF Put, Fields

LEMMA IdleOld ==
  ASSUME NEW l, DOMAIN l = Fields
  PROVE  Idle(l).old = None /\ DOMAIN Idle(l) = Fields
BY DEF Idle, Fields

LEMMA ResultOld ==
  ASSUME NEW l, Walks(l), NEW s
  PROVE  Result(l, s).old = l.old /\ DOMAIN Result(l, s) = Fields
<1> DEFINE link == [l EXCEPT !.pc = "link", !.ip = s, !.depth = Last(l.stack) + 1, !.stack = Front(@), !.path = <<>>]
           found == [l EXCEPT !.pc = l.then, !.ip = s, !.stack = <<>>, !.depth = 0, !.path = <<>>]
           bad == [found EXCEPT !.pc = "linkbad"]
<1>1. link.old = l.old /\ DOMAIN link = Fields /\ found.old = l.old /\ DOMAIN found = Fields
  BY DEF Walks, Fields
<1>2. Result(l, s) \in {link, Lock(found, s), Lock(bad, l.old)} \/ (Result(l, s) = Idle(l) /\ l.old = None)
  BY DEF Result, Walks
<1> HIDE DEF link, found
<1>3. bad.old = l.old /\ DOMAIN bad = Fields
  BY <1>1 DEF Fields
<1> HIDE DEF bad
<1> QED BY <1>1, <1>2, <1>3, LockOld, IdleOld DEF Walks

LEMMA WalkingOld ==
  ASSUME NEW l, Walks(l), NEW s
  PROVE  Walking(l, s).old = l.old /\ DOMAIN Walking(l, s) = Fields
<1> DEFINE look == [l EXCEPT !.pc = "look", !.ip = s]
<1>1. look.old = l.old /\ DOMAIN look = Fields
  BY DEF Walks, Fields
<1>2. Walking(l, s) \in {Lock(look, s), Put(Result(l, None), s), Result(l, s)}
  BY DEF Walking
<1> HIDE DEF look
<1> QED BY <1>1, <1>2, ResultOld, LockOld, PutOld

LEMMA OwedOld ==
  ASSUME NEW l, Control(l), Place(l) \notin {"unlinked", "linked"}
  PROVE  Owed(l) = l.old
BY DEF Owed, OldPoints, Control, Shape, Pointed, CallFits, Aim, WalkPoints, FoundPoints, ParentPoints

\* A process that neither makes an entry nor erases one.
LEMMA KnowsKept ==
  ASSUME IInv, IInv', LInv, NEW p \in Procs, NEW m, Moved(p, m), Place(m) \notin {"newinode", "victim"},
         m.old \in {proc[p].old, None}, \A i \in Inums : disk'[i].type = disk[i].type
  PROVE  KnowsLinks(m)'
<1> SUFFICES ASSUME Aim(m) \in OldPoints \cup {"linked"} PROVE disk'[icache'[m.old].inum].type \notin {"DIR", "free"}
  BY DEF KnowsLinks, Inum
<1>1. proc'[p] = m
  BY MovedOthers
<1>2. Control(m) /\ Control(proc[p])
  BY <1>1 DEF IInv, Controls
<1>3. m.old \in Slots /\ m.old # None
  BY <1>2 DEF Control, Shape, Pointed, OldPoints
<1>4. PICK s \in Slots : s = m.old
  BY <1>3
<1>5. proc[p].old = s /\ s # None
  BY <1>3, <1>4
<1>6. Aim(proc[p]) \in OldPoints \cup {"linked"}
  BY <1>2, <1>5 DEF Control, Shape, Pointed, OldPoints
<1>7. disk[Inum(s)].type \notin {"DIR", "free"}
  BY <1>5, <1>6 DEF LInv, Knowing, KnowsLinks
<1>8. icache'[s].inum = Inum(s) /\ Inum(s) \in Inums
  <2>1. Ptr(proc[p], "old") = s /\ Ptr(m, "old") = s /\ "old" \in Pointers
    BY <1>4, <1>5 DEF Ptr, Pointers
  <2> QED BY <2>1, MovedOthers DEF Inum
<1> QED BY <1>4, <1>7, <1>8

\* A call goes on, or returns.
GoesQuietly(p, m) ==
    /\ proc' = [proc EXCEPT ![p] = m] /\ proc[p].pc # "put2" /\ m.pc # "put2"
    /\ Place(proc[p]) \notin {"newinode", "unlinked"} /\ Place(m) \notin {"newinode", "victim", "unlinked", "linked"}
    /\ m.old = IF Place(proc[p]) = "linked" THEN None ELSE proc[p].old
SameFiles ==
    \A i \in Inums : /\ disk'[i].type = disk[i].type /\ disk'[i].nlink = disk[i].nlink
                     /\ data'[i] # data[i] => disk[i].type # "DIR" /\ ~Fresh(i)

LEMMA GoesQuietlyKept ==
  ASSUME IInv, IInv', LInv, NEW p \in Procs, NEW m, GoesQuietly(p, m), SameFiles,
         \A s \in Slots :
            /\ icache[s].ref > 0 /\ icache'[s].ref > 0 => icache'[s].inum = icache[s].inum
            /\ icache'[s].ref > icache[s].ref =>
                  disk[icache'[s].inum].nlink # 0 \/ \E v \in Pointers : Ptr(proc[p], v) = s
            /\ icache[s].ref > 0 /\ icache'[s].ref > 0 /\ icache[s].valid => icache'[s].valid
            /\ icache[s].ref > 0 /\ icache'[s].ref = 0 => disk[icache[s].inum].nlink # 0
  PROVE  LInv'
<1>1. Moved(p, m) /\ proc'[p] = m
  BY DEF Moved, GoesQuietly, IInv, DiskTypes
<1>2. Control(m) /\ Control(proc[p])
  BY <1>1 DEF IInv, Controls
<1>3. Owed(m) = Owed(proc[p])
  <2>1. Owed(m) = m.old
    BY <1>2, OwedOld DEF GoesQuietly
  <2>2. CASE Place(proc[p]) # "linked"
    <3>1. Owed(proc[p]) = proc[p].old
      BY <1>2, <2>2, OwedOld DEF GoesQuietly
    <3> QED BY <2>1, <2>2, <3>1 DEF GoesQuietly
  <2>3. CASE Place(proc[p]) = "linked"
    <3>1. Owed(proc[p]) = None /\ proc[p].old # None
      BY <1>2, <2>3 DEF Owed, Aim, WalkPoints, OldPoints, Control, Shape, Pointed
    <3>2. m.old = None
      BY <2>3 DEF GoesQuietly
    <3> QED BY <2>1, <3>1, <3>2
  <2> QED BY <2>2, <2>3
<1>4. ~Makes(p) /\ Place(m) # "newinode"
  BY DEF Makes, GoesQuietly
<1>5. Quietly(p, m)
  BY <1>1, <1>3, <1>4 DEF Quietly, GoesQuietly, SameFiles
<1>6. KnowsLinks(m)'
  <2>1. m.old \in {proc[p].old, None} /\ Place(m) \notin {"newinode", "victim"}
    BY DEF GoesQuietly
  <2>2. \A i \in Inums : disk'[i].type = disk[i].type
    BY DEF SameFiles
  <2> QED BY <1>1, <2>1, <2>2, KnowsKept
<1> QED BY <1>5, <1>6, QuietlyKept

LEMMA PanicLinks ==
  ASSUME LInv, UNCHANGED <<setup, disk, data, used, icache, proc>>
  PROVE  LInv'
<1>1. disk' = disk /\ data' = data /\ icache' = icache /\ proc' = proc
  OBVIOUS
<1>2. \A i : (Fresh(i)' <=> Fresh(i)) /\ Inum(i)' = Inum(i)
  BY <1>1 DEF Fresh, Makes, Inum
<1>3. \A i : LinksTo(i)' = LinksTo(i) /\ Names(i)' = Names(i) /\ (InPlace(i)' <=> InPlace(i))
  BY <1>1 DEF LinksTo, Names, InPlace
<1>4. Tree'
  BY <1>1, <1>2, <1>3 DEF LInv, Tree, IsDir
<1>5. Counted'
  <2>1. \A i : Owing(i)' = Owing(i)
    BY <1>1 DEF Owing, Inum
  <2> QED BY <1>1, <1>3, <2>1 DEF LInv, Counted
<1>6. Alone'
  <2>1. \A s : Lonely(s)' <=> Lonely(s)
    BY <1>1 DEF Lonely, Pointer, Makes
  <2> QED BY <1>1, <1>2, <2>1 DEF LInv, Alone, Makes, Inum, Fresh, Lonely, Pointer
<1>7. Knowing'
  BY <1>1 DEF LInv, Knowing, KnowsLinks, IsDir, InPlace, Inum
<1>8. Live'
  BY <1>1 DEF LInv, Live, Freeing, Inum, Fresh, Makes
<1> QED BY <1>4, <1>5, <1>6, <1>7, <1>8 DEF LInv

LEMMA CalmKept ==
  ASSUME IInv, IInv', LInv, NEW p \in Procs, NEW m, GoesQuietly(p, m), SameFiles,
         \A s \in Slots : /\ icache'[s].ref = icache[s].ref /\ icache'[s].inum = icache[s].inum
                          /\ icache[s].valid => icache'[s].valid
  PROVE  LInv'
<1>1. \A s \in Slots : icache[s].ref \in Nat
  BY DEF IInv, DiskTypes, Inodes
<1>2. \A s \in Slots :
            /\ icache[s].ref > 0 /\ icache'[s].ref > 0 => icache'[s].inum = icache[s].inum
            /\ icache'[s].ref > icache[s].ref =>
                  disk[icache'[s].inum].nlink # 0 \/ \E v \in Pointers : Ptr(proc[p], v) = s
            /\ icache[s].ref > 0 /\ icache'[s].ref > 0 /\ icache[s].valid => icache'[s].valid
            /\ icache[s].ref > 0 /\ icache'[s].ref = 0 => disk[icache[s].inum].nlink # 0
  BY <1>1
<1> QED BY <1>2, GoesQuietlyKept

LEMMA PeekSameFiles == ASSUME UNCHANGED <<disk, data>> PROVE SameFiles
BY DEF SameFiles

\* A step that reads, and unlocks at most.
LEMMA PeekLinks ==
  ASSUME IInv, IInv', LInv, NEW p \in Procs, NEW m, NEW c, Peek(p, m, c), GoesQuietly(p, m),
         c = icache \/ \E s \in Slots : c = Iunlock(icache, s)
  PROVE  LInv'
<1>1. icache' = c /\ disk' = disk /\ data' = data
  BY DEF Peek, Step
<1>2. icache \in [Slots -> Inodes]
  BY DEF IInv, DiskTypes
<1>3. \A s \in Slots : icache'[s].ref = icache[s].ref /\ icache'[s].inum = icache[s].inum /\ (icache[s].valid => icache'[s].valid)
  BY <1>1, <1>2, UnlockFacts DEF Same
<1> QED BY <1>1, <1>3, PeekSameFiles, CalmKept

\* iget() of an inode with links, or of one that p has.
LEMMA GetLinks ==
  ASSUME IInv, IInv', LInv, NEW p \in Procs, NEW m, NEW c, NEW i \in Inums, Peek(p, m, Iget(c, i)), GoesQuietly(p, m),
         c = icache \/ \E s \in Slots : c = Iunlock(icache, s), Entry(icache, i) # None,
         disk[i].nlink # 0 \/ \E v \in Pointers : Ptr(proc[p], v) = Entry(icache, i)
  PROVE  LInv'
<1>1. icache' = Iget(c, i) /\ disk' = disk /\ data' = data
  BY DEF Peek, Step
<1>2. icache \in [Slots -> Inodes]
  BY DEF IInv, DiskTypes
<1>3. c \in [Slots -> Inodes] /\ \A s \in Slots : c[s].ref = icache[s].ref /\ c[s].inum = icache[s].inum /\ c[s].valid = icache[s].valid
  BY <1>2, UnlockFacts DEF Same
<1>4. Entry(c, i) = Entry(icache, i)
  BY <1>3, EntrySame
<1>5. /\ Entry(c, i) \in Slots
      /\ \A s \in Slots :
            /\ icache'[s].ref = c[s].ref + One(Entry(c, i) = s)
            /\ c[s].ref > 0 => icache'[s].inum = c[s].inum /\ icache'[s].valid = c[s].valid
            /\ s = Entry(c, i) => icache'[s].inum = i
  <2>0. c \in [Slots -> Inodes] /\ Entry(c, i) # None
    BY <1>3, <1>4
  <2>1. /\ Iget(c, i) \in [Slots -> Inodes] /\ Entry(c, i) \in Slots
        /\ \A s \in Slots :
             /\ Iget(c, i)[s].ref = c[s].ref + One(Entry(c, i) = s) /\ Iget(c, i)[s].lock = c[s].lock
             /\ c[s].ref > 0 => Same(c[s], Iget(c, i)[s])
             /\ c[s].ref = 0 /\ Iget(c, i)[s].ref > 0 => s = Entry(c, i) /\ Iget(c, i)[s].valid = FALSE
             /\ s = Entry(c, i) => Iget(c, i)[s].inum = i
             /\ s # Entry(c, i) => Iget(c, i)[s] = c[s]
    BY <2>0, IgetFacts
  <2> QED BY <1>1, <2>1 DEF Same
<1>6. \A s \in Slots : icache[s].ref \in Nat
  BY <1>2 DEF Inodes
<1>7. \A s \in Slots : One(Entry(c, i) = s) = IF Entry(c, i) = s THEN 1 ELSE 0
  BY DEF One
<1>8. \A s \in Slots :
            /\ icache[s].ref > 0 /\ icache'[s].ref > 0 => icache'[s].inum = icache[s].inum
            /\ icache'[s].ref > icache[s].ref =>
                  disk[icache'[s].inum].nlink # 0 \/ \E v \in Pointers : Ptr(proc[p], v) = s
            /\ icache[s].ref > 0 /\ icache'[s].ref > 0 /\ icache[s].valid => icache'[s].valid
            /\ icache[s].ref > 0 /\ icache'[s].ref = 0 => disk[icache[s].inum].nlink # 0
  <2> TAKE s \in Slots
  <2>1. CASE s = Entry(c, i)
    BY <1>3, <1>4, <1>5, <1>6, <1>7, <2>1
  <2>2. CASE s # Entry(c, i)
    BY <1>3, <1>5, <1>6, <1>7, <2>2
  <2> QED BY <2>1, <2>2
<1>9. SameFiles
  BY <1>1, PeekSameFiles
<1> QED BY <1>8, <1>9, GoesQuietlyKept

\* An inode that is referred to is found in its entry.
LEMMA EntryOwn ==
  ASSUME IInv, NEW s \in Slots, icache[s].ref > 0
  PROVE  Entry(icache, Inum(s)) = s
<1> DEFINE cached == {t \in Slots : icache[t].ref > 0 /\ icache[t].inum = Inum(s)}
<1>1. s \in cached
  BY DEF Inum
<1>2. \A t \in cached : t = s
  BY OneSlot DEF Inum
<1>3. Entry(icache, Inum(s)) = CHOOSE t \in cached : TRUE
  BY <1>1 DEF Entry
<1> HIDE DEF cached
<1> QED BY <1>1, <1>2, <1>3

\* What a directory that p has names, has links; unless it is the directory itself, or ".." of a removed one.
LEMMA FoundLinks ==
  ASSUME IInv, LInv, NEW p \in Procs, NEW v \in Pointers, NEW s \in Slots, Pointer(p, v) = s, ~Makes(p), proc[p].pc # "put2",
         TypeAt(s) = "DIR", NEW n \in DOMAIN data[Inum(s)], NEW j, j = data[Inum(s)][n],
         n = ".." => InPlace(Inum(s)) \/ disk[j].nlink > 0
  PROVE  /\ j \in Inums /\ (disk[j].nlink # 0 \/ \E w \in Pointers : Ptr(proc[p], w) = Entry(icache, j))
         /\ n # "." => disk[j].nlink # 0
<1>1. icache[s].ref > 0 /\ Inum(s) \in Inums /\ ~Fresh(Inum(s))
  BY SeenNotHidden
<1>2. j \in Inums
  BY <1>1, DirEntry DEF Inum
<1>3. CASE n = "."
  <2>1. j = Inum(s)
    BY <1>1, <1>3 DEF LInv, Tree, IsDir, TypeAt, Inum
  <2>2. Entry(icache, j) = s
    BY <1>1, <2>1, EntryOwn
  <2>3. Ptr(proc[p], v) = s
    BY DEF Ptr, Pointer
  <2> QED BY <1>2, <1>3, <2>2, <2>3
<1>4. CASE n # "." /\ (n = ".." => InPlace(Inum(s)))
  <2>1. <<Inum(s), n>> \in LinksTo(j)
    BY <1>1, <1>4, InLinks DEF LinksTo, InPlace, TypeAt, Inum
  <2>2. disk[j].nlink > 0 /\ disk[j].nlink \in Nat
    BY <1>2, <2>1, NoLinks
  <2> QED BY <1>2, <2>2
<1>5. CASE n = ".." /\ ~InPlace(Inum(s))
  <2>1. disk[j].nlink \in Nat
    BY <1>2, NoLinks
  <2> QED BY <1>2, <1>5, <2>1
<1> QED BY <1>3, <1>4, <1>5

-----------------------------------------------------------------------------
(* The steps of namex().                                                   *)

LEMMA StartWalkLinks ==
  ASSUME IInv, IInv', LInv, NEW p \in Procs, NEW l, Walks(l), NEW path, StartWalk(p, l, path), proc[p].pc # "put2",
         Place(proc[p]) \notin {"newinode", "unlinked", "linked"}, l.old = proc[p].old, l.cwd = proc[p].cwd
  PROVE  LInv'
<1> DEFINE s == IF path.abs THEN Entry(icache, Root) ELSE l.cwd
           f == [l EXCEPT !.path = path.elems, !.depth = 0]
           m == Walking(f, s)
<1>0. l.cwd \in Slots /\ Root \in Inums /\ disk[Root].nlink # 0
  BY RootHasLinks DEF Walks
<1>1. CASE s = None
  <2>1. \E w : Panic(w)
    BY <1>1 DEF StartWalk
  <2> QED BY <2>1, PanicLinks DEF Panic
<1> SUFFICES ASSUME s # None PROVE LInv'
  BY <1>1
<1>2. s \in Slots
  <2>1. \A t \in Slots : icache[t].ref \in Nat
    BY DEF IInv, DiskTypes, Inodes
  <2> QED BY <1>0, <2>1, EntryFacts
<1>3. Walks(f) /\ f.old = l.old
  <2>1. Alike(f, l, {"pc", "path", "name", "ip", "depth", "stack", "target"})
    BY DEF Alike, Walks, Fields
  <2> HIDE DEF f
  <2> QED BY <2>1, WalksAlike DEF Alike, Fields
<1>4. Peek(p, m, IF path.abs THEN Iget(icache, Root) ELSE [icache EXCEPT ![s].ref = @ + 1])
  BY DEF StartWalk
<1> HIDE DEF f, s
<1>5. /\ Shape(m) /\ Apart(m) /\ m.pc \in {"idle", "lock", "link", "put"} /\ m.fd = f.fd
      /\ Place(m) \in {"idle", "linkbad", "link", "look", f.then} \ ParentPoints
      /\ \A t \in Slots : ~Held(m, t) /\ N(m, t) = One(s = t) + Rest(f, t)
  BY <1>2, <1>3, WalkingShape
<1>6. m.old = proc[p].old
  BY <1>3, WalkingOld
<1> HIDE DEF m
<1>7. GoesQuietly(p, m)
  BY <1>3, <1>4, <1>5, <1>6 DEF GoesQuietly, Walks, FoundPoints, ParentPoints, Peek, Step
<1>8. CASE path.abs
  <2>1. s = Entry(icache, Root) /\ Peek(p, m, Iget(icache, Root))
    BY <1>4, <1>8 DEF s
  <2> QED BY <1>0, <1>2, <1>7, <2>1, GetLinks DEF Slots, None
<1>9. CASE ~path.abs
  <2>1. icache' = [icache EXCEPT ![s].ref = @ + 1] /\ disk' = disk /\ data' = data /\ s = proc[p].cwd
    BY <1>4, <1>9 DEF Peek, Step, s
  <2>2. icache \in [Slots -> Inodes] /\ \A t \in Slots : icache[t].ref \in Nat
    BY DEF IInv, DiskTypes, Inodes
  <2>3. \A t \in Slots : /\ icache'[t].inum = icache[t].inum /\ icache'[t].valid = icache[t].valid
                         /\ icache'[t].ref = IF t = s THEN icache[t].ref + 1 ELSE icache[t].ref
    BY <2>1, <2>2 DEF Inodes
  <2>4. Ptr(proc[p], "cwd") = s /\ "cwd" \in Pointers
    BY <2>1 DEF Ptr, Pointers
  <2>5. \A t \in Slots :
            /\ icache[t].ref > 0 /\ icache'[t].ref > 0 => icache'[t].inum = icache[t].inum
            /\ icache'[t].ref > icache[t].ref =>
                  disk[icache'[t].inum].nlink # 0 \/ \E v \in Pointers : Ptr(proc[p], v) = t
            /\ icache[t].ref > 0 /\ icache'[t].ref > 0 /\ icache[t].valid => icache'[t].valid
            /\ icache[t].ref > 0 /\ icache'[t].ref = 0 => disk[icache[t].inum].nlink # 0
    BY <2>2, <2>3, <2>4
  <2> QED BY <1>7, <2>1, <2>5, PeekSameFiles, GoesQuietlyKept
<1> QED BY <1>8, <1>9

LEMMA FollowLinks ==
  ASSUME IInv, IInv', LInv, NEW p \in Procs, Follow(p)
  PROVE  LInv'
<1> DEFINE l == proc[p]
           f == [l EXCEPT !.target = NoData]
<1>1. l.pc = "follow"
  BY DEF Follow, At
<1>2. CASE Len(l.stack) >= KernelFrames
  <2>1. \E w : Panic(w)
    BY <1>2 DEF Follow
  <2> QED BY <2>1, PanicLinks DEF Panic
<1>3. CASE ~(Len(l.stack) >= KernelFrames)
  <2>1. StartWalk(p, f, l.target)
    BY <1>3 DEF Follow
  <2>2. Walks(l) /\ l.pc # "put2" /\ Place(l) = "follow"
    BY <1>1, WalkHere DEF WalkPoints, Place, Waits, Putting
  <2>3. Walks(f) /\ f.old = l.old /\ f.cwd = l.cwd
    <3>1. Alike(f, l, {"pc", "path", "name", "ip", "depth", "stack", "target"})
      BY <2>2 DEF Alike, Walks, Fields
    <3> HIDE DEF f, l
    <3> QED BY <2>2, <3>1, WalksAlike DEF Alike, Fields
  <2> HIDE DEF f
  <2> QED BY <2>1, <2>2, <2>3, StartWalkLinks
<1> QED BY <1>2, <1>3

\* A process that goes on quietly with its link old, as Lock, Put, Idle, Result and Walking make it.
Calm(m, old) ==
    /\ DOMAIN m = Fields /\ m.old = old /\ m.pc # "put2"
    /\ Place(m) \notin {"newinode", "victim", "unlinked", "linked"}

LEMMA CalmLock ==
  ASSUME NEW l, DOMAIN l = Fields, l.pc \notin {"newinode", "victim", "unlinked", "linked"}, NEW s
  PROVE  Calm(Lock(l, s), l.old)
<1>1. Lock(l, s).pc = "lock" /\ Lock(l, s).locked = l.pc
  BY DEF Lock, Fields
<1>2. Place(Lock(l, s)) = l.pc
  BY <1>1 DEF Place, Waits
<1> QED BY <1>1, <1>2, LockOld DEF Calm

LEMMA CalmPut ==
  ASSUME NEW l, NEW old, Calm(l, old), l.pc \notin Putting, NEW s
  PROVE  Calm(Put(l, s), old)
<1>1. Put(l, s).pc = "put" /\ Put(l, s).after = l.pc /\ Put(l, s).locked = l.locked
  BY DEF Put, Fields, Calm
<1>2. Place(Put(l, s)) = Place(l)
  BY <1>1 DEF Place, Waits, Putting
<1> QED BY <1>1, <1>2, PutOld DEF Calm

LEMMA CalmIdle ==
  ASSUME NEW l, DOMAIN l = Fields
  PROVE  Calm(Idle(l), None) /\ Idle(l).pc = "idle"
<1>1. Idle(l).pc = "idle"
  BY DEF Idle, Fields
<1>2. Place(Idle(l)) = "idle"
  BY <1>1 DEF Place, Waits, Putting
<1> QED BY <1>1, <1>2, IdleOld DEF Calm

LEMMA CalmResult ==
  ASSUME NEW l, Walks(l), NEW s \in Slots \cup {None}
  PROVE  Calm(Result(l, s), l.old) /\ Result(l, s).pc \notin Putting
<1> DEFINE m == Result(l, s)
<1>1. /\ Shape(m) /\ Apart(m) /\ m.pc \in {"idle", "lock", "link"} /\ m.fd = l.fd
      /\ Place(m) \in {"idle", "linkbad", "link", l.then}
      /\ (s = None => Place(m) \in {"idle", "linkbad"}) /\ (Place(m) = l.then => m.ip = s)
      /\ \A t \in Slots : ~Held(m, t) /\ N(m, t) = One(s = t) + Rest(l, t)
  BY ResultShape
<1>2. m.old = l.old /\ DOMAIN m = Fields
  BY ResultOld
<1> HIDE DEF m
<1>3. Calm(m, l.old) /\ m.pc \notin Putting
  BY <1>1, <1>2 DEF Calm, Walks, FoundPoints, ParentPoints, Putting
<1> QED BY <1>3 DEF m

LEMMA CalmWalking ==
  ASSUME NEW l, Walks(l), NEW s \in Slots
  PROVE  Calm(Walking(l, s), l.old)
<1> DEFINE m == Walking(l, s)
<1>1. /\ Shape(m) /\ Apart(m) /\ m.pc \in {"idle", "lock", "link", "put"} /\ m.fd = l.fd
      /\ Place(m) \in {"idle", "linkbad", "link", "look", l.then} \ ParentPoints
      /\ \A t \in Slots : ~Held(m, t) /\ N(m, t) = One(s = t) + Rest(l, t)
  BY WalkingShape
<1>2. m.old = l.old /\ DOMAIN m = Fields
  BY WalkingOld
<1> HIDE DEF m
<1>3. Calm(m, l.old)
  BY <1>1, <1>2 DEF Calm, Walks, FoundPoints, ParentPoints
<1> QED BY <1>3 DEF m

LEMMA CalmGoes ==
  ASSUME NEW p, NEW m, NEW c, Step(p, m, c), proc[p].pc \notin Putting \cup {"lock", "newinode", "unlinked"},
         Calm(m, IF proc[p].pc = "linked" THEN None ELSE proc[p].old)
  PROVE  GoesQuietly(p, m)
<1>1. Place(proc[p]) = proc[p].pc
  BY DEF Place, Waits, Putting
<1> QED BY <1>1 DEF GoesQuietly, Step, Calm, Putting

LEMMA LinkLinks ==
  ASSUME IInv, IInv', LInv, NEW p \in Procs, Link(p)
  PROVE  LInv'
<1> DEFINE l == proc[p]
           f == [l EXCEPT !.pc = "readlink"]
<1>1. l.pc = "link"
  BY DEF Link, At
<1>2. Walks(l) /\ l.ip \in Slots /\ DOMAIN l = Fields
  BY <1>1, WalkHere DEF WalkPoints, Walks
<1>3. PICK m \in {Lock(f, l.ip), Put(Result(l, None), l.ip), Walking(l, l.ip)} : Peek(p, m, icache)
  BY DEF Link
<1>4. f.old = l.old /\ DOMAIN f = Fields /\ f.pc = "readlink"
  BY <1>2 DEF Fields
<1> HIDE DEF l, f
<1>5. Calm(Lock(f, l.ip), l.old)
  BY <1>4, CalmLock
<1>6. Calm(Put(Result(l, None), l.ip), l.old)
  BY <1>2, CalmResult, CalmPut
<1>7. Calm(Walking(l, l.ip), l.old)
  BY <1>2, CalmWalking
<1>8. Calm(m, proc[p].old) /\ proc[p].pc = "link"
  BY <1>1, <1>3, <1>5, <1>6, <1>7 DEF l
<1>9. GoesQuietly(p, m)
  BY <1>3, <1>8, CalmGoes DEF Peek, Putting
<1> QED BY <1>3, <1>9, PeekLinks

LEMMA ReadLinkLinks ==
  ASSUME IInv, IInv', LInv, NEW p \in Procs, ReadLink(p)
  PROVE  LInv'
<1> DEFINE l == proc[p]
<1>1. l.pc = "readlink"
  BY DEF ReadLink, At
<1>2. Walks(l) /\ l.ip \in Slots /\ DOMAIN l = Fields
  BY <1>1, WalkHere DEF WalkPoints, Walks
<1>3. PICK text \in LinkText(l.ip) :
        Peek(p, Put([l EXCEPT !.pc = "follow", !.target = text, !.ip = None,
                              !.stack = Append(@, l.depth)], l.ip), Iunlock(icache, l.ip))
  BY DEF ReadLink
<1> DEFINE f == [l EXCEPT !.pc = "follow", !.target = text, !.ip = None, !.stack = Append(@, l.depth)]
           m == Put(f, l.ip)
<1>4. f.old = l.old /\ DOMAIN f = Fields /\ f.pc = "follow"
  BY <1>2 DEF Fields
<1>5. Peek(p, m, Iunlock(icache, l.ip))
  BY <1>3
<1> HIDE DEF l, f
<1>6. Calm(f, l.old)
  BY <1>4 DEF Calm, Place, Waits, Putting
<1>7. Calm(m, l.old)
  BY <1>4, <1>6, CalmPut DEF Putting
<1> HIDE DEF m
<1>8. Calm(m, proc[p].old) /\ proc[p].pc = "readlink"
  BY <1>1, <1>7 DEF l
<1>9. GoesQuietly(p, m)
  BY <1>5, <1>8, CalmGoes DEF Peek, Putting
<1> QED BY <1>2, <1>5, <1>9, PeekLinks

LEMMA LookLinks ==
  ASSUME IInv, IInv', LInv, RemovedUnused, NEW p \in Procs, Look(p)
  PROVE  LInv'
<1> DEFINE l == proc[p]
           name == Head(l.path)
           j == data[Inum(l.ip)][name]
           next == Entry(icache, j)
           c == Iunlock(icache, l.ip)
           g == [l EXCEPT !.name = name]
           f == [l EXCEPT !.pc = "link", !.ip = next, !.path = Tail(@), !.depth = 0]
<1>1. l.pc = "look"
  BY DEF Look, At
<1>2. Walks(l) /\ l.ip \in Slots /\ DOMAIN l = Fields /\ Held(l, l.ip)
  BY <1>1, WalkHere DEF WalkPoints, Walks
<1>3. TypeAt(l.ip) = icache[l.ip].type
  BY <1>1, <1>2, HeldCurrent
<1>4. \/ \E w : Panic(w)
      \/ \E m \in {Put(Result(l, None), l.ip), Result(g, l.ip)} : Peek(p, m, c)
      \/ /\ icache[l.ip].type = "DIR" /\ ~(l.parent /\ Len(l.path) = 1) /\ name \in DOMAIN data[Inum(l.ip)] /\ next # None
         /\ Peek(p, Put(f, l.ip), Iget(c, j))
  BY DEF Look, Inum
<1>5. proc[p].pc \notin Putting \cup {"lock", "newinode", "unlinked", "linked"}
  BY <1>1 DEF Putting
<1>6. CASE \E w : Panic(w)
  BY <1>6, PanicLinks DEF Panic
<1>7. CASE \E m \in {Put(Result(l, None), l.ip), Result(g, l.ip)} : Peek(p, m, c)
  <2>1. PICK m \in {Put(Result(l, None), l.ip), Result(g, l.ip)} : Peek(p, m, c)
    BY <1>7
  <2>2. Walks(g) /\ g.old = l.old
    <3>1. Alike(g, l, {"pc", "path", "name", "ip", "depth", "stack", "target"})
      BY <1>2 DEF Alike, Walks, Fields
    <3> HIDE DEF g, l
    <3> QED BY <1>2, <3>1, WalksAlike DEF Alike, Fields
  <2> HIDE DEF g, l, c
  <2>3. Calm(Put(Result(l, None), l.ip), l.old) /\ Calm(Result(g, l.ip), l.old)
    BY <1>2, <2>2, CalmResult, CalmPut
  <2>4. Calm(m, l.old)
    BY <2>1, <2>3
  <2>5. GoesQuietly(p, m)
    BY <1>1, <1>5, <2>1, <2>4, CalmGoes DEF Peek, l
  <2>6. c = Iunlock(icache, l.ip)
    BY DEF c
  <2> QED BY <1>2, <2>1, <2>5, <2>6, PeekLinks
<1>8. CASE /\ icache[l.ip].type = "DIR" /\ ~(l.parent /\ Len(l.path) = 1) /\ name \in DOMAIN data[Inum(l.ip)] /\ next # None
           /\ Peek(p, Put(f, l.ip), Iget(c, j))
  <2>1. f.old = l.old /\ DOMAIN f = Fields /\ f.pc = "link"
    BY <1>2 DEF Fields
  <2>2. name = ".." => disk[j].nlink > 0
    BY <1>1, <1>8 DEF RemovedUnused, Inum
  <2>3. Pointer(p, "ip") = l.ip /\ "ip" \in Pointers /\ ~Makes(p) /\ proc[p].pc # "put2"
    BY <1>1 DEF Pointer, Pointers, Makes, Place, Waits, Putting
  <2> HIDE DEF f, name
  <2>4. j \in Inums /\ (disk[j].nlink # 0 \/ \E w \in Pointers : Ptr(proc[p], w) = Entry(icache, j))
    BY <1>2, <1>3, <1>8, <2>2, <2>3, FoundLinks
  <2> HIDE DEF j, l
  <2>5. Calm(f, l.old)
    BY <2>1 DEF Calm, Place, Waits, Putting
  <2>6. Calm(Put(f, l.ip), l.old)
    BY <2>1, <2>5, CalmPut DEF Putting
  <2>7. GoesQuietly(p, Put(f, l.ip))
    BY <1>1, <1>5, <1>8, <2>6, CalmGoes DEF Peek, l
  <2> HIDE DEF c
  <2>8. c = Iunlock(icache, l.ip)
    BY DEF c
  <2> QED BY <1>2, <1>8, <2>4, <2>7, <2>8, GetLinks
<1> QED BY <1>4, <1>6, <1>7, <1>8

-----------------------------------------------------------------------------
(* The calls, where they change no directory and no nlink.                 *)

LEMMA CallPeek ==
  ASSUME IInv, IInv', LInv, NEW p \in Procs, NEW m, NEW c, Peek(p, m, c),
         proc[p].pc \in Ordinary \ {"unlinked"}, Calm(m, proc[p].old),
         c \in {icache, Iunlock(icache, proc[p].ip)}
  PROVE  LInv'
<1>1. proc[p].ip \in Slots
  BY OrdinaryHere
<1>2. proc[p].pc \notin Putting \cup {"lock", "newinode", "unlinked", "linked"}
  BY DEF Ordinary, IpPoints, FoundPoints, ParentPoints, Putting
<1>3. GoesQuietly(p, m)
  BY <1>2, CalmGoes DEF Peek
<1> QED BY <1>1, <1>3, PeekLinks

LEMMA GiveUpLinks ==
  ASSUME IInv, IInv', LInv, NEW p \in Procs, proc[p].pc \in Ordinary \ {"unlinked", "linking", "notlinked"},
         Peek(p, Put(Idle(proc[p]), proc[p].ip), Iunlock(icache, proc[p].ip))
  PROVE  LInv'
<1>1. DOMAIN proc[p] = Fields /\ proc[p].old = None
  BY OrdinaryHere
<1>2. Calm(Put(Idle(proc[p]), proc[p].ip), proc[p].old)
  BY <1>1, CalmIdle, CalmPut DEF Putting
<1> QED BY <1>2, CallPeek

LEMMA MoveLinks ==
  ASSUME IInv, IInv', LInv, NEW p \in Procs, proc[p].pc \in Ordinary \ {"unlinked"}, NEW x \in {"created", "install"},
         Peek(p, [proc[p] EXCEPT !.pc = x], icache)
  PROVE  LInv'
<1> DEFINE l == proc[p]
           m == [l EXCEPT !.pc = x]
<1>1. DOMAIN l = Fields
  BY OrdinaryHere
<1>2. m.pc = x /\ m.old = l.old /\ DOMAIN m = Fields
  BY <1>1 DEF Fields
<1>3. Peek(p, m, icache)
  OBVIOUS
<1> HIDE DEF m
<1>4. Calm(m, proc[p].old)
  BY <1>2 DEF Calm, Place, Waits, Putting
<1> QED BY <1>3, <1>4, CallPeek

LEMMA ExistsLinks ==
  ASSUME IInv, IInv', LInv, NEW p \in Procs, Exists(p)
  PROVE  LInv'
<1>1. proc[p].pc = "exists"
  BY DEF Exists, At
<1>2. \/ Peek(p, [proc[p] EXCEPT !.pc = "created"], icache)
      \/ Peek(p, Put(Idle(proc[p]), proc[p].ip), Iunlock(icache, proc[p].ip))
  BY DEF Exists
<1> QED BY <1>1, <1>2, MoveLinks, GiveUpLinks DEF Ordinary, IpPoints

LEMMA OpenCheckLinks ==
  ASSUME IInv, IInv', LInv, NEW p \in Procs, OpenCheck(p)
  PROVE  LInv'
<1>1. proc[p].pc \in {"open", "open2"}
  BY DEF OpenCheck
<1>2. \/ Peek(p, [proc[p] EXCEPT !.pc = "install"], icache)
      \/ Peek(p, Put(Idle(proc[p]), proc[p].ip), Iunlock(icache, proc[p].ip))
  BY DEF OpenCheck
<1> QED BY <1>1, <1>2, MoveLinks, GiveUpLinks DEF Ordinary, IpPoints, FoundPoints

LEMMA OpenLinkLinks ==
  ASSUME IInv, IInv', LInv, NEW p \in Procs, OpenLink(p)
  PROVE  LInv'
<1> DEFINE l == proc[p]
           f == [l EXCEPT !.pc = "follow", !.target = data[icache[l.ip].inum], !.ip = None, !.then = "open2"]
           m == Put(f, l.ip)
<1>1. l.pc = "open" /\ l.pc \in Ordinary \ {"unlinked"} /\ Peek(p, m, Iunlock(icache, l.ip))
  BY DEF OpenLink, At, Ordinary, IpPoints, FoundPoints
<1>2. DOMAIN l = Fields
  BY <1>1, OrdinaryHere
<1>3. f.pc = "follow" /\ f.old = l.old /\ DOMAIN f = Fields
  BY <1>2 DEF Fields
<1> HIDE DEF f
<1>4. Calm(f, l.old)
  BY <1>3 DEF Calm, Place, Waits, Putting
<1>5. Calm(m, proc[p].old)
  BY <1>3, <1>4, CalmPut DEF Putting
<1> QED BY <1>1, <1>5, CallPeek

LEMMA ChdirLinks ==
  ASSUME IInv, IInv', LInv, NEW p \in Procs, Chdir(p)
  PROVE  LInv'
<1> DEFINE l == proc[p]
           f == [l EXCEPT !.cwd = l.ip]
<1>1. l.pc = "chdir" /\ l.pc \in Ordinary \ {"unlinked", "linking", "notlinked"}
  BY DEF Chdir, At, Ordinary, IpPoints, FoundPoints
<1>2. DOMAIN l = Fields /\ l.old = None
  BY <1>1, OrdinaryHere
<1>3. \/ Peek(p, Put(Idle(l), l.ip), Iunlock(icache, l.ip))
      \/ Peek(p, Put(Idle(f), l.cwd), Iunlock(icache, l.ip))
  BY DEF Chdir
<1>4. DOMAIN f = Fields
  BY <1>2
<1>5. CASE Peek(p, Put(Idle(l), l.ip), Iunlock(icache, l.ip))
  BY <1>1, <1>5, GiveUpLinks
<1>6. CASE Peek(p, Put(Idle(f), l.cwd), Iunlock(icache, l.ip))
  <2> HIDE DEF f
  <2>1. Calm(Put(Idle(f), l.cwd), proc[p].old)
    BY <1>2, <1>4, CalmIdle, CalmPut DEF Putting
  <2> QED BY <1>1, <1>6, <2>1, CallPeek
<1> QED BY <1>3, <1>5, <1>6

LEMMA NotLinkedLinks ==
  ASSUME IInv, IInv', LInv, NEW p \in Procs, NotLinked(p)
  PROVE  LInv'
<1> DEFINE l == proc[p]
           f == [l EXCEPT !.pc = "linkbad", !.ip = None]
           m == Put(Lock(f, l.old), l.ip)
<1>1. l.pc = "notlinked" /\ l.pc \in Ordinary \ {"unlinked"} /\ Peek(p, m, Iunlock(icache, l.ip))
  BY DEF NotLinked, At, Ordinary, IpPoints
<1>2. DOMAIN l = Fields
  BY <1>1, OrdinaryHere
<1>3. f.pc = "linkbad" /\ f.old = l.old /\ DOMAIN f = Fields
  BY <1>2 DEF Fields
<1> HIDE DEF f
<1>4. Calm(Lock(f, l.old), l.old)
  BY <1>3, CalmLock
<1>5. Lock(f, l.old).pc = "lock"
  BY <1>3 DEF Lock, Fields
<1>6. Calm(m, proc[p].old)
  BY <1>4, <1>5, CalmPut DEF Putting
<1> QED BY <1>1, <1>6, CallPeek

LEMMA LeaveLinks ==
  ASSUME IInv, IInv', LInv, NEW p \in Procs, Linked(p) \/ UnlinkBad(p)
  PROVE  LInv'
<1> DEFINE l == proc[p]
<1>1. \/ l.pc = "linked" /\ Peek(p, Put(Idle(l), l.old), icache)
      \/ l.pc = "unlinkbad" /\ Peek(p, Put(Idle(l), l.dp), Iunlock(icache, l.dp))
  BY DEF Linked, UnlinkBad, At
<1>2. DOMAIN l = Fields /\ (l.pc = "unlinkbad" => l.dp \in Slots) /\ (l.pc # "linked" => l.old = None)
  BY <1>1, NoIpHere
<1>3. \A s : Calm(Put(Idle(l), s), None)
  BY <1>2, CalmIdle, CalmPut DEF Putting
<1>4. CASE l.pc = "linked" /\ Peek(p, Put(Idle(l), l.old), icache)
  <2>1. GoesQuietly(p, Put(Idle(l), l.old))
    BY <1>3, <1>4, CalmGoes DEF Peek, Putting
  <2> QED BY <1>4, <2>1, PeekLinks
<1>5. CASE l.pc = "unlinkbad" /\ Peek(p, Put(Idle(l), l.dp), Iunlock(icache, l.dp))
  <2>1. GoesQuietly(p, Put(Idle(l), l.dp))
    BY <1>2, <1>3, <1>5, CalmGoes DEF Peek, Putting
  <2> QED BY <1>2, <1>5, <2>1, PeekLinks
<1> QED BY <1>1, <1>4, <1>5

\* What the name in a parent directory stands for has links, and it is a name if it is not "." or "..".
LEMMA NamedLinks ==
  ASSUME IInv, LInv, RemovedUnused, NEW p \in Procs, proc[p].pc \in ParentPoints,
         proc[p].name \in DOMAIN data[Inum(proc[p].ip)], NEW j, j = data[Inum(proc[p].ip)][proc[p].name],
         proc[p].pc = "unlinking" => proc[p].name \notin DotNames
  PROVE  j \in Inums /\ (disk[j].nlink # 0 \/ \E w \in Pointers : Ptr(proc[p], w) = Entry(icache, j))
<1>1. proc[p].pc \in Ordinary
  BY DEF Ordinary, IpPoints, FoundPoints, ParentPoints
<1>2. proc[p].ip \in Slots /\ Place(proc[p]) = proc[p].pc
  BY <1>1, OrdinaryHere
<1>3. TypeAt(proc[p].ip) = "DIR"
  BY <1>2 DEF IInv, Kinds
<1>4. Pointer(p, "ip") = proc[p].ip /\ "ip" \in Pointers /\ ~Makes(p) /\ proc[p].pc # "put2"
  BY <1>2 DEF Pointer, Pointers, Makes, ParentPoints
<1>5. proc[p].name = ".." => InPlace(Inum(proc[p].ip))
  BY DEF RemovedUnused, ParentPoints, Inum, InPlace, DotNames
<1> QED BY <1>2, <1>3, <1>4, <1>5, FoundLinks

LEMMA CreateOldLinks ==
  ASSUME IInv, IInv', LInv, RemovedUnused, NEW p \in Procs, CreateOld(p)
  PROVE  LInv'
<1> DEFINE l == proc[p]
           i == data[Inum(l.ip)][l.name]
           there == Entry(icache, i)
           c == Iunlock(icache, l.ip)
           f == [l EXCEPT !.pc = "exists", !.ip = there]
           m == Put(Lock(f, there), l.ip)
<1>1. l.pc = "creating" /\ l.pc \in Ordinary /\ l.name \in DOMAIN data[Inum(l.ip)]
  BY DEF CreateOld, At, Ordinary, IpPoints, FoundPoints, ParentPoints, Inum
<1>2. DOMAIN l = Fields /\ l.ip \in Slots
  BY <1>1, OrdinaryHere
<1>3. \/ there # None /\ Peek(p, m, Iget(c, i))
      \/ \E w : Panic(w)
  BY DEF CreateOld, Inum
<1>4. CASE \E w : Panic(w)
  BY <1>4, PanicLinks DEF Panic
<1>5. CASE there # None /\ Peek(p, m, Iget(c, i))
  <2>1. i \in Inums /\ (disk[i].nlink # 0 \/ \E w \in Pointers : Ptr(proc[p], w) = there)
    BY <1>1, NamedLinks DEF ParentPoints
  <2>2. f.pc = "exists" /\ f.old = l.old /\ DOMAIN f = Fields
    BY <1>2 DEF Fields
  <2> HIDE DEF f
  <2>3. Calm(Lock(f, there), l.old)
    BY <2>2, CalmLock
  <2>4. Lock(f, there).pc = "lock"
    BY <2>2 DEF Lock, Fields
  <2>5. Calm(m, proc[p].old)
    BY <2>3, <2>4, CalmPut DEF Putting
  <2>6. there = Entry(icache, i) /\ c = Iunlock(icache, l.ip)
    OBVIOUS
  <2> HIDE DEF i, there, m, c
  <2>7. GoesQuietly(p, m)
    BY <1>1, <1>5, <2>5, CalmGoes DEF Peek, Putting
  <2> QED BY <1>2, <1>5, <2>1, <2>6, <2>7, GetLinks
<1> QED BY <1>3, <1>4, <1>5

LEMMA LinkThereLinks ==
  ASSUME IInv, IInv', LInv, RemovedUnused, NEW p \in Procs, LinkThere(p)
  PROVE  LInv'
<1> DEFINE l == proc[p]
           i == data[Inum(l.ip)][l.name]
           there == Entry(icache, i)
           f == [l EXCEPT !.pc = "notlinked"]
           m == Put(f, there)
<1>1. /\ l.pc = "linking" /\ l.pc \in Ordinary /\ l.name \in DOMAIN data[Inum(l.ip)]
      /\ there # None /\ Peek(p, m, Iget(icache, i))
  BY DEF LinkThere, At, Ordinary, IpPoints, FoundPoints, ParentPoints, Inum
<1>2. DOMAIN l = Fields /\ l.ip \in Slots
  BY <1>1, OrdinaryHere
<1>3. i \in Inums /\ (disk[i].nlink # 0 \/ \E w \in Pointers : Ptr(proc[p], w) = there)
  BY <1>1, NamedLinks DEF ParentPoints
<1>4. f.pc = "notlinked" /\ f.old = l.old /\ DOMAIN f = Fields
  BY <1>2 DEF Fields
<1> HIDE DEF f
<1>5. Calm(f, l.old)
  BY <1>4 DEF Calm, Place, Waits, Putting
<1>6. Calm(m, proc[p].old)
  BY <1>4, <1>5, CalmPut DEF Putting
<1>7. there = Entry(icache, i)
  OBVIOUS
<1> HIDE DEF i, there, m
<1>8. GoesQuietly(p, m)
  BY <1>1, <1>6, CalmGoes DEF Peek, Putting
<1> QED BY <1>1, <1>3, <1>7, <1>8, GetLinks

LEMMA UnlinkingLinks ==
  ASSUME IInv, IInv', LInv, RemovedUnused, NEW p \in Procs, Unlinking(p)
  PROVE  LInv'
<1> DEFINE l == proc[p]
           i == data[Inum(l.ip)][l.name]
           there == Entry(icache, i)
           f == [l EXCEPT !.pc = "victim", !.dp = l.ip, !.ip = there]
<1>1. l.pc = "unlinking" /\ l.pc \in Ordinary \ {"unlinked", "linking", "notlinked"}
  BY DEF Unlinking, At, Ordinary, IpPoints, FoundPoints, ParentPoints
<1>2. DOMAIN l = Fields /\ l.ip \in Slots /\ l.old = None /\ Place(l) = "unlinking" /\ Control(l)
  BY <1>1, OrdinaryHere
<1>3. \/ Peek(p, Put(Idle(l), l.ip), Iunlock(icache, l.ip))
      \/ /\ l.name \in DOMAIN data[Inum(l.ip)] \ DotNames /\ there # None
         /\ Peek(p, Lock(f, there), Iget(icache, i))
      \/ \E w : Panic(w)
  BY DEF Unlinking, Inum, DotNames
<1>4. CASE \E w : Panic(w)
  BY <1>4, PanicLinks DEF Panic
<1>5. CASE Peek(p, Put(Idle(l), l.ip), Iunlock(icache, l.ip))
  BY <1>1, <1>5, GiveUpLinks
<1>6. CASE /\ l.name \in DOMAIN data[Inum(l.ip)] \ DotNames /\ there # None
           /\ Peek(p, Lock(f, there), Iget(icache, i))
  <2>1. i \in Inums /\ (disk[i].nlink # 0 \/ \E w \in Pointers : Ptr(proc[p], w) = there)
    BY <1>1, <1>6, NamedLinks DEF ParentPoints
  <2>2. there = Entry(icache, i) /\ i = data[Inum(l.ip)][l.name]
    OBVIOUS
  <2>3. /\ f.pc = "victim" /\ f.old = None /\ f.dp = l.ip /\ f.ip = there /\ f.name = l.name
        /\ DOMAIN f = Fields
    BY <1>2 DEF Fields
  <2> HIDE DEF f, i, there
  <2>3a. LET x == Lock(f, there) IN
         x.pc = "lock" /\ x.locked = "victim" /\ x.old = None /\ x.dp = l.ip /\ x.ip = there /\ x.name = l.name
    BY <2>3 DEF Lock, Fields
  <2>3b. PICK m : m = Lock(f, there)
    OBVIOUS
  <2>4. m.pc = "lock" /\ m.locked = "victim" /\ m.old = None /\ m.dp = l.ip /\ m.ip = there /\ m.name = l.name
    BY <2>3a, <2>3b
  <2>5. Place(m) = "victim" /\ ~Waits(l)
    BY <1>1, <2>4 DEF Place, Waits, Putting
  <2>6. icache' = Iget(icache, i) /\ disk' = disk /\ data' = data /\ proc' = [proc EXCEPT ![p] = m]
    BY <1>6, <2>3b DEF Peek, Step
  <2>7. icache \in [Slots -> Inodes] /\ DOMAIN proc = Procs
    BY DEF IInv, DiskTypes
  <2>8. /\ Iget(icache, i) \in [Slots -> Inodes] /\ Entry(icache, i) \in Slots
        /\ \A s \in Slots :
             /\ Iget(icache, i)[s].ref = icache[s].ref + One(Entry(icache, i) = s) /\ Iget(icache, i)[s].lock = icache[s].lock
             /\ icache[s].ref > 0 => Same(icache[s], Iget(icache, i)[s])
             /\ icache[s].ref = 0 /\ Iget(icache, i)[s].ref > 0 => s = Entry(icache, i) /\ Iget(icache, i)[s].valid = FALSE
             /\ s = Entry(icache, i) => Iget(icache, i)[s].inum = i
             /\ s # Entry(icache, i) => Iget(icache, i)[s] = icache[s]
    BY ZenonT(30), <1>6, <2>1, <2>2, <2>7, IgetFacts
  <2>9. \A s \in Slots : icache[s].ref \in Nat /\ One(there = s) = IF there = s THEN 1 ELSE 0
    BY <2>7 DEF Inodes, One
  <2>9a. \A s \in Slots :
           /\ icache'[s].ref = IF s = there THEN icache[s].ref + 1 ELSE icache[s].ref
           /\ icache[s].ref > 0 => icache'[s].inum = icache[s].inum /\ icache'[s].valid = icache[s].valid
           /\ s = there => icache'[s].inum = i
    BY ZenonT(30), <2>2, <2>6, <2>8, <2>9 DEF Same
  <2>10. Moved(p, m)
    BY <2>6, <2>7, <2>9a DEF Moved
  <2>11. Control(m)
    <3>1. proc'[p] = m
      BY <2>10, MovedOthers
    <3> QED BY <3>1 DEF IInv, Controls
  <2>12. Owed(m) = Owed(proc[p])
    BY <1>2, <2>4, <2>5, <2>11, OwedOld
  <2>13. ~Makes(p) /\ Place(m) # "newinode" /\ proc[p].pc # "put2" /\ m.pc # "put2"
    BY <1>1, <1>2, <2>4, <2>5 DEF Makes
  <2>14. \A s \in Slots :
          /\ icache'[s].ref > icache[s].ref =>
                disk[icache'[s].inum].nlink # 0 \/ (~Makes(p) /\ \E v \in Pointers : Ptr(proc[p], v) = s)
          /\ icache[s].ref > 0 /\ icache'[s].ref > 0 /\ icache[s].valid => icache'[s].valid
          /\ icache[s].ref > 0 /\ icache'[s].ref = 0 => disk[icache[s].inum].nlink # 0
    <3> TAKE s \in Slots
    <3>1. CASE s = there
      BY <2>1, <2>9, <2>9a, <2>13, <3>1
    <3>2. CASE s # there
      BY <2>9, <2>9a, <3>2
    <3> QED BY <3>1, <3>2
  <2>15. Quietly(p, m)
    BY <2>6, <2>10, <2>12, <2>13, <2>14 DEF Quietly
  <2>16. KnowsLinks(m)'
    <3>1. icache[l.ip].ref > 0 /\ TypeAt(l.ip) = icache[l.ip].type
      BY <1>1, OrdinaryHere
    <3>2. TypeAt(l.ip) = "DIR"
      BY <1>2 DEF IInv, Kinds, ParentPoints
    <3>3. icache'[l.ip].inum = Inum(l.ip) /\ icache'[there].inum = i
      BY <1>2, <2>2, <2>6, <2>8, <3>1 DEF Same, Inum
    <3>4. disk'[icache'[m.dp].inum].type = "DIR"
      BY <2>4, <2>6, <3>2, <3>3 DEF TypeAt, Inum
    <3>5. m.name \in DOMAIN data'[icache'[m.dp].inum] \ DotNames /\ data'[icache'[m.dp].inum][m.name] = icache'[m.ip].inum
      BY <1>6, <2>2, <2>4, <2>6, <3>3
    <3>6. Aim(m) \notin OldPoints \cup {"linked"}
      BY <2>5 DEF Aim, WalkPoints, OldPoints
    <3> QED BY <2>5, <3>4, <3>5, <3>6 DEF KnowsLinks, Inum, IsDir
  <2> QED BY <2>15, <2>16, QuietlyKept
<1> QED BY <1>3, <1>4, <1>5, <1>6

\* A step that writes an inode, but for its nlink, and no directory.
LEMMA WriteLinks ==
  ASSUME IInv, IInv', LInv, NEW p \in Procs, NEW m, NEW s \in Slots, NEW c, WritesOne(p, m, s, c),
         c[s].nlink = icache[s].nlink, Held(proc[p], s), GoesQuietly(p, m),
         \A i \in Inums : data'[i] # data[i] => disk[i].type \notin {"DIR", "free"} /\ ~Fresh(i)
  PROVE  LInv'
<1>1. used' \subseteq Blocks /\ DOMAIN data' = Inums /\ proc[p].pc # "put2"
  BY DEF IInv, DiskTypes, GoesQuietly
<1>2. \A i \in Inums : data'[i] # data[i] => disk[i].type # "free" /\ (disk[i].type = "DIR" => IsDirectory(data'[i]))
  OBVIOUS
<1>3. EditsOne(p, m, s)
  BY <1>1, <1>2, WriteOne
<1>4. /\ icache[s].inum \in Inums /\ Current(icache[s], disk[icache[s].inum])
      /\ icache'[s].type = icache[s].type /\ Current(icache'[s], disk'[icache[s].inum])
  BY <1>1, <1>3, HeldCurrent DEF EditsOne
<1>5. icache'[s].nlink = icache[s].nlink
  <2>1. icache' = Iunlock(c, s) /\ c \in [Slots -> Inodes]
    BY DEF WritesOne, Step
  <2>2. Same(c[s], icache'[s])
    BY <2>1, UnlockFacts
  <2> QED BY <2>2 DEF Same
<1>6. SameFiles
  BY <1>3, <1>4, <1>5 DEF SameFiles, EditsOne, Current
<1>7. \A t \in Slots : icache'[t].ref = icache[t].ref /\ icache'[t].inum = icache[t].inum /\ (icache[t].valid => icache'[t].valid)
  BY <1>3 DEF EditsOne
<1> QED BY <1>6, <1>7, CalmKept

LEMMA CalmLeave ==
  ASSUME NEW l, DOMAIN l = Fields, NEW s
  PROVE  Calm(Put(Idle(l), s), None)
BY CalmIdle, CalmPut DEF Putting

LEMMA ChmodLinks ==
  ASSUME IInv, IInv', LInv, NEW p \in Procs, Chmod(p)
  PROVE  LInv'
<1> DEFINE l == proc[p]
           c == [icache EXCEPT ![l.ip].perm = l.call.mode]
           m == Put(Idle(l), l.ip)
<1>1. l.pc = "chmod" /\ l.pc \in Ordinary
  BY DEF Chmod, At, Ordinary, IpPoints, FoundPoints
<1>2. /\ DOMAIN l = Fields /\ l.ip \in Slots /\ l.old = None /\ Held(proc[p], l.ip) /\ l.call.mode \subseteq M_ALL
  BY <1>1, OrdinaryHere
<1>3. Step(p, m, Iunlock(c, l.ip)) /\ disk' = Updated(c, {l.ip}) /\ data' = data
  BY DEF Chmod
<1>4. icache \in [Slots -> Inodes] /\ icache[l.ip] \in Inodes
  BY <1>2 DEF IInv, DiskTypes
<1> HIDE DEF l
<1>5. /\ c \in [Slots -> Inodes] /\ \A t \in Slots \ {l.ip} : c[t] = icache[t]
      /\ c[l.ip].inum = icache[l.ip].inum /\ c[l.ip].ref = icache[l.ip].ref /\ c[l.ip].nlink = icache[l.ip].nlink
      /\ c[l.ip].valid = icache[l.ip].valid /\ c[l.ip].type = icache[l.ip].type
  BY <1>2, <1>4 DEF Inodes
<1>6. Calm(m, None)
  BY <1>2, CalmLeave
<1> HIDE DEF c, m
<1>7. GoesQuietly(p, m)
  BY <1>1, <1>2, <1>3, <1>6, CalmGoes DEF l, Putting
<1>8. WritesOne(p, m, l.ip, c)
  BY <1>3, <1>5 DEF WritesOne
<1> QED BY <1>2, <1>3, <1>5, <1>7, <1>8, WriteLinks

LEMMA CreatedLinks ==
  ASSUME IInv, IInv', LInv, NEW p \in Procs, Created(p)
  PROVE  LInv'
<1> DEFINE l == proc[p]
           c == Grown(icache, l.ip)
           m == Put(Idle(l), l.ip)
<1>1. l.pc = "created" /\ l.pc \in Ordinary \ {"unlinked", "linking", "notlinked"}
  BY DEF Created, At, Ordinary, IpPoints
<1>2. /\ DOMAIN l = Fields /\ l.ip \in Slots /\ l.old = None /\ Held(proc[p], l.ip) /\ Creates(l) /\ Place(l) = "created"
      /\ icache[l.ip].inum \in Inums
  BY <1>1, OrdinaryHere
<1>3. disk[icache[l.ip].inum].type = TypeOf(l.call)
  BY <1>2 DEF IInv, Kinds, TypeAt
<1>4. \/ Peek(p, [l EXCEPT !.pc = "install"], icache)
      \/ Peek(p, m, Iunlock(icache, l.ip))
      \/ \E w : Panic(w)
      \/ /\ l.call.fn = "symlink" /\ ~Full(l.ip) /\ Step(p, m, Iunlock(c, l.ip)) /\ disk' = Updated(c, {l.ip})
         /\ data' = [data EXCEPT ![c[l.ip].inum] = l.call.target]
         /\ used' = used \cup c[l.ip].addrs
  BY <1>2 DEF Created, Creates
<1>5. CASE Peek(p, [l EXCEPT !.pc = "install"], icache)
  BY <1>1, <1>5, MoveLinks
<1>6. CASE Peek(p, m, Iunlock(icache, l.ip))
  BY <1>1, <1>6, GiveUpLinks
<1>7. CASE \E w : Panic(w)
  BY <1>7, PanicLinks DEF Panic
<1>8. CASE /\ l.call.fn = "symlink" /\ ~Full(l.ip) /\ Step(p, m, Iunlock(c, l.ip)) /\ disk' = Updated(c, {l.ip})
           /\ data' = [data EXCEPT ![c[l.ip].inum] = l.call.target]
           /\ used' = used \cup c[l.ip].addrs
  <2>0. ~Fresh(icache[l.ip].inum)
    <3>1. Pointer(p, "ip") = l.ip /\ "ip" \in Pointers /\ ~Makes(p) /\ proc[p].pc # "put2"
      BY <1>1, <1>2 DEF Pointer, Pointers, Makes
    <3> QED BY <1>2, <3>1, SeenNotHidden DEF Inum
  <2>1. Calm(m, None)
    BY <1>2, CalmLeave
  <2> HIDE DEF l, m
  <2>2. icache \in [Slots -> Inodes] /\ used \subseteq Blocks /\ DOMAIN data = Inums
    BY DEF IInv, DiskTypes
  <2>3. /\ c \in [Slots -> Inodes] /\ \A t \in Slots \ {l.ip} : c[t] = icache[t]
        /\ c[l.ip].inum = icache[l.ip].inum /\ c[l.ip].ref = icache[l.ip].ref /\ c[l.ip].nlink = icache[l.ip].nlink
        /\ c[l.ip].valid = icache[l.ip].valid /\ c[l.ip].type = icache[l.ip].type
    BY <1>2, <1>8, <2>2, GrownFacts DEF Full
  <2> HIDE DEF c
  <2>4. WritesOne(p, m, l.ip, c)
    BY <1>8, <2>3 DEF WritesOne
  <2>5. TypeOf(l.call) = "SYMLINK"
    BY <1>8 DEF TypeOf
  <2>6. \A i \in Inums : data'[i] # data[i] => disk[i].type \notin {"DIR", "free"} /\ ~Fresh(i)
    <3>1. \A i \in Inums : data'[i] # data[i] => i = icache[l.ip].inum
      BY <1>8, <2>2, <2>3
    <3> QED BY <1>3, <2>0, <2>5, <3>1
  <2>7. GoesQuietly(p, m)
    BY <1>1, <1>2, <1>8, <2>1, CalmGoes DEF l, Putting
  <2> QED BY <1>2, <2>3, <2>4, <2>6, <2>7, WriteLinks
<1> QED BY <1>4, <1>5, <1>6, <1>7, <1>8

LEMMA InstallLinks ==
  ASSUME IInv, IInv', LInv, NEW p \in Procs, Install(p)
  PROVE  LInv'
<1> DEFINE l == proc[p]
           omode == l.call.omode
           truncates == "TRUNC" \in omode /\ icache[l.ip].type = "FILE"
           d == [icache EXCEPT ![l.ip].addrs = {}]
           f == [ip |-> l.ip, readable |-> omode \cap {"WRONLY", "NOACCESS"} = {},
                 writable |-> omode \cap {"WRONLY", "RDWR"} # {} /\ "NOACCESS" \notin omode]
           g == [l EXCEPT !.fd = f]
           m == Idle(g)
<1>1. l.pc = "install" /\ l.pc \in Ordinary \ {"unlinked", "linking", "notlinked"}
  BY DEF Install, At, Ordinary, IpPoints, FoundPoints
<1>2. DOMAIN l = Fields /\ l.ip \in Slots /\ l.old = None /\ Held(proc[p], l.ip)
  BY <1>1, OrdinaryHere
<1>3. \/ Peek(p, Put(Idle(l), l.ip), Iunlock(icache, l.ip))
      \/ truncates /\ Step(p, m, Iunlock(d, l.ip)) /\ disk' = Updated(d, {l.ip}) /\ data' = data
      \/ Peek(p, m, Iunlock(icache, l.ip))
  BY DEF Install, Peek
<1>4. CASE Peek(p, Put(Idle(l), l.ip), Iunlock(icache, l.ip))
  BY <1>1, <1>4, GiveUpLinks
<1>5. Calm(m, proc[p].old)
  <2>1. DOMAIN g = Fields
    BY <1>2
  <2> HIDE DEF g
  <2> QED BY <1>2, <2>1, CalmIdle
<1>6. CASE Peek(p, m, Iunlock(icache, l.ip))
  BY <1>1, <1>5, <1>6, CallPeek
<1>7. CASE truncates /\ Step(p, m, Iunlock(d, l.ip)) /\ disk' = Updated(d, {l.ip}) /\ data' = data
  <2> HIDE DEF m
  <2>1. icache \in [Slots -> Inodes] /\ icache[l.ip] \in Inodes
    BY <1>2 DEF IInv, DiskTypes
  <2>2. /\ d \in [Slots -> Inodes] /\ \A t \in Slots \ {l.ip} : d[t] = icache[t]
        /\ d[l.ip].inum = icache[l.ip].inum /\ d[l.ip].ref = icache[l.ip].ref /\ d[l.ip].nlink = icache[l.ip].nlink
        /\ d[l.ip].valid = icache[l.ip].valid /\ d[l.ip].type = icache[l.ip].type
    BY <1>2, <2>1 DEF Inodes
  <2>3. GoesQuietly(p, m)
    BY <1>1, <1>5, <1>7, CalmGoes DEF Putting
  <2> HIDE DEF d, l
  <2>4. WritesOne(p, m, l.ip, d)
    BY <1>7, <2>2 DEF WritesOne
  <2> QED BY <1>2, <1>7, <2>2, <2>3, <2>4, WriteLinks
<1> QED BY <1>3, <1>4, <1>6, <1>7

LEMMA FileLinks ==
  ASSUME IInv, IInv', LInv, NEW p \in Procs, Write(p)
  PROVE  LInv'
<1> DEFINE l == proc[p]
           s == l.fd.ip
           c == Grown(icache, s)
           m == Idle(l)
<1>1. l.pc = "write"
  BY DEF Write, At
<1>2. s \in Slots /\ Held(proc[p], s) /\ DOMAIN l = Fields /\ l.old = None
  BY <1>1, FileShape, NoIpHere
<1>3. \/ \E w : Panic(w)
      \/ ~Full(s) /\ Step(p, m, Iunlock(c, s)) /\ disk' = Updated(c, {s}) /\ data' = data
  BY DEF Write
<1>4. CASE \E w : Panic(w)
  BY <1>4, PanicLinks DEF Panic
<1>5. CASE ~Full(s) /\ Step(p, m, Iunlock(c, s)) /\ disk' = Updated(c, {s}) /\ data' = data
  <2>0. Calm(m, proc[p].old)
    BY <1>2, CalmIdle
  <2> HIDE DEF m
  <2>1. GoesQuietly(p, m)
    BY <1>1, <1>5, <2>0, CalmGoes DEF Putting
  <2> HIDE DEF l, s
  <2>2. icache \in [Slots -> Inodes] /\ used \subseteq Blocks
    BY DEF IInv, DiskTypes
  <2>3. /\ c \in [Slots -> Inodes] /\ \A t \in Slots \ {s} : c[t] = icache[t]
        /\ c[s].inum = icache[s].inum /\ c[s].ref = icache[s].ref /\ c[s].nlink = icache[s].nlink
        /\ c[s].valid = icache[s].valid /\ c[s].type = icache[s].type
    BY <1>2, <1>5, <2>2, GrownFacts DEF Full
  <2> HIDE DEF c
  <2>4. WritesOne(p, m, s, c)
    BY <1>5, <2>3 DEF WritesOne
  <2> QED BY <1>2, <1>5, <2>1, <2>3, <2>4, WriteLinks
<1> QED BY <1>3, <1>4, <1>5

LEMMA GetDiskLbnLinks ==
  ASSUME IInv, IInv', LInv, NEW p \in Procs, GetDiskLbn(p)
  PROVE  LInv'
<1> DEFINE l == proc[p]
           s == l.fd.ip
           c == Grown(icache, s)
           m == Idle(l)
<1>1. l.pc = "bmap"
  BY DEF GetDiskLbn, At
<1>2. s \in Slots /\ DOMAIN l = Fields /\ l.old = None
  BY <1>1, FileShape, NoIpHere
<1>3. \/ \E w : Panic(w)
      \/ ~Full(s) /\ Step(p, m, Iunlock(c, s)) /\ disk' = disk /\ data' = data
  BY DEF GetDiskLbn
<1>4. CASE \E w : Panic(w)
  BY <1>4, PanicLinks DEF Panic
<1>5. CASE ~Full(s) /\ Step(p, m, Iunlock(c, s)) /\ disk' = disk /\ data' = data
  <2>0. Calm(m, proc[p].old)
    BY <1>2, CalmIdle
  <2> HIDE DEF m
  <2>1. GoesQuietly(p, m)
    BY <1>1, <1>5, <2>0, CalmGoes DEF Putting
  <2> HIDE DEF l, s
  <2>2. icache \in [Slots -> Inodes] /\ used \subseteq Blocks
    BY DEF IInv, DiskTypes
  <2>3. /\ c \in [Slots -> Inodes] /\ \A t \in Slots \ {s} : c[t] = icache[t]
        /\ c[s].inum = icache[s].inum /\ c[s].ref = icache[s].ref /\ c[s].valid = icache[s].valid
    BY <1>2, <1>5, <2>2, GrownFacts DEF Full
  <2> HIDE DEF c
  <2>4. \A t \in Slots : Same(c[t], icache'[t]) /\ icache'[t].ref = c[t].ref
    BY <1>2, <1>5, <2>3, UnlockFacts DEF Step
  <2>5. \A t \in Slots : icache'[t].ref = icache[t].ref /\ icache'[t].inum = icache[t].inum /\ (icache[t].valid => icache'[t].valid)
    BY <2>3, <2>4 DEF Same
  <2>6. SameFiles
    BY <1>5, PeekSameFiles
  <2> QED BY <2>1, <2>5, <2>6, CalmKept
<1> QED BY <1>3, <1>4, <1>5

LEMMA EnterLinks ==
  ASSUME IInv, IInv', LInv, NEW p \in Procs, Enter(p)
  PROVE  LInv'
<1>0. PICK call \in setup.calls[p] : \E k :
        LET l == [proc[p] EXCEPT !.call = call, !.left = k]
        IN WalkCall(p, call, l) \/ FileCall(p, call, l) \/ CloseCall(p, l)
  BY EnterCases
<1>1. PICK k :
        LET l == [proc[p] EXCEPT !.call = call, !.left = k]
        IN WalkCall(p, call, l) \/ FileCall(p, call, l) \/ CloseCall(p, l)
  BY <1>0
<1> DEFINE h == proc[p]
           l == [h EXCEPT !.call = call, !.left = k]
<1>2. h.pc = "idle"
  BY EnterCases
<1>3. /\ DOMAIN h = Fields /\ h.put = None /\ h.cwd \in Slots /\ h.dp = None /\ h.old = None
      /\ h.fd.ip \in Slots \cup {None} /\ (h.fd # NoFile => h.fd.ip \in Slots)
  BY <1>2, NoIpHere
<1>4. Alike(l, h, {"call", "left"}) /\ l.call = call
  BY <1>3 DEF Alike, Fields
<1>5. Place(h) = "idle"
  BY <1>2 DEF Place, Waits, Putting
<1>6. ASSUME NEW m, NEW s, Peek(p, m, icache), Calm(m, None) PROVE LInv'
  <2>1. GoesQuietly(p, m)
    BY <1>2, <1>3, <1>6, CalmGoes DEF Peek, Putting
  <2> QED BY <1>6, <2>1, PeekLinks
<1>6a. WalkCall(p, call, l) \/ FileCall(p, call, l) \/ CloseCall(p, l)
  BY <1>1
<1> HIDE DEF l
<1>7. CASE WalkCall(p, call, l)
  <2>1. PICK path, parent, then :
           /\ then \in FoundPoints \ {"open2", "linking"} /\ (then \in ParentPoints => parent)
           /\ then = "creating" => call.fn \in {"mkdir", "symlink"} \/ (call.fn = "open" /\ "CREATE" \in call.omode)
           /\ then = "chmod" => call.fn = "chmod"
           /\ StartWalk(p, [l EXCEPT !.parent = parent, !.then = then], path)
    BY <1>7 DEF WalkCall
  <2> DEFINE f == [l EXCEPT !.parent = parent, !.then = then]
  <2>2. Alike(f, h, {"call", "left", "parent", "then"}) /\ f.call = call /\ f.parent = parent /\ f.then = then
    BY <1>3, <1>4 DEF Alike, Fields
  <2>3. StartWalk(p, f, path)
    BY <2>1
  <2> HIDE DEF f, h
  <2>4. f.put = None /\ f.dp = None /\ f.cwd = h.cwd /\ f.fd = h.fd /\ f.old = None /\ DOMAIN f = Fields
    BY <1>3, <2>2 DEF Alike, Fields
  <2>5. Walks(f)
    BY <1>3, <2>1, <2>2, <2>4, CallsKnown DEF Walks, Creates
  <2>6. f.old = proc[p].old /\ f.cwd = proc[p].cwd /\ Place(proc[p]) \notin {"newinode", "unlinked", "linked"} /\ proc[p].pc # "put2"
    BY <1>2, <1>3, <1>5, <2>4 DEF h
  <2> QED BY <2>3, <2>5, <2>6, StartWalkLinks
<1>8. CASE FileCall(p, call, l)
  <2>1. PICK point \in FdPoints : Peek(p, Lock([l EXCEPT !.pc = point], h.fd.ip), icache)
    BY <1>8 DEF FileCall
  <2> DEFINE f == [l EXCEPT !.pc = point]
  <2>2. f.pc = point /\ f.old = None /\ DOMAIN f = Fields
    BY <1>3, <1>4 DEF Alike, Fields
  <2>3. Peek(p, Lock(f, h.fd.ip), icache)
    BY <2>1
  <2> HIDE DEF f, h
  <2>4. Calm(Lock(f, h.fd.ip), None)
    BY <2>2, CalmLock DEF FdPoints
  <2> QED BY <1>6, <2>3, <2>4
<1>9. CASE CloseCall(p, l)
  <2> DEFINE f == [l EXCEPT !.fd = NoFile]
  <2>1. Peek(p, Put(Idle(f), h.fd.ip), icache)
    BY <1>9 DEF CloseCall
  <2>2. DOMAIN f = Fields
    BY <1>4 DEF Alike
  <2> HIDE DEF f, h
  <2>3. Calm(Put(Idle(f), h.fd.ip), None)
    BY <2>2, CalmLeave
  <2> QED BY <1>6, <2>1, <2>3
<1> QED BY <1>6a, <1>7, <1>8, <1>9


-----------------------------------------------------------------------------
(* ilock() and iput().                                                     *)

\* A process that is where it was, with the inodes that it knows as they were.
LEMMA SameKnows ==
  ASSUME IInv, LInv, NEW p \in Procs, NEW m, Control(m), Place(m) = Place(proc[p]),
         \A f \in {"ip", "dp", "old", "name", "then"} : m[f] = proc[p][f],
         \A f \in {"dp", "old"} : \A i : m[f] \in Slots /\ Inum(m[f]) = i =>
            disk'[i].type = disk[i].type /\ data'[i] = data[i] /\ (InTree(disk', data', i) <=> InPlace(i)),
         \A s \in Slots : icache'[s].inum = icache[s].inum
  PROVE  Aim(m) = Aim(proc[p]) /\ Owed(m) = Owed(proc[p]) /\ KnowsLinks(m)'
<1> DEFINE l == proc[p]
<1>1. m.ip = l.ip /\ m.dp = l.dp /\ m.old = l.old /\ m.name = l.name /\ m.then = l.then
  OBVIOUS
<1>2. KnowsLinks(l)
  BY DEF LInv, Knowing
<1> HIDE DEF l
<1>3. Aim(m) = Aim(l) /\ Owed(m) = Owed(l)
  BY <1>1 DEF Aim, Owed, l
<1>4. /\ Place(m) \in {"newinode", "victim"} => m.dp \in Slots /\ m.ip \in Slots
      /\ Aim(m) \in OldPoints \cup {"linked"} => m.old \in Slots
  BY DEF Control, Shape, Pointed, IpPoints, FoundPoints, ParentPoints, None, OldPoints, CodePoints
<1>5. /\ Place(m) \in {"newinode", "victim"} => icache'[m.dp].inum = Inum(m.dp) /\ icache'[m.ip].inum = Inum(m.ip)
      /\ Aim(m) \in OldPoints \cup {"linked"} => icache'[m.old].inum = Inum(m.old)
  BY <1>4 DEF Inum
<1>6. Place(m) = Place(l)
  BY DEF l
<1>6a. /\ Place(m) \in {"newinode", "victim"} =>
            /\ disk'[Inum(m.dp)].type = disk[Inum(m.dp)].type /\ data'[Inum(m.dp)] = data[Inum(m.dp)]
            /\ InTree(disk', data', Inum(m.dp)) <=> InPlace(Inum(m.dp))
       /\ Aim(m) \in OldPoints \cup {"linked"} => disk'[Inum(m.old)].type = disk[Inum(m.old)].type
  BY <1>4
<1>7. Place(m) \in {"newinode", "victim"} =>
         /\ disk'[icache'[m.dp].inum].type = "DIR"
         /\ Place(m) = "newinode" => m.name \notin DOMAIN data'[icache'[m.dp].inum] /\ InTree(disk', data', icache'[m.dp].inum)
         /\ Place(m) = "victim" => /\ m.name \in DOMAIN data'[icache'[m.dp].inum] \ DotNames
                                   /\ data'[icache'[m.dp].inum][m.name] = icache'[m.ip].inum
  BY <1>1, <1>2, <1>5, <1>6, <1>6a DEF KnowsLinks, IsDir
<1>8. Aim(m) \in OldPoints \cup {"linked"} => disk'[icache'[m.old].inum].type \notin {"DIR", "free"}
  BY <1>1, <1>2, <1>3, <1>5, <1>6a DEF KnowsLinks
<1> QED BY <1>3, <1>7, <1>8 DEF KnowsLinks, IsDir, Inum, InPlace, l

LEMMA IlockLinks ==
  ASSUME IInv, IInv', LInv, NEW p \in Procs, Ilock(p)
  PROVE  LInv'
<1> DEFINE l == proc[p]
           s == l.want
           e == icache[s]
           d == disk[e.inum]
           n == IF e.valid THEN [e EXCEPT !.lock = p]
                ELSE [e EXCEPT !.valid = TRUE, !.lock = p, !.type = d.type, !.perm = d.perm,
                               !.nlink = d.nlink, !.addrs = d.addrs]
<1>0. PICK m : m = [l EXCEPT !.pc = l.locked, !.want = None]
  OBVIOUS
<1>1. l.pc = "lock"
  BY DEF Ilock, At
<1>2. (\E w : Panic(w)) \/ Peek(p, m, [icache EXCEPT ![s] = n])
  BY <1>0 DEF Ilock
<1>3. CASE \E w : Panic(w)
  BY <1>3, PanicLinks DEF Panic
<1>4. CASE Peek(p, m, [icache EXCEPT ![s] = n])
  <2>1. icache' = [icache EXCEPT ![s] = n] /\ disk' = disk /\ data' = data /\ proc' = [proc EXCEPT ![p] = m]
    BY <1>4 DEF Peek, Step
  <2>2. Control(l)
    BY DEF IInv, Controls
  <2>3. /\ l.locked \in LockPoints /\ l.locked # "install" /\ Place(l) = l.locked /\ l.want = Main(l)
        /\ Shape(m) /\ Place(m) = Place(l) /\ m.pc = l.locked /\ ~Waits(m) /\ Alike(m, l, {"pc", "want"})
        /\ \A t : N(m, t) = N(l, t)
        /\ \A t : Held(m, t) <=> Held(l, t) \/ t = l.want
    <3> DEFINE x == [l EXCEPT !.pc = l.locked, !.want = None]
    <3>1. /\ l.locked \in LockPoints /\ l.locked # "install" /\ Place(l) = l.locked /\ l.want = Main(l)
          /\ Shape(x) /\ Place(x) = Place(l) /\ x.pc = l.locked /\ ~Waits(x) /\ Alike(x, l, {"pc", "want"})
          /\ \A t : N(x, t) = N(l, t)
          /\ \A t : Held(x, t) <=> Held(l, t) \/ t = l.want
      BY <1>1, <2>2, LockedShape
    <3>2. x = m
      BY <1>0
    <3> HIDE DEF x
    <3> QED BY <3>1, <3>2
  <2>4. s \in Slots /\ icache[s].ref > 0
    BY <2>3, MainRef
  <2>5. \A f \in {"ip", "dp", "old", "name", "then", "put", "cwd", "fd"} : m[f] = l[f]
    BY <2>3 DEF Alike, Fields
  <2>6. m.pc # "put2" /\ l.pc # "put2"
    BY <1>1, <2>3 DEF LockPoints, IpPoints, FdPoints, FoundPoints, ParentPoints
  <2>7. icache \in [Slots -> Inodes] /\ e \in Inodes /\ DOMAIN proc = Procs
    BY <2>4 DEF IInv, DiskTypes
  <2>8. n.inum = e.inum /\ n.ref = e.ref /\ (e.valid => n.valid)
    <3> HIDE DEF e, d
    <3> QED BY <2>7 DEF Inodes
  <2> HIDE DEF n
  <2>9. \A t \in Slots : /\ icache'[t].inum = icache[t].inum /\ icache'[t].ref = icache[t].ref /\ icache[t].ref \in Nat
                         /\ icache[t].valid => icache'[t].valid
    BY <2>1, <2>4, <2>7, <2>8 DEF Inodes
  <2>10. Moved(p, m)
    BY <2>1, <2>7, <2>9 DEF Moved
  <2>11. Control(m)
    <3>1. proc'[p] = m
      BY <2>10, MovedOthers
    <3> QED BY <3>1 DEF IInv, Controls
  <2>12. Owed(m) = Owed(proc[p]) /\ KnowsLinks(m)'
    BY <2>1, <2>3, <2>5, <2>9, <2>11, SameKnows DEF InPlace
  <2>13. (Makes(p) <=> Place(m) = "newinode") /\ m.ip = l.ip /\ \A v \in Pointers : Ptr(m, v) = Ptr(l, v)
    BY <2>3, <2>5 DEF Makes, Ptr, Pointers
  <2>14. Quietly(p, m)
    BY <2>1, <2>6, <2>9, <2>10, <2>12, <2>13 DEF Quietly
  <2> QED BY <2>12, <2>14, QuietlyKept
<1> QED BY <1>2, <1>3, <1>4

\* A reference is dropped, which is not the last one to an inode without links.
LEMMA PutLinks ==
  ASSUME IInv, IInv', LInv, NEW p \in Procs, proc[p].pc = "put",
         ~(icache[proc[p].put].ref = 1 /\ icache[proc[p].put].valid /\ icache[proc[p].put].nlink = 0),
         Peek(p, [proc[p] EXCEPT !.pc = proc[p].after, !.put = None], [icache EXCEPT ![proc[p].put].ref = @ - 1])
  PROVE  LInv'
<1> DEFINE l == proc[p]
           s == l.put
<1>0. PICK m : m = [l EXCEPT !.pc = l.after, !.put = None]
  OBVIOUS
<1>1. icache' = [icache EXCEPT ![s].ref = @ - 1] /\ disk' = disk /\ data' = data /\ proc' = [proc EXCEPT ![p] = m]
  BY <1>0 DEF Peek, Step
<1>2. Control(l) /\ l.pc \in Putting /\ DOMAIN l = Fields
  BY DEF IInv, Controls, Control, Shape, Putting
<1>3. Alike(m, l, {"pc", "put"}) /\ m.pc = l.after /\ m.put = None
  BY <1>0, <1>2 DEF Alike, Fields
<1>4. icache \in [Slots -> Inodes] /\ DOMAIN proc = Procs
  BY DEF IInv, DiskTypes
<1>5. ~(icache[s].ref = 1 /\ icache[s].valid /\ icache[s].nlink = 0) /\ l.pc = "put"
  OBVIOUS
<1>6. /\ Control(m) /\ Place(m) = Place(l) /\ m.pc \notin Putting \cup {"install"} /\ m.ip = l.ip /\ m.call = l.call
      /\ l.put \in Slots
      /\ \A t \in Slots : /\ N(l, t) = N(m, t) + One(l.put = t)
                          /\ Held(l, t) <=> Held(m, t) \/ (l.pc = "put2" /\ t = l.put)
                          /\ l.pc = "put2" /\ t = l.put => ~Held(m, t)
  BY <1>2, <1>3, PutDone
<1>7. s \in Slots /\ Pointer(p, "put") = s /\ "put" \in Pointers
  BY <1>6 DEF Pointer, Pointers
<1>8. /\ ~Lonely(s) /\ ~Fresh(Inum(s)) /\ icache[s].ref > 0 /\ Inum(s) \in Inums
      /\ disk[Inum(s)].type # "free" /\ ~Freeing(s)
  BY <1>5, <1>7, SeenNotHidden
<1> HIDE DEF l, s
<1>9. \A t \in Slots : /\ icache'[t].inum = icache[t].inum /\ icache'[t].valid = icache[t].valid /\ icache[t].ref \in Nat
                       /\ icache'[t].ref = IF t = s THEN icache[t].ref - 1 ELSE icache[t].ref
  BY <1>1, <1>4, <1>7 DEF Inodes
<1>10. icache'[s].ref = 0 => disk[icache[s].inum].nlink # 0
  <2>1. SUFFICES ASSUME icache[s].ref = 1 PROVE disk[icache[s].inum].nlink # 0
    BY <1>7, <1>9
  <2>2. CASE icache[s].valid
    <3>1. Current(icache[s], disk[icache[s].inum])
      BY <1>7, <1>8, <2>2 DEF IInv, Currents
    <3> QED BY <1>5, <2>1, <2>2, <3>1 DEF Current
  <2>3. CASE ~icache[s].valid
    BY <1>7, <1>8, <2>3 DEF LInv, Live, Inum
  <2> QED BY <2>2, <2>3
<1>11. \A f \in {"ip", "dp", "old", "name", "then", "cwd", "fd"} : m[f] = l[f]
  BY <1>3 DEF Alike, Fields
<1>12. Owed(m) = Owed(proc[p]) /\ KnowsLinks(m)'
  BY <1>1, <1>6, <1>9, <1>11, SameKnows DEF l, InPlace
<1>13. (Makes(p) <=> Place(m) = "newinode") /\ m.ip = l.ip /\ \A v \in Pointers : Ptr(m, v) \in {Ptr(l, v), None}
  BY <1>3, <1>6, <1>11 DEF Makes, Ptr, Pointers, l
<1>14. Moved(p, m)
  BY <1>1, <1>4, <1>9 DEF Moved
<1>15. \A t \in Slots :
          /\ icache'[t].ref > icache[t].ref =>
                disk[icache'[t].inum].nlink # 0 \/ (~Makes(p) /\ \E v \in Pointers : Ptr(proc[p], v) = t)
          /\ icache[t].ref > 0 /\ icache'[t].ref > 0 /\ icache[t].valid => icache'[t].valid
          /\ icache[t].ref > 0 /\ icache'[t].ref = 0 => disk[icache[t].inum].nlink # 0
  <2> TAKE t \in Slots
  <2>1. CASE t = s
    BY <1>9, <1>10, <2>1
  <2>2. CASE t # s
    BY <1>9, <2>2
  <2> QED BY <2>1, <2>2
<1>16. Quietly(p, m)
  BY <1>1, <1>5, <1>6, <1>12, <1>13, <1>14, <1>15 DEF Quietly, Putting, l
<1> QED BY <1>12, <1>16, QuietlyKept


\* The last reference is the one that is dropped.
LEMMA OnlyPut ==
  ASSUME IInv, NEW p \in Procs, NEW s \in Slots, icache[s].ref = 1, proc[p].put = s
  PROVE  \A q \in Procs, v \in Pointers : Pointer(q, v) = s => q = p /\ v = "put"
<1> SUFFICES ASSUME NEW q \in Procs, NEW v \in Pointers, Pointer(q, v) = s PROVE q = p /\ v = "put"
  OBVIOUS
<1>1. IsFiniteSet(Holders(s)) /\ Cardinality(Holders(s)) = 1
  BY HoldersFinite DEF IInv, Refs
<1>2. <<p, "put">> \in Holders(s) /\ <<q, v>> \in Holders(s)
  BY DEF Holders, Pointer, Pointers
<1>3. PICK h : Holders(s) = {h}
  BY <1>1, FS_Singleton
<1>4. <<p, "put">> = <<q, v>>
  BY <1>2, <1>3
<1> QED BY <1>4

\* The last reference to an inode without links: it is free on the disk.
LEMMA FreeLinks ==
  ASSUME IInv, IInv', LInv, NEW p \in Procs, Iput(p),
         icache[proc[p].put].ref = 1, icache[proc[p].put].valid, icache[proc[p].put].nlink = 0
  PROVE  LInv'
<1>a. PICK l : l = proc[p]
  OBVIOUS
<1>b. PICK s : s = l.put
  OBVIOUS
<1>c. PICK c : c = [icache EXCEPT ![s].lock = p, ![s].type = "free", ![s].addrs = {}]
  OBVIOUS
<1>d. PICK m : m = [l EXCEPT !.pc = "put2"]
  OBVIOUS
<1>e. PICK i : i = icache[s].inum
  OBVIOUS
<1>f. icache[s].ref = 1 /\ icache[s].valid /\ icache[s].nlink = 0 /\ l.pc = "put"
  BY <1>a, <1>b DEF Iput, At
<1>g. (\E w : Panic(w)) \/ (Step(p, m, c) /\ disk' = Updated(c, {s}) /\ data' = [data EXCEPT ![i] = NoData])
  BY <1>a, <1>b, <1>c, <1>d, <1>e DEF Iput
<1>h. CASE \E w : Panic(w)
  BY <1>h, PanicLinks DEF Panic
<1>i. SUFFICES ASSUME Step(p, m, c), disk' = Updated(c, {s}), data' = [data EXCEPT ![i] = NoData] PROVE LInv'
  BY <1>g, <1>h
<1>1. icache' = c /\ proc' = [proc EXCEPT ![p] = m]
  BY <1>i DEF Step
<1>2. Control(l) /\ DOMAIN l = Fields
  BY <1>a DEF IInv, Controls, Control, Shape
<1>3. s \in Slots
  BY <1>2, <1>b, <1>f DEF Control, Shape, Pointed, Putting, None, Slots
<1>4. Alike(m, l, {"pc"}) /\ m.pc = "put2"
  BY <1>2, <1>d DEF Alike, Fields
<1>5. \A q \in Procs, v \in Pointers : Pointer(q, v) = s => q = p /\ v = "put"
  BY <1>3, <1>a, <1>b, <1>f, OnlyPut
<1>6. /\ Pointer(p, "put") = s /\ "put" \in Pointers /\ \A f \in {"ip", "dp", "old"} : f \in Pointers /\ \A q : Pointer(q, f) = proc[q][f]
      /\ \A v \in Pointers : Pointer(p, v) = Ptr(l, v)
  BY <1>a, <1>b DEF Pointer, Pointers, Ptr
<1>7. /\ ~Lonely(s) /\ ~Fresh(i) /\ i \in Inums /\ disk[i].type # "free" /\ ~Freeing(s)
      /\ \A q \in Procs : proc[q].pc = "put2" => Inum(proc[q].put) # i
  BY <1>3, <1>6, <1>a, <1>e, <1>f, SeenNotHidden DEF Inum
<1>8. icache \in [Slots -> Inodes] /\ DOMAIN proc = Procs /\ DOMAIN data = Inums /\ icache[s] \in Inodes
  BY <1>3 DEF IInv, DiskTypes
<1>9. \A t \in Slots : /\ icache'[t].inum = icache[t].inum /\ icache'[t].valid = icache[t].valid
                       /\ icache'[t].ref = icache[t].ref /\ icache[t].ref \in Nat
                       /\ t # s /\ icache[t].ref > 0 => Inum(t) # i
  <2>1. \A t \in Slots : /\ icache'[t].inum = icache[t].inum /\ icache'[t].valid = icache[t].valid
                         /\ icache'[t].ref = icache[t].ref /\ icache[t].ref \in Nat
    BY <1>1, <1>3, <1>8, <1>c DEF Inodes
  <2> QED BY <1>3, <1>e, <1>f, <2>1, OneSlot DEF Inum
<1>10. /\ \A j \in Inums \ {i} : disk'[j] = disk[j] /\ data'[j] = data[j]
       /\ disk'[i].type = "free" /\ disk'[i].nlink = 0 /\ data'[i] = NoData /\ disk[i].nlink = 0
  <2> DEFINE S == {s}
  <2>1. disk' = Updated(c, S)
    BY <1>i
  <2> HIDE DEF S
  <2>2. \A j \in Inums : disk'[j] = IF c[s].inum = j THEN Dinode(c[s]) ELSE disk[j]
    BY <2>1, UpdatedOne DEF S
  <2>3. c[s].inum = i /\ c[s].type = "free" /\ c[s].nlink = 0
    BY <1>3, <1>8, <1>c, <1>e, <1>f DEF Inodes
  <2>4. Current(icache[s], disk[i])
    BY <1>3, <1>7, <1>e, <1>f DEF IInv, Currents
  <2>5. \A j \in Inums : data'[j] = IF j = i THEN NoData ELSE data[j]
    BY <1>8, <1>i
  <2>6. disk[i].nlink = 0
    BY <1>f, <2>4 DEF Current
  <2> QED BY <1>7, <2>2, <2>3, <2>5, <2>6 DEF Dinode
<1>11. LinksTo(i) = {} /\ Owing(i) = {} /\ Names(i) = {} /\ ~InPlace(i) /\ i # Root
  <2>1. LinksTo(i) = {} /\ Owing(i) = {} /\ Names(i) = {} /\ ~InPlace(i)
    BY <1>7, <1>10, NoLinks
  <2> QED BY <2>1 DEF InPlace, InTree
<1>12. \A j : /\ NamesOf(disk', data', j) = NamesOf(disk, data, j) /\ (InTree(disk', data', j) <=> InTree(disk, data, j))
              /\ LinksOf(disk', data', j) = LinksOf(disk, data, j)
  <2>1. Bare(disk, data, i) /\ Bare(disk', data', i)
    BY <1>7, <1>10, <1>11 DEF Bare, LInv, Tree, IsDir
  <2>2. ~InTree(disk, data, i)
    BY <1>11 DEF InPlace
  <2>3. \A j \in Inums \ {i} : disk'[j].type = disk[j].type /\ (disk[j].type = "DIR" => data'[j] = data[j])
    BY <1>10
  <2> QED BY <2>1, <2>2, <2>3, SameLinks
<1>13. \A j : LinksTo(j)' = LinksTo(j) /\ (InPlace(j)' <=> InPlace(j)) /\ Names(j)' = Names(j)
  BY <1>12 DEF LinksTo, InPlace, Names
<1>14. Moved(p, m)
  BY <1>1, <1>8, <1>9 DEF Moved
<1>15. Place(m) = Place(l) /\ m.ip = l.ip /\ m.put = s /\ \A v \in Pointers : Ptr(m, v) = Ptr(l, v)
  BY <1>4, <1>b, <1>f DEF Alike, Fields, Place, Waits, Putting, Ptr, Pointers
<1>16. Control(m)
  <2>1. proc'[p] = m
    BY <1>14, MovedOthers
  <2> QED BY <2>1 DEF IInv, Controls
<1>17. (Makes(p) <=> Place(m) = "newinode") /\ m.ip = proc[p].ip
  BY <1>15, <1>a DEF Makes
<1>18. \A j : Fresh(j)' <=> Fresh(j)
  BY <1>14, <1>17, FreshKept
<1>19. Owed(m) = Owed(l) /\ KnowsLinks(m)'
  <2>1. \A f \in {"ip", "dp", "old", "name", "then"} : m[f] = proc[p][f]
    BY <1>4, <1>a DEF Alike, Fields
  <2>2. ASSUME NEW f \in {"dp", "old"}, NEW j, m[f] \in Slots, Inum(m[f]) = j
        PROVE  disk'[j].type = disk[j].type /\ data'[j] = data[j] /\ (InTree(disk', data', j) <=> InPlace(j))
    <3>1. PICK t \in Slots : t = m[f]
      BY <2>2
    <3>2. Pointer(p, f) = t /\ f \in Pointers /\ f # "put"
      BY <1>6, <2>1, <3>1
    <3>3. t # s /\ icache[t].ref > 0 /\ Inum(t) \in Inums
      BY <1>5, <3>2, PointersCount DEF Points, Inum
    <3> QED BY <1>9, <1>10, <1>12, <2>2, <3>1, <3>3 DEF InPlace
  <2> QED BY <1>9, <1>15, <1>16, <1>a, <2>1, <2>2, SameKnows
<1>20. Tree'
  BY <1>10, <1>11, <1>13, <1>18, RootHasLinks DEF LInv, Tree, IsDir
<1>21. Counted'
  <2>1. \A j : Owing(j)' = Owing(j)
    BY <1>14, <1>19, <1>a, OwingStep
  <2>2. \A j \in Inums : disk'[j].nlink = disk[j].nlink
    BY <1>10
  <2> QED BY <1>13, <2>1, <2>2 DEF LInv, Counted
<1>22. Discreet(p, m)
  <2> SUFFICES ASSUME NEW v \in Pointers, NEW t \in Slots, Ptr(m, v) = t, Lonely(t) PROVE Place(m) = "newinode" /\ v = "ip"
    BY DEF Discreet
  <2>1. Pointer(p, v) = t
    BY <1>6, <1>15
  <2> QED BY <1>17, <1>a, <1>f, <2>1 DEF Lonely
<1>23. \A q \in Procs, j \in Inums : Makes(q) /\ Inum(proc[q].ip) = j => j # i /\ disk'[j].nlink = 0 /\ data'[j] = NoData
  <2> TAKE q \in Procs, j \in Inums
  <2>1. Makes(q) /\ Inum(proc[q].ip) = j => j # i
    BY <1>7 DEF Fresh
  <2> QED BY <1>10, <2>1 DEF LInv, Alone
<1>24. Alone'
  <2>1. ASSUME NEW t \in Slots, NEW j \in Inums, Place(m) = "newinode", m.ip = t, icache'[t].inum = j
        PROVE  /\ disk'[j].nlink = 0 /\ data'[j] = NoData /\ Lonely(t)'
               /\ \A q \in Procs \ {p} : Makes(q) => proc[q].ip # t
    <3>1. Makes(p) /\ proc[p].ip = t /\ Inum(t) = j
      BY <1>9, <1>17, <2>1 DEF Inum
    <3>2. icache[t].ref > 0 /\ Lonely(t)
      BY <3>1, MakesFacts DEF LInv, Alone
    <3>3. Lonely(t)'
      BY <1>14, <1>22, <3>2, LonelyKept
    <3> QED BY <1>23, <3>1, <3>3 DEF LInv, Alone
  <2>2. ASSUME NEW q \in Procs \ {p}, NEW j \in Inums, proc[q].pc = "put2", Inum(proc[q].put) = j
        PROVE  disk'[j].type = "free" \/ Fresh(j)'
    <3>1. j # i
      BY <1>7, <2>2
    <3> QED BY <1>10, <1>18, <2>2, <3>1 DEF LInv, Alone
  <2>3. ASSUME NEW t \in Slots, NEW j \in Inums, m.pc = "put2", m.put = t, icache'[t].inum = j
        PROVE  Lonely(t)' /\ (disk'[j].type = "free" \/ Fresh(j)')
    <3>1. t = s /\ j = i
      BY <1>9, <1>15, <1>e, <2>3
    <3>2. proc'[p] = m /\ \A q \in Procs \ {p} : proc'[q] = proc[q]
      BY <1>14, MovedOthers
    <3>3. \A q \in Procs, v \in Pointers : Pointer(q, v)' = Pointer(q, v)
      <4> TAKE q \in Procs, v \in Pointers
      <4>1. CASE q = p
        BY <1>6, <1>15, <3>2, <4>1 DEF Pointer, Ptr
      <4>2. CASE q # p
        BY <3>2, <4>2 DEF Pointer
      <4> QED BY <4>1, <4>2
    <3>4. Lonely(s)'
      BY <1>4, <1>5, <3>2, <3>3 DEF Lonely
    <3> QED BY <1>10, <3>1, <3>4 DEF Lonely
  <2> QED BY <1>14, <1>22, <1>23, <2>1, <2>2, <2>3, AloneKept
<1>25. Knowing'
  <2>1. ASSUME NEW q \in Procs \ {p}, NEW f \in {"dp", "old"}, proc[q][f] \in Slots
        PROVE  Inum(proc[q][f]) # i /\ Inum(proc[q][f]) \in Inums
    <3>1. PICK t \in Slots : t = proc[q][f]
      BY <2>1
    <3>2. Pointer(q, f) = t /\ f \in Pointers
      BY <1>6, <3>1
    <3>3. t # s /\ icache[t].ref > 0 /\ Inum(t) \in Inums
      BY <1>5, <3>2, PointersCount DEF Points, Inum
    <3> QED BY <1>9, <3>1, <3>3
  <2>2. ASSUME NEW q \in Procs \ {p}, NEW j \in Inums, Aim(proc[q]) \in OldPoints \cup {"linked"}, Inum(proc[q].old) = j
        PROVE  disk'[j].type = disk[j].type
    <3>1. proc[q].old \in Slots
      BY <2>2 DEF IInv, Controls, Control, Shape, Pointed, OldPoints
    <3> QED BY <1>10, <2>1, <2>2, <3>1
  <2>3. ASSUME NEW q \in Procs \ {p}, NEW j \in Inums, Place(proc[q]) \in {"newinode", "victim"}, Inum(proc[q].dp) = j
        PROVE  disk'[j].type = disk[j].type /\ data'[j] = data[j] /\ (Place(proc[q]) = "newinode" => InPlace(j)')
    <3>1. proc[q].dp \in Slots
      BY <2>3 DEF IInv, Controls, Control, Shape, Pointed
    <3>2. disk'[j].type = disk[j].type /\ data'[j] = data[j]
      BY <1>10, <2>1, <2>3, <3>1
    <3> QED BY <1>13, <2>3, <3>2 DEF LInv, Knowing, KnowsLinks
  <2> QED BY <1>14, <1>19, <2>2, <2>3, KnowingKept
<1>26. Live'
  <2>0. proc'[p] = m /\ \A q \in Procs \ {p} : proc'[q] = proc[q]
    BY <1>14, MovedOthers
  <2>1. \A t \in Slots : (Freeing(t) => Freeing(t)') /\ Freeing(s)'
    BY <1>4, <1>15, <1>a, <1>f, <2>0 DEF Freeing
  <2>2. ASSUME NEW t \in Slots, icache'[t].ref > 0
        PROVE  /\ disk'[icache'[t].inum].type # "free" \/ Freeing(t)'
               /\ ~icache'[t].valid => disk'[icache'[t].inum].nlink # 0 \/ Fresh(Inum(t))'
    <3>0. icache[t].ref > 0 /\ Inum(t) \in Inums /\ icache'[t].inum = Inum(t) /\ icache'[t].valid = icache[t].valid
      BY <1>9, <2>2 DEF IInv, Cached, Inum
    <3>1. CASE t = s
      BY <1>f, <2>1, <3>0, <3>1
    <3>2. CASE t # s
      <4>1. disk'[Inum(t)] = disk[Inum(t)]
        BY <1>9, <1>10, <3>0, <3>2
      <4>2. PICK j : j = Inum(t)
        OBVIOUS
      <4>3. Fresh(j) => Fresh(Inum(t))'
        BY <1>18, <3>0, <4>2 DEF Fresh, Inum
      <4> QED BY <2>1, <3>0, <4>1, <4>2, <4>3 DEF LInv, Live
    <3> QED BY <3>1, <3>2
  <2>3. \A j \in Inums : disk'[j].type = "free" => disk'[j].nlink = 0
    BY <1>10 DEF LInv, Live
  <2>4. ASSUME NEW j \in Inums, disk'[j].type # "free", disk'[j].nlink = 0
        PROVE  \E t \in Slots : icache'[t].ref > 0 /\ icache'[t].inum = j
    <3>1. disk[j].type # "free" /\ disk[j].nlink = 0
      BY <1>10, <2>4
    <3>2. PICK t \in Slots : icache[t].ref > 0 /\ Inum(t) = j
      BY <3>1 DEF LInv, Live
    <3> QED BY <1>9, <3>2 DEF Inum
  <2> QED BY <2>2, <2>3, <2>4 DEF Live, Inum
<1> QED BY <1>20, <1>21, <1>24, <1>25, <1>26 DEF LInv

LEMMA IputLinks ==
  ASSUME IInv, IInv', LInv, NEW p \in Procs, Iput(p)
  PROVE  LInv'
<1> DEFINE e == icache[proc[p].put]
<1>1. CASE e.ref = 1 /\ e.valid /\ e.nlink = 0
  BY <1>1, FreeLinks
<1>2. CASE ~(e.ref = 1 /\ e.valid /\ e.nlink = 0)
  <2>1. proc[p].pc = "put"
    BY DEF Iput, At
  <2>2. Peek(p, [proc[p] EXCEPT !.pc = proc[p].after, !.put = None], [icache EXCEPT ![proc[p].put].ref = @ - 1])
    BY <1>2 DEF Iput
  <2> QED BY <1>2, <2>1, <2>2, PutLinks
<1> QED BY <1>1, <1>2

\* The entry of the inode that has been freed is given up; it may have been allocated again.
LEMMA Iput2Links ==
  ASSUME IInv, IInv', LInv, NEW p \in Procs, Iput2(p)
  PROVE  LInv'
<1>a. PICK l : l = proc[p]
  OBVIOUS
<1>b. PICK s : s = l.put
  OBVIOUS
<1>c. PICK m : m = [l EXCEPT !.pc = l.after, !.put = None]
  OBVIOUS
<1>d. l.pc = "put2" /\ Peek(p, m, [icache EXCEPT ![s].valid = FALSE, ![s].lock = None, ![s].ref = @ - 1])
  BY <1>a, <1>b, <1>c DEF Iput2, At
<1>1. /\ icache' = [icache EXCEPT ![s].valid = FALSE, ![s].lock = None, ![s].ref = @ - 1]
      /\ disk' = disk /\ data' = data /\ proc' = [proc EXCEPT ![p] = m]
  BY <1>d DEF Peek, Step
<1>2. Control(l) /\ l.pc \in Putting /\ DOMAIN l = Fields
  BY <1>a, <1>d DEF IInv, Controls, Control, Shape, Putting
<1>3. Alike(m, l, {"pc", "put"}) /\ m.pc = l.after /\ m.put = None
  BY <1>2, <1>c DEF Alike, Fields
<1>4. /\ Control(m) /\ Place(m) = Place(l) /\ m.pc \notin Putting \cup {"install"} /\ m.ip = l.ip /\ m.call = l.call
      /\ l.put \in Slots
      /\ \A t \in Slots : /\ N(l, t) = N(m, t) + One(l.put = t)
                          /\ Held(l, t) <=> Held(m, t) \/ (l.pc = "put2" /\ t = l.put)
                          /\ l.pc = "put2" /\ t = l.put => ~Held(m, t)
  BY <1>2, <1>3, PutDone
<1>5. s \in Slots /\ Pointer(p, "put") = s /\ "put" \in Pointers /\ Held(l, s)
  BY <1>4, <1>a, <1>b, <1>d DEF Pointer, Pointers
<1>6. icache[s].ref > 0 /\ Inum(s) \in Inums
  BY <1>5, PointersCount DEF Points, Inum
<1>7. icache \in [Slots -> Inodes] /\ DOMAIN proc = Procs
  BY DEF IInv, DiskTypes
<1>8. \A t \in Slots : /\ icache'[t].inum = icache[t].inum /\ icache[t].ref \in Nat
                       /\ icache'[t].ref = (IF t = s THEN icache[t].ref - 1 ELSE icache[t].ref)
                       /\ icache'[t].valid = (IF t = s THEN FALSE ELSE icache[t].valid)
  BY <1>1, <1>5, <1>7 DEF Inodes
<1>9. Moved(p, m)
  BY <1>1, <1>7, <1>8 DEF Moved
<1>10. proc'[p] = m /\ \A q \in Procs \ {p} : proc'[q] = proc[q]
  BY <1>9, MovedOthers
<1>11. (Makes(p) <=> Place(m) = "newinode") /\ m.ip = proc[p].ip
  BY <1>4, <1>a DEF Makes
<1>12. \A j : Fresh(j)' <=> Fresh(j)
  BY <1>9, <1>11, FreshKept
<1>13. Tree' /\ \A j : LinksTo(j)' = LinksTo(j) /\ (InPlace(j)' <=> InPlace(j))
  BY <1>1, <1>12, TreeKept
<1>14. \A f \in {"ip", "dp", "old", "name", "then", "cwd", "fd"} : m[f] = proc[p][f]
  BY <1>3, <1>a DEF Alike, Fields
<1>15. Owed(m) = Owed(proc[p]) /\ KnowsLinks(m)'
  BY ZenonT(30), <1>1, <1>4, <1>8, <1>14, <1>a, SameKnows DEF InPlace
<1>16. Counted'
  <2>1. \A j : Owing(j)' = Owing(j)
    BY <1>9, <1>15, OwingStep
  <2> QED BY <1>1, <1>13, <2>1 DEF LInv, Counted
<1>17. \A v \in Pointers : Ptr(m, v) = IF v = "put" THEN None ELSE Ptr(proc[p], v)
  BY <1>3, <1>14 DEF Ptr, Pointers
<1>18. Discreet(p, m)
  <2> SUFFICES ASSUME NEW v \in Pointers, NEW t \in Slots, Ptr(m, v) = t, Lonely(t) PROVE Place(m) = "newinode" /\ v = "ip"
    BY DEF Discreet
  <2>1. v # "put" /\ Pointer(p, v) = t
    BY <1>17 DEF Pointer, Ptr, Slots, None
  <2> QED BY <1>11, <2>1 DEF Lonely
<1>19. \A q \in Procs, j \in Inums : Makes(q) /\ Inum(proc[q].ip) = j => disk'[j].nlink = 0 /\ data'[j] = NoData
  BY <1>1 DEF LInv, Alone
<1>20. Alone'
  <2>1. ASSUME NEW t \in Slots, NEW j \in Inums, Place(m) = "newinode", m.ip = t, icache'[t].inum = j
        PROVE  /\ disk'[j].nlink = 0 /\ data'[j] = NoData /\ Lonely(t)'
               /\ \A q \in Procs \ {p} : Makes(q) => proc[q].ip # t
    <3>1. Makes(p) /\ proc[p].ip = t /\ Inum(t) = j
      BY <1>8, <1>11, <2>1 DEF Inum
    <3>2. icache[t].ref > 0 /\ Lonely(t)
      BY <3>1, MakesFacts DEF LInv, Alone
    <3>3. Lonely(t)'
      BY <1>9, <1>18, <3>2, LonelyKept
    <3> QED BY <1>19, <3>1, <3>3 DEF LInv, Alone
  <2>2. ASSUME NEW q \in Procs \ {p}, NEW j \in Inums, proc[q].pc = "put2", Inum(proc[q].put) = j
        PROVE  disk'[j].type = "free" \/ Fresh(j)'
    <3>1. disk[j].type = "free" \/ Fresh(j)
      BY <2>2 DEF LInv, Alone
    <3> QED BY <1>1, <1>12, <3>1
  <2>3. m.pc # "put2"
    BY <1>4 DEF Putting
  <2> QED BY <1>9, <1>18, <1>19, <2>1, <2>2, <2>3, AloneKept
<1>21. Knowing'
  <2>1. \A q \in Procs \ {p}, j \in Inums : Place(proc[q]) \in {"newinode", "victim"} /\ Inum(proc[q].dp) = j =>
           disk'[j].type = disk[j].type /\ data'[j] = data[j] /\ (Place(proc[q]) = "newinode" => InPlace(j)')
    BY <1>1, <1>13 DEF LInv, Knowing, KnowsLinks
  <2> QED BY <1>1, <1>9, <1>15, <2>1, KnowingKept
<1>22. icache'[s].ref > 0 => disk[Inum(s)].type # "free" /\ Fresh(Inum(s))
  <2> SUFFICES ASSUME icache'[s].ref > 0 PROVE disk[Inum(s)].type # "free" /\ Fresh(Inum(s))
    OBVIOUS
  <2>1. Pointees'
    BY PointersCount, PTL
  <2>2. PICK q \in Procs, v \in Pointers : Pointer(q, v)' = s
    BY <1>5, <2>1 DEF Pointees
  <2>3. Lonely(s)'
    <3>1. Lonely(s)
      BY <1>a, <1>b, <1>d DEF LInv, Alone
    <3> QED BY <1>5, <1>6, <1>9, <1>18, <3>1, LonelyKept
  <2>4. (Makes(q)' /\ v = "ip") \/ (proc'[q].pc = "put2" /\ v = "put")
    BY <2>2, <2>3 DEF Lonely
  <2>5. CASE proc'[q].pc = "put2" /\ v = "put"
    <3>1. q # p /\ proc[q].pc = "put2" /\ proc[q].put = s
      BY <1>4, <1>10, <2>2, <2>5 DEF Pointer, Putting
    <3>2. Held(proc[q], s) /\ Held(proc[p], s)
      BY <1>5, <3>1, <1>a DEF Held
    <3>3. q = p
      BY <1>5, <3>2 DEF IInv, Locks
    <3> QED BY <3>1, <3>3
  <2>6. CASE Makes(q)' /\ v = "ip"
    <3>1. Makes(q) /\ proc[q].ip = s
      BY <1>10, <1>11, <2>2, <2>6 DEF Makes, Pointer
    <3>2. TypeAt(s) # "free"
      BY <3>1, MakesFacts
    <3> QED BY <3>1, <3>2 DEF Fresh, TypeAt, Inum
  <2> QED BY <2>4, <2>5, <2>6
<1>23. Live'
  <2>1. \A t \in Slots \ {s} : Freeing(t) => Freeing(t)'
    BY <1>10, <1>a, <1>b DEF Freeing
  <2>2. ASSUME NEW t \in Slots, icache'[t].ref > 0
        PROVE  /\ disk'[icache'[t].inum].type # "free" \/ Freeing(t)'
               /\ ~icache'[t].valid => disk'[icache'[t].inum].nlink # 0 \/ Fresh(Inum(t))'
    <3>0. icache[t].ref > 0
      BY <1>6, <1>8, <2>2
    <3>1. icache[t].ref > 0 /\ icache'[t].inum = Inum(t) /\ Inum(t)' = Inum(t)
      BY <1>8, <3>0 DEF Inum
    <3>2. PICK j : j = Inum(t)
      OBVIOUS
    <3>3. Fresh(j) => Fresh(Inum(t))'
      BY <1>12, <3>1, <3>2 DEF Fresh, Inum
    <3>4. CASE t = s
      BY <1>1, <1>22, <2>2, <3>1, <3>2, <3>3, <3>4
    <3>5. CASE t # s
      <4>1. /\ disk[j].type # "free" \/ Freeing(t)
            /\ ~icache[t].valid => disk[j].nlink # 0 \/ Fresh(j)
        BY <3>1, <3>2 DEF LInv, Live
      <4> QED BY <1>1, <1>8, <2>1, <3>1, <3>2, <3>3, <3>5, <4>1
    <3> QED BY <3>4, <3>5
  <2>3. \A j \in Inums : disk'[j].type = "free" => disk'[j].nlink = 0
    BY <1>1 DEF LInv, Live
  <2>4. ASSUME NEW j \in Inums, disk'[j].type # "free", disk'[j].nlink = 0
        PROVE  \E t \in Slots : icache'[t].ref > 0 /\ icache'[t].inum = j
    <3>1. PICK t \in Slots : icache[t].ref > 0 /\ Inum(t) = j
      BY <1>1, <2>4 DEF LInv, Live
    <3>2. CASE t # s
      BY <1>8, <3>1, <3>2 DEF Inum
    <3>3. CASE t = s
      <4>1. disk[Inum(s)].type = "free" \/ Fresh(Inum(s))
        BY <1>a, <1>b, <1>d DEF LInv, Alone
      <4>2. PICK q \in Procs : Makes(q) /\ Inum(proc[q].ip) = j
        BY <1>1, <2>4, <3>1, <3>3, <4>1 DEF Fresh
      <4>3. proc[q].ip = s
        BY <1>5, <1>6, <3>1, <3>3, <4>2, MakesFacts, OneSlot
      <4>4. Pointer(q, "ip")' = s /\ "ip" \in Pointers
        BY <1>10, <1>11, <4>3 DEF Pointer, Pointers
      <4>5. icache'[s].ref > 0
        <5>1. Points'
          BY PointersCount, PTL
        <5> QED BY <1>5, <4>4, <5>1 DEF Points
      <4> QED BY <1>8, <3>1, <3>3, <4>5 DEF Inum
    <3> QED BY <3>2, <3>3
  <2> QED BY <2>2, <2>3, <2>4 DEF Live, Inum
<1> QED BY <1>13, <1>16, <1>20, <1>21, <1>23 DEF LInv


-----------------------------------------------------------------------------
(* Steps that change an entry or nlink.                                    *)

\* When the counts stay, a process points to nothing new.
LEMMA SamePointers ==
  ASSUME IInv, IInv', NEW p \in Procs, NEW m, Moved(p, m), \A t \in Slots : icache'[t].ref = icache[t].ref
  PROVE  \A v \in Pointers, t \in Slots : Ptr(m, v) = t => \E w \in Pointers : Ptr(proc[p], w) = t
<1> SUFFICES ASSUME NEW v \in Pointers, NEW t \in Slots, Ptr(m, v) = t PROVE \E w \in Pointers : Ptr(proc[p], w) = t
  OBVIOUS
<1>1. N(m, t) \in Nat /\ N(proc[p], t) \in Nat /\ N(m, t) # 0
  BY CountPointers
<1>2. N(proc[p], t) = N(m, t)
  BY <1>1, RefsBy
<1> QED BY <1>1, <1>2, CountPointers

\* nlink++ and nlink--, by a process that takes on what it owes, or has paid it.
LEMMA RelinkLinks ==
  ASSUME IInv, IInv', LInv, NEW p \in Procs, NEW s \in Slots, NEW delta \in Int, NEW m, Relink(p, s, delta, m),
         Held(proc[p], s), ~Makes(p), proc[p].pc # "put2", Place(m) # "newinode", m.pc # "put2",
         \E w \in Pointers : Ptr(proc[p], w) = s,
         \/ delta = 1 /\ Owed(proc[p]) = None /\ Owed(m) = s
         \/ delta = -1 /\ Owed(proc[p]) = s /\ Owed(m) = None,
         Moved(p, m) /\ (\A j \in Inums : disk'[j].type = disk[j].type) => KnowsLinks(m)'
  PROVE  LInv'
<1>a. PICK i : i = Inum(s)
  OBVIOUS
<1>1. EditsOne(p, m, s)
  BY RelinkEdits
<1>2. icache[s].ref > 0 /\ i \in Inums /\ icache[s].type # "free" /\ Current(icache[s], disk[i]) /\ icache[s].valid
  BY HeldCurrent, <1>a DEF IInv, Valids, Inum
<1>3. icache \in [Slots -> Inodes] /\ DOMAIN proc = Procs /\ icache[s] \in Inodes
  BY DEF IInv, DiskTypes
<1>4. icache'[s].nlink = icache[s].nlink + delta /\ data' = data
  <2> DEFINE c == [icache EXCEPT ![s].nlink = @ + delta]
  <2>1. icache' = Iunlock(c, s) /\ data' = data
    BY DEF Relink, Step
  <2>2. c \in [Slots -> Inodes] /\ c[s].nlink = icache[s].nlink + delta
    BY <1>3 DEF Inodes
  <2> HIDE DEF c
  <2>3. Same(c[s], icache'[s])
    BY <2>1, <2>2, UnlockFacts
  <2> QED BY <2>1, <2>2, <2>3 DEF Same
<1>5. disk'[i].nlink = disk[i].nlink + delta /\ disk'[i].type = disk[i].type /\ disk[i].type # "free"
  BY <1>1, <1>2, <1>4, <1>a DEF EditsOne, Current, Inum
<1>6. \A j \in Inums \ {i} : disk'[j] = disk[j]
  BY <1>1, <1>a DEF EditsOne, Inum
<1>7. \A t \in Slots : /\ icache'[t].ref = icache[t].ref /\ icache'[t].inum = icache[t].inum
                       /\ icache'[t].valid = icache[t].valid
  BY <1>1 DEF EditsOne
<1>8. Moved(p, m)
  BY <1>1, <1>3, <1>7 DEF Moved, EditsOne
<1>8a. \A v \in Pointers, t \in Slots : Ptr(m, v) = t => \E w \in Pointers : Ptr(proc[p], w) = t
  BY <1>7, <1>8, SamePointers
<1>9. proc'[p] = m /\ \A q \in Procs \ {p} : proc'[q] = proc[q]
  BY <1>8, MovedOthers
<1>10. \A j : Fresh(j)' <=> Fresh(j)
  BY <1>8, FreshKept
<1>11. Tree' /\ \A j : LinksTo(j)' = LinksTo(j) /\ (InPlace(j)' <=> InPlace(j))
  <2>1. \A j \in Inums : disk'[j].type = disk[j].type /\ (disk[j].type = "DIR" => data'[j] = data[j])
    BY <1>4, <1>5, <1>6
  <2> QED BY <1>10, <2>1, TreeKept
<1>12. ~Fresh(i)
  <2>1. PICK w \in Pointers : Pointer(p, w) = s
    BY DEF Pointer, Ptr
  <2> QED BY <1>a, <2>1, SeenNotHidden
<1>13. Counted'
  <2> SUFFICES ASSUME NEW j \in Inums
               PROVE  /\ IsFiniteSet(LinksTo(j)')
                      /\ disk'[j].nlink = Cardinality(LinksTo(j)') + Cardinality(Owing(j)')
    BY DEF Counted
  <2>1. /\ IsFiniteSet(LinksTo(j)) /\ Cardinality(LinksTo(j)) \in Nat
        /\ disk[j].nlink = Cardinality(LinksTo(j)) + Cardinality(Owing(j)) /\ Cardinality(Owing(j)) \in Nat
    BY FS_CardinalityType, OwingFinite DEF LInv, Counted
  <2>2. LinksTo(j)' = LinksTo(j)
    BY <1>11
  <2>3. disk'[j].nlink = disk[j].nlink + (IF i = j THEN delta ELSE 0)
    BY <1>5, <1>6, <2>1
  <2>4. s # None /\ icache'[s].inum = i
    BY <1>7, <1>a DEF None, Slots, Inum
  <2>5. Cardinality(Owing(j)') = Cardinality(Owing(j)) + (IF i = j THEN delta ELSE 0)
    <3>1. CASE delta = 1 /\ Owed(proc[p]) = None /\ Owed(m) = s
      <4>1. Cardinality(Owing(j)') = Cardinality(Owing(j)) + (IF Owed(m) # None /\ icache'[Owed(m)].inum = j THEN 1 ELSE 0)
        BY <1>8, <3>1, OwingStep
      <4> QED BY <2>4, <3>1, <4>1
    <3>2. CASE delta = -1 /\ Owed(proc[p]) = s /\ Owed(m) = None
      <4>1. Cardinality(Owing(j)') = Cardinality(Owing(j)) - (IF p \in Owing(j) THEN 1 ELSE 0)
        BY <1>8, <3>2, OwingStep
      <4>2. p \in Owing(j) <=> i = j
        BY <1>a, <2>4, <3>2 DEF Owing
      <4> QED BY <2>1, <3>2, <4>1, <4>2
    <3> QED BY <3>1, <3>2
  <2> QED BY <2>1, <2>2, <2>3, <2>5
<1>14. Discreet(p, m)
  <2> SUFFICES ASSUME NEW v \in Pointers, NEW t \in Slots, Ptr(m, v) = t, Lonely(t) PROVE FALSE
    BY DEF Discreet
  <2>1. PICK w \in Pointers : Pointer(p, w) = t
    BY <1>8a DEF Pointer, Ptr
  <2> QED BY <2>1 DEF Lonely
<1>15. Alone'
  <2>1. ASSUME NEW q \in Procs \ {p}, NEW j \in Inums, Makes(q), Inum(proc[q].ip) = j
        PROVE  disk'[j].nlink = 0 /\ data'[j] = NoData
    <3>1. j # i
      BY <1>12, <2>1 DEF Fresh
    <3> QED BY <1>4, <1>6, <2>1, <3>1 DEF LInv, Alone
  <2>2. ASSUME NEW q \in Procs \ {p}, NEW j \in Inums, proc[q].pc = "put2", Inum(proc[q].put) = j
        PROVE  disk'[j].type = "free" \/ Fresh(j)'
    <3>1. disk[j].type = "free" \/ Fresh(j)
      BY <2>2 DEF LInv, Alone
    <3> QED BY <1>5, <1>6, <1>10, <3>1
  <2> QED BY <1>8, <1>14, <2>1, <2>2, AloneKept
<1>16. Knowing'
  <2>1. \A j \in Inums : disk'[j].type = disk[j].type
    BY <1>5, <1>6
  <2>3. KnowsLinks(m)'
    BY <1>8, <2>1
  <2>2. \A q \in Procs \ {p}, j \in Inums : Place(proc[q]) \in {"newinode", "victim"} /\ Inum(proc[q].dp) = j =>
           disk'[j].type = disk[j].type /\ data'[j] = data[j] /\ (Place(proc[q]) = "newinode" => InPlace(j)')
    BY <1>4, <1>11, <2>1 DEF LInv, Knowing, KnowsLinks
  <2> QED BY <1>8, <2>1, <2>2, <2>3, KnowingKept
<1>17. Live'
  <2>1. \A t \in Slots : Freeing(t) => Freeing(t)'
    BY <1>9 DEF Freeing
  <2>2. \A j \in Inums : /\ disk'[j].type = disk[j].type
                         /\ \/ disk'[j].nlink = disk[j].nlink /\ (Fresh(j) => Fresh(j)')
                            \/ \E t \in Slots : icache[t].ref > 0 /\ icache[t].valid /\ Inum(t) = j /\ disk[j].type # "free"
    BY <1>2, <1>5, <1>6, <1>10, <1>a
  <2> QED BY <1>7, <2>1, <2>2, LiveKept
<1> QED BY <1>11, <1>13, <1>15, <1>16, <1>17 DEF LInv

LEMMA UnlinkedLinks ==
  ASSUME IInv, IInv', LInv, NEW p \in Procs, Unlinked(p)
  PROVE  LInv'
<1> DEFINE l == proc[p]
<1>0. PICK m : m = Put(Idle(l), l.ip)
  OBVIOUS
<1>1. l.pc = "unlinked" /\ l.pc \in Ordinary /\ Relink(p, l.ip, -1, m)
  BY <1>0 DEF Unlinked, At, Ordinary, IpPoints
<1>2. DOMAIN l = Fields /\ l.ip \in Slots /\ Place(l) = "unlinked" /\ Held(proc[p], l.ip) /\ proc[p].pc # "put2"
  BY <1>1, OrdinaryHere
<1>3. Calm(m, None)
  BY <1>0, <1>2, CalmLeave
<1>4. proc' = [proc EXCEPT ![p] = m] /\ DOMAIN proc = Procs
  BY <1>1 DEF Relink, Step, IInv, DiskTypes
<1>5. Control(m)
  <2>1. proc'[p] = m
    BY <1>4
  <2> QED BY <2>1 DEF IInv, Controls
<1>6. Owed(l) = l.ip /\ Owed(m) = None
  BY <1>2, <1>3, <1>5, OwedOld DEF Owed, Calm
<1>7. ~Makes(p) /\ Place(m) # "newinode" /\ m.pc # "put2" /\ Ptr(proc[p], "ip") = l.ip /\ "ip" \in Pointers
  BY <1>2, <1>3 DEF Makes, Calm, Ptr, Pointers
<1>8. ASSUME Moved(p, m), \A j \in Inums : disk'[j].type = disk[j].type PROVE KnowsLinks(m)'
  <2>1. Place(m) \notin {"newinode", "victim"} /\ m.old \in {proc[p].old, None}
    BY <1>3 DEF Calm
  <2> QED BY <1>8, <2>1, KnowsKept
<1>9. PICK s \in Slots : s = l.ip
  BY <1>2
<1>10. PICK delta \in Int : delta = -1
  OBVIOUS
<1>11. Relink(p, s, delta, m) /\ Held(proc[p], s)
  BY <1>1, <1>2, <1>9, <1>10
<1>12. \E w \in Pointers : Ptr(proc[p], w) = s
  BY <1>7, <1>9
<1>13. delta = -1 /\ Owed(proc[p]) = s /\ Owed(m) = None
  BY <1>6, <1>9, <1>10
<1> HIDE DEF l
<1> QED BY <1>2, <1>7, <1>8, <1>11, <1>12, <1>13, RelinkLinks

LEMMA LinkBadLinks ==
  ASSUME IInv, IInv', LInv, NEW p \in Procs, LinkBad(p)
  PROVE  LInv'
<1> DEFINE l == proc[p]
<1>0. PICK m : m = Put(Idle(l), l.old)
  OBVIOUS
<1>1. l.pc = "linkbad" /\ Relink(p, l.old, -1, m)
  BY <1>0 DEF LinkBad, At
<1>2. DOMAIN l = Fields /\ l.old \in Slots /\ Place(l) = "linkbad" /\ Held(proc[p], l.old) /\ proc[p].pc # "put2"
  BY <1>1, NoIpHere
<1>3. Calm(m, None)
  BY <1>0, <1>2, CalmLeave
<1>4. proc' = [proc EXCEPT ![p] = m] /\ DOMAIN proc = Procs
  BY <1>1 DEF Relink, Step, IInv, DiskTypes
<1>5. Control(m)
  <2>1. proc'[p] = m
    BY <1>4
  <2> QED BY <2>1 DEF IInv, Controls
<1>6. Owed(l) = l.old /\ Owed(m) = None
  BY <1>2, <1>3, <1>5, OwedOld DEF Owed, Calm, Aim, WalkPoints, OldPoints
<1>7. ~Makes(p) /\ Place(m) # "newinode" /\ m.pc # "put2" /\ Ptr(proc[p], "old") = l.old /\ "old" \in Pointers
  BY <1>2, <1>3 DEF Makes, Calm, Ptr, Pointers
<1>8. ASSUME Moved(p, m), \A j \in Inums : disk'[j].type = disk[j].type PROVE KnowsLinks(m)'
  <2>1. Place(m) \notin {"newinode", "victim"} /\ m.old \in {proc[p].old, None}
    BY <1>3 DEF Calm
  <2> QED BY <1>8, <2>1, KnowsKept
<1>9. PICK s \in Slots : s = l.old
  BY <1>2
<1>10. PICK delta \in Int : delta = -1
  OBVIOUS
<1>11. Relink(p, s, delta, m) /\ Held(proc[p], s)
  BY <1>1, <1>2, <1>9, <1>10
<1>12. \E w \in Pointers : Ptr(proc[p], w) = s
  BY <1>7, <1>9
<1>13. delta = -1 /\ Owed(proc[p]) = s /\ Owed(m) = None
  BY <1>6, <1>9, <1>10
<1> HIDE DEF l
<1> QED BY <1>2, <1>7, <1>8, <1>11, <1>12, <1>13, RelinkLinks

LEMMA LinkOldLinks ==
  ASSUME IInv, IInv', LInv, NEW p \in Procs, LinkOld(p)
  PROVE  LInv'
<1> DEFINE l == proc[p]
<1>0. PICK m : m = [l EXCEPT !.pc = "follow", !.target = l.call.new, !.old = l.ip, !.ip = None,
                             !.parent = TRUE, !.then = "linking"]
  OBVIOUS
<1>1. l.pc = "linkold" /\ l.pc \in Ordinary \ {"unlinked", "linking", "notlinked"}
  BY DEF LinkOld, At, Ordinary, IpPoints, FoundPoints
<1>2. /\ DOMAIN l = Fields /\ l.ip \in Slots /\ Place(l) = "linkold" /\ l.old = None /\ Held(proc[p], l.ip)
      /\ proc[p].pc # "put2" /\ Control(l) /\ TypeAt(l.ip) = icache[l.ip].type /\ icache[l.ip].ref > 0
  BY <1>1, OrdinaryHere
<1>3. \/ Peek(p, Put(Idle(l), l.ip), Iunlock(icache, l.ip))
      \/ icache[l.ip].type # "DIR" /\ Relink(p, l.ip, 1, m)
  BY <1>0 DEF LinkOld
<1>4. CASE Peek(p, Put(Idle(l), l.ip), Iunlock(icache, l.ip))
  BY <1>1, <1>4, GiveUpLinks
<1>5. CASE icache[l.ip].type # "DIR" /\ Relink(p, l.ip, 1, m)
  <2>1. m.pc = "follow" /\ m.then = "linking" /\ m.old = l.ip
    BY <1>0, <1>2 DEF Fields
  <2>2. Place(m) = "follow" /\ Aim(m) = "linking"
    BY <2>1 DEF Place, Waits, Putting, Aim, WalkPoints
  <2>3. Owed(l) = None /\ Owed(m) = l.ip
    BY <1>2, <2>1, <2>2, OwedOld DEF Owed, OldPoints
  <2>4. ~Makes(p) /\ Place(m) # "newinode" /\ m.pc # "put2" /\ Ptr(proc[p], "ip") = l.ip /\ "ip" \in Pointers
    BY <1>2, <2>1, <2>2 DEF Makes, Ptr, Pointers
  <2>5. Moved(p, m) /\ (\A j \in Inums : disk'[j].type = disk[j].type) => KnowsLinks(m)'
    <3> SUFFICES ASSUME Moved(p, m), \A j \in Inums : disk'[j].type = disk[j].type PROVE KnowsLinks(m)'
      OBVIOUS
    <3>1. EditsOne(p, m, l.ip)
      BY <1>2, <1>5, RelinkEdits
    <3>2. icache[l.ip].inum \in Inums /\ icache[l.ip].type # "free" /\ TypeAt(l.ip) = icache[l.ip].type
      BY <1>2, HeldCurrent
    <3>3. disk'[icache'[m.old].inum].type \notin {"DIR", "free"}
      BY <1>5, <2>1, <3>1, <3>2 DEF EditsOne, TypeAt
    <3> QED BY <2>2, <3>3 DEF KnowsLinks, Inum
  <2>6. PICK s \in Slots : s = l.ip
    BY <1>2
  <2>7. PICK delta \in Int : delta = 1
    OBVIOUS
  <2>8. Relink(p, s, delta, m) /\ Held(proc[p], s)
    BY <1>2, <1>5, <2>6, <2>7
  <2>9. \E w \in Pointers : Ptr(proc[p], w) = s
    BY <2>4, <2>6
  <2>10. delta = 1 /\ Owed(proc[p]) = None /\ Owed(m) = s
    BY <2>3, <2>6, <2>7
  <2> HIDE DEF l
  <2> QED BY <1>2, <2>4, <2>5, <2>8, <2>9, <2>10, RelinkLinks
<1> QED BY <1>3, <1>4, <1>5

\* A step that edits the directory that p has locked, or nlink: what is not about its entries.
LEMMA EditLinks ==
  ASSUME IInv, IInv', LInv, NEW p \in Procs, NEW m, NEW u \in Slots, EditsOne(p, m, u), Held(proc[p], u),
         ~Makes(p), proc[p].pc # "put2", Place(m) # "newinode", m.pc # "put2",
         \E w \in Pointers : Ptr(proc[p], w) = u,
         \A j \in Inums : j # Inum(u) => data'[j] = data[j],
         \A j \in Inums : (\A t \in Slots : Held(proc[p], t) => Inum(t) # j) /\ InPlace(j) /\ IsDir(j) => InPlace(j)',
         Moved(p, m) => KnowsLinks(m)'
  PROVE  Alone' /\ Knowing' /\ Live' /\ Moved(p, m) /\ \A j : Fresh(j)' <=> Fresh(j)
<1>a. PICK i : i = Inum(u)
  OBVIOUS
<1>1. icache[u].ref > 0 /\ i \in Inums /\ icache[u].type # "free" /\ icache[u].valid /\ disk[i].type = icache[u].type
  BY HeldCurrent, <1>a DEF Inum, TypeAt
<1>2. disk'[i].type = disk[i].type /\ disk[i].type # "free" /\ \A j \in Inums \ {i} : disk'[j] = disk[j] /\ data'[j] = data[j]
  BY <1>1, <1>a DEF EditsOne, Current, Inum
<1>3. \A t \in Slots : /\ icache'[t].ref = icache[t].ref /\ icache'[t].inum = icache[t].inum
                       /\ icache'[t].valid = icache[t].valid
  BY DEF EditsOne
<1>4. Moved(p, m)
  BY <1>3 DEF Moved, EditsOne, IInv, DiskTypes
<1>5. \A v \in Pointers, t \in Slots : Ptr(m, v) = t => \E w \in Pointers : Ptr(proc[p], w) = t
  BY <1>3, <1>4, SamePointers
<1>6. proc'[p] = m /\ \A q \in Procs \ {p} : proc'[q] = proc[q]
  BY <1>4, MovedOthers
<1>7. \A j : Fresh(j)' <=> Fresh(j)
  BY <1>4, FreshKept
<1>8. ~Fresh(i)
  <2>1. PICK w \in Pointers : Pointer(p, w) = u
    BY DEF Pointer, Ptr
  <2> QED BY <1>a, <2>1, SeenNotHidden
<1>9. Discreet(p, m)
  <2> SUFFICES ASSUME NEW v \in Pointers, NEW t \in Slots, Ptr(m, v) = t, Lonely(t) PROVE FALSE
    BY DEF Discreet
  <2>1. PICK w \in Pointers : Pointer(p, w) = t
    BY <1>5 DEF Pointer, Ptr
  <2> QED BY <2>1 DEF Lonely
<1>10. Alone'
  <2>1. ASSUME NEW q \in Procs \ {p}, NEW j \in Inums, Makes(q), Inum(proc[q].ip) = j
        PROVE  disk'[j].nlink = 0 /\ data'[j] = NoData
    <3>1. j # i
      BY <1>8, <2>1 DEF Fresh
    <3> QED BY <1>2, <2>1, <3>1 DEF LInv, Alone
  <2>2. ASSUME NEW q \in Procs \ {p}, NEW j \in Inums, proc[q].pc = "put2", Inum(proc[q].put) = j
        PROVE  disk'[j].type = "free" \/ Fresh(j)'
    <3>1. disk[j].type = "free" \/ Fresh(j)
      BY <2>2 DEF LInv, Alone
    <3> QED BY <1>2, <1>7, <3>1
  <2> QED BY <1>4, <1>9, <2>1, <2>2, AloneKept
<1>11. Knowing'
  <2>1. \A j \in Inums : disk'[j].type = disk[j].type
    BY <1>2
  <2>2. ASSUME NEW q \in Procs \ {p}, NEW j \in Inums, Place(proc[q]) \in {"newinode", "victim"}, Inum(proc[q].dp) = j
        PROVE  disk'[j].type = disk[j].type /\ data'[j] = data[j] /\ (Place(proc[q]) = "newinode" => InPlace(j)')
    <3>1. KnowsLinks(proc[q])
      BY DEF LInv, Knowing
    <3>2. Held(proc[q], proc[q].dp) /\ proc[q].dp \in Slots
      <4>1. Shape(proc[q])
        BY DEF IInv, Controls, Control
      <4> QED BY <2>2, <4>1 DEF Held, Shape, Pointed
    <3>3. ASSUME NEW t \in Slots, Held(proc[p], t) PROVE Inum(t) # j
      <4>1. proc[q].dp # t
        BY <3>2, <3>3, HeldRef
      <4> QED BY <2>2, <3>2, <3>3, <4>1, HeldRef, OneSlot
    <3>5. j # i
      BY <1>a, <3>3
    <3>6. IsDir(j) /\ (Place(proc[q]) = "newinode" => InPlace(j))
      BY <2>2, <3>1 DEF KnowsLinks
    <3> QED BY <1>2, <1>a, <3>3, <3>5, <3>6
  <2>3. KnowsLinks(m)'
    BY <1>4
  <2> QED BY <1>4, <2>1, <2>2, <2>3, KnowingKept
<1>12. Live'
  <2>1. \A t \in Slots : Freeing(t) => Freeing(t)'
    BY <1>6 DEF Freeing
  <2>2. \A j \in Inums : /\ disk'[j].type = disk[j].type
                         /\ \/ disk'[j].nlink = disk[j].nlink /\ (Fresh(j) => Fresh(j)')
                            \/ \E t \in Slots : icache[t].ref > 0 /\ icache[t].valid /\ Inum(t) = j /\ disk[j].type # "free"
    BY <1>1, <1>2, <1>7, <1>a
  <2> QED BY <1>3, <2>1, <2>2, LiveKept
<1> QED BY <1>4, <1>7, <1>10, <1>11, <1>12

LEMMA LinkingLinks ==
  ASSUME IInv, IInv', LInv, RemovedUnused, NEW p \in Procs, Linking(p)
  PROVE  LInv'
<1>a. PICK l : l = proc[p]
  OBVIOUS
<1>b. PICK up : up = Inum(l.ip)
  OBVIOUS
<1>c. PICK i : i = Inum(l.old)
  OBVIOUS
<1>0. PICK m : m = Put([l EXCEPT !.pc = "linked", !.ip = None], l.ip)
  OBVIOUS
<1>1. l.pc = "linking" /\ l.pc \in Ordinary /\ l.pc \in ParentPoints
  BY <1>a DEF Linking, At, Ordinary, IpPoints, FoundPoints, ParentPoints
<1>2. /\ DOMAIN l = Fields /\ l.ip \in Slots /\ l.old \in Slots /\ Place(l) = "linking" /\ Held(proc[p], l.ip)
      /\ proc[p].pc # "put2" /\ up \in Inums
  BY <1>1, <1>a, <1>b, OrdinaryHere DEF Inum
<1>3. IsDir(up) /\ InPlace(up)
  BY <1>1, <1>2, <1>a, <1>b DEF IInv, Kinds, TypeAt, IsDir, Inum, RemovedUnused, InPlace, ParentPoints
<1>4. \/ LinkThere(p)
      \/ \E w : Panic(w)
      \/ /\ l.name \notin DOMAIN data[up] /\ Step(p, m, Iunlock(icache, l.ip)) /\ disk' = disk /\ used' = used
         /\ data' = [data EXCEPT ![up] = Enlarged(data[up], l.name, i)]
  BY <1>0, <1>a, <1>b, <1>c DEF Linking, LinkThere, Inum
<1>5. CASE \E w : Panic(w)
  BY <1>5, PanicLinks DEF Panic
<1>6. CASE LinkThere(p)
  BY <1>6, LinkThereLinks
<1>7. CASE /\ l.name \notin DOMAIN data[up] /\ Step(p, m, Iunlock(icache, l.ip)) /\ disk' = disk /\ used' = used
           /\ data' = [data EXCEPT ![up] = Enlarged(data[up], l.name, i)]
  <2>1. Pointer(p, "ip") = l.ip /\ Pointer(p, "old") = l.old /\ {"ip", "old"} \subseteq Pointers /\ ~Makes(p)
    BY <1>2, <1>a DEF Pointer, Pointers, Makes
  <2>2. ~Fresh(up) /\ i \in Inums /\ icache[l.old].ref > 0
    BY <1>2, <1>b, <1>c, <2>1, SeenNotHidden
  <2>3. disk[i].type \notin {"DIR", "free"}
    <3>1. KnowsLinks(l) /\ Aim(l) = "linking"
      BY <1>2, <1>a DEF LInv, Knowing, Aim, WalkPoints
    <3> QED BY <1>c, <3>1 DEF KnowsLinks, OldPoints
  <2>4. i # up
    BY <1>3, <2>3 DEF IsDir
  <2>5. l.name \notin DotNames /\ DotNames \subseteq DOMAIN data[up]
    BY <1>2, <1>3, <1>7, <2>2 DEF LInv, Tree
  <2>6. DOMAIN data = Inums /\ disk \in [Inums -> Dinodes] /\ icache \in [Slots -> Inodes] /\ used \subseteq Blocks /\ DOMAIN proc = Procs
    BY DEF IInv, DiskTypes
  <2>7. data'[up] = Enlarged(data[up], l.name, i) /\ DOMAIN data' = Inums /\ \A j \in Inums : j # up => data'[j] = data[j]
    BY <1>2, <1>7, <2>6
  <2>8. /\ DOMAIN data'[up] = DOMAIN data[up] \cup {l.name} /\ data'[up][l.name] = i
        /\ \A n \in DOMAIN data[up] : data'[up][n] = data[up][n]
    BY <1>7, <2>7 DEF Enlarged
  <2>9. EditsOne(p, m, l.ip)
    <3>1. /\ icache' \in [Slots -> Inodes] /\ icache'[l.ip].lock = None
          /\ \A t \in Slots : (t # l.ip => icache'[t] = icache[t]) /\ Same(icache[t], icache'[t])
                              /\ icache'[t].ref = icache[t].ref
      BY <1>2, <1>7, <2>6, UnlockFacts DEF Step
    <3>2. Current(icache[l.ip], disk[icache[l.ip].inum])
      BY <1>2, HeldCurrent
    <3>3. IsDirectory(data'[up])
      <4>1. IsDirectory(data[up])
        BY <1>2, <1>3 DEF IInv, Contents, IsDir
      <4> QED BY <2>2, <2>8, <4>1 DEF IsDirectory
    <3>4. \A j \in Inums : data'[j] # data[j] => disk[j].type # "free" /\ (disk[j].type = "DIR" => IsDirectory(data'[j]))
      BY <1>3, <2>7, <3>3 DEF IsDir
    <3> QED BY <1>2, <1>7, <2>6, <2>7, <3>1, <3>2, <3>4 DEF EditsOne, Current, Same, Step
  <2>10. m.pc = "put" /\ m.after = "linked" /\ m.old = l.old
    BY <1>0, <1>2 DEF Put, Fields
  <2>11. Place(m) = "linked" /\ Aim(m) = "linked" /\ Owed(m) = None
    BY <2>10 DEF Place, Waits, Putting, Aim, WalkPoints, Owed, OldPoints
  <2>12. Owed(l) = l.old
    BY <1>2 DEF Owed, Aim, OldPoints, WalkPoints
  <2>13. /\ Names(i)' = Names(i) \cup {<<up, l.name>>}
         /\ \A j : j # i => Names(j)' = Names(j) /\ (InPlace(j)' <=> InPlace(j))
         /\ InPlace(i)'
         /\ LinksTo(i)' = LinksTo(i) \cup {<<up, l.name>>} /\ <<up, l.name>> \notin LinksTo(i)
         /\ \A j : j # i => LinksTo(j)' = LinksTo(j)
    <3>1. disk[up].type = "DIR" /\ InTree(disk, data, up) /\ l.name \notin DOMAIN data[up] \cup DotNames
      BY <1>3, <1>7, <2>5 DEF IsDir, InPlace
    <3>2. \A j \in Inums : disk'[j].type = disk[j].type /\ (disk[j].type = "DIR" /\ j \notin {i, up} => data'[j] = data[j])
      BY <1>7, <2>7
    <3>3. i \in Inums \ {up}
      BY <2>2, <2>4
    <3>4. disk[i].type = "DIR" => DOMAIN data[i] = {} /\ data'[i] = Dots(i, up)
      BY <2>3
    <3>5. up \in Inums /\ data'[up] = Enlarged(data[up], l.name, i)
      BY <1>2, <2>7
    <3>6. PICK name : name = l.name
      OBVIOUS
    <3>9. PICK e : e = <<up, name>>
      OBVIOUS
    <3>10. PICK f : f = <<i, "..">>
      OBVIOUS
    <3>8. Adds(disk, data, disk', data', up, i, name)
      BY <3>1, <3>2, <3>3, <3>4, <3>5, <3>6 DEF Adds
    <3>7. /\ NamesOf(disk', data', i) = NamesOf(disk, data, i) \cup {e}
          /\ \A j : j # i => NamesOf(disk', data', j) = NamesOf(disk, data, j) /\ (InTree(disk', data', j) <=> InTree(disk, data, j))
          /\ InTree(disk', data', i)
          /\ LinksOf(disk', data', i) = LinksOf(disk, data, i) \cup {e} /\ e \notin LinksOf(disk, data, i)
          /\ disk[i].type = "DIR" => /\ LinksOf(disk', data', up) = LinksOf(disk, data, up) \cup {f}
                                    /\ f \notin LinksOf(disk, data, up)
          /\ disk[i].type # "DIR" => LinksOf(disk', data', up) = LinksOf(disk, data, up)
          /\ \A j : j \notin {i, up} => LinksOf(disk', data', j) = LinksOf(disk, data, j)
      BY <3>8, <3>9, <3>10, AddedLinks
    <3> QED BY <2>3, <3>6, <3>7, <3>9 DEF Names, InPlace, LinksTo
  <2>14. ~Makes(p) /\ Place(m) # "newinode" /\ m.pc # "put2" /\ Ptr(proc[p], "ip") = l.ip
    BY <1>a, <2>1, <2>10, <2>11 DEF Ptr
  <2>15. Moved(p, m) => KnowsLinks(m)'
    <3>1. disk'[icache'[m.old].inum].type \notin {"DIR", "free"}
      BY <1>2, <1>7, <1>c, <2>3, <2>9, <2>10 DEF EditsOne, Inum
    <3> QED BY <2>11, <3>1 DEF KnowsLinks, Inum
  <2>16. Alone' /\ Knowing' /\ Live' /\ Moved(p, m) /\ \A j : Fresh(j)' <=> Fresh(j)
    <3>1. \A j \in Inums : j # Inum(l.ip) => data'[j] = data[j]
      BY <1>b, <2>7
    <3>2. \A j \in Inums : InPlace(j) => InPlace(j)'
      BY <2>13
    <3>3. \E w \in Pointers : Ptr(proc[p], w) = l.ip
      BY <2>1, <2>14
    <3>4. PICK u \in Slots : u = l.ip
      BY <1>2
    <3> QED BY <1>2, <2>9, <2>14, <2>15, <3>1, <3>2, <3>3, <3>4, EditLinks
  <2>17. Tree'
    <3>1. Root \in Inums /\ IsDir(Root) /\ Root # i
      BY <2>3, RootHasLinks DEF IsDir
    <3>2. /\ IsDir(Root)' /\ Names(Root)' = {} /\ ".." \in DOMAIN data'[Root] /\ data'[Root][".."] = Root
      BY <1>7, <2>7, <2>8, <2>13, <3>1 DEF LInv, Tree, IsDir
    <3>3. ASSUME NEW j \in Inums, IsDir(j)'
          PROVE  /\ ~Fresh(j)' => DotNames \subseteq DOMAIN data'[j] /\ data'[j]["."] = j
                 /\ Names(j)' # {} => \E n : Names(j)' = {<<data'[j][".."], n>>}
                 /\ ~InPlace(j)' => DOMAIN data'[j] \subseteq DotNames
      <4>1. IsDir(j) /\ j # i
        BY <1>7, <2>3, <3>3 DEF IsDir
      <4>2. /\ ~Fresh(j) => DotNames \subseteq DOMAIN data[j] /\ data[j]["."] = j
            /\ Names(j) # {} => \E n : Names(j) = {<<data[j][".."], n>>}
            /\ ~InPlace(j) => DOMAIN data[j] \subseteq DotNames
        BY <4>1 DEF LInv, Tree
      <4>3. Names(j)' = Names(j) /\ (InPlace(j)' <=> InPlace(j)) /\ (Fresh(j)' <=> Fresh(j))
        BY <2>13, <2>16, <4>1
      <4>4. CASE j # up
        BY <2>7, <4>2, <4>3, <4>4
      <4>5. CASE j = up
        <5>1. data'[j]["."] = data[j]["."] /\ data'[j][".."] = data[j][".."] /\ DotNames \subseteq DOMAIN data'[j]
          BY <2>5, <2>8, <4>5 DEF DotNames
        <5> QED BY <1>3, <2>2, <4>2, <4>3, <4>5, <5>1
      <4> QED BY <4>4, <4>5
    <3> QED BY <3>2, <3>3 DEF Tree
  <2>18. Counted'
    <3> SUFFICES ASSUME NEW j \in Inums
                 PROVE  /\ IsFiniteSet(LinksTo(j)')
                        /\ disk'[j].nlink = Cardinality(LinksTo(j)') + Cardinality(Owing(j)')
      BY DEF Counted
    <3>1. /\ IsFiniteSet(LinksTo(j)) /\ Cardinality(LinksTo(j)) \in Nat
          /\ disk[j].nlink = Cardinality(LinksTo(j)) + Cardinality(Owing(j)) /\ Cardinality(Owing(j)) \in Nat
      BY FS_CardinalityType, OwingFinite DEF LInv, Counted
    <3>2. Cardinality(Owing(j)') = Cardinality(Owing(j)) - (IF p \in Owing(j) THEN 1 ELSE 0)
      BY <2>11, <2>16, OwingStep
    <3>3. p \in Owing(j) <=> i = j
      BY <1>2, <1>a, <1>c, <2>12 DEF Owing, None, Slots
    <3>4. /\ IsFiniteSet(LinksTo(j)')
          /\ Cardinality(LinksTo(j)') = Cardinality(LinksTo(j)) + (IF i = j THEN 1 ELSE 0)
      <4>1. CASE i = j
        <5>1. /\ LinksTo(j)' = LinksTo(j) \cup {<<up, l.name>>} /\ <<up, l.name>> \notin LinksTo(j)
          BY <2>13, <4>1
        <5> QED BY SMTT(20), <3>1, <4>1, <5>1, FS_AddElement
      <4>2. CASE i # j
        <5>1. LinksTo(j)' = LinksTo(j)
          BY <2>13, <4>2
        <5> QED BY <3>1, <4>2, <5>1
      <4> QED BY <4>1, <4>2
    <3> QED BY <1>7, <3>1, <3>2, <3>3, <3>4
  <2> QED BY <2>16, <2>17, <2>18 DEF LInv
<1> QED BY <1>4, <1>5, <1>6, <1>7

\* An entry is erased.
LEMMA VictimLinks ==
  ASSUME IInv, IInv', LInv, NEW p \in Procs, Victim(p)
  PROVE  LInv'
<1>a. PICK l : l = proc[p]
  OBVIOUS
<1>b. PICK up : up = Inum(l.dp)
  OBVIOUS
<1>c. PICK v : v = Inum(l.ip)
  OBVIOUS
<1>d. PICK name : name = l.name
  OBVIOUS
<1>g. PICK e : e = <<up, name>>
  OBVIOUS
<1>h. PICK f : f = <<v, "..">>
  OBVIOUS
<1>0. PICK m : m = Put([l EXCEPT !.pc = "unlinked", !.dp = None], l.dp)
  OBVIOUS
<1>e. PICK u \in Slots : u = l.dp
  BY PairHere, <1>a DEF Victim, At
<1>f. PICK c : c = IF icache[l.ip].type = "DIR" THEN [icache EXCEPT ![u].nlink = @ - 1] ELSE icache
  OBVIOUS
<1>1. l.pc = "victim"
  BY <1>a DEF Victim, At
<1>2. /\ DOMAIN l = Fields /\ l.ip \in Slots /\ l.dp \in Slots /\ l.ip # l.dp /\ l.old = None
      /\ Place(l) = "victim" /\ proc[p].pc # "put2"
      /\ \A t \in Slots : Held(proc[p], t) <=> t \in {l.ip, l.dp}
      /\ \A t \in {l.ip, l.dp} : /\ icache[t].ref > 0 /\ icache[t].inum \in Inums /\ icache[t].type # "free"
                                 /\ Current(icache[t], disk[icache[t].inum]) /\ TypeAt(t) = icache[t].type
      /\ up # v
  BY <1>1, <1>a, <1>b, <1>c, PairHere DEF Inum
<1>3. /\ up \in Inums /\ v \in Inums /\ disk[v].type = icache[l.ip].type /\ disk[v].type # "free"
      /\ disk[up].nlink = icache[u].nlink
  BY <1>2, <1>b, <1>c, <1>e DEF TypeAt, Inum, Current
<1>4. IsDir(up) /\ name \in DOMAIN data[up] \ DotNames /\ data[up][name] = v
  <2>1. KnowsLinks(l)
    BY <1>a DEF LInv, Knowing
  <2> QED BY <1>2, <1>b, <1>c, <1>d, <2>1 DEF KnowsLinks
<1>5. \/ \E w : Panic(w)
      \/ Peek(p, Put([l EXCEPT !.pc = "unlinkbad", !.ip = None], l.ip), Iunlock(icache, l.ip))
      \/ /\ Step(p, m, Iunlock(c, u)) /\ used' = used
         /\ data' = [data EXCEPT ![up] = Restrict(data[up], DOMAIN data[up] \ {name})]
         /\ disk' = IF disk[v].type = "DIR" THEN Updated(c, {u}) ELSE disk
         /\ disk[v].type = "DIR" => DOMAIN data[v] = DotNames
  BY <1>0, <1>3, <1>a, <1>b, <1>c, <1>d, <1>e, <1>f DEF Victim, Inum, DotNames
<1>6. CASE \E w : Panic(w)
  BY <1>6, PanicLinks DEF Panic
<1>7. CASE Peek(p, Put([l EXCEPT !.pc = "unlinkbad", !.ip = None], l.ip), Iunlock(icache, l.ip))
  <2>1. PICK g : g = [l EXCEPT !.pc = "unlinkbad", !.ip = None]
    OBVIOUS
  <2>2. PICK x : x = Put(g, l.ip)
    OBVIOUS
  <2>3. DOMAIN g = Fields /\ g.pc = "unlinkbad" /\ g.old = proc[p].old
    BY <1>2, <1>a, <2>1 DEF Fields
  <2>4. Calm(g, proc[p].old)
    BY <2>3 DEF Calm, Place, Waits, Putting
  <2>5. Calm(x, proc[p].old)
    BY <2>2, <2>3, <2>4, CalmPut DEF Putting
  <2>6. Peek(p, x, Iunlock(icache, l.ip)) /\ proc[p].pc = "victim"
    BY <1>1, <1>7, <1>a, <2>1, <2>2
  <2>7. GoesQuietly(p, x)
    BY <2>5, <2>6, CalmGoes DEF Peek, Putting
  <2> QED BY <1>2, <2>6, <2>7, PeekLinks
<1>8. CASE /\ Step(p, m, Iunlock(c, u)) /\ used' = used
           /\ data' = [data EXCEPT ![up] = Restrict(data[up], DOMAIN data[up] \ {name})]
           /\ disk' = IF disk[v].type = "DIR" THEN Updated(c, {u}) ELSE disk
           /\ disk[v].type = "DIR" => DOMAIN data[v] = DotNames
  <2>1. DOMAIN data = Inums /\ disk \in [Inums -> Dinodes] /\ icache \in [Slots -> Inodes] /\ used \subseteq Blocks /\ DOMAIN proc = Procs
    BY DEF IInv, DiskTypes
  <2>2. /\ DOMAIN data' = Inums /\ \A j \in Inums : j # up => data'[j] = data[j]
        /\ data'[up] = Restrict(data[up], DOMAIN data[up] \ {name})
    BY <1>3, <1>8, <2>1
  <2>3. DOMAIN data'[up] = DOMAIN data[up] \ {name} /\ \A n \in DOMAIN data[up] \ {name} : data'[up][n] = data[up][n]
    BY <2>2 DEF Restrict
  <2>4. /\ c \in [Slots -> Inodes] /\ \A t \in Slots \ {u} : c[t] = icache[t]
        /\ c[u].inum = icache[u].inum /\ c[u].ref = icache[u].ref /\ c[u].valid = icache[u].valid /\ c[u].type = icache[u].type
        /\ c[u].nlink = icache[u].nlink - (IF disk[v].type = "DIR" THEN 1 ELSE 0)
    <3>1. icache[u] \in Inodes
      BY <2>1
    <3> QED BY <1>3, <1>f, <2>1, <3>1 DEF Inodes
  <2>5. Held(proc[p], u) /\ u # l.ip
    BY <1>2, <1>e
  <2>6. EditsOne(p, m, u)
    <3>1. IsDirectory(data'[up])
      <4>1. IsDirectory(data[up])
        BY <1>3, <1>4 DEF IInv, Contents, IsDir
      <4> QED BY <2>3, <4>1 DEF IsDirectory
    <3>2. \A j \in Inums : data'[j] # data[j] => disk[j].type # "free" /\ (disk[j].type = "DIR" => IsDirectory(data'[j]))
      BY <1>4, <2>2, <3>1 DEF IsDir
    <3>3. CASE disk[v].type = "DIR"
      <4>1. WritesOne(p, m, u, c)
        BY <1>8, <2>4, <3>3 DEF WritesOne
      <4> QED BY <1>2, <1>8, <2>1, <2>2, <2>5, <3>2, <4>1, WriteOne
    <3>4. CASE disk[v].type # "DIR"
      <4>1. c = icache
        BY <1>3, <1>f, <3>4
      <4>2. /\ icache' \in [Slots -> Inodes] /\ icache'[u].lock = None
            /\ \A t \in Slots : (t # u => icache'[t] = icache[t]) /\ Same(icache[t], icache'[t])
                                /\ icache'[t].ref = icache[t].ref
        BY <1>8, <2>1, <4>1, UnlockFacts DEF Step
      <4>3. Current(icache[u], disk[icache[u].inum])
        BY <1>2, <1>e
      <4> QED BY <1>8, <2>1, <2>2, <3>2, <3>4, <4>2, <4>3 DEF EditsOne, Current, Same, Step
    <3> QED BY <3>3, <3>4
  <2>7. /\ disk'[up].nlink = disk[up].nlink - (IF disk[v].type = "DIR" THEN 1 ELSE 0)
        /\ \A j \in Inums : j # up => disk'[j] = disk[j]
        /\ \A j \in Inums : disk'[j].type = disk[j].type
    <3>1. Same(c[u], icache'[u])
      BY <1>8, <2>4, UnlockFacts DEF Step
    <3>2. icache[u].inum = up /\ disk[up].type = icache[u].type
      BY <1>2, <1>b, <1>e DEF Inum, TypeAt
    <3> QED BY <1>3, <2>4, <2>6, <3>1, <3>2 DEF EditsOne, Current, Same
  <2>8. m.pc = "put" /\ m.after = "unlinked" /\ m.ip = l.ip
    BY <1>0, <1>2 DEF Put, Fields
  <2>9. Place(m) = "unlinked" /\ Aim(m) = "unlinked" /\ Owed(m) = l.ip
    BY <2>8 DEF Place, Waits, Putting, Aim, WalkPoints, Owed
  <2>10. Owed(l) = None /\ Place(m) # "newinode" /\ m.pc # "put2" /\ ~Makes(p) /\ Ptr(proc[p], "dp") = u /\ "dp" \in Pointers
    BY <1>2, <1>a, <1>e, <2>8, <2>9 DEF Owed, Aim, OldPoints, WalkPoints, Makes, Ptr, Pointers
  <2>11. disk[v].type = "DIR" => data[v][".."] = up /\ v # Root /\ Names(v) = {<<up, name>>}
    <3> SUFFICES ASSUME disk[v].type = "DIR" PROVE data[v][".."] = up /\ v # Root /\ Names(v) = {<<up, name>>}
      OBVIOUS
    <3>1. <<up, name>> \in Names(v)
      BY <1>3, <1>4, InNames DEF Names, IsDir
    <3>2. PICK n : Names(v) = {<<data[v][".."], n>>}
      BY <1>3, <3>1 DEF LInv, Tree, IsDir
    <3>3. <<up, name>> = <<data[v][".."], n>>
      BY <3>1, <3>2
    <3>4. up = data[v][".."] /\ name = n
      BY <3>3
    <3>5. v # Root
      BY <3>1 DEF LInv, Tree
    <3> QED BY <3>2, <3>4, <3>5
  <2>12. /\ Names(v)' = Names(v) \ {e}
         /\ \A j : j # v => Names(j)' = Names(j) /\ (InPlace(j)' <=> InPlace(j))
         /\ LinksTo(v)' = LinksTo(v) \ {e} /\ e \in LinksTo(v)
         /\ disk[v].type = "DIR" => LinksTo(up)' = LinksTo(up) \ {f} /\ f \in LinksTo(up)
         /\ disk[v].type # "DIR" => LinksTo(up)' = LinksTo(up)
         /\ \A j : j \notin {v, up} => LinksTo(j)' = LinksTo(j)
    <3>1. disk[up].type = "DIR" /\ name \in DOMAIN data[up] \ DotNames /\ data[up][name] = v
      BY <1>4 DEF IsDir
    <3>2. \A j \in Inums : disk'[j].type = disk[j].type /\ (disk[j].type = "DIR" /\ j # up => data'[j] = data[j])
      BY <2>2, <2>7
    <3>3. up \in Inums /\ v \in Inums /\ v # up /\ data'[up] = Restrict(data[up], DOMAIN data[up] \ {name})
      BY <1>2, <1>3, <2>2
    <3>4. disk[v].type = "DIR" => DOMAIN data[v] = DotNames /\ data[v][".."] = up /\ v # Root /\ NamesOf(disk, data, v) = {<<up, name>>}
      BY <1>8, <2>11 DEF Names
    <3>6. Erases(disk, data, disk', data', up, v, name)
      BY <3>1, <3>2, <3>3, <3>4 DEF Erases
    <3>5. /\ NamesOf(disk', data', v) = NamesOf(disk, data, v) \ {e} /\ e \in NamesOf(disk, data, v)
          /\ \A j : j # v => NamesOf(disk', data', j) = NamesOf(disk, data, j) /\ (InTree(disk', data', j) <=> InTree(disk, data, j))
          /\ LinksOf(disk', data', v) = LinksOf(disk, data, v) \ {e} /\ e \in LinksOf(disk, data, v)
          /\ disk[v].type = "DIR" => /\ LinksOf(disk', data', up) = LinksOf(disk, data, up) \ {f}
                                      /\ f \in LinksOf(disk, data, up) /\ ~InTree(disk', data', v)
          /\ disk[v].type # "DIR" => LinksOf(disk', data', up) = LinksOf(disk, data, up)
          /\ \A j : j \notin {v, up} => LinksOf(disk', data', j) = LinksOf(disk, data, j)
      BY <1>g, <1>h, <3>6, ErasedLinks
    <3> QED BY <3>5 DEF Names, InPlace, LinksTo
  <2>13. Alone' /\ Knowing' /\ Live' /\ Moved(p, m) /\ \A j : Fresh(j)' <=> Fresh(j)
    <3>1. \A j \in Inums : j # Inum(u) => data'[j] = data[j]
      BY <1>b, <1>e, <2>2
    <3>2. \A j \in Inums : (\A t \in Slots : Held(proc[p], t) => Inum(t) # j) /\ InPlace(j) /\ IsDir(j) => InPlace(j)'
      <4>1. Held(proc[p], l.ip)
        BY <1>2
      <4> QED BY <1>2, <1>c, <2>12, <4>1
    <3>3. \E w \in Pointers : Ptr(proc[p], w) = u
      BY <2>10
    <3>4. Moved(p, m) => KnowsLinks(m)'
      BY <2>9 DEF KnowsLinks, OldPoints
    <3> QED BY <1>2, <2>5, <2>6, <2>10, <3>1, <3>2, <3>3, <3>4, EditLinks
  <2>14. Tree'
    <3>1. Root \in Inums /\ IsDir(Root) /\ Root # v
      <4>1. <<up, name>> \in Names(v)
        BY <1>3, <1>4, InNames DEF Names, IsDir
      <4> QED BY <4>1, RootHasLinks DEF LInv, Tree, IsDir
    <3>2. ".." \notin {name} /\ "." \notin {name}
      BY <1>4 DEF DotNames
    <3>3. /\ IsDir(Root)' /\ Names(Root)' = {} /\ ".." \in DOMAIN data'[Root] /\ data'[Root][".."] = Root
      BY <2>2, <2>3, <2>7, <2>12, <3>1, <3>2 DEF LInv, Tree, IsDir
    <3>4. ASSUME NEW j \in Inums, IsDir(j)'
          PROVE  /\ ~Fresh(j)' => DotNames \subseteq DOMAIN data'[j] /\ data'[j]["."] = j
                 /\ Names(j)' # {} => \E n : Names(j)' = {<<data'[j][".."], n>>}
                 /\ ~InPlace(j)' => DOMAIN data'[j] \subseteq DotNames
      <4>1. IsDir(j)
        BY <2>7, <3>4 DEF IsDir
      <4>2. /\ ~Fresh(j) => DotNames \subseteq DOMAIN data[j] /\ data[j]["."] = j
            /\ Names(j) # {} => \E n : Names(j) = {<<data[j][".."], n>>}
            /\ ~InPlace(j) => DOMAIN data[j] \subseteq DotNames
        BY <4>1 DEF LInv, Tree
      <4>3. Fresh(j)' <=> Fresh(j)
        BY <2>13
      <4>4. CASE j = v
        <5>1. DOMAIN data[j] = DotNames /\ data'[j] = data[j]
          BY <1>2, <1>8, <2>2, <4>1, <4>4 DEF IsDir
        <5>2. Names(j) = {e}
          BY <1>g, <2>11, <4>1, <4>4 DEF IsDir
        <5>3. Names(j)' = Names(j) \ {e}
          BY <2>12, <4>4
        <5>4. Names(j)' = {}
          BY <5>2, <5>3
        <5> QED BY <4>2, <4>3, <5>1, <5>4
      <4>5. CASE j = up
        <5>1. Names(j)' = Names(j) /\ (InPlace(j)' <=> InPlace(j))
          BY <1>2, <2>12, <4>5
        <5>2. ~Fresh(j)
          <6>1. Pointer(p, "dp") = u
            BY <1>a, <1>e, PairHere DEF Pointer
          <6> QED BY <1>2, <1>b, <1>e, <2>10, <4>5, <6>1, SeenNotHidden
        <5>3. DotNames \subseteq DOMAIN data'[j] /\ data'[j]["."] = data[j]["."] /\ data'[j][".."] = data[j][".."]
          BY <2>3, <3>2, <4>2, <4>5, <5>2 DEF DotNames
        <5> QED BY <2>3, <4>2, <4>5, <5>1, <5>2, <5>3
      <4>6. CASE j \notin {v, up}
        BY <2>2, <2>12, <4>2, <4>3, <4>6
      <4> QED BY <4>4, <4>5, <4>6
    <3> QED BY <3>3, <3>4 DEF Tree
  <2>15. Counted'
    <3> SUFFICES ASSUME NEW j \in Inums
                 PROVE  /\ IsFiniteSet(LinksTo(j)')
                        /\ disk'[j].nlink = Cardinality(LinksTo(j)') + Cardinality(Owing(j)')
      BY DEF Counted
    <3>1. /\ IsFiniteSet(LinksTo(j)) /\ Cardinality(LinksTo(j)) \in Nat
          /\ disk[j].nlink = Cardinality(LinksTo(j)) + Cardinality(Owing(j)) /\ Cardinality(Owing(j)) \in Nat
      BY FS_CardinalityType, OwingFinite DEF LInv, Counted
    <3>2. Cardinality(Owing(j)') = Cardinality(Owing(j)) + (IF Owed(m) # None /\ icache'[Owed(m)].inum = j THEN 1 ELSE 0)
      BY <1>a, <2>10, <2>13, OwingStep
    <3>3. Owed(m) # None /\ icache'[Owed(m)].inum = j <=> j = v
      BY <1>2, <1>c, <2>6, <2>9 DEF EditsOne, Inum, None, Slots
    <3>4. CASE j = v
      <4>1. LinksTo(j)' = LinksTo(j) \ {e} /\ e \in LinksTo(j)
        BY <2>12, <3>4
      <4>2. IsFiniteSet(LinksTo(j)') /\ Cardinality(LinksTo(j)') = Cardinality(LinksTo(j)) - 1
        <5>1. IsFiniteSet(LinksTo(j) \ {e}) /\ Cardinality(LinksTo(j) \ {e}) = Cardinality(LinksTo(j)) - 1
          BY <3>1, <4>1, FS_RemoveElement
        <5> QED BY <4>1, <5>1
      <4> QED BY <1>2, <2>7, <3>1, <3>2, <3>3, <3>4, <4>2
    <3>5. CASE j = up /\ disk[v].type = "DIR"
      <4>1. LinksTo(j)' = LinksTo(j) \ {f} /\ f \in LinksTo(j)
        BY <2>12, <3>5
      <4>2. IsFiniteSet(LinksTo(j)') /\ Cardinality(LinksTo(j)') = Cardinality(LinksTo(j)) - 1
        <5>1. IsFiniteSet(LinksTo(j) \ {f}) /\ Cardinality(LinksTo(j) \ {f}) = Cardinality(LinksTo(j)) - 1
          BY <3>1, <4>1, FS_RemoveElement
        <5> QED BY <4>1, <5>1
      <4> QED BY <1>2, <2>7, <3>1, <3>2, <3>3, <3>5, <4>2
    <3>6. CASE j # v /\ ~(j = up /\ disk[v].type = "DIR")
      <4>1. LinksTo(j)' = LinksTo(j)
        BY <2>12, <3>6
      <4>2. disk'[j].nlink = disk[j].nlink
        <5>1. disk[j].nlink \in Int
          BY <3>1
        <5> QED BY <2>7, <3>6, <5>1
      <4> QED BY <3>1, <3>2, <3>3, <3>6, <4>1, <4>2
    <3> QED BY <3>4, <3>5, <3>6
  <2> QED BY <2>13, <2>14, <2>15 DEF LInv
<1> QED BY <1>5, <1>6, <1>7, <1>8

\* What create() has done when it has linked its inode.
NewInodeDone(p, l, s, u, i, up) ==
    /\ proc' = [proc EXCEPT ![p] = Put([l EXCEPT !.pc = "created", !.dp = None], u)]
    /\ \A t \in Slots : /\ icache'[t].ref = icache[t].ref /\ icache'[t].inum = icache[t].inum
                        /\ icache'[t].valid = icache[t].valid
    /\ disk'[i].nlink = 1 /\ disk'[up].nlink = disk[up].nlink + (IF disk[i].type = "DIR" THEN 1 ELSE 0)
    /\ \A j \in Inums : disk'[j].type = disk[j].type /\ (j \notin {i, up} => disk'[j] = disk[j] /\ data'[j] = data[j])
    /\ data'[up] = Enlarged(data[up], l.name, i) /\ data'[i] = IF disk[i].type = "DIR" THEN Dots(i, up) ELSE NoData

LEMMA NewInodeFacts ==
  ASSUME IInv, NEW p \in Procs, NewInode(p), NEW l, l = proc[p], NEW s, s = l.ip, NEW u, u = l.dp,
         NEW i, i = Inum(s), NEW up, up = Inum(u)
  PROVE  (\E w : Panic(w)) \/ NewInodeDone(p, l, s, u, i, up)
<1>1. l.pc = "newinode"
  BY DEF NewInode, At
<1>2. /\ s \in Slots /\ u \in Slots /\ s # u /\ Place(l) = "newinode" /\ Creates(l)
      /\ \A t \in {s, u} : /\ icache[t].inum \in Inums /\ icache[t].type # "free"
                           /\ Current(icache[t], disk[icache[t].inum]) /\ TypeAt(t) = icache[t].type
      /\ i # up /\ i \in Inums /\ up \in Inums /\ icache[s].inum = i /\ icache[u].inum = up
  BY <1>1, PairHere DEF Inum
<1>3. PICK isdir : isdir = (l.call.fn = "mkdir")
  OBVIOUS
<1>4. isdir <=> disk[i].type = "DIR"
  <2>1. disk[i].type = TypeOf(l.call)
    BY <1>2 DEF IInv, Kinds, TypeAt
  <2> QED BY <1>2, <1>3, <2>1 DEF TypeOf, Creates
<1>5. PICK b : b = [icache EXCEPT ![s].nlink = 1, ![s].perm = M_ALL]
  OBVIOUS
<1>6. PICK c : c = IF isdir THEN [Grown(b, s) EXCEPT ![u].nlink = @ + 1] ELSE b
  OBVIOUS
<1>7. PICK S : S = {u, s}
  OBVIOUS
<1>8. \/ \E w : Panic(w)
      \/ /\ ~(isdir /\ Full(s)) /\ Step(p, Put([l EXCEPT !.pc = "created", !.dp = None], u), Iunlock(c, u)) /\ disk' = Updated(c, S)
         /\ data' = [data EXCEPT ![up] = Enlarged(@, l.name, i), ![i] = IF isdir THEN Dots(i, up) ELSE NoData]
  BY <1>3, <1>5, <1>6, <1>7 DEF NewInode, Inum
<1>9. CASE /\ ~(isdir /\ Full(s)) /\ Step(p, Put([l EXCEPT !.pc = "created", !.dp = None], u), Iunlock(c, u)) /\ disk' = Updated(c, S)
           /\ data' = [data EXCEPT ![up] = Enlarged(@, l.name, i), ![i] = IF isdir THEN Dots(i, up) ELSE NoData]
  <2>1. DOMAIN data = Inums /\ icache \in [Slots -> Inodes] /\ used \subseteq Blocks /\ icache[s] \in Inodes /\ icache[u] \in Inodes
    BY <1>2 DEF IInv, DiskTypes
  <2>2. /\ b \in [Slots -> Inodes] /\ \A t \in Slots \ {s} : b[t] = icache[t]
        /\ b[s].inum = icache[s].inum /\ b[s].ref = icache[s].ref /\ b[s].valid = icache[s].valid
        /\ b[s].type = icache[s].type /\ b[s].addrs = icache[s].addrs /\ b[s].nlink = 1
    BY <1>2, <1>5, <2>1 DEF Inodes
  <2>3. /\ c \in [Slots -> Inodes]
        /\ \A t \in Slots : c[t].inum = icache[t].inum /\ c[t].ref = icache[t].ref /\ c[t].valid = icache[t].valid
        /\ c[s].type = icache[s].type /\ c[u].type = icache[u].type
        /\ c[s].nlink = 1 /\ c[u].nlink = icache[u].nlink + (IF isdir THEN 1 ELSE 0)
    <3>1. CASE isdir
      <4>1. b[s].addrs = {} => used # Blocks
        BY <1>9, <2>2, <3>1 DEF Full
      <4>2. PICK d : d = Grown(b, s)
        OBVIOUS
      <4>3. /\ d \in [Slots -> Inodes] /\ \A t \in Slots \ {s} : d[t] = b[t]
            /\ d[s].inum = b[s].inum /\ d[s].ref = b[s].ref /\ d[s].valid = b[s].valid
            /\ d[s].lock = b[s].lock /\ d[s].type = b[s].type /\ d[s].addrs \subseteq Blocks
        BY <1>2, <2>1, <2>2, <4>1, <4>2, GrownFacts
      <4>4. d[s].nlink = 1
        BY <1>2, <2>2, <4>2 DEF Grown, Inodes
      <4>5. c = [d EXCEPT ![u].nlink = @ + 1] /\ d[u] = icache[u]
        BY <1>2, <1>6, <2>2, <3>1, <4>2, <4>3
      <4>6. c \in [Slots -> Inodes] /\ \A t \in Slots \ {u} : c[t] = d[t]
        <5>1. PICK e : e = [d[u] EXCEPT !.nlink = @ + 1]
          OBVIOUS
        <5>2. d[u] \in Inodes
          BY <1>2, <4>3
        <5>3. e \in Inodes
          BY <5>1, <5>2 DEF Inodes
        <5>4. c = [d EXCEPT ![u] = e]
          BY <4>5, <5>1
        <5> QED BY <1>2, <4>3, <5>3, <5>4
      <4>7. /\ c[u].inum = d[u].inum /\ c[u].ref = d[u].ref /\ c[u].valid = d[u].valid /\ c[u].type = d[u].type
            /\ c[u].nlink = d[u].nlink + 1
        BY <1>2, <2>1, <4>3, <4>5 DEF Inodes
      <4> QED BY <1>2, <2>2, <3>1, <4>3, <4>4, <4>5, <4>6, <4>7
    <3>2. CASE ~isdir
      <4>1. icache[u].nlink \in Int
        BY <2>1 DEF Inodes
      <4> QED BY <1>2, <1>6, <2>2, <3>2, <4>1
    <3> QED BY <3>1, <3>2
  <2>4. \A t \in Slots : Same(c[t], icache'[t]) /\ icache'[t].ref = c[t].ref
    BY <1>2, <1>9, <2>3, UnlockFacts DEF Step
  <2>5. \A j \in Inums : disk'[j] = IF up = j THEN Dinode(c[u]) ELSE IF i = j THEN Dinode(c[s]) ELSE disk[j]
    <3>1. c[u].inum = up /\ c[s].inum = i
      BY <1>2, <2>3
    <3>2. /\ DOMAIN Updated(c, S) = Inums
          /\ \A j \in Inums : Updated(c, S)[j] = IF c[u].inum = j THEN Dinode(c[u])
                                                 ELSE IF c[s].inum = j THEN Dinode(c[s]) ELSE disk[j]
      <4>1. u \in S /\ s \in S /\ c[u].inum # c[s].inum
        BY <1>2, <1>7, <3>1
      <4> QED BY <1>7, <4>1, UpdatedTwo
    <3> QED BY <1>9, <3>1, <3>2
  <2>6. /\ disk'[i].nlink = 1 /\ disk'[up].nlink = disk[up].nlink + (IF disk[i].type = "DIR" THEN 1 ELSE 0)
        /\ \A j \in Inums : disk'[j].type = disk[j].type /\ (j \notin {i, up} => disk'[j] = disk[j])
    <3>1. disk'[up] = Dinode(c[u]) /\ disk'[i] = Dinode(c[s]) /\ \A j \in Inums \ {i, up} : disk'[j] = disk[j]
      BY <1>2, <2>5
    <3>2. disk[up].nlink = icache[u].nlink /\ disk[up].type = icache[u].type /\ disk[i].type = icache[s].type
      BY <1>2 DEF Current
    <3> QED BY <1>2, <1>4, <2>3, <3>1, <3>2 DEF Dinode
  <2>7. /\ data'[up] = Enlarged(data[up], l.name, i) /\ data'[i] = IF disk[i].type = "DIR" THEN Dots(i, up) ELSE NoData
        /\ \A j \in Inums : j \notin {i, up} => data'[j] = data[j]
    BY <1>2, <1>4, <1>9, <2>1
  <2>8. proc' = [proc EXCEPT ![p] = Put([l EXCEPT !.pc = "created", !.dp = None], u)]
    BY <1>9 DEF Step
  <2>9. \A t \in Slots : /\ icache'[t].ref = icache[t].ref /\ icache'[t].inum = icache[t].inum
                         /\ icache'[t].valid = icache[t].valid
    BY <2>3, <2>4 DEF Same
  <2> QED BY <2>6, <2>7, <2>8, <2>9 DEF NewInodeDone
<1> QED BY <1>8, <1>9

LEMMA NewInodeLinks ==
  ASSUME IInv, IInv', LInv, NEW p \in Procs, NewInode(p)
  PROVE  LInv'
<1>a. PICK l : l = proc[p]
  OBVIOUS
<1>b. PICK s : s = l.ip
  OBVIOUS
<1>c. PICK u : u = l.dp
  OBVIOUS
<1>d. PICK i : i = Inum(s)
  OBVIOUS
<1>e. PICK up : up = Inum(u)
  OBVIOUS
<1>f. PICK name : name = l.name
  OBVIOUS
<1>0. PICK m : m = Put([l EXCEPT !.pc = "created", !.dp = None], u)
  OBVIOUS
<1>1. l.pc = "newinode"
  BY <1>a DEF NewInode, At
<1>2. /\ DOMAIN l = Fields /\ s \in Slots /\ u \in Slots /\ s # u /\ l.old = None
      /\ Place(l) = "newinode" /\ proc[p].pc # "put2"
      /\ \A t \in Slots : Held(proc[p], t) <=> t \in {s, u}
      /\ \A t \in {s, u} : icache[t].ref > 0 /\ icache[t].inum \in Inums /\ icache[t].type # "free" /\ TypeAt(t) = icache[t].type
      /\ i # up /\ i \in Inums /\ up \in Inums
  BY <1>1, <1>a, <1>b, <1>c, <1>d, <1>e, PairHere DEF Inum
<1>3. \/ \E w : Panic(w)
      \/ /\ proc' = [proc EXCEPT ![p] = m]
         /\ \A t \in Slots : /\ icache'[t].ref = icache[t].ref /\ icache'[t].inum = icache[t].inum
                             /\ icache'[t].valid = icache[t].valid
         /\ disk'[i].nlink = 1 /\ disk'[up].nlink = disk[up].nlink + (IF disk[i].type = "DIR" THEN 1 ELSE 0)
         /\ \A j \in Inums : disk'[j].type = disk[j].type /\ (j \notin {i, up} => disk'[j] = disk[j] /\ data'[j] = data[j])
         /\ data'[up] = Enlarged(data[up], name, i) /\ data'[i] = IF disk[i].type = "DIR" THEN Dots(i, up) ELSE NoData
  <2>1. (\E w : Panic(w)) \/ NewInodeDone(p, l, s, u, i, up)
    BY <1>a, <1>b, <1>c, <1>d, <1>e, NewInodeFacts
  <2> QED BY <1>0, <1>f, <2>1 DEF NewInodeDone
<1>4. CASE \E w : Panic(w)
  BY <1>4, PanicLinks DEF Panic
<1>5. CASE /\ proc' = [proc EXCEPT ![p] = m]
           /\ \A t \in Slots : /\ icache'[t].ref = icache[t].ref /\ icache'[t].inum = icache[t].inum
                               /\ icache'[t].valid = icache[t].valid
           /\ disk'[i].nlink = 1 /\ disk'[up].nlink = disk[up].nlink + (IF disk[i].type = "DIR" THEN 1 ELSE 0)
           /\ \A j \in Inums : disk'[j].type = disk[j].type /\ (j \notin {i, up} => disk'[j] = disk[j] /\ data'[j] = data[j])
           /\ data'[up] = Enlarged(data[up], name, i) /\ data'[i] = IF disk[i].type = "DIR" THEN Dots(i, up) ELSE NoData
  <2>1. /\ DOMAIN data'[up] = DOMAIN data[up] \cup {name} /\ data'[up][name] = i
        /\ \A n \in DOMAIN data[up] : n # name => data'[up][n] = data[up][n]
    BY <1>5 DEF Enlarged
  <2>2. Moved(p, m)
    BY <1>5 DEF Moved, IInv, DiskTypes
  <2>3. proc'[p] = m /\ \A q \in Procs \ {p} : proc'[q] = proc[q]
    BY <2>2, MovedOthers
  <2>4. m.pc = "put" /\ m.after = "created" /\ m.old = None
    BY <1>0, <1>2 DEF Put, Fields
  <2>5. Place(m) = "created" /\ Aim(m) = "created" /\ Owed(m) = None
    BY <2>4 DEF Place, Waits, Putting, Aim, WalkPoints, Owed, OldPoints
  <2>6. Makes(p) /\ Owed(proc[p]) = None /\ Pointer(p, "ip") = s /\ Pointer(p, "dp") = u /\ {"ip", "dp"} \subseteq Pointers
    BY <1>2, <1>a, <1>b, <1>c DEF Makes, Owed, Aim, WalkPoints, OldPoints, Pointer, Pointers
  <2>7. disk[i].nlink = 0 /\ data[i] = NoData /\ Lonely(s)
    BY <1>a, <1>b, <1>d, <2>6 DEF LInv, Alone
  <2>8. ~Fresh(up) /\ Fresh(i)
    <3>1. ~Fresh(up)
      BY <1>2, <1>e, <2>6, SeenNotHidden
    <3> QED BY <1>a, <1>b, <1>d, <2>6, <3>1 DEF Fresh
  <2>9. IsDir(up) /\ InPlace(up) /\ name \notin DOMAIN data[up]
    <3>1. KnowsLinks(l)
      BY <1>a DEF LInv, Knowing
    <3> QED BY <1>2, <1>c, <1>e, <1>f, <3>1 DEF KnowsLinks
  <2>10. DotNames \subseteq DOMAIN data[up] /\ name \notin DotNames
    BY <1>2, <2>8, <2>9 DEF LInv, Tree
  <2>11. LinksTo(i) = {} /\ Names(i) = {} /\ ~InPlace(i) /\ i # Root
    <3>1. LinksTo(i) = {} /\ Names(i) = {} /\ ~InPlace(i)
      BY <1>2, <2>7, NoLinks
    <3> QED BY <3>1 DEF InPlace, InTree
  <2>12. PICK e : e = <<up, name>>
    OBVIOUS
  <2>13. PICK f : f = <<i, "..">>
    OBVIOUS
  <2>14. /\ Names(i)' = {e} /\ InPlace(i)'
         /\ \A j : j # i => Names(j)' = Names(j) /\ (InPlace(j)' <=> InPlace(j))
         /\ LinksTo(i)' = {e}
         /\ disk[i].type = "DIR" => LinksTo(up)' = LinksTo(up) \cup {f} /\ f \notin LinksTo(up)
         /\ disk[i].type # "DIR" => LinksTo(up)' = LinksTo(up)
         /\ \A j : j \notin {i, up} => LinksTo(j)' = LinksTo(j)
    <3>1. disk[up].type = "DIR" /\ InTree(disk, data, up) /\ name \notin DOMAIN data[up] \cup DotNames
      BY <2>9, <2>10 DEF IsDir, InPlace
    <3>2. \A j \in Inums : disk'[j].type = disk[j].type /\ (disk[j].type = "DIR" /\ j \notin {i, up} => data'[j] = data[j])
      BY <1>5
    <3>3. i \in Inums \ {up}
      BY <1>2
    <3>4. disk[i].type = "DIR" => DOMAIN data[i] = {} /\ data'[i] = Dots(i, up)
      BY <1>5, <2>7 DEF NoData
    <3>5. up \in Inums /\ data'[up] = Enlarged(data[up], name, i)
      BY <1>2, <1>5
    <3>7. Adds(disk, data, disk', data', up, i, name)
      BY <3>1, <3>2, <3>3, <3>4, <3>5 DEF Adds
    <3>6. /\ NamesOf(disk', data', i) = NamesOf(disk, data, i) \cup {e}
          /\ \A j : j # i => NamesOf(disk', data', j) = NamesOf(disk, data, j) /\ (InTree(disk', data', j) <=> InTree(disk, data, j))
          /\ InTree(disk', data', i)
          /\ LinksOf(disk', data', i) = LinksOf(disk, data, i) \cup {e} /\ e \notin LinksOf(disk, data, i)
          /\ disk[i].type = "DIR" => /\ LinksOf(disk', data', up) = LinksOf(disk, data, up) \cup {f}
                                    /\ f \notin LinksOf(disk, data, up)
          /\ disk[i].type # "DIR" => LinksOf(disk', data', up) = LinksOf(disk, data, up)
          /\ \A j : j \notin {i, up} => LinksOf(disk', data', j) = LinksOf(disk, data, j)
      BY <2>12, <2>13, <3>7, AddedLinks
    <3> QED BY <2>11, <2>12, <2>13, <3>6 DEF Names, InPlace, LinksTo
  <2>15. \A j : Fresh(j)' <=> Fresh(j) /\ j # i
    <3>1. ASSUME NEW j, Fresh(j)' PROVE Fresh(j) /\ j # i
      <4>1. PICK q \in Procs : Makes(q)' /\ Inum(proc[q].ip)' = j
        BY <3>1 DEF Fresh
      <4>2. q # p
        BY <2>3, <2>5, <4>1 DEF Makes
      <4>3. Makes(q) /\ proc'[q] = proc[q]
        BY <2>3, <4>1, <4>2 DEF Makes
      <4>4. proc[q].ip \in Slots /\ icache[proc[q].ip].ref > 0
        BY <4>3, MakesFacts
      <4>5. Inum(proc[q].ip) = j
        BY <1>5, <4>1, <4>3, <4>4 DEF Inum
      <4>6. proc[q].ip # s
        BY <1>a, <1>b, <2>6, <4>2, <4>3 DEF LInv, Alone
      <4>7. Inum(proc[q].ip) # i
        BY <1>2, <1>d, <4>4, <4>6, OneSlot
      <4> QED BY <4>3, <4>5, <4>7 DEF Fresh
    <3>2. ASSUME NEW j, Fresh(j), j # i PROVE Fresh(j)'
      <4>1. PICK q \in Procs : Makes(q) /\ Inum(proc[q].ip) = j
        BY <3>2 DEF Fresh
      <4>2. q # p
        BY <1>a, <1>b, <1>d, <3>2, <4>1
      <4>3. proc[q].ip \in Slots /\ proc'[q] = proc[q]
        BY <2>3, <4>1, <4>2, MakesFacts
      <4>4. Inum(proc[q].ip)' = j /\ Makes(q)'
        BY <1>5, <4>1, <4>3 DEF Inum, Makes
      <4> QED BY <4>4 DEF Fresh
    <3> QED BY <3>1, <3>2
  <2>16. ASSUME NEW q \in Procs \ {p}, NEW t \in Slots, Held(proc[q], t)
         PROVE  icache[t].ref > 0 /\ Inum(t) \in Inums \ {i, up} /\ t \notin {s, u}
    <3>1. icache[t].ref > 0
      BY <2>16, HeldRef
    <3>2. t \notin {s, u}
      <4>1. Held(proc[p], s) /\ Held(proc[p], u)
        BY <1>2
      <4> QED BY <2>16, <4>1, HeldRef
    <3>3. Inum(t) \in Inums
      BY <3>1 DEF IInv, Cached, Inum
    <3> QED BY <1>2, <1>d, <1>e, <3>1, <3>2, <3>3, OneSlot
  <2>17. ASSUME NEW q \in Procs \ {p}, proc[q].pc = "put2"
         PROVE  proc[q].put \in Slots /\ Held(proc[q], proc[q].put)
    BY <2>17 DEF IInv, Controls, Control, Shape, Pointed, Putting, None, Held
  <2>18. Alone'
    <3>1. ASSUME NEW q \in Procs \ {p}, NEW t \in Slots, icache[t].ref > 0, Lonely(t),
                 (Makes(q) /\ proc[q].ip = t) \/ (proc[q].pc = "put2" /\ proc[q].put = t)
          PROVE  Lonely(t)'
      <4>1. t # s
        BY <1>a, <1>b, <2>6, <2>16, <2>17, <3>1 DEF LInv, Alone
      <4> SUFFICES ASSUME NEW r \in Procs, NEW v \in Pointers, Pointer(r, v)' = t
                   PROVE  ((Makes(r) /\ v = "ip") \/ (proc[r].pc = "put2" /\ v = "put"))'
        BY DEF Lonely
      <4>2. r # p
        <5> SUFFICES ASSUME r = p PROVE FALSE
          OBVIOUS
        <5>1. Ptr(m, v) = t
          BY <2>3 DEF Pointer, Ptr
        <5>2. PICK w \in Pointers : Pointer(p, w) = t
          BY <1>5, <2>2, <5>1, SamePointers DEF Pointer, Ptr
        <5>3. w = "ip"
          BY <1>2, <3>1, <5>2 DEF Lonely
        <5> QED BY <2>6, <4>1, <5>2, <5>3
      <4>3. proc'[r] = proc[r]
        BY <2>3, <4>2
      <4>4. Pointer(r, v) = t
        BY <4>3 DEF Pointer
      <4>5. (Makes(r) /\ v = "ip") \/ (proc[r].pc = "put2" /\ v = "put")
        BY <3>1, <4>4 DEF Lonely
      <4> QED BY <4>3, <4>5 DEF Makes
    <3>2. ASSUME NEW q \in Procs \ {p}, NEW j \in Inums, Makes(q), Inum(proc[q].ip) = j
          PROVE  disk'[j].nlink = 0 /\ data'[j] = NoData
      <4>1. proc[q].ip # s /\ proc[q].ip \in Slots /\ icache[proc[q].ip].ref > 0
        BY <1>a, <1>b, <2>6, <3>2, MakesFacts DEF LInv, Alone
      <4>2. j # i
        BY <1>2, <1>d, <3>2, <4>1, OneSlot
      <4>3. j # up
        BY <2>8, <3>2 DEF Fresh
      <4> QED BY <1>5, <3>2, <4>2, <4>3 DEF LInv, Alone
    <3>3. ASSUME NEW q \in Procs \ {p}, NEW j \in Inums, proc[q].pc = "put2", Inum(proc[q].put) = j
          PROVE  disk'[j].type = "free" \/ Fresh(j)'
      <4>1. disk[j].type = "free" \/ Fresh(j)
        BY <3>3 DEF LInv, Alone
      <4>2. j # i
        BY <2>16, <2>17, <3>3
      <4> QED BY <1>5, <2>15, <4>1, <4>2
    <3> QED BY <2>2, <2>4, <2>5, <3>1, <3>2, <3>3, AloneBy
  <2>19. Knowing'
    <3>1. \A j \in Inums : disk'[j].type = disk[j].type
      BY <1>5
    <3>2. ASSUME NEW q \in Procs \ {p}, NEW j \in Inums, Place(proc[q]) \in {"newinode", "victim"}, Inum(proc[q].dp) = j
          PROVE  disk'[j].type = disk[j].type /\ data'[j] = data[j] /\ (Place(proc[q]) = "newinode" => InPlace(j)')
      <4>1. KnowsLinks(proc[q])
        BY DEF LInv, Knowing
      <4>2. Held(proc[q], proc[q].dp) /\ proc[q].dp \in Slots
        <5>1. Shape(proc[q])
          BY DEF IInv, Controls, Control
        <5> QED BY <3>2, <5>1 DEF Held, Shape, Pointed
      <4>3. j \notin {i, up}
        BY <2>16, <3>2, <4>2
      <4>4. Place(proc[q]) = "newinode" => InPlace(j)
        BY <3>2, <4>1 DEF KnowsLinks
      <4> QED BY <1>5, <2>14, <4>3, <4>4
    <3>3. KnowsLinks(m)'
      BY <2>5 DEF KnowsLinks, OldPoints
    <3> QED BY <2>2, <3>1, <3>2, <3>3, KnowingKept
  <2>20. Live'
    <3>1. \A t \in Slots : /\ icache'[t].ref = icache[t].ref /\ icache'[t].inum = icache[t].inum
                           /\ icache'[t].valid = icache[t].valid /\ (Freeing(t) => Freeing(t)')
      BY <1>2, <1>5, <2>3 DEF Freeing
    <3>2. icache[s].valid /\ icache[u].valid /\ disk[i].type # "free" /\ disk[up].type # "free"
      <4>1. Held(proc[p], s) /\ Held(proc[p], u)
        BY <1>2
      <4> QED BY <1>2, <1>d, <1>e, <4>1, HeldRef DEF TypeAt, Inum
    <3>3. \A j \in Inums : /\ disk'[j].type = disk[j].type
                           /\ \/ disk'[j].nlink = disk[j].nlink /\ (Fresh(j) => Fresh(j)')
                              \/ \E t \in Slots : icache[t].ref > 0 /\ icache[t].valid /\ Inum(t) = j /\ disk[j].type # "free"
      BY <1>2, <1>5, <1>d, <1>e, <2>15, <3>2
    <3> QED BY <3>1, <3>3, LiveKept
  <2>21. Tree'
    <3>1. Root \in Inums /\ IsDir(Root)
      BY RootHasLinks DEF IsDir
    <3>2. /\ IsDir(Root)' /\ Names(Root)' = {} /\ ".." \in DOMAIN data'[Root] /\ data'[Root][".."] = Root
      BY <1>5, <2>1, <2>10, <2>11, <2>14, <3>1 DEF LInv, Tree, IsDir, DotNames
    <3>3. ASSUME NEW j \in Inums, IsDir(j)'
          PROVE  /\ ~Fresh(j)' => DotNames \subseteq DOMAIN data'[j] /\ data'[j]["."] = j
                 /\ Names(j)' # {} => \E n : Names(j)' = {<<data'[j][".."], n>>}
                 /\ ~InPlace(j)' => DOMAIN data'[j] \subseteq DotNames
      <4>1. IsDir(j)
        BY <1>5, <3>3 DEF IsDir
      <4>2. /\ ~Fresh(j) => DotNames \subseteq DOMAIN data[j] /\ data[j]["."] = j
            /\ Names(j) # {} => \E n : Names(j) = {<<data[j][".."], n>>}
            /\ ~InPlace(j) => DOMAIN data[j] \subseteq DotNames
        BY <4>1 DEF LInv, Tree
      <4>3. CASE j = i
        <5>1. DOMAIN data'[j] = DotNames /\ data'[j]["."] = j /\ data'[j][".."] = up
          BY <1>5, <4>1, <4>3 DEF Dots, DotNames, IsDir
        <5>2. Names(j)' = {<<data'[j][".."], name>>}
          BY <2>12, <2>14, <4>3, <5>1
        <5> QED BY <5>1, <5>2
      <4>4. CASE j = up
        <5>1. Names(j)' = Names(j) /\ (InPlace(j)' <=> InPlace(j))
          BY <1>2, <2>14, <4>4
        <5>2. data'[j]["."] = data[j]["."] /\ data'[j][".."] = data[j][".."] /\ DotNames \subseteq DOMAIN data'[j]
          BY <2>1, <2>10, <4>4 DEF DotNames
        <5> QED BY <2>8, <2>9, <4>2, <4>4, <5>1, <5>2
      <4>5. CASE j \notin {i, up}
        BY <1>5, <2>14, <2>15, <4>2, <4>5
      <4> QED BY <4>3, <4>4, <4>5
    <3> QED BY <3>2, <3>3 DEF Tree
  <2>22. Counted'
    <3> SUFFICES ASSUME NEW j \in Inums
                 PROVE  /\ IsFiniteSet(LinksTo(j)')
                        /\ disk'[j].nlink = Cardinality(LinksTo(j)') + Cardinality(Owing(j)')
      BY DEF Counted
    <3>1. /\ IsFiniteSet(LinksTo(j)) /\ Cardinality(LinksTo(j)) \in Nat
          /\ disk[j].nlink = Cardinality(LinksTo(j)) + Cardinality(Owing(j)) /\ Cardinality(Owing(j)) \in Nat
      BY FS_CardinalityType, OwingFinite DEF LInv, Counted
    <3>2. Owing(j)' = Owing(j)
      BY <2>2, <2>5, <2>6, OwingStep
    <3>3. CASE j = i
      <4>1. IsFiniteSet(LinksTo(j)') /\ Cardinality(LinksTo(j)') = 1
        <5>1. IsFiniteSet({e}) /\ Cardinality({e}) = 1
          BY FS_Singleton
        <5> QED BY <2>14, <3>3, <5>1
      <4>2. Cardinality(LinksTo(j)) = 0
        BY <2>11, <3>3, FS_EmptySet
      <4> QED BY <1>5, <2>7, <3>1, <3>2, <3>3, <4>1, <4>2
    <3>4. CASE j = up /\ disk[i].type = "DIR"
      <4>1. LinksTo(j)' = LinksTo(j) \cup {f} /\ f \notin LinksTo(j)
        BY <2>14, <3>4
      <4>2. IsFiniteSet(LinksTo(j)') /\ Cardinality(LinksTo(j)') = Cardinality(LinksTo(j)) + 1
        <5>1. IsFiniteSet(LinksTo(j) \cup {f}) /\ Cardinality(LinksTo(j) \cup {f}) = Cardinality(LinksTo(j)) + 1
          BY <3>1, <4>1, FS_AddElement
        <5> QED BY <4>1, <5>1
      <4> QED BY <1>5, <3>1, <3>2, <3>4, <4>2
    <3>5. CASE j # i /\ ~(j = up /\ disk[i].type = "DIR")
      <4>1. LinksTo(j)' = LinksTo(j)
        BY <2>14, <3>5
      <4>2. disk'[j].nlink = disk[j].nlink
        BY <1>5, <3>1, <3>5
      <4> QED BY <3>1, <3>2, <4>1, <4>2
    <3> QED BY <3>3, <3>4, <3>5
  <2> QED BY <2>18, <2>19, <2>20, <2>21, <2>22 DEF LInv
<1> QED BY <1>3, <1>4, <1>5


\* What create() has done when it has allocated its inode.
CreateNewDone(p, l, m, s, i) ==
    /\ proc' = [proc EXCEPT ![p] = m] /\ data' = data /\ s \in Slots /\ i \in Inums
    /\ disk[i].type = "free" /\ disk'[i].type # "free" /\ disk'[i].nlink = 0
    /\ \A j \in Inums \ {i} : disk'[j] = disk[j]
    /\ icache'[s].inum = i
    /\ \A t \in Slots : /\ icache'[t].ref = icache[t].ref + One(s = t)
                        /\ t # s => icache'[t] = icache[t]
                        /\ icache[t].ref > 0 => icache'[t].inum = icache[t].inum /\ icache'[t].valid = icache[t].valid
    /\ icache[s].ref = 0 => \A t \in Slots : icache[t].ref > 0 => icache[t].inum # i
    /\ DOMAIN m = DOMAIN l /\ m.pc = "lock" /\ m.locked = "newinode" /\ m.want = s /\ m.ip = s /\ m.dp = l.ip
    /\ m.old = l.old /\ m.put = l.put /\ m.cwd = l.cwd /\ m.fd = l.fd /\ m.name = l.name

LEMMA CreateNewFacts ==
  ASSUME IInv, NEW p \in Procs, CreateNew(p), NEW l, l = proc[p]
  PROVE  (\E w : Panic(w)) \/ \E m, s, i : CreateNewDone(p, l, m, s, i) /\ l.name \notin DOMAIN data[Inum(l.ip)]
<1>1. l.pc = "creating" /\ l.pc \in Ordinary
  BY DEF CreateNew, At, Ordinary, IpPoints, FoundPoints, ParentPoints
<1>2. DOMAIN l = Fields /\ Creates(l)
  BY <1>1, OrdinaryHere
<1>3. PICK type : type = TypeOf(l.call)
  OBVIOUS
<1>4. type \in Types \ {"free"}
  BY <1>2, <1>3 DEF TypeOf, Creates, Types
<1>5. l.name \notin DOMAIN data[Inum(l.ip)]
  BY DEF CreateNew, Inum
<1>6. \/ \E w : Panic(w)
      \/ \E i \in Inums :
            /\ disk[i].type = "free" /\ Entry(icache, i) # None
            /\ Step(p, Lock([l EXCEPT !.pc = "newinode", !.ip = Entry(icache, i), !.dp = l.ip], Entry(icache, i)),
                    [Iget(icache, i) EXCEPT ![Entry(icache, i)].perm = M_ALL])
            /\ disk' = [disk EXCEPT ![i] = [Free EXCEPT !.type = type]]
            /\ data' = data
  BY <1>3 DEF CreateNew
<1>7. ASSUME NEW i \in Inums, disk[i].type = "free", NEW s, s = Entry(icache, i), s # None,
             Step(p, Lock([l EXCEPT !.pc = "newinode", !.ip = s, !.dp = l.ip], s),
                  [Iget(icache, i) EXCEPT ![s].perm = M_ALL]),
             disk' = [disk EXCEPT ![i] = [Free EXCEPT !.type = type]], data' = data
      PROVE  \E m : CreateNewDone(p, l, m, s, i)
  <2>0. PICK m : m = Lock([l EXCEPT !.pc = "newinode", !.ip = s, !.dp = l.ip], s)
    OBVIOUS
  <2>1. PICK c : c = Iget(icache, i)
    OBVIOUS
  <2>2. icache' = [c EXCEPT ![s].perm = M_ALL] /\ proc' = [proc EXCEPT ![p] = m]
    BY <1>7, <2>0, <2>1 DEF Step
  <2>3. /\ icache \in [Slots -> Inodes] /\ disk \in [Inums -> Dinodes]
        /\ \A t \in Slots : icache[t].ref \in Nat
    BY DEF IInv, DiskTypes, Inodes
  <2>4. s \in Slots /\ (icache[s].ref = 0 => \A t \in Slots : icache[t].ref > 0 => icache[t].inum # i)
    BY <1>7, <2>3, EntryFacts
  <2>5. /\ Iget(icache, i) \in [Slots -> Inodes]
        /\ \A t \in Slots :
              /\ Iget(icache, i)[t].ref = icache[t].ref + One(Entry(icache, i) = t)
              /\ icache[t].ref > 0 => Same(icache[t], Iget(icache, i)[t])
              /\ t = Entry(icache, i) => Iget(icache, i)[t].inum = i
              /\ t # Entry(icache, i) => Iget(icache, i)[t] = icache[t]
    <3>1. Entry(icache, i) # None
      BY <1>7
    <3>2. /\ Iget(icache, i) \in [Slots -> Inodes] /\ Entry(icache, i) \in Slots
          /\ \A t \in Slots :
                /\ Iget(icache, i)[t].ref = icache[t].ref + One(Entry(icache, i) = t) /\ Iget(icache, i)[t].lock = icache[t].lock
                /\ icache[t].ref > 0 => Same(icache[t], Iget(icache, i)[t])
                /\ icache[t].ref = 0 /\ Iget(icache, i)[t].ref > 0 => t = Entry(icache, i) /\ Iget(icache, i)[t].valid = FALSE
                /\ t = Entry(icache, i) => Iget(icache, i)[t].inum = i
                /\ t # Entry(icache, i) => Iget(icache, i)[t] = icache[t]
      BY ZenonT(30), <2>3, <3>1, IgetFacts
    <3> QED BY <3>2
  <2>6. /\ c \in [Slots -> Inodes]
        /\ \A t \in Slots : /\ c[t].ref = icache[t].ref + One(s = t)
                            /\ icache[t].ref > 0 => Same(icache[t], c[t])
                            /\ t = s => c[t].inum = i
                            /\ t # s => c[t] = icache[t]
    BY <1>7, <2>1, <2>5
  <2>7. /\ icache'[s].inum = c[s].inum /\ icache'[s].valid = c[s].valid /\ icache'[s].ref = c[s].ref
        /\ \A t \in Slots \ {s} : icache'[t] = c[t]
    BY <2>2, <2>4, <2>6 DEF Inodes
  <2>8. /\ icache'[s].inum = i
        /\ \A t \in Slots : /\ icache'[t].ref = icache[t].ref + One(s = t)
                            /\ t # s => icache'[t] = icache[t]
                            /\ icache[t].ref > 0 => icache'[t].inum = icache[t].inum /\ icache'[t].valid = icache[t].valid
    BY <2>4, <2>6, <2>7 DEF Same
  <2>9. disk'[i].type # "free" /\ disk'[i].nlink = 0 /\ \A j \in Inums \ {i} : disk'[j] = disk[j]
    BY <1>4, <1>7, <2>3 DEF Free
  <2>10. /\ DOMAIN m = DOMAIN l /\ m.pc = "lock" /\ m.locked = "newinode" /\ m.want = s /\ m.ip = s /\ m.dp = l.ip
         /\ m.old = l.old /\ m.put = l.put /\ m.cwd = l.cwd /\ m.fd = l.fd /\ m.name = l.name
    BY <1>2, <2>0 DEF Lock, Fields
  <2> QED BY <1>7, <2>2, <2>4, <2>8, <2>9, <2>10 DEF CreateNewDone
<1> QED BY <1>5, <1>6, <1>7

LEMMA CreateNewLinks ==
  ASSUME IInv, IInv', LInv, RemovedUnused, NEW p \in Procs, CreateNew(p)
  PROVE  LInv'
<1>a. PICK l : l = proc[p]
  OBVIOUS
<1>b. PICK u : u = l.ip
  OBVIOUS
<1>c. PICK up : up = Inum(u)
  OBVIOUS
<1>1. l.pc = "creating" /\ l.pc \in Ordinary
  BY <1>a DEF CreateNew, At, Ordinary, IpPoints, FoundPoints, ParentPoints
<1>2. /\ DOMAIN l = Fields /\ u \in Slots /\ l.dp = None /\ l.put = None /\ l.old = None
      /\ Place(l) = "creating" /\ proc[p].pc # "put2" /\ icache[u].ref > 0 /\ up \in Inums
  <2>1. /\ DOMAIN l = Fields /\ l.ip \in Slots /\ l.dp = None /\ l.put = None
        /\ l.old \in Slots \cup {None} /\ (l.old # None <=> l.pc \in {"linking", "notlinked"})
        /\ Place(l) = l.pc /\ proc[p].pc # "put2" /\ icache[l.ip].ref > 0 /\ icache[l.ip].inum \in Inums
    BY <1>1, <1>a, OrdinaryHere
  <2> QED BY <1>1, <1>b, <1>c, <2>1 DEF Inum
<1>3. IsDir(up) /\ InPlace(up)
  <2>1. IsDir(up)
    BY <1>2, <1>a, <1>b, <1>c DEF IInv, Kinds, ParentPoints, TypeAt, IsDir, Inum
  <2>2. InPlace(up)
    BY <1>1, <1>a, <1>b, <1>c DEF RemovedUnused, InPlace, Inum
  <2> QED BY <2>1, <2>2
<1>4. (\E w : Panic(w)) \/ \E m, s, i : CreateNewDone(p, l, m, s, i) /\ l.name \notin DOMAIN data[up]
  BY <1>a, <1>b, <1>c, CreateNewFacts
<1>5. CASE \E w : Panic(w)
  BY <1>5, PanicLinks DEF Panic
<1>6. CASE \E m, s, i : CreateNewDone(p, l, m, s, i) /\ l.name \notin DOMAIN data[up]
  <2>0. PICK m, s, i : CreateNewDone(p, l, m, s, i) /\ l.name \notin DOMAIN data[up]
    BY <1>6
  <2>1. /\ proc' = [proc EXCEPT ![p] = m] /\ data' = data /\ s \in Slots /\ i \in Inums
        /\ disk[i].type = "free" /\ disk'[i].type # "free" /\ disk'[i].nlink = 0
        /\ \A j \in Inums \ {i} : disk'[j] = disk[j]
        /\ icache'[s].inum = i
    BY <2>0 DEF CreateNewDone
  <2>2. \A t \in Slots : /\ icache'[t].ref = icache[t].ref + One(s = t)
                         /\ t # s => icache'[t] = icache[t]
                         /\ icache[t].ref > 0 => icache'[t].inum = icache[t].inum /\ icache'[t].valid = icache[t].valid
    BY <2>0 DEF CreateNewDone
  <2>3. icache[s].ref = 0 => \A t \in Slots : icache[t].ref > 0 => icache[t].inum # i
    BY <2>0 DEF CreateNewDone
  <2>4. /\ DOMAIN m = DOMAIN l /\ m.pc = "lock" /\ m.locked = "newinode" /\ m.want = s /\ m.ip = s /\ m.dp = l.ip
        /\ m.old = l.old /\ m.put = l.put /\ m.cwd = l.cwd /\ m.fd = l.fd /\ m.name = l.name
    BY <2>0 DEF CreateNewDone
  <2>5. \A t \in Slots : icache[t].ref \in Nat
    BY DEF IInv, DiskTypes, Inodes
  <2>6. Moved(p, m)
    BY <2>1, <2>2 DEF Moved, IInv, DiskTypes
  <2>7. proc'[p] = m /\ \A q \in Procs \ {p} : proc'[q] = proc[q]
    BY <2>6, MovedOthers
  <2>8. Place(m) = "newinode" /\ Aim(m) = "newinode" /\ Owed(m) = None /\ m.pc # "put2"
    BY <2>4 DEF Place, Waits, Putting, Aim, WalkPoints, Owed, OldPoints
  <2>9. Owed(proc[p]) = None /\ ~Makes(p)
    BY <1>2, <1>a DEF Makes, Owed, Aim, WalkPoints, OldPoints
  <2>10. \A t \in Slots : icache'[t].ref >= icache[t].ref /\ icache'[s].ref > 0
    BY <2>1, <2>2, <2>5 DEF One
  <2>11. icache[s].ref > 0 => Inum(s) = i
    BY <2>1, <2>2 DEF Inum
  <2>12. \A t \in Slots \ {s} : icache[t].ref > 0 => Inum(t) # i
    <3>1. CASE icache[s].ref = 0
      BY <2>3, <3>1 DEF Inum
    <3>2. CASE icache[s].ref > 0
      BY <2>1, <2>11, <3>2, OneSlot
    <3> QED BY <2>1, <2>5, <3>1, <3>2
  <2>13. i # up
    BY <1>3, <2>1 DEF IsDir
  <2>14. disk[i].nlink = 0 /\ data[i] = NoData
    BY <2>1 DEF LInv, Live, IInv, Contents
  <2>15. LinksTo(i) = {} /\ Owing(i) = {} /\ Names(i) = {} /\ ~InPlace(i)
    BY <2>1, <2>14, NoLinks
  <2>16. \A j : Names(j)' = Names(j) /\ (InPlace(j)' <=> InPlace(j)) /\ LinksTo(j)' = LinksTo(j)
    <3>1. ~InTree(disk, data, i)
      BY <2>15 DEF InPlace
    <3>2. Bare(disk, data, i) /\ Bare(disk', data', i)
      <4>1. DOMAIN data[i] = {} /\ data'[i] = data[i]
        BY <2>1, <2>14 DEF NoData
      <4> QED BY <4>1 DEF Bare
    <3>3. \A j \in Inums \ {i} : disk'[j].type = disk[j].type /\ (disk[j].type = "DIR" => data'[j] = data[j])
      BY <2>1
    <3>4. \A j : /\ NamesOf(disk', data', j) = NamesOf(disk, data, j) /\ (InTree(disk', data', j) <=> InTree(disk, data, j))
                 /\ LinksOf(disk', data', j) = LinksOf(disk, data, j)
      BY <3>1, <3>2, <3>3, SameLinks
    <3> QED BY <3>4 DEF Names, InPlace, LinksTo
  <2>17. \A q \in Procs : Makes(q) => q # p /\ proc[q].ip # s /\ Inum(proc[q].ip) # i
    <3> SUFFICES ASSUME NEW q \in Procs, Makes(q) PROVE q # p /\ proc[q].ip # s /\ Inum(proc[q].ip) # i
      OBVIOUS
    <3>1. proc[q].ip \in Slots /\ icache[proc[q].ip].ref > 0 /\ TypeAt(proc[q].ip) # "free"
      BY MakesFacts
    <3>2. Inum(proc[q].ip) # i
      BY <2>1, <3>1 DEF TypeAt, Inum
    <3> QED BY <2>9, <2>11, <3>1, <3>2
  <2>18. \A j : Fresh(j)' <=> Fresh(j) \/ j = i
    <3>1. Fresh(i)'
      <4>1. Makes(p)' /\ Inum(proc[p].ip)' = i
        BY <2>1, <2>4, <2>7, <2>8 DEF Makes, Inum
      <4> QED BY <4>1 DEF Fresh
    <3>2. ASSUME NEW j, Fresh(j) PROVE Fresh(j)'
      <4>1. PICK q \in Procs : Makes(q) /\ Inum(proc[q].ip) = j
        BY <3>2 DEF Fresh
      <4>2. proc[q].ip \in Slots /\ icache[proc[q].ip].ref > 0 /\ proc'[q] = proc[q]
        BY <2>7, <2>17, <4>1, MakesFacts
      <4>3. Makes(q)' /\ Inum(proc[q].ip)' = j
        BY <2>2, <4>1, <4>2 DEF Makes, Inum
      <4> QED BY <4>3 DEF Fresh
    <3>3. ASSUME NEW j, Fresh(j)', j # i PROVE Fresh(j)
      <4>1. PICK q \in Procs : Makes(q)' /\ Inum(proc[q].ip)' = j
        BY <3>3 DEF Fresh
      <4>2. q # p
        <5> SUFFICES ASSUME q = p PROVE FALSE
          OBVIOUS
        <5>1. Inum(proc[p].ip)' = i
          BY <2>1, <2>4, <2>7 DEF Inum
        <5> QED BY <3>3, <4>1, <5>1
      <4>3. Makes(q) /\ proc'[q] = proc[q]
        BY <2>7, <4>1, <4>2 DEF Makes
      <4>4. proc[q].ip \in Slots /\ icache[proc[q].ip].ref > 0
        BY <4>3, MakesFacts
      <4>5. Inum(proc[q].ip) = j
        BY <2>2, <4>1, <4>3, <4>4 DEF Inum
      <4> QED BY <4>3, <4>5 DEF Fresh
    <3> QED BY <3>1, <3>2, <3>3
  <2>19. ASSUME NEW v \in Pointers, NEW t \in Slots, Ptr(m, v) = t
         PROVE  (v = "ip" /\ t = s) \/ Ptr(proc[p], v) = t \/ (t = u)
    BY <1>2, <1>a, <1>b, <2>4, <2>19 DEF Ptr, Pointers
  <2>20. \A v \in Pointers, t \in Slots : Ptr(m, v) = t /\ icache[t].ref > 0 /\ Lonely(t) => v = "ip" /\ t = s
    <3> SUFFICES ASSUME NEW v \in Pointers, NEW t \in Slots, Ptr(m, v) = t, icache[t].ref > 0, Lonely(t), ~(v = "ip" /\ t = s)
                 PROVE  FALSE
      OBVIOUS
    <3>1. PICK w \in Pointers : Pointer(p, w) = t
      <4>1. Pointer(p, "ip") = u /\ "ip" \in Pointers
        BY <1>a, <1>b DEF Pointer, Pointers
      <4> QED BY <2>19, <4>1 DEF Pointer, Ptr
    <3> QED BY <1>2, <2>9, <3>1 DEF Lonely
  <2>21. icache[s].ref > 0 => Lonely(s)
    <3> SUFFICES ASSUME icache[s].ref > 0 PROVE Lonely(s)
      OBVIOUS
    <3>1. Freeing(s)
      BY <2>1, <2>11 DEF LInv, Live
    <3> QED BY <3>1 DEF Freeing, LInv, Alone
  <2>22. \A t \in Slots : icache[t].ref > 0 /\ Lonely(t) => Lonely(t)'
    <3> SUFFICES ASSUME NEW t \in Slots, icache[t].ref > 0, Lonely(t),
                        NEW r \in Procs, NEW v \in Pointers, Pointer(r, v)' = t
                 PROVE  ((Makes(r) /\ v = "ip") \/ (proc[r].pc = "put2" /\ v = "put"))'
      BY DEF Lonely
    <3>1. CASE r = p
      <4>1. Ptr(m, v) = t
        BY <2>7, <3>1 DEF Pointer, Ptr
      <4> QED BY <2>7, <2>8, <2>20, <3>1, <4>1 DEF Makes
    <3>2. CASE r # p
      <4>1. proc'[r] = proc[r]
        BY <2>7, <3>2
      <4>2. Pointer(r, v) = t
        BY <4>1 DEF Pointer
      <4>3. (Makes(r) /\ v = "ip") \/ (proc[r].pc = "put2" /\ v = "put")
        BY <4>2 DEF Lonely
      <4> QED BY <4>1, <4>3 DEF Makes
    <3> QED BY <3>1, <3>2
  <2>23. Lonely(s)'
    <3>1. CASE icache[s].ref > 0
      BY <2>1, <2>21, <2>22, <3>1
    <3>2. CASE icache[s].ref = 0
      <4> SUFFICES ASSUME NEW r \in Procs, NEW v \in Pointers, Pointer(r, v)' = s
                   PROVE  (Makes(r) /\ v = "ip")'
        BY DEF Lonely
      <4>1. \A q \in Procs, w \in Pointers : Pointer(q, w) # s
        BY <2>1, <3>2, PointersCount DEF Points
      <4>2. r = p
        <5> SUFFICES ASSUME r # p PROVE FALSE
          OBVIOUS
        <5>1. proc'[r] = proc[r]
          BY <2>7
        <5> QED BY <4>1, <5>1 DEF Pointer
      <4>3. Ptr(m, v) = s
        BY <2>7, <4>2 DEF Pointer, Ptr
      <4>4. v = "ip"
        BY <1>2, <2>1, <2>19, <3>2, <4>1, <4>3 DEF Pointer, Ptr
      <4> QED BY <2>7, <2>8, <4>2, <4>4 DEF Makes
    <3> QED BY <2>1, <2>5, <3>1, <3>2
  <2>24. Alone'
    <3>1. ASSUME NEW q \in Procs \ {p}, NEW j \in Inums, Makes(q), Inum(proc[q].ip) = j
          PROVE  disk'[j].nlink = 0 /\ data'[j] = NoData
      <4>1. j # i
        BY <2>17, <3>1
      <4> QED BY <2>1, <3>1, <4>1 DEF LInv, Alone
    <3>2. ASSUME NEW t \in Slots, NEW j \in Inums, Place(m) = "newinode", m.ip = t, icache'[t].inum = j
          PROVE  /\ disk'[j].nlink = 0 /\ data'[j] = NoData /\ Lonely(t)'
                 /\ \A q \in Procs \ {p} : Makes(q) => proc[q].ip # t
      <4>1. t = s /\ j = i
        BY <2>1, <2>4, <3>2
      <4> QED BY <2>1, <2>14, <2>17, <2>23, <4>1
    <3>3. ASSUME NEW q \in Procs \ {p}, NEW j \in Inums, proc[q].pc = "put2", Inum(proc[q].put) = j
          PROVE  disk'[j].type = "free" \/ Fresh(j)'
      <4>1. disk[j].type = "free" \/ Fresh(j)
        BY <3>3 DEF LInv, Alone
      <4> QED BY <2>1, <2>18, <4>1
    <3>4. \A q \in Procs \ {p}, t \in Slots : icache[t].ref > 0 /\ Lonely(t)
             /\ ((Makes(q) /\ proc[q].ip = t) \/ (proc[q].pc = "put2" /\ proc[q].put = t)) => Lonely(t)'
      BY <2>22
    <3> QED BY <2>6, <2>8, <3>1, <3>2, <3>3, <3>4, AloneBy
  <2>25. Knowing'
    <3>1. ASSUME NEW q \in Procs \ {p}, NEW j \in Inums, Aim(proc[q]) \in OldPoints \cup {"linked"}, Inum(proc[q].old) = j
          PROVE  disk'[j].type = disk[j].type
      <4>1. disk[j].type # "free"
        BY <3>1 DEF LInv, Knowing, KnowsLinks
      <4> QED BY <2>1, <4>1
    <3>2. ASSUME NEW q \in Procs \ {p}, NEW j \in Inums, Place(proc[q]) \in {"newinode", "victim"}, Inum(proc[q].dp) = j
          PROVE  disk'[j].type = disk[j].type /\ data'[j] = data[j] /\ (Place(proc[q]) = "newinode" => InPlace(j)')
      <4>1. IsDir(j) /\ (Place(proc[q]) = "newinode" => InPlace(j))
        BY <3>2 DEF LInv, Knowing, KnowsLinks
      <4>2. j # i
        BY <2>1, <4>1 DEF IsDir
      <4> QED BY <2>1, <2>16, <4>1, <4>2
    <3>3. KnowsLinks(m)'
      <4>1. icache'[m.dp].inum = up
        BY <1>2, <1>b, <1>c, <2>2, <2>4 DEF Inum
      <4>2. IsDir(up)' /\ InPlace(up)'
        BY <1>2, <1>3, <2>1, <2>13, <2>16 DEF IsDir
      <4>3. m.name \notin DOMAIN data'[up]
        BY <2>0, <2>1, <2>4
      <4>4. disk'[icache'[m.dp].inum].type = "DIR" /\ m.name \notin DOMAIN data'[icache'[m.dp].inum]
            /\ InTree(disk', data', icache'[m.dp].inum)
        BY <4>1, <4>2, <4>3 DEF IsDir, InPlace
      <4> QED BY <2>8, <4>4 DEF KnowsLinks, IsDir, InPlace, Inum, OldPoints
    <3> QED BY <2>6, <3>1, <3>2, <3>3, KnowingKept
  <2>26. Live'
    <3>1. ASSUME NEW j \in Inums, disk'[j].type = "free" PROVE disk'[j].nlink = 0
      BY <2>1, <3>1 DEF LInv, Live
    <3>2. \A t \in Slots \ {s} : icache'[t] = icache[t] /\ (icache[t].ref > 0 => Inum(t) \in Inums \ {i})
      BY <2>2, <2>12 DEF IInv, Cached, Inum
    <3>3. ASSUME NEW t \in Slots, icache'[t].ref > 0 PROVE (disk[Inum(t)].type # "free" \/ Freeing(t))'
      <4>1. CASE t = s
        BY <2>1, <4>1 DEF Inum
      <4>2. CASE t # s
        <5>1. disk[Inum(t)].type # "free" \/ Freeing(t)
          BY <3>2, <3>3, <4>2 DEF LInv, Live
        <5>2. Freeing(t) => Freeing(t)'
          BY <1>2, <2>7 DEF Freeing
        <5> QED BY <2>1, <3>2, <3>3, <4>2, <5>1, <5>2 DEF Inum
      <4> QED BY <4>1, <4>2
    <3>4. ASSUME NEW t \in Slots, icache'[t].ref > 0, ~icache'[t].valid PROVE (disk[Inum(t)].nlink # 0 \/ Fresh(Inum(t)))'
      <4>1. CASE t = s
        <5>1. Fresh(i)' /\ icache'[t].inum = i
          BY <2>1, <2>18, <4>1
        <5> QED BY <5>1 DEF Fresh, Inum
      <4>2. CASE t # s
        <5>1. PICK j \in Inums \ {i} : j = Inum(t)
          BY <3>2, <3>4, <4>2
        <5>2. disk[j].nlink # 0 \/ Fresh(j)
          BY <3>2, <3>4, <4>2, <5>1 DEF LInv, Live
        <5>3. disk'[j].nlink # 0 \/ Fresh(j)'
          BY <2>1, <2>18, <5>2
        <5>4. icache'[t].inum = j
          BY <3>2, <4>2, <5>1 DEF Inum
        <5> QED BY <5>3, <5>4 DEF Fresh, Inum
      <4> QED BY <4>1, <4>2
    <3>5. ASSUME NEW j \in Inums, disk'[j].type # "free", disk'[j].nlink = 0
          PROVE  \E t \in Slots : icache'[t].ref > 0 /\ icache'[t].inum = j
      <4>1. CASE j = i
        BY <2>1, <2>10, <4>1
      <4>2. CASE j # i
        <5>1. PICK t \in Slots : icache[t].ref > 0 /\ Inum(t) = j
          BY <2>1, <3>5, <4>2 DEF LInv, Live
        <5>2. icache'[t].ref > 0 /\ icache'[t].inum = j
          BY <2>2, <2>5, <2>10, <5>1 DEF Inum
        <5> QED BY <5>2
      <4> QED BY <4>1, <4>2
    <3> QED BY <3>1, <3>3, <3>4, <3>5 DEF Live, Inum
  <2>27. Tree'
    <3>1. Root \in Inums /\ IsDir(Root) /\ Root # i
      BY <2>1, RootHasLinks DEF IsDir
    <3>2. /\ IsDir(Root)' /\ Names(Root)' = {} /\ ".." \in DOMAIN data'[Root] /\ data'[Root][".."] = Root
      BY <2>1, <2>16, <3>1 DEF LInv, Tree, IsDir
    <3>3. ASSUME NEW j \in Inums, IsDir(j)'
          PROVE  /\ ~Fresh(j)' => DotNames \subseteq DOMAIN data'[j] /\ data'[j]["."] = j
                 /\ Names(j)' # {} => \E n : Names(j)' = {<<data'[j][".."], n>>}
                 /\ ~InPlace(j)' => DOMAIN data'[j] \subseteq DotNames
      <4>1. CASE j = i
        <5>1. DOMAIN data'[j] = {}
          BY <2>1, <2>14, <4>1 DEF NoData
        <5> QED BY <2>15, <2>16, <2>18, <4>1, <5>1
      <4>2. CASE j # i
        <5>1. IsDir(j) /\ data'[j] = data[j]
          BY <2>1, <3>3, <4>2 DEF IsDir
        <5> QED BY <2>16, <2>18, <4>2, <5>1 DEF LInv, Tree
      <4> QED BY <4>1, <4>2
    <3> QED BY <3>2, <3>3 DEF Tree
  <2>28. Counted'
    <3> SUFFICES ASSUME NEW j \in Inums
                 PROVE  /\ IsFiniteSet(LinksTo(j)')
                        /\ disk'[j].nlink = Cardinality(LinksTo(j)') + Cardinality(Owing(j)')
      BY DEF Counted
    <3>1. IsFiniteSet(LinksTo(j)) /\ disk[j].nlink = Cardinality(LinksTo(j)) + Cardinality(Owing(j))
      BY DEF LInv, Counted
    <3>2. Owing(j)' = Owing(j)
      BY <2>6, <2>8, <2>9, OwingStep
    <3>3. disk'[j].nlink = disk[j].nlink
      BY <2>1, <2>14
    <3> QED BY <2>16, <3>1, <3>2, <3>3
  <2> QED BY <2>24, <2>25, <2>26, <2>27, <2>28 DEF LInv
<1> QED BY <1>4, <1>5, <1>6


-----------------------------------------------------------------------------
(* The links are counted.                                                  *)

LEMMA FiniteEntries ==
  ASSUME NEW k, NEW d, \A i \in Inums : k[i].type = "DIR" => IsFiniteSet(DOMAIN d[i])
  PROVE  IsFiniteSet(EntriesOf(k, d))
<1> DEFINE D == {x \in Inums : k[x].type = "DIR"}
           R == {DOMAIN d[x] : x \in D}
           f == [x \in D |-> DOMAIN d[x]]
<1>1. IsFiniteSet(Inums)
  BY FsAssumption, FS_Interval DEF FsAssumption, Inums
<1>2. IsFiniteSet(D)
  BY <1>1, FS_Subset
<1>3. f \in Surjection(D, R)
  BY DEF Surjection
<1>4. IsFiniteSet(R)
  BY <1>2, <1>3, FS_Surjection
<1>5. IsFiniteSet(UNION R)
  BY <1>4, FS_UNION
<1>6. IsFiniteSet(Inums \X UNION R)
  BY <1>1, <1>5, FS_Product
<1>7. EntriesOf(k, d) \subseteq Inums \X UNION R
  <2> SUFFICES ASSUME NEW e \in EntriesOf(k, d) PROVE e \in Inums \X UNION R
    OBVIOUS
  <2>1. PICK x \in D : e \in {<<x, y>> : y \in DOMAIN d[x]}
    BY DEF EntriesOf
  <2>2. PICK y \in DOMAIN d[x] : e = <<x, y>>
    BY <2>1
  <2>3. y \in UNION R
    OBVIOUS
  <2> QED BY <2>2, <2>3
<1> QED BY <1>6, <1>7, FS_Subset

LEMMA InitLinks ==
  ASSUME Init
  PROVE  LInv
<1> DEFINE image == setup.image
<1>1. disk = ImageDisk(image) /\ data = ImageData(image) /\ image = setup.image /\ setup \in Setups
  BY DEF Init
<1>2. /\ \A i \in DOMAIN image : image[i].inode.type # "free" /\ image[i].inode.nlink \in Nat \ {0}
      /\ IsTree(disk, data)
      /\ \A i \in Inums : disk[i].nlink = Cardinality(LinksOf(disk, data, i))
  <2>1. IsImage(setup.image)
    BY <1>1, SetupsAssumption DEF SetupsAssumption
  <2>2. \A i \in DOMAIN image : image[i].inode \in
           [type : {"DIR", "FILE", "SYMLINK"}, perm : SUBSET M_ALL, nlink : Nat \ {0}, addrs : SUBSET Blocks]
    BY <2>1 DEF IsImage
  <2> QED BY <1>1, <2>1, <2>2 DEF IsImage
<1>3. \A i \in Inums : (disk[i].type = "free" => disk[i].nlink = 0) /\ (disk[i].type # "free" => disk[i].nlink # 0)
  <2>1. \A i \in Inums : disk[i] = IF i \in DOMAIN image THEN image[i].inode ELSE Free
    BY <1>1 DEF ImageDisk
  <2> QED BY <1>2, <2>1 DEF Free
<1>4. \A p \in Procs : proc[p].pc = "idle"
  BY DEF Init, Idle
<1>5. \A p \in Procs : Place(proc[p]) = "idle" /\ Aim(proc[p]) = "idle" /\ Owed(proc[p]) = None /\ ~Makes(p)
  BY <1>4 DEF Place, Waits, Putting, Aim, WalkPoints, Owed, OldPoints, Makes
<1>6. \A s \in Slots : icache[s].ref > 0 => icache[s].inum = Root
  <2>1. \A s \in Slots \ {1} : icache[s].ref = 0
    BY DEF Init, NoInode
  <2>2. 1 \in Slots => icache[1].inum = Root
    BY DEF Init, NoInode
  <2> QED BY <2>1, <2>2
<1>7. Root \in Inums /\ IsDir(Root)
  BY <1>2, FsAssumption DEF FsAssumption, Inums, Root, IsTree, IsDir
<1>8. Tree
  <2>1. ASSUME NEW i \in Inums, IsDir(i)
        PROVE  /\ DotNames \subseteq DOMAIN data[i] /\ data[i]["."] = i
               /\ Names(i) # {} => \E n : Names(i) = {<<data[i][".."], n>>}
               /\ InPlace(i)
    <3>1. /\ DotNames \subseteq DOMAIN data[i] /\ data[i]["."] = i
          /\ i # Root => \E n \in DOMAIN data[data[i][".."]] : Names(i) = {<<data[i][".."], n>>}
          /\ i = Root => Names(i) = {}
      BY <1>2, <2>1 DEF IsTree, IsDir, Names
    <3> QED BY <3>1 DEF InPlace, InTree, Names
  <2>2. Names(Root) = {} /\ ".." \in DOMAIN data[Root] /\ data[Root][".."] = Root
    BY <1>2, <1>7, <2>1 DEF IsTree, Names, DotNames
  <2> QED BY <1>7, <2>1, <2>2 DEF Tree
<1>9. Counted
  <2> SUFFICES ASSUME NEW i \in Inums
               PROVE  IsFiniteSet(LinksTo(i)) /\ disk[i].nlink = Cardinality(LinksTo(i)) + Cardinality(Owing(i))
    BY DEF Counted
  <2>1. IsFiniteSet(EntriesOf(disk, data))
    BY <1>2, FiniteEntries DEF IsTree
  <2>2. IsFiniteSet(LinksTo(i))
    <3>1. LinksTo(i) \subseteq EntriesOf(disk, data)
      BY DEF LinksTo, LinksOf
    <3> QED BY <2>1, <3>1, FS_Subset
  <2>3. Owing(i) = {}
    BY <1>5 DEF Owing
  <2>4. Cardinality(Owing(i)) = 0 /\ Cardinality(LinksTo(i)) \in Nat
    BY <2>2, <2>3, FS_EmptySet, FS_CardinalityType
  <2>5. disk[i].nlink = Cardinality(LinksTo(i))
    BY <1>2 DEF LinksTo
  <2> QED BY <2>2, <2>4, <2>5
<1>10. Alone
  BY <1>4, <1>5 DEF Alone
<1>11. Knowing
  BY <1>5 DEF Knowing, KnowsLinks, OldPoints
<1>12. Live
  BY <1>3, <1>6, <1>7 DEF Live, Inum, IsDir
<1> QED BY <1>8, <1>9, <1>10, <1>11, <1>12 DEF LInv

LEMMA NextLinks ==
  ASSUME IInv, IInv', LInv, RemovedUnused, [Next]_vars
  PROVE  LInv'
<1>1. CASE UNCHANGED vars
  BY <1>1, PanicLinks DEF vars
<1>2. ASSUME NEW p \in Procs, Enter(p) PROVE LInv'
  BY <1>2, EnterLinks
<1>3. ASSUME NEW p \in Procs, Continue(p) PROVE LInv'
  <2>1. CASE Ilock(p) \/ Iput(p) \/ Iput2(p)
    BY <2>1, IlockLinks, IputLinks, Iput2Links
  <2>2. CASE Look(p) \/ Link(p) \/ ReadLink(p) \/ Follow(p)
    BY <2>2, LookLinks, LinkLinks, ReadLinkLinks, FollowLinks
  <2>3. CASE CreateOld(p) \/ Exists(p) \/ CreateNew(p) \/ NewInode(p) \/ Created(p)
    BY <2>3, CreateOldLinks, ExistsLinks, CreateNewLinks, NewInodeLinks, CreatedLinks
  <2>4. CASE OpenLink(p) \/ OpenCheck(p) \/ Install(p) \/ Chmod(p) \/ Chdir(p)
    BY <2>4, OpenLinkLinks, OpenCheckLinks, InstallLinks, ChmodLinks, ChdirLinks
  <2>5. CASE Unlinking(p) \/ Victim(p) \/ UnlinkBad(p) \/ Unlinked(p)
    BY <2>5, UnlinkingLinks, VictimLinks, LeaveLinks, UnlinkedLinks
  <2>6. CASE LinkOld(p) \/ Linking(p) \/ NotLinked(p) \/ Linked(p) \/ LinkBad(p)
    BY <2>6, LinkOldLinks, LinkingLinks, NotLinkedLinks, LeaveLinks, LinkBadLinks
  <2>7. CASE Write(p) \/ GetDiskLbn(p)
    BY <2>7, FileLinks, GetDiskLbnLinks
  <2> QED BY <1>3, <2>1, <2>2, <2>3, <2>4, <2>5, <2>6, <2>7 DEF Continue
<1> QED BY <1>1, <1>2, <1>3 DEF Next

LEMMA SoundLinks ==
  ASSUME IInv, LInv
  PROVE  NothingDangles /\ LinksExactWhenQuiet
<1>1. ASSUME NEW i \in Inums
      PROVE  /\ disk[i].nlink = Cardinality(LinksTo(i)) + Cardinality(Owing(i))
             /\ Cardinality(LinksTo(i)) \in Nat /\ Cardinality(Owing(i)) \in Nat
  BY FS_CardinalityType, OwingFinite DEF LInv, Counted
<1>2. NothingDangles
  BY <1>1 DEF NothingDangles
<1>3. ASSUME Quiet, NEW i \in Alive
      PROVE  /\ disk[i].nlink = Cardinality(LinksTo(i))
             /\ disk[i].nlink = 0 => \E s \in Slots : icache[s].ref > 0 /\ icache[s].inum = i
  <2>1. i \in Inums /\ disk[i].type # "free"
    BY DEF Alive
  <2>2. \A p \in Procs : Owed(proc[p]) = None
    BY <1>3 DEF Quiet, Place, Waits, Putting, Aim, WalkPoints, Owed, OldPoints
  <2>3. Owing(i) = {}
    BY <2>2 DEF Owing
  <2>4. Cardinality(Owing(i)) = 0
    BY <2>3, FS_EmptySet
  <2> QED BY <1>1, <2>1, <2>4 DEF LInv, Live, Inum
<1> QED BY <1>2, <1>3 DEF LinksExactWhenQuiet

\* As long as nobody uses a directory that has been removed, no entry names a free
\* inode, nlink never counts less than there is, and what nobody can reach is free
\* when no call is in progress, however the calls of any number of processes
\* interleave. (A directory that has been removed may be used: create() and link()
\* do not look whether theirs has been, nor does namex() for "..".)
THEOREM FsLinksExact == Spec /\ []RemovedUnused => [](NothingDangles /\ LinksExactWhenQuiet)
<1>1. Init => LInv
  BY InitLinks
<1>2. IInv /\ IInv' /\ LInv /\ RemovedUnused /\ [Next]_vars => LInv'
  BY NextLinks
<1>3. IInv /\ LInv => NothingDangles /\ LinksExactWhenQuiet
  BY SoundLinks
<1> QED BY <1>1, <1>2, <1>3, FsInvariant, PTL DEF Spec


-----------------------------------------------------------------------------
(* No assertion fails.                                                     *)

\* The kernel stops when there is no inode, entry of the inode cache, block or stack left.
OutOfRoom == panicked \in {"iget: no inodes", "ialloc: no inodes", "balloc: out of blocks", "kernel stack overflow"}
Goes == panicked = "" \/ OutOfRoom

\* Who drops the last reference to an inode finds it unlocked.
LEMMA LastUnlocked ==
  ASSUME IInv, NEW p \in Procs, proc[p].pc = "put", NEW s, s = proc[p].put, icache[s].ref = 1
  PROVE  icache[s].lock = None
<1>1. s \in Slots
  BY DEF IInv, Controls, Control, Shape, Pointed, Putting, None
<1>2. icache[s].lock \in Procs \cup {None}
  BY <1>1 DEF IInv, DiskTypes, Inodes
<1> SUFFICES ASSUME NEW q \in Procs, icache[s].lock = q PROVE FALSE
  BY <1>2
<1>3. Held(proc[q], s)
  BY <1>1 DEF IInv, Locks
<1>4. \E v \in Pointers : Pointer(q, v) = s /\ <<q, v>> # <<p, "put">>
  <2>1. CASE proc[q].pc = "put2"
    <3>1. Control(proc[q])
      BY DEF IInv, Controls
    <3>2. q # p
      BY <2>1
    <3>3. s \in {proc[q].ip, proc[q].dp, proc[q].old, proc[q].put, proc[q].fd.ip}
      BY <1>3 DEF Held, Main
    <3> QED BY <3>2, <3>3 DEF Pointer, Pointers
  <2>2. CASE proc[q].pc # "put2"
    <3>1. s \in {proc[q].ip, proc[q].dp, proc[q].old, proc[q].fd.ip}
      BY <1>3, <2>2 DEF Held, Main
    <3> QED BY <3>1 DEF Pointer, Pointers
  <2> QED BY <2>1, <2>2
<1>5. PICK v \in Pointers : Pointer(q, v) = s /\ <<q, v>> # <<p, "put">>
  BY <1>4
<1>6. <<q, v>> \in Holders(s) /\ <<p, "put">> \in Holders(s)
  BY <1>5 DEF Holders, Pointer, Pointers
<1>7. IsFiniteSet(Holders(s)) /\ Cardinality(Holders(s)) = 1
  BY <1>1, HoldersFinite DEF IInv, Refs
<1> QED BY <1>5, <1>6, <1>7, FS_Singleton

LEMMA NextGoes ==
  ASSUME IInv, LInv, NoBmapCall, Goes, [Next]_vars
  PROVE  Goes'
<1>0. ASSUME UNCHANGED panicked PROVE Goes'
  BY <1>0 DEF Goes, OutOfRoom
<1>1. CASE UNCHANGED vars
  BY <1>0, <1>1 DEF vars
<1>a. \A p, l, c : (Step(p, l, c) \/ Peek(p, l, c)) => Goes'
  BY <1>0 DEF Peek, Step
<1>b. \A w \in {"iget: no inodes", "ialloc: no inodes", "balloc: out of blocks", "kernel stack overflow"} : Panic(w) => Goes'
  BY DEF Panic, Goes, OutOfRoom
<1>c. \A p, l, path : StartWalk(p, l, path) => Goes'
  BY <1>a, <1>b DEF StartWalk
<1>2. ASSUME NEW p \in Procs, Enter(p) PROVE Goes'
  BY <1>2, <1>a, <1>c, CallsKnown DEF Enter, CallNames
<1>3. ASSUME NEW p \in Procs, Ilock(p) PROVE Goes'
  <2> DEFINE s == proc[p].want
  <2>1. proc[p].pc = "lock" /\ icache[s].lock = None
    BY <1>3 DEF Ilock, At
  <2>2. s \in Slots /\ icache[s].ref > 0
    <3>1. Place(proc[p]) \in LockPoints /\ s = Main(proc[p])
      BY <2>1 DEF IInv, Controls, Control, Shape, Pointed, Waits
    <3> QED BY <3>1, MainRef
  <2>3. ~Freeing(s)
    <3> SUFFICES ASSUME NEW q \in Procs, proc[q].pc = "put2", proc[q].put = s PROVE FALSE
      BY DEF Freeing
    <3>1. Held(proc[q], s)
      BY DEF Held
    <3>2. icache[s].lock = q
      BY <3>1, HeldRef
    <3> QED BY <2>1, <3>2, FsAssumption DEF FsAssumption, None
  <2>4. disk[icache[s].inum].type # "free"
    BY <2>2, <2>3 DEF LInv, Live, Inum
  <2>5. \E l, c : Peek(p, l, c)
    BY <1>3, <2>4 DEF Ilock
  <2> QED BY <1>a, <2>5
<1>4. ASSUME NEW p \in Procs, Iput(p) PROVE Goes'
  <2>1. proc[p].pc = "put"
    BY <1>4 DEF Iput, At
  <2>2. icache[proc[p].put].ref = 1 => icache[proc[p].put].lock = None
    BY <2>1, LastUnlocked
  <2>3. \E l, c : Step(p, l, c) \/ Peek(p, l, c)
    BY <1>4, <2>2 DEF Iput
  <2> QED BY <1>a, <2>3
<1>5. ASSUME NEW p \in Procs, Victim(p) PROVE Goes'
  <2>1. PICK l : l = proc[p]
    OBVIOUS
  <2>2. l.pc = "victim"
    BY <1>5, <2>1 DEF Victim, At
  <2>3. PICK s : s = l.ip
    OBVIOUS
  <2>4. PICK u : u = l.dp
    OBVIOUS
  <2>5. /\ s \in Slots /\ u \in Slots /\ Place(l) = "victim"
        /\ Inum(s) \in Inums /\ Inum(u) \in Inums /\ Current(icache[s], disk[Inum(s)])
    BY <2>1, <2>2, <2>3, <2>4, PairHere DEF Inum
  <2>6. KnowsLinks(l)
    BY <2>1 DEF LInv, Knowing
  <2>7. /\ disk[Inum(u)].type = "DIR" /\ l.name \in DOMAIN data[Inum(u)] /\ l.name \notin DotNames
        /\ data[Inum(u)][l.name] = Inum(s)
    BY <2>3, <2>4, <2>5, <2>6 DEF KnowsLinks, IsDir
  <2>8. <<Inum(u), l.name>> \in LinksTo(Inum(s))
    BY <2>5, <2>7, InLinks DEF LinksTo, DotNames
  <2>9. disk[Inum(s)].nlink \in Nat /\ disk[Inum(s)].nlink > 0
    BY <2>5, <2>8, NoLinks
  <2>10. ~(icache[s].nlink < 1)
    BY <2>5, <2>9 DEF Current
  <2>11. \E m, c : Step(p, m, c) \/ Peek(p, m, c)
    BY <1>5, <2>1, <2>3, <2>10 DEF Victim
  <2> QED BY <1>a, <2>11
<1>6. ASSUME NEW p \in Procs, Created(p) PROVE Goes'
  <2>1. proc[p].pc = "created" /\ proc[p].pc \in Ordinary
    BY <1>6 DEF Created, At, Ordinary, IpPoints
  <2>2. Creates(proc[p])
    BY <2>1, OrdinaryHere
  <2> QED BY <1>6, <1>a, <1>b, <2>2 DEF Created, Creates
<1>7. ASSUME NEW p \in Procs PROVE ~GetDiskLbn(p)
  <2>1. GetDiskLbn(p) => proc[p].pc = "bmap"
    BY DEF GetDiskLbn, At
  <2>2. proc[p].pc = "bmap" => Place(proc[p]) = "bmap"
    BY DEF Place, Waits, Putting
  <2> QED BY <2>1, <2>2 DEF IInv, Bmaps
<1>8. ASSUME NEW p \in Procs, Continue(p) PROVE Goes'
  <2>1. CASE Ilock(p) \/ Iput(p) \/ Iput2(p) \/ Victim(p) \/ Created(p)
    BY <1>3, <1>4, <1>5, <1>6, <1>a, <2>1 DEF Iput2
  <2>2. CASE Look(p) \/ Link(p) \/ ReadLink(p) \/ Follow(p)
    BY <1>a, <1>b, <1>c, <2>2 DEF Look, Link, ReadLink, Follow
  <2>3. CASE CreateOld(p) \/ Exists(p) \/ CreateNew(p) \/ NewInode(p)
    BY <1>a, <1>b, <2>3 DEF CreateOld, Exists, CreateNew, NewInode
  <2>4. CASE OpenLink(p) \/ OpenCheck(p) \/ Install(p) \/ Chmod(p) \/ Chdir(p)
    BY <1>a, <2>4 DEF OpenLink, OpenCheck, Install, Chmod, Chdir
  <2>5. CASE Unlinking(p) \/ UnlinkBad(p) \/ Unlinked(p) \/ LinkBad(p) \/ LinkOld(p)
    BY <1>a, <1>b, <2>5 DEF Unlinking, UnlinkBad, Unlinked, LinkBad, LinkOld, Relink
  <2>6. CASE Linking(p) \/ NotLinked(p) \/ Linked(p) \/ Write(p)
    BY <1>a, <1>b, <2>6 DEF Linking, NotLinked, Linked, Write
  <2> QED BY <1>7, <1>8, <2>1, <2>2, <2>3, <2>4, <2>5, <2>6 DEF Continue
<1> QED BY <1>1, <1>2, <1>8 DEF Next

\* ... and the whole disk is sound, and no assertion of fs.c and sysfile.c fails, if
\* nobody calls get_disk_lbn() either and the kernel has not run out of inodes, of
\* entries of the inode cache, of blocks or of stack, for which it panics, too.
THEOREM FsDiskSound == Spec /\ []RemovedUnused => [](NoBmapCall /\ ~OutOfRoom => DiskSound)
<1>1. Init => LInv /\ Goes
  BY InitLinks DEF Init, Goes
<1>2. IInv /\ IInv' /\ LInv /\ RemovedUnused /\ [Next]_vars => LInv'
  BY NextLinks
<1>3. IInv /\ LInv /\ (NoBmapCall => Goes) /\ [Next]_vars => (NoBmapCall => Goes)'
  <2>1. IInv /\ [Next]_vars => setup' = setup
    BY SetupFixed
  <2> QED BY <2>1, NextGoes DEF NoBmapCall
<1>4. NothingDangles /\ LinksExactWhenQuiet /\ (NoBmapCall => BlocksExact) /\ (NoBmapCall => Goes)
        => (NoBmapCall /\ ~OutOfRoom => DiskSound)
  BY DEF DiskSound, Goes, NoPanic
<1> QED BY <1>1, <1>2, <1>3, <1>4, FsInvariant, FsLinksExact, FsBlocksExact, PTL DEF Spec
=============================================================================
