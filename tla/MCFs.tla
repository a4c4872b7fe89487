-------------------------------- MODULE MCFs --------------------------------
(* Disk images and calls for Fs.                                           *)
EXTENDS Fs

Abs(elems) == [abs |-> TRUE, elems |-> elems]
Rel(elems) == [abs |-> FALSE, elems |-> elems]

Open(path, omode) == [fn |-> "open", path |-> path, omode |-> omode]
Mkdir(path) == [fn |-> "mkdir", path |-> path]
Symlink(target, path) == [fn |-> "symlink", path |-> path, target |-> target]
Unlink(path) == [fn |-> "unlink", path |-> path]
LinkCall(old, new) == [fn |-> "link", path |-> old, new |-> new]
ChmodCall(path, mode) == [fn |-> "chmod", path |-> path, mode |-> mode]
ChdirCall(path) == [fn |-> "chdir", path |-> path]
OnFile(fn) == [fn |-> fn]

Dir(parent, self, entries, block, nlink) ==
    [inode |-> [type |-> "DIR", perm |-> M_ALL, nlink |-> nlink, addrs |-> {block}],
     data |-> ("." :> self @@ ".." :> parent) @@ entries]
File(perm, addrs) == [inode |-> [type |-> "FILE", perm |-> perm, nlink |-> 1, addrs |-> addrs], data |-> NoData]
Lnk(target, block) ==
    [inode |-> [type |-> "SYMLINK", perm |-> M_ALL, nlink |-> 1, addrs |-> {block}], data |-> target]

EmptyRoot == (1 :> Dir(1, 1, <<>>, 1, 1))
\* /a a file, /d an empty directory
Flat == (1 :> Dir(1, 1, "a" :> 2 @@ "d" :> 3, 1, 2)) @@ (2 :> File(M_ALL, {2})) @@ (3 :> Dir(1, 3, <<>>, 3, 1))
\* /a a file, /l a link to it, /m a link to /l
Linked2 == (1 :> Dir(1, 1, "a" :> 2 @@ "l" :> 3 @@ "m" :> 4, 1, 1)) @@ (2 :> File({M_WRITE}, {2}))
           @@ (3 :> Lnk(Abs(<<"a">>), 3)) @@ (4 :> Lnk(Abs(<<"l">>), 4))

A == Abs(<<"a">>)
B == Abs(<<"b">>)
L == Abs(<<"l">>)
D == Abs(<<"d">>)
Nowhere == Rel(<<"?">>)

Setup2(image, left, calls1, calls2) ==
    [image |-> image, left |-> left, calls |-> (1 :> calls1 @@ 2 :> calls2), garbage |-> {A, Nowhere}]
Setup(image, left, calls) == Setup2(image, left, calls, calls)
TwoAndOne == <<2, 1>>

\* files: created, linked, unlinked and written at the same time
FileCalls == Setup(Flat, TwoAndOne, {Open(A, {"WRONLY"}), Open(B, {"CREATE", "RDWR"}), Unlink(A), LinkCall(A, B),
                             Unlink(B), OnFile("write"), OnFile("close")})

\* directories: made, removed, entered and opened, with nothing created in a directory
\* that may be removed meanwhile
DirCalls == Setup(Flat, TwoAndOne, {Mkdir(D), Unlink(D), Mkdir(B), Open(D, {}), ChdirCall(D), Unlink(Abs(<<"d", "..">>)),
                            LinkCall(D, B), OnFile("close")})

\* symbolic links: made, followed, replaced and removed
LinkCalls == Setup2(Linked2, TwoAndOne, {Open(L, {}), Open(Abs(<<"m">>), {"WRONLY"}), ChmodCall(L, {M_READ}), OnFile("close")},
                    {Unlink(L), Symlink(B, L), Open(A, {"WRONLY", "TRUNC"}), Unlink(A), Open(A, {"CREATE"})})

\* one process, more calls, directories and relative paths
TreeCalls == [Setup(Flat, <<3, 0>>, {}) EXCEPT !.calls =
    1 :> {Mkdir(Abs(<<"d", "e">>)), ChdirCall(Abs(<<"d", "e">>)), ChdirCall(Rel(<<"..", "d">>)), Open(Rel(<<"b">>), {"CREATE", "WRONLY"}),
          Unlink(Rel(<<"..", "a">>)), Unlink(Abs(<<"d", "e">>)), LinkCall(A, Abs(<<"d", "b">>)), Unlink(D),
          OnFile("close"), Symlink(D, B), ChdirCall(B), OnFile("get_disk_lbn"), Open(A, {"RDWR"})}
    @@ 2 :> {}]

MCSetups == {FileCalls, DirCalls, LinkCalls, [LinkCalls EXCEPT !.left = <<1, 2>>], TreeCalls}

\* nothing but /l opened, with O_RDONLY, with nothing cached
OpenOfLink == {Setup2(Linked2, <<1, 0>>, {Open(L, {})}, {})}

\* open() follows a symbolic link when O_NOACCESS is not set (mp4-markdown.md:199): the
\* one that was opened is a link to /a, which is inode 2.
LinkFollowed ==
    proc[1].left = 0 /\ proc[1].pc = "idle" =>
        proc[1].fd.ip # None /\ icache[proc[1].fd.ip].inum = 2
=============================================================================
