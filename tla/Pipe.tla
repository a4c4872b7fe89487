-------------------------------- MODULE Pipe --------------------------------
(***************************************************************************)
(* A pipe of mp4 (mp4/kernel/pipe.c) between the processes of Proc: reads, *)
(* writes and closes, with sleep() and wakeup() as they are, fork() that   *)
(* shares the open files (mp4/kernel/file.c) and exit() that closes them.  *)
(*                                                                         *)
(* Bytes are abstracted to who wrote them and their number; the buffer has *)
(* PIPESIZE bytes and its counters are unsigned integers modulo CountMod.  *)
(***************************************************************************)
EXTENDS Proc

CONSTANTS
    PIPESIZE,
    CountMod,   \* 2^32 in the code, a multiple of PIPESIZE
    Sizes,      \* bytes that a read() or write() asks for
    MaxCalls    \* reads and writes of each process, at most

ASSUME PipeAssumption ==
    PIPESIZE \in Nat \ {0} /\ CountMod \in Nat /\ CountMod > PIPESIZE /\ CountMod % PIPESIZE = 0 /\ Sizes \subseteq Nat

VARIABLES
    pipe,       \* struct pipe
    ref,        \* struct file of each end: its references
    fds,        \* the ends each process has open
    io,         \* locals of piperead(), pipewrite() and fileclose()
    received,   \* the bytes that were read, in the order in which they were
    silent      \* history: a writer that was killed has left bytes without a wakeup of the
                \* readers, and none came since

pipevars == <<pipe, ref, fds, io, received, silent>>
vars == <<procvars, pipevars>>

Ends == {"r", "w"}
Nread == <<"nread">>
Nwrite == <<"nwrite">>
NoIo == [n |-> 0, i |-> 0, end |-> "r", ret |-> "user", calls |-> 0, sent |-> 0]

Count == (pipe.nwrite - pipe.nread) % CountMod
Empty == pipe.nread = pipe.nwrite
\* nwrite > nread + PIPESIZE
MutantFull == Count > PIPESIZE
Full == pipe.nwrite = (pipe.nread + PIPESIZE) % CountMod

Go(p, point) == Step(p, [thread[p] EXCEPT !.pc = point], proc)
LeaveOthers == UNCHANGED <<ref, fds>>

\* acquire(&pi->lock)
PipeLock(p, from, to) ==
    /\ At(p, from) /\ pipe.lock = None
    /\ Go(p, to) /\ pipe' = [pipe EXCEPT !.lock = p]
    /\ UNCHANGED <<io, received, silent>> /\ LeaveOthers

\* release(&pi->lock), and the call returns
Return(p) ==
    /\ Go(p, "user") /\ pipe' = [pipe EXCEPT !.lock = None]
    /\ io' = [io EXCEPT ![p].n = 0, ![p].i = 0]
    /\ UNCHANGED received /\ LeaveOthers

\* wakeup(chan), then on
WakeThen(p, chan, then) ==
    /\ Step(p, Wakeup(p, chan, then), proc)
    /\ silent' = (silent /\ chan # Nread)
    /\ UNCHANGED <<pipe, io, received>> /\ LeaveOthers

\* sleep(chan, &pi->lock), then on
SleepThen(p, chan, then) ==
    /\ Sleep(p, chan, then) /\ pipe' = [pipe EXCEPT !.lock = None]
    /\ UNCHANGED <<io, received, silent>> /\ LeaveOthers

-----------------------------------------------------------------------------
(* read() and write()                                                      *)

\* init, which made the pipe, leaves it to its children
Call(p, end, point) ==
    /\ At(p, "user") /\ ~proc[p].killed /\ p # initproc
    /\ end \in fds[p] /\ io[p].calls < MaxCalls
    /\ \E n \in Sizes : io' = [io EXCEPT ![p].n = n, ![p].calls = @ + 1]
    /\ Go(p, point)
    /\ UNCHANGED <<pipe, received, silent>> /\ LeaveOthers

\* the next byte is put into the buffer
WriteByte(p) ==
    /\ At(p, "write") /\ io[p].i < io[p].n /\ ~Full
    /\ pipe' = [pipe EXCEPT !.data[pipe.nwrite % PIPESIZE] = <<p, io[p].sent + 1>>,
                            !.nwrite = (@ + 1) % CountMod]
    /\ io' = [io EXCEPT ![p].i = @ + 1, ![p].sent = @ + 1]
    /\ UNCHANGED <<procvars, received, silent>> /\ LeaveOthers

\* it is full: the readers are woken and the writer sleeps, unless there is no reader
\* any more or the writer was killed
WriteFull(p) ==
    /\ At(p, "write") /\ io[p].i < io[p].n /\ Full
    /\ IF ~pipe.readopen \/ proc[p].killed
       THEN Return(p) /\ silent' = (silent \/ (proc[p].killed /\ io[p].i > 0))
       ELSE WakeThen(p, Nread, "writesleep")

WriteSleep(p) == At(p, "writesleep") /\ SleepThen(p, Nwrite, "writelock")

WriteEnd(p) == At(p, "write") /\ io[p].i = io[p].n /\ WakeThen(p, Nread, "return")

\* nothing to read, and something may still come: killed is looked at without p->lock ...
ReadEmpty(p) ==
    /\ At(p, "read") /\ Empty /\ pipe.writeopen
    /\ IF proc[p].killed THEN Return(p)
       ELSE Go(p, "readsleep") /\ UNCHANGED <<pipe, io, received>> /\ LeaveOthers
    /\ UNCHANGED silent

\* ... and then the reader sleeps
ReadSleep(p) == At(p, "readsleep") /\ SleepThen(p, Nread, "readlock")

ReadStart(p) ==
    /\ At(p, "read") /\ ~(Empty /\ pipe.writeopen)
    /\ Go(p, "copy")
    /\ UNCHANGED <<pipe, io, received, silent>> /\ LeaveOthers

ReadByte(p) ==
    /\ At(p, "copy") /\ io[p].i < io[p].n /\ ~Empty
    /\ received' = Append(received, pipe.data[pipe.nread % PIPESIZE])
    /\ pipe' = [pipe EXCEPT !.nread = (@ + 1) % CountMod]
    /\ io' = [io EXCEPT ![p].i = @ + 1]
    /\ UNCHANGED <<procvars, silent>> /\ LeaveOthers

\* no wakeup(&pi->nwrite)
MutantReadEnd(p) ==
    /\ At(p, "copy") /\ (io[p].i = io[p].n \/ Empty) /\ Go(p, "return")
    /\ UNCHANGED <<pipe, io, received, silent>> /\ LeaveOthers

ReadEnd(p) == At(p, "copy") /\ (io[p].i = io[p].n \/ Empty) /\ WakeThen(p, Nwrite, "return")

-----------------------------------------------------------------------------
(* fork(), close() and exit()                                              *)

\* the files are shared without filedup()
MutantForkFiles(p) ==
    /\ Fork(p)
    /\ LET np == CHOOSE q \in Procs : proc[q].state = "UNUSED" /\ proc'[q].state = "RUNNABLE"
       IN fds' = [fds EXCEPT ![np] = fds[p]] /\ io' = [io EXCEPT ![np] = NoIo]
    /\ UNCHANGED <<pipe, ref, received, silent>>

\* filedup() of each open file, and the child is RUNNABLE.  (One step: while fork() runs,
\* the parent holds a reference of each file that it counts, and the child does not run.)
ForkFiles(p) ==
    /\ Fork(p)
    /\ LET np == CHOOSE q \in Procs : proc[q].state = "UNUSED" /\ proc'[q].state = "RUNNABLE"
       IN fds' = [fds EXCEPT ![np] = fds[p]] /\ io' = [io EXCEPT ![np] = NoIo]
    /\ ref' = [e \in Ends |-> IF e \in fds[p] THEN ref[e] + 1 ELSE ref[e]]
    /\ UNCHANGED <<pipe, received, silent>>

\* fileclose(), of close() and of exit(): the last reference closes the end
FileClose(p, e) ==
    /\ e \in fds[p]
    /\ \/ At(p, "exit")
       \/ At(p, "user") /\ ~proc[p].killed
    /\ IF ref[e] < 1 THEN Panic("fileclose") /\ UNCHANGED pipevars
       ELSE /\ ref' = [ref EXCEPT ![e] = @ - 1]
            /\ fds' = [fds EXCEPT ![p] = @ \ {e}]
            /\ IF ref[e] > 1 THEN UNCHANGED <<procvars, io>>
               ELSE Go(p, "pipeclose") /\ io' = [io EXCEPT ![p].end = e, ![p].ret = thread[p].pc]
            /\ UNCHANGED <<pipe, received, silent>>

PipeClose(p) ==
    /\ At(p, "closing")
    /\ LET e == io[p].end
       IN /\ pipe' = IF e = "w" THEN [pipe EXCEPT !.writeopen = FALSE] ELSE [pipe EXCEPT !.readopen = FALSE]
          /\ Step(p, Wakeup(p, IF e = "w" THEN Nread ELSE Nwrite, "closed"), proc)
          /\ silent' = (silent /\ e # "w")
    /\ UNCHANGED <<io, received>> /\ LeaveOthers

\* both ends are closed: kfree()
PipeClosed(p) ==
    /\ At(p, "closed")
    /\ Go(p, io[p].ret)
    /\ pipe' = [pipe EXCEPT !.lock = None, !.freed = ~pipe.readopen /\ ~pipe.writeopen]
    /\ UNCHANGED <<io, received, silent>> /\ LeaveOthers

-----------------------------------------------------------------------------

PipeInit ==
    /\ Init
    /\ pipe = [lock |-> None, data |-> [k \in 0 .. PIPESIZE - 1 |-> <<>>], nread |-> 0, nwrite |-> 0,
               readopen |-> TRUE, writeopen |-> TRUE, freed |-> FALSE]
    /\ ref = [e \in Ends |-> 1]
    /\ fds = [p \in Procs |-> IF p = initproc THEN Ends ELSE {}]
    /\ io = [p \in Procs |-> NoIo]
    /\ received = <<>>
    /\ silent = FALSE

PipeCode(p) ==
    \/ PipeLock(p, "writelock", "write") \/ WriteByte(p) \/ WriteFull(p) \/ WriteSleep(p) \/ WriteEnd(p)
    \/ PipeLock(p, "readlock", "read") \/ ReadEmpty(p) \/ ReadSleep(p) \/ ReadStart(p) \/ ReadByte(p)
    \/ ReadEnd(p)
    \/ PipeLock(p, "pipeclose", "closing") \/ PipeClose(p) \/ PipeClosed(p)
    \/ At(p, "return") /\ Return(p) /\ UNCHANGED silent

ProcCode(p) ==
    /\ \/ Dispatch(p) \/ Kill(p) \/ Exit(p) \/ WaitCall(p) \/ Sleeping(p) \/ WakeupOne(p)
       \/ pipe.lock # p /\ Yield(p)
       \/ (thread[p].pc = "exit" => fds[p] = {}) /\ Kernel(p)
    /\ UNCHANGED pipevars

PipeNext ==
    \E p \in Procs :
        \/ Call(p, "w", "writelock") \/ Call(p, "r", "readlock")
        \/ PipeCode(p) \/ ForkFiles(p) \/ ProcCode(p)
        \/ \E e \in Ends : FileClose(p, e)

PipeSpec == PipeInit /\ [][PipeNext]_vars

-----------------------------------------------------------------------------
(* Properties.                                                             *)

Asleep(p, chan) == proc[p].state = "SLEEPING" /\ proc[p].chan = chan

PipePoints == {"readlock", "read", "readsleep", "copy", "writelock", "write", "writesleep", "return",
               "pipeclose", "closing", "closed"}

\* Nobody sleeps over what it waits for: while no one is changing the pipe, a reader
\* sleeps only if there is nothing to read and a writer may come, and a writer only if
\* there is no room and a reader may come.  There is one exception: a writer that was
\* killed returns without a wakeup, and what it wrote is slept over until the next one.
SleepersHaveReason ==
    pipe.lock = None => \A p \in Procs :
        /\ Asleep(p, Nread) => pipe.writeopen /\ (Empty \/ silent)
        /\ Asleep(p, Nwrite) => Full /\ pipe.readopen

PipeTypeOK ==
    /\ pipe.lock \in Procs \cup {None} /\ pipe.nread \in 0 .. CountMod - 1 /\ Count \in 0 .. PIPESIZE
    /\ \A p \in Procs : io[p].i \in 0 .. io[p].n /\ fds[p] \subseteq Ends

\* A file's references are the processes that have it open, however fork(), close() and
\* exit() interleave, and an end that is open in some process is open in the pipe ...
FilesExact ==
    /\ \A e \in Ends : ref[e] = Cardinality({p \in Procs : e \in fds[p]})
    /\ ref["r"] > 0 => pipe.readopen
    /\ ref["w"] > 0 => pipe.writeopen

\* ... which is not freed while anybody is in its code.
PipeInUse ==
    pipe.freed => \A p \in Procs :
        /\ fds[p] = {} /\ ~Asleep(p, Nread) /\ ~Asleep(p, Nwrite)
        /\ {thread[p].pc, thread[p].then} \cap PipePoints = {}

\* A read() of some bytes returns nothing only at the end of the file: when all writers
\* have closed the pipe and it is empty.  (piperead() ends with a wakeup of the writers.)
EofIsEof ==
    \A p \in Procs :
        /\ thread[p].then = "return" /\ thread[p].pc = "wakeup" /\ thread[p].chan = Nwrite
        /\ io[p].n > 0 /\ io[p].i = 0
        => Empty /\ ~pipe.writeopen

\* The references of the files, and with them the life of the pipe and its end of file,
\* are exact in every interleaving of fork(), read(), write(), close() and exit().
PipeSound == NoPanic /\ PipeTypeOK /\ FilesExact /\ PipeInUse /\ EofIsEof

\* The pipe is a channel.
Fifo ==
    INSTANCE Channel WITH
        Capacity <- PIPESIZE,
        Bytes <- Procs \X Nat,
        queue <- [k \in 1 .. Count |-> pipe.data[(pipe.nread + k - 1) % PIPESIZE]],
        received <- received,
        ends <- {e \in Ends : IF e = "r" THEN pipe.readopen ELSE pipe.writeopen}
ImplementsChannel == Fifo!Spec
=============================================================================
