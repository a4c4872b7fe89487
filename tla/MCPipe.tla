------------------------------- MODULE MCPipe -------------------------------
(* Pipe between init and its two children: a writer that fills the buffer   *)
(* twice and two reads, so that the counters wrap and the cells are used    *)
(* again, in behaviours where nobody calls wait(), which has nothing to do  *)
(* with pipes.                                                              *)
EXTENDS Pipe
Focus == io[2].calls + io[3].calls <= 3 /\ \A p \in Procs : thread[p].pc # "wait"
=============================================================================
