---------------------------- MODULE MCGpuScheduler ----------------------------
(* GpuScheduler on small instances: the threads and priorities of sequences. *)
EXTENDS GpuScheduler

CONSTANTS t1, t2

\* Sequence 1 has a thread of its own, the others share one.
OneApart == [s \in Seqs |-> IF s = 1 THEN t1 ELSE t2]

\* The last sequence comes first.
LastFirst == [s \in Seqs |-> Cardinality(Seqs) - s]
===============================================================================
