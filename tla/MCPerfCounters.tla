---------------------------- MODULE MCPerfCounters ----------------------------
(***************************************************************************)
(* PerfCounters with two threads and the code's constants scaled down      *)
(* together: batches of two, a sentinel and a gate every four, and a       *)
(* thread-local counter that wraps around at four, within the six lookups  *)
(* of a thread.                                                            *)
(***************************************************************************)
EXTENDS PerfCounters, TLC

ThreadSymmetry == Permutations(Threads)
=============================================================================
