--------------------------- MODULE MCMemoryTraces ---------------------------
(***************************************************************************)
(* MemoryTraces with two threads and two blocks: one thread can release    *)
(* an address while the other is handed it, and a block can move to an     *)
(* address released before.  Threads and blocks are interchangeable.       *)
(***************************************************************************)
EXTENDS MemoryTraces, TLC

CallerSymmetry == Permutations(Threads) \cup Permutations(Blocks)
=============================================================================
