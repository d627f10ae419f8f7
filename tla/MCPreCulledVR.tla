---------------------------- MODULE MCPreCulledVR ----------------------------
(***************************************************************************)
(* PreCulledVR with two updaters and one culling thread.  Both ids are in  *)
(* one shard, where all contention is; the destructor of o1 erases i2.     *)
(***************************************************************************)
EXTENDS PreCulledVR

CONSTANTS i1, i2, o1, o2

MCShardIndex == [id \in Ids |-> 0]

MCChildId == (o1 :> i2) @@ (o2 :> Null)

UpdaterSymmetry == Permutations(Updaters)
=============================================================================
