----------------------------- MODULE MCFlatReentry -----------------------------
(***************************************************************************)
(* The flat handler when destroying an object updates the map again: the   *)
(* destructor of o1 erases the id of an object it owned.                   *)
(***************************************************************************)
EXTENDS PreCulledFlat, TLC

MCBucket == "i1" :> 1 @@ "i2" :> 2

MCChildId == "o1" :> "i2" @@ "o2" :> NoObject
=============================================================================
