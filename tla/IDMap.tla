-------------------------------- MODULE IDMap --------------------------------
(***************************************************************************)
(* What the id-to-3D map of both pre-culled object patches promises: a     *)
(* finite map from form ids to objects.  Every update answers with the     *)
(* reference that left the map, which the caller must release.             *)
(***************************************************************************)
EXTENDS Naturals

CONSTANTS
    Ids,        \* the form ids
    Objects,    \* the 3D objects
    Null        \* no object

VARIABLES
    map,        \* the object of each id, or Null
    released    \* the reference the last update took out of the map, or Null

Init ==
    /\ map = [id \in Ids |-> Null]
    /\ released = Null

Insert(id, obj) ==
    /\ map' = [map EXCEPT ![id] = obj]
    /\ released' = map[id]

Erase(id) ==
    /\ map' = [map EXCEPT ![id] = Null]
    /\ released' = map[id]

Next == \E id \in Ids : Erase(id) \/ \E obj \in Objects : Insert(id, obj)

Spec == Init /\ [][Next]_<<map, released>>
=============================================================================
