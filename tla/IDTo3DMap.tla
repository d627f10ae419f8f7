------------------------------ MODULE IDTo3DMap ------------------------------
(***************************************************************************)
(* detail::IDTo3DMap of the pre-culled object patches: an id is a file     *)
(* index (the top byte) and a base (the low three bytes).  Ids of the game *)
(* master and of temporary forms (index 0x00 and 0xFD) have an entry of    *)
(* their own in _special; the others share, per base, a bucket of          *)
(* _generic, a vector kept sorted by id so that lower_bound finds an       *)
(* entry.                                                                  *)
(*                                                                         *)
(* The module models the VR patch's map and, beside it, the two operators  *)
(* in which the flat patch's map differs: insert by append and sort, and   *)
(* find by bucket.                                                         *)
(***************************************************************************)
EXTENDS Naturals, Sequences, SequencesExt

CONSTANTS
    BaseCount,      \* 2^24 in the code
    IndexCount,     \* 256 in the code
    SpecialIndices, \* {0x00, 0xFD} in the code
    Ids,            \* the form ids that are looked up and updated
    Objects,
    Null

ASSUME IDTo3DMapAssumption ==
    /\ BaseCount \in Nat \ {0}
    /\ IndexCount \in Nat \ {0}
    /\ SpecialIndices \subseteq 0..(IndexCount - 1)
    /\ Ids \subseteq 0..(BaseCount * IndexCount - 1)
    /\ Null \notin Objects

VARIABLES
    generic,    \* _generic: a function from the bases that have a bucket
    special,    \* _special: a function from the special ids that have an entry
    released    \* what the last insert_or_assign or erase returned

vars == <<generic, special, released>>

Bases == 0..(BaseCount - 1)

BaseOf(id) == id % BaseCount

IndexOf(id) == id \div BaseCount

IsSpecial(id) == IndexOf(id) \in SpecialIndices

Entry == [id : Ids, obj : Objects]

-----------------------------------------------------------------------------
(* Helpers on buckets *)

Bucket(base) == IF base \in DOMAIN generic THEN generic[base] ELSE <<>>

\* Defect: upper_bound for lower_bound.
UpperBound(objs, id) == Min({i \in DOMAIN objs : objs[i].id > id} \cup {Len(objs) + 1})

\* The first position whose id is not below the one sought (past the end if none).
LowerBound(objs, id) == Min({i \in DOMAIN objs : objs[i].id >= id} \cup {Len(objs) + 1})

HasAt(objs, i, id) == i <= Len(objs) /\ objs[i].id = id

\* Defect: the bucket is only searched by base, so another plugin's object
\* with the same base is taken for this one.
FindFirst(id) ==
    IF IsSpecial(id)
    THEN IF id \in DOMAIN special THEN special[id] ELSE Null
    ELSE LET objs == Bucket(BaseOf(id))
         IN  IF objs # <<>> THEN Head(objs).obj ELSE Null

\* find_one
FindOne(id) ==
    IF IsSpecial(id)
    THEN IF id \in DOMAIN special THEN special[id] ELSE Null
    ELSE LET objs == Bucket(BaseOf(id))
             i == LowerBound(objs, id)
         IN  IF HasAt(objs, i, id) THEN objs[i].obj ELSE Null

\* The flat patch's find: an entry of its own, or the whole bucket in order.
FindAll(id) ==
    IF ~IsSpecial(id) THEN Bucket(BaseOf(id))
    ELSE IF id \in DOMAIN special THEN <<[id |-> id, obj |-> special[id]]>>
    ELSE <<>>

With(f, x, y) == [z \in DOMAIN f \cup {x} |-> IF z = x THEN y ELSE f[z]]

Without(f, x) == [z \in DOMAIN f \ {x} |-> f[z]]

\* Defect: appended without the sort.
Appended(objs, id, obj) ==
    LET i == LowerBound(objs, id)
    IN  IF HasAt(objs, i, id) THEN [objs EXCEPT ![i].obj = obj]
        ELSE Append(objs, [id |-> id, obj |-> obj])

\* A bucket after insert_generic: assigned in place or inserted at lower_bound.
Inserted(objs, id, obj) ==
    LET i == LowerBound(objs, id)
    IN  IF HasAt(objs, i, id) THEN [objs EXCEPT ![i].obj = obj]
        ELSE InsertAt(objs, i, [id |-> id, obj |-> obj])

\* fixup_container: std::sort by id.  What it yields has the same entries, in
\* any order of theirs in which no id is above the next.
FixupContainer(objs) ==
    LET from == CHOOSE p \in [DOMAIN objs -> DOMAIN objs] :
                  /\ \A i, j \in DOMAIN objs : i # j => p[i] # p[j]
                  /\ \A i, j \in DOMAIN objs : i < j => objs[p[i]].id <= objs[p[j]].id
    IN  [i \in DOMAIN objs |-> objs[from[i]]]

\* The same in the flat patch: assigned in place or appended, then sorted.
InsertedSorted(objs, id, obj) ==
    LET i == LowerBound(objs, id)
    IN  FixupContainer(IF HasAt(objs, i, id) THEN [objs EXCEPT ![i].obj = obj]
                       ELSE Append(objs, [id |-> id, obj |-> obj]))

-----------------------------------------------------------------------------
Init ==
    /\ generic = [base \in {} |-> <<>>]
    /\ special = [id \in {} |-> Null]
    /\ released = Null

InsertSpecial(id, obj) ==
    /\ IsSpecial(id)
    /\ released' = FindOne(id)
    /\ special' = With(special, id, obj)
    /\ UNCHANGED generic

InsertGeneric(id, obj) ==
    /\ ~IsSpecial(id)
    /\ released' = FindOne(id)
    /\ generic' = With(generic, BaseOf(id), Inserted(Bucket(BaseOf(id)), id, obj))
    /\ UNCHANGED special

InsertOrAssign(id, obj) == InsertSpecial(id, obj) \/ InsertGeneric(id, obj)

EraseSpecial(id) ==
    /\ IsSpecial(id)
    /\ released' = FindOne(id)
    /\ special' = Without(special, id)
    /\ UNCHANGED generic

\* Defect: the emptied bucket stays in the map.
EraseKeepingBucket(id) ==
    /\ ~IsSpecial(id)
    /\ released' = FindOne(id)
    /\ LET objs == Bucket(BaseOf(id))
           i == LowerBound(objs, id)
       IN  generic' = IF HasAt(objs, i, id) THEN With(generic, BaseOf(id), RemoveAt(objs, i))
                      ELSE generic
    /\ UNCHANGED special

\* Defect: the entry stays and only its pointer is reset.
EraseNulling(id) ==
    /\ ~IsSpecial(id)
    /\ released' = FindOne(id)
    /\ LET objs == Bucket(BaseOf(id))
           i == LowerBound(objs, id)
       IN  generic' = IF HasAt(objs, i, id)
                      THEN With(generic, BaseOf(id), [objs EXCEPT ![i].obj = Null])
                      ELSE generic
    /\ UNCHANGED special

\* A bucket that becomes empty leaves the map.
EraseGeneric(id) ==
    /\ ~IsSpecial(id)
    /\ released' = FindOne(id)
    /\ LET objs == Bucket(BaseOf(id))
           i == LowerBound(objs, id)
           shrunk == RemoveAt(objs, i)
       IN  generic' = IF ~HasAt(objs, i, id) THEN generic
                      ELSE IF shrunk = <<>> THEN Without(generic, BaseOf(id))
                      ELSE With(generic, BaseOf(id), shrunk)
    /\ UNCHANGED special

Erase(id) == EraseSpecial(id) \/ EraseGeneric(id)

Next == \E id \in Ids : Erase(id) \/ \E obj \in Objects : InsertOrAssign(id, obj)

Spec == Init /\ [][Next]_vars

-----------------------------------------------------------------------------
(* Correctness *)

TypeOK ==
    /\ DOMAIN generic \subseteq Bases
    /\ \A base \in DOMAIN generic : generic[base] \in Seq(Entry)
    /\ DOMAIN special \subseteq Ids
    /\ \A id \in DOMAIN special : special[id] \in Objects
    /\ released \in Objects \cup {Null}

(***************************************************************************)
(* What every lower_bound relies on, after any sequence of updates: each   *)
(* bucket is strictly sorted, holds entries of its own base and of no      *)
(* special index, and is not empty (an emptied bucket would stay in the    *)
(* map for good).                                                          *)
(***************************************************************************)
BucketsWellFormed ==
    \A base \in DOMAIN generic :
        LET objs == generic[base]
        IN  /\ objs # <<>>
            /\ \A i, j \in DOMAIN objs : i < j => objs[i].id < objs[j].id
            /\ \A i \in DOMAIN objs : BaseOf(objs[i].id) = base /\ ~IsSpecial(objs[i].id)

(***************************************************************************)
(* The VR patch inserts in place, "instead of the PC patch's re-sort after *)
(* every insertion" (BSPreCulledObjectsPatchVR.cpp:136-138): in every      *)
(* reachable map the two leave the same bucket behind.                     *)
(***************************************************************************)
InsertsAgree ==
    \A id \in Ids, obj \in Objects :
        ~IsSpecial(id) =>
            LET objs == Bucket(BaseOf(id))
            IN  Inserted(objs, id, obj) = InsertedSorted(objs, id, obj)

\* The flat patch's find yields the object that find_one yields, and besides
\* it only objects of the same base, in ascending order of file index.
FindsAgree ==
    \A id \in Ids :
        LET found == FindAll(id)
        IN  /\ FindOne(id) # Null => \E i \in DOMAIN found : found[i] = [id |-> id, obj |-> FindOne(id)]
            /\ \A i \in DOMAIN found : BaseOf(found[i].id) = BaseOf(id)
            /\ \A i, j \in DOMAIN found : i < j => IndexOf(found[i].id) < IndexOf(found[j].id)

\* The buckets and the special entries together are the map of IDMap.
Abstract == INSTANCE IDMap WITH map <- [id \in Ids |-> FindOne(id)]

ImplementsIDMap == Abstract!Spec
=============================================================================
