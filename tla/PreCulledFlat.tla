---------------------------- MODULE PreCulledFlat ----------------------------
(***************************************************************************)
(* The flat pre-culled objects patch: it replaces the engine's id-to-3D    *)
(* table and the three culling passes; one mutex guards the table, and the *)
(* engine is called back under it.                                         *)
(*                                                                         *)
(* The table is the abstract map that IDTo3DMap implements; ids of one     *)
(* bucket differ in their file index only and are found together.  Scoped  *)
(* locks are read off the positions of the threads.                        *)
(*                                                                         *)
(* External: the scene, which also refers to objects; destructors, which   *)
(* may call UpdateIDto3DMap on the thread that drops the last reference;   *)
(* the culling group; the visibility callbacks.                            *)
(***************************************************************************)
EXTENDS Naturals, Sequences, SequencesExt

CONSTANTS
    FlatUpdaters, FlatReaders, FlatIds, FlatObjects, NoObject,
    Bucket,         \* the bucket of each id
    AppCulled, ShadowCasters,   \* sets of objects
    FlatChildId,    \* the id the destructor of an object erases, or NoObject
    MaxUpdates, MaxFlatPasses   \* bounds

ASSUME PreCulledFlatAssumption ==
    /\ NoObject \notin FlatObjects \cup FlatIds
    /\ FlatUpdaters \cap FlatReaders = {}
    /\ DOMAIN Bucket = FlatIds
    /\ FlatChildId \in [FlatObjects -> FlatIds \cup {NoObject}]
    /\ MaxUpdates \in Nat /\ MaxFlatPasses \in Nat

VARIABLES
    flatUse,        \* bUsePreCulledObjects
    flatMap, flatScene, flatDead,
    flatStack,      \* the activations of UpdateIDto3DMap on each updater
    flatPass,       \* each culling thread
    flatGroup,      \* the objects that were dead when they were added to a culling group
    updates

flatVars == <<flatUse, flatMap, flatScene, flatDead, flatStack, flatPass, flatGroup, updates>>

Passes == {"main", "rain", "shadow"}

NoPass == [pc |-> "idle", kind |-> "main", todo |-> {}, found |-> {}, passes |-> 0]

FlatTypeOK ==
    /\ flatUse \in BOOLEAN
    /\ flatMap \in [FlatIds -> FlatObjects \cup {NoObject}]
    /\ flatScene \subseteq FlatObjects /\ flatDead \subseteq FlatObjects
    /\ \A t \in FlatUpdaters : \A f \in Range(flatStack[t]) :
         f.pc \in {"lock", "locked", "callback", "unlock"} /\ f.id \in FlatIds
    /\ \A r \in FlatReaders :
         /\ flatPass[r].pc \in {"idle", "lock", "scan", "notify"}
         /\ flatPass[r].kind \in Passes
         /\ flatPass[r].todo \subseteq FlatIds
         /\ flatPass[r].found \subseteq [id : FlatIds, obj : FlatObjects]
    /\ flatGroup \subseteq FlatObjects /\ updates \in 0..MaxUpdates

FlatInit ==
    /\ flatUse \in BOOLEAN
    /\ flatMap = [id \in FlatIds |-> NoObject]
    /\ flatScene = FlatObjects /\ flatDead = {}
    /\ flatStack = [t \in FlatUpdaters |-> <<>>]
    /\ flatPass = [r \in FlatReaders |-> NoPass]
    /\ flatGroup = {} /\ updates = 0

-----------------------------------------------------------------------------
(* The mutex *)

HoldsFlat(t) ==
    IF t \in FlatUpdaters
    THEN \E f \in Range(flatStack[t]) : f.pc # "lock"
    ELSE flatPass[t].pc = "scan"

FlatFree == \A t \in FlatUpdaters \cup FlatReaders : ~HoldsFlat(t)

\* Thread t gives up a reference to o; map and scene are what refers to
\* objects from now on, frames the stacks.  The last reference runs the
\* destructor here.
Release(t, o, map, scn, frames) ==
    /\ flatMap' = map
    /\ flatScene' = scn
    /\ IF o = NoObject \/ o \in scn \/ o \in Range(map)
       THEN flatStack' = frames /\ UNCHANGED flatDead
       ELSE /\ flatDead' = flatDead \cup {o}
            /\ flatStack' =
                 IF FlatChildId[o] = NoObject \/ ~flatUse THEN frames
                 ELSE [frames EXCEPT ![t] = Append(@, [pc |-> "lock", id |-> FlatChildId[o], obj |-> NoObject])]

FlatTop(t, pc) == flatStack[t] # <<>> /\ Last(flatStack[t]).pc = pc

\* The stacks with the top activation of t at pc.
FlatAt(t, pc) == [flatStack EXCEPT ![t] = Append(Front(@), [Last(@) EXCEPT !.pc = pc])]

-----------------------------------------------------------------------------
(* UpdateIDto3DMap *)

\* The engine attaches an object of the scene or detaches one.
FlatCall(t, id, obj) ==
    /\ flatStack[t] = <<>> /\ updates < MaxUpdates
    /\ obj \in flatScene \cup {NoObject}
    /\ updates' = updates + 1
    /\ flatStack' = IF flatUse THEN [flatStack EXCEPT ![t] = <<[pc |-> "lock", id |-> id, obj |-> obj]>>]
                    ELSE flatStack
    /\ UNCHANGED <<flatUse, flatMap, flatScene, flatDead, flatPass, flatGroup>>

FlatLock(t) ==
    /\ FlatTop(t, "lock") /\ FlatFree
    /\ flatStack' = FlatAt(t, "locked")
    /\ UNCHANGED <<flatUse, flatMap, flatScene, flatDead, flatPass, flatGroup, updates>>

\* insert_or_assign or erase: the reference that leaves the map is released
\* at once, the mutex held.
FlatUpdate(t) ==
    /\ FlatTop(t, "locked")
    /\ LET f == Last(flatStack[t])
       IN  Release(t, IF flatMap[f.id] = f.obj THEN NoObject ELSE flatMap[f.id],
                   [flatMap EXCEPT ![f.id] = f.obj], flatScene,
                   FlatAt(t, IF f.obj = NoObject THEN "callback" ELSE "unlock"))
    /\ UNCHANGED <<flatUse, flatPass, flatGroup, updates>>

\* RemoveVisibilityCallBackForID, after an erase.
FlatRemoveCallback(t) ==
    /\ FlatTop(t, "callback")
    /\ flatStack' = FlatAt(t, "unlock")
    /\ UNCHANGED <<flatUse, flatMap, flatScene, flatDead, flatPass, flatGroup, updates>>

FlatUnlock(t) ==
    /\ FlatTop(t, "unlock")
    /\ flatStack' = [flatStack EXCEPT ![t] = Front(@)]
    /\ UNCHANGED <<flatUse, flatMap, flatScene, flatDead, flatPass, flatGroup, updates>>

\* The scene lets go of an object; a caller keeps what it attaches.
LeaveScene(t, o) ==
    /\ flatStack[t] = <<>> /\ o \in flatScene
    /\ \A u \in FlatUpdaters : \A f \in Range(flatStack[u]) : f.obj # o
    /\ Release(t, o, flatMap, flatScene \ {o}, flatStack)
    /\ UNCHANGED <<flatUse, flatPass, flatGroup, updates>>

-----------------------------------------------------------------------------
(* The passes *)

\* The engine starts a pass over some ids.
BeginPass(r, kind, ids) ==
    /\ flatPass[r].pc = "idle" /\ flatPass[r].passes < MaxFlatPasses
    /\ flatPass' = [flatPass EXCEPT ![r] = [pc |-> "lock", kind |-> kind, todo |-> ids,
                                            found |-> {}, passes |-> @.passes + 1]]
    /\ UNCHANGED <<flatUse, flatMap, flatScene, flatDead, flatStack, flatGroup, updates>>

\* Defect: the pass does not take the mutex.
ScanUnlocked(r) ==
    /\ flatPass[r].pc = "lock"
    /\ flatPass' = [flatPass EXCEPT ![r].pc = "scan"]
    /\ UNCHANGED <<flatUse, flatMap, flatScene, flatDead, flatStack, flatGroup, updates>>

LockPass(r) ==
    /\ flatPass[r].pc = "lock" /\ FlatFree
    /\ flatPass' = [flatPass EXCEPT ![r].pc = "scan"]
    /\ UNCHANGED <<flatUse, flatMap, flatScene, flatDead, flatStack, flatGroup, updates>>

\* find: the next id of the pass yields all ids of its bucket.
FindBucket(r, needle) ==
    /\ flatPass[r].pc = "scan" /\ flatPass[r].found = {} /\ needle \in flatPass[r].todo
    /\ flatPass' = [flatPass EXCEPT ![r].todo = @ \ {needle},
         ![r].found = {[id |-> id, obj |-> flatMap[id]] : id \in
                          {i \in FlatIds : Bucket[i] = Bucket[needle] /\ flatMap[i] # NoObject}}]
    /\ UNCHANGED <<flatUse, flatMap, flatScene, flatDead, flatStack, flatGroup, updates>>

\* What a pass adds to its culling groups.
Culled(kind, o) ==
    o \notin AppCulled /\ (kind = "shadow" => o \in ShadowCasters)

\* The callback of the pass for one entry of the bucket; the main pass also
\* tells the engine (TrackVisibility).
AddToGroup(r, e) ==
    /\ e \in flatPass[r].found
    /\ flatGroup' = flatGroup \cup (IF Culled(flatPass[r].kind, e.obj) THEN {e.obj} \cap flatDead ELSE {})
    /\ flatPass' = [flatPass EXCEPT ![r].found = @ \ {e}]
    /\ UNCHANGED <<flatUse, flatMap, flatScene, flatDead, flatStack, updates>>

\* The mutex is dropped; the arena's records follow, and the main pass calls
\* the visibility callbacks.
EndScan(r) ==
    /\ flatPass[r].pc = "scan" /\ flatPass[r].todo = {} /\ flatPass[r].found = {}
    /\ flatPass' = [flatPass EXCEPT ![r].pc = IF flatPass[r].kind = "main" THEN "notify" ELSE "idle"]
    /\ UNCHANGED <<flatUse, flatMap, flatScene, flatDead, flatStack, flatGroup, updates>>

CallVisibilityCallbacks(r) ==
    /\ flatPass[r].pc = "notify"
    /\ flatPass' = [flatPass EXCEPT ![r].pc = "idle"]
    /\ UNCHANGED <<flatUse, flatMap, flatScene, flatDead, flatStack, flatGroup, updates>>

FlatUpdaterStep(t) == FlatLock(t) \/ FlatUpdate(t) \/ FlatRemoveCallback(t) \/ FlatUnlock(t)

FlatReaderStep(r) ==
    \/ LockPass(r) \/ EndScan(r) \/ CallVisibilityCallbacks(r)
    \/ \E id \in FlatIds : FindBucket(r, id)
    \/ \E e \in flatPass[r].found : AddToGroup(r, e)

FlatEngineStep ==
    \/ \E t \in FlatUpdaters, id \in FlatIds, o \in FlatObjects \cup {NoObject} : FlatCall(t, id, o)
    \/ \E t \in FlatUpdaters, o \in FlatObjects : LeaveScene(t, o)
    \/ \E r \in FlatReaders, k \in Passes, ids \in SUBSET FlatIds : BeginPass(r, k, ids)

FlatNext ==
    \/ FlatEngineStep
    \/ \E t \in FlatUpdaters : FlatUpdaterStep(t)
    \/ \E r \in FlatReaders : FlatReaderStep(r)

FlatSpec == FlatInit /\ [][FlatNext]_flatVars

-----------------------------------------------------------------------------

(***************************************************************************)
(* An object that a pass hands to a culling group is alive at that moment, *)
(* and is the one the table has for its id (DoAddToCullingGroup): nothing  *)
(* is replaced, erased and destroyed between the lookup and the callback.  *)
(***************************************************************************)
CulledObjectsAlive ==
    /\ flatGroup = {}
    /\ \A r \in FlatReaders : \A e \in flatPass[r].found : flatMap[e.id] = e.obj

(***************************************************************************)
(* No thread waits for the mutex it holds itself.  The comment on the VR   *)
(* patch's erase says that a released reference may run the object's       *)
(* destructor and is to be released after the lock has been dropped.       *)
(***************************************************************************)
NoSelfWait == \A t \in FlatUpdaters : ~(FlatTop(t, "lock") /\ HoldsFlat(t))
=============================================================================
