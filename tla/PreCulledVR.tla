----------------------------- MODULE PreCulledVR -----------------------------
(***************************************************************************)
(* The concurrency of the VR pre-culled objects patch: UpdateIDto3DMap     *)
(* keeps a sharded copy of the engine's id-to-3D table beside the table,   *)
(* and the culling passes resolve ids through the copy while they hold the *)
(* engine's lock on the table.                                             *)
(*                                                                         *)
(* The copy is the abstract map that IDTo3DMap implements.  Objects are    *)
(* reference counted: an object lives while the scene, the table, the copy *)
(* or an update in progress refers to it, and its destructor may call      *)
(* UpdateIDto3DMap again on the same thread.  The scoped locks of the code *)
(* are not variables: who holds a lock follows from where the threads are. *)
(*                                                                         *)
(* External, as the code uses it: the engine's table, its lock (taken for  *)
(* writing inside the original update, which releases the old object under *)
(* it; re-entrant for its writer), the scene and the destructors.          *)
(***************************************************************************)
EXTENDS Naturals, Sequences, SequencesExt

CONSTANTS
    Updaters,       \* threads that attach and detach 3D
    Readers,        \* culling threads
    Ids,
    Objects,
    Null,
    ShardIndex,     \* the shard of each id
    ChildId,        \* the id the destructor of an object erases, or Null
    MaxCalls,       \* bound: calls of UpdateIDto3DMap by the engine
    MaxPasses,      \* bound: passes of each culling thread
    MaxToggles      \* bound: changes of bUsePreCulledObjects

ASSUME PreCulledVRAssumption ==
    /\ Null \notin Objects \cup Ids
    /\ Updaters \cap Readers = {}
    /\ DOMAIN ShardIndex = Ids
    /\ ChildId \in [Objects -> Ids \cup {Null}]
    /\ MaxCalls \in Nat /\ MaxPasses \in Nat /\ MaxToggles \in Nat

VARIABLES
    usePreCulled,   \* the engine's cached bUsePreCulledObjects
    toggles,        \* how often it changed
    stock,          \* the engine's table: the object of each id
    ours,           \* the sharded map
    scene,          \* the objects the scene refers to
    dead,           \* the objects whose destructor has run
    calls,          \* calls the engine has made
    stack,          \* the activations of UpdateIDto3DMap on each updater
    reader          \* the state of each culling pass

vars == <<usePreCulled, toggles, stock, ours, scene, dead, calls, stack, reader>>

FramePcs == {"writer", "map", "mapped", "displaced", "original", "stocked", "leave"}

Frame == [pc : FramePcs, id : Ids, obj : Objects \cup {Null},
          held : Objects \cup {Null}, synced : BOOLEAN]

ReaderPcs == {"idle", "scan", "find", "missed", "use", "real"}

IdleReader ==
    [pc |-> "idle", hook |-> FALSE, todo |-> {}, id |-> Null, obj |-> Null, passes |-> 0]

Init ==
    /\ usePreCulled \in BOOLEAN
    /\ toggles = 0
    /\ stock = [id \in Ids |-> Null]
    /\ ours = [id \in Ids |-> Null]
    /\ scene = Objects
    /\ dead = {}
    /\ calls = 0
    /\ stack = [t \in Updaters |-> <<>>]
    /\ reader = [r \in Readers |-> IdleReader]

-----------------------------------------------------------------------------
(* Locks, as the positions of the threads imply them *)

Frames(t) == Range(stack[t])

\* WriterLock(id): the recursive mutex that orders whole updates of a shard.
HoldsWriter(t, shard) ==
    \E f \in Frames(t) : f.synced /\ f.pc # "writer" /\ ShardIndex[f.id] = shard

\* The exclusive side of a shard's shared_mutex.
HoldsShard(t, shard) == \E f \in Frames(t) : f.pc = "mapped" /\ ShardIndex[f.id] = shard

\* Its shared side.
ReadsShard(r, shard) == reader[r].pc = "find" /\ ShardIndex[reader[r].id] = shard

\* The engine's lock on its table, for writing and for reading.
WritesStock(t) == \E f \in Frames(t) : f.pc = "stocked"

ReadsStock(r) == reader[r].pc # "idle"

-----------------------------------------------------------------------------
(* References *)

Referenced(o, scn, stk, our, frames) ==
    \/ o \in scn
    \/ \E id \in Ids : stk[id] = o \/ our[id] = o
    \/ \E t \in Updaters : \E f \in Range(frames[t]) : f.held = o

\* An activation of UpdateIDto3DMap: the setting decides whether ours follows.
NewFrame(id, obj) ==
    [pc |-> IF usePreCulled THEN "writer" ELSE "original",
     id |-> id, obj |-> obj, held |-> Null, synced |-> usePreCulled]

(***************************************************************************)
(* Thread t gives up a reference to o; scn, stk, our and frames are what   *)
(* refers to objects from now on.  The last reference runs the destructor  *)
(* here, on this thread, which may call UpdateIDto3DMap before it returns. *)
(***************************************************************************)
Drop(t, o, scn, stk, our, frames) ==
    /\ scene' = scn
    /\ stock' = stk
    /\ ours' = our
    /\ IF o = Null \/ Referenced(o, scn, stk, our, frames)
       THEN stack' = frames /\ UNCHANGED dead
       ELSE /\ dead' = dead \cup {o}
            /\ stack' = IF ChildId[o] = Null THEN frames
                        ELSE [frames EXCEPT ![t] = Append(@, NewFrame(ChildId[o], Null))]

-----------------------------------------------------------------------------
(* UpdateIDto3DMap *)

Running(t, pc) == stack[t] # <<>> /\ Last(stack[t]).pc = pc

\* Defect: the stock table first, the map afterwards.
StockFirst(f) ==
    CASE f.pc = "writer" -> "original"
      [] f.pc = "stocked" -> IF f.synced THEN "map" ELSE "leave"
      [] f.pc = "map" -> "mapped"
      [] f.pc = "mapped" -> "displaced"
      [] f.pc = "displaced" -> "leave"
      [] f.pc = "original" -> "stocked"

\* The order of the function body: our map, then the stock table.
Then(f) ==
    CASE f.pc = "writer" -> "map"
      [] f.pc = "map" -> "mapped"
      [] f.pc = "mapped" -> "displaced"
      [] f.pc = "displaced" -> "original"
      [] f.pc = "original" -> "stocked"
      [] f.pc = "stocked" -> "leave"

\* The stacks after the top activation of t went on to its next step, its
\* local now holding a reference to o.
Advance(t, o) ==
    LET f == Last(stack[t])
    IN  [stack EXCEPT ![t] = Append(Front(@), [f EXCEPT !.pc = Then(f), !.held = o])]

\* The engine attaches an object of the scene (obj) or detaches one (Null).
Call(t, id, obj) ==
    /\ stack[t] = <<>>
    /\ calls < MaxCalls
    /\ calls' = calls + 1
    /\ stack' = [stack EXCEPT ![t] = <<NewFrame(id, obj)>>]
    /\ UNCHANGED <<usePreCulled, toggles, stock, ours, scene, dead, reader>>

\* Defect: updates of one id are not ordered.
PassWriter(t) ==
    /\ Running(t, "writer")
    /\ stack' = Advance(t, Null)
    /\ UNCHANGED <<usePreCulled, toggles, stock, ours, scene, dead, calls, reader>>

\* Defect: a plain mutex, which its owner cannot take again.
LockPlainWriter(t) ==
    /\ Running(t, "writer")
    /\ \A u \in Updaters : ~HoldsWriter(u, ShardIndex[Last(stack[t]).id])
    /\ stack' = Advance(t, Null)
    /\ UNCHANGED <<usePreCulled, toggles, stock, ours, scene, dead, calls, reader>>

LockWriter(t) ==
    /\ Running(t, "writer")
    /\ \A u \in Updaters \ {t} : ~HoldsWriter(u, ShardIndex[Last(stack[t]).id])
    /\ stack' = Advance(t, Null)
    /\ UNCHANGED <<usePreCulled, toggles, stock, ours, scene, dead, calls, reader>>

\* MapInsertOrAssign and MapErase, under the shard's exclusive lock: what left
\* the map is kept in a local.
MapUpdate(t) ==
    LET f == Last(stack[t])
        shard == ShardIndex[f.id]
    IN  /\ Running(t, "map")
        /\ \A u \in Updaters : ~HoldsShard(u, shard)
        /\ \A r \in Readers : ~ReadsShard(r, shard)
        /\ ours' = [ours EXCEPT ![f.id] = f.obj]
        /\ stack' = Advance(t, ours[f.id])
        /\ UNCHANGED <<usePreCulled, toggles, stock, scene, dead, calls, reader>>

\* Defect: the local is released before the shard lock is.
ReleaseThenUnlock(t) ==
    \/ /\ Running(t, "mapped")
       /\ Last(stack[t]).held # Null
       /\ Drop(t, Last(stack[t]).held, scene, stock, ours,
               [stack EXCEPT ![t][Len(stack[t])].held = Null])
       /\ UNCHANGED <<usePreCulled, toggles, calls, reader>>
    \/ /\ Running(t, "mapped") \/ Running(t, "displaced")
       /\ Last(stack[t]).held = Null
       /\ stack' = Advance(t, Null)
       /\ UNCHANGED <<usePreCulled, toggles, stock, ours, scene, dead, calls, reader>>

\* The shard lock is dropped; only then does the local go out of scope.
UnlockThenRelease(t) ==
    \/ /\ Running(t, "mapped")
       /\ stack' = Advance(t, Last(stack[t]).held)
       /\ UNCHANGED <<usePreCulled, toggles, stock, ours, scene, dead, calls, reader>>
    \/ /\ Running(t, "displaced")
       /\ Drop(t, Last(stack[t]).held, scene, stock, ours, Advance(t, Null))
       /\ UNCHANGED <<usePreCulled, toggles, calls, reader>>

\* The original: takes the table's lock, replaces the entry and drops the old
\* object's reference while it holds it.
StockUpdate(t) ==
    LET f == Last(stack[t])
    IN  /\ Running(t, "original")
        /\ \A u \in Updaters \ {t} : ~WritesStock(u)
        /\ \A r \in Readers : ~ReadsStock(r)
        /\ Drop(t, stock[f.id], scene, [stock EXCEPT ![f.id] = f.obj], ours, Advance(t, Null))
        /\ UNCHANGED <<usePreCulled, toggles, calls, reader>>

StockUnlock(t) ==
    /\ Running(t, "stocked")
    /\ stack' = Advance(t, Null)
    /\ UNCHANGED <<usePreCulled, toggles, stock, ours, scene, dead, calls, reader>>

\* The writer lock goes out of scope.
Return(t) ==
    /\ Running(t, "leave")
    /\ stack' = [stack EXCEPT ![t] = Front(@)]
    /\ UNCHANGED <<usePreCulled, toggles, stock, ours, scene, dead, calls, reader>>

UpdateIDto3DMap(t) ==
    \/ LockWriter(t) \/ MapUpdate(t) \/ UnlockThenRelease(t)
    \/ StockUpdate(t) \/ StockUnlock(t) \/ Return(t)

\* The scene lets go of an object that is not the argument of a call.
SceneDrop(t, o) ==
    /\ stack[t] = <<>>
    /\ o \in scene
    /\ \A u \in Updaters : \A f \in Frames(u) : f.obj # o
    /\ Drop(t, o, scene \ {o}, stock, ours, stack)
    /\ UNCHANGED <<usePreCulled, toggles, calls, reader>>

\* Somebody changes bUsePreCulledObjects.
Toggle ==
    /\ toggles < MaxToggles
    /\ toggles' = toggles + 1
    /\ usePreCulled' = ~usePreCulled
    /\ UNCHANGED <<stock, ours, scene, dead, calls, stack, reader>>

-----------------------------------------------------------------------------
(* The culling passes: AddPreCulledIDs over the whole id array, and the    *)
(* hooked Get3DForID for one id (hook), whose caller holds the same lock.  *)

Begin(r, ids, hook) ==
    /\ reader[r].pc = "idle"
    /\ reader[r].passes < MaxPasses
    /\ \A t \in Updaters : ~WritesStock(t)
    /\ reader' = [reader EXCEPT ![r].pc = "scan", ![r].todo = ids, ![r].hook = hook,
                                ![r].passes = @ + 1]
    /\ UNCHANGED <<usePreCulled, toggles, stock, ours, scene, dead, calls, stack>>

BeginPass(r) == Begin(r, Ids, FALSE)

BeginHook(r) == \E id \in Ids : Begin(r, {id}, TRUE)

\* A lookup ends with obj: used if there is one, otherwise the next id.
Found(r, id, obj, pc) ==
    reader' = [reader EXCEPT ![r].pc = IF obj = Null THEN "scan" ELSE pc,
                             ![r].id = IF obj = Null THEN Null ELSE id,
                             ![r].obj = obj,
                             ![r].todo = @ \ {id}]

\* The setting is off: the stock table answers.
LookupStock(r) ==
    /\ reader[r].pc = "scan"
    /\ ~usePreCulled
    /\ \E id \in reader[r].todo : Found(r, id, stock[id], "use")
    /\ UNCHANGED <<usePreCulled, toggles, stock, ours, scene, dead, calls, stack>>

\* Defect: MapFindOne without the lock.
ReadUnlocked(r) ==
    /\ reader[r].pc = "scan"
    /\ usePreCulled
    /\ \E id \in reader[r].todo :
          reader' = [reader EXCEPT ![r].pc = "find", ![r].id = id]
    /\ UNCHANGED <<usePreCulled, toggles, stock, ours, scene, dead, calls, stack>>

\* MapFindOne takes the shard's lock ...
LockShard(r) ==
    /\ reader[r].pc = "scan"
    /\ usePreCulled
    /\ \E id \in reader[r].todo :
          /\ \A t \in Updaters : ~HoldsShard(t, ShardIndex[id])
          /\ reader' = [reader EXCEPT ![r].pc = "find", ![r].id = id]
    /\ UNCHANGED <<usePreCulled, toggles, stock, ours, scene, dead, calls, stack>>

\* ... reads the entry and drops it.  Every 4096th miss of the hook asks the
\* stock table too; which one that is, the model leaves open.
FindOne(r) ==
    LET id == reader[r].id
    IN  /\ reader[r].pc = "find"
        /\ \/ Found(r, id, ours[id], "use")
           \/ /\ reader[r].hook
              /\ ours[id] = Null
              /\ reader' = [reader EXCEPT ![r].pc = "missed"]
        /\ UNCHANGED <<usePreCulled, toggles, stock, ours, scene, dead, calls, stack>>

Sentinel(r) ==
    /\ reader[r].pc = "missed"
    /\ Found(r, reader[r].id, stock[reader[r].id], "real")
    /\ UNCHANGED <<usePreCulled, toggles, stock, ours, scene, dead, calls, stack>>

\* The object's flags and bound are read, and the object may join the group.
Use(r) ==
    /\ reader[r].pc \in {"use", "real"}
    /\ reader' = [reader EXCEPT ![r].pc = "scan", ![r].id = Null, ![r].obj = Null]
    /\ UNCHANGED <<usePreCulled, toggles, stock, ours, scene, dead, calls, stack>>

End(r) ==
    /\ reader[r].pc = "scan"
    /\ reader[r].todo = {}
    /\ reader' = [reader EXCEPT ![r].pc = "idle", ![r].hook = FALSE]
    /\ UNCHANGED <<usePreCulled, toggles, stock, ours, scene, dead, calls, stack>>

Pass(r) ==
    LookupStock(r) \/ LockShard(r) \/ FindOne(r) \/ Sentinel(r) \/ Use(r) \/ End(r)

-----------------------------------------------------------------------------
Next ==
    \/ \E t \in Updaters :
          \/ UpdateIDto3DMap(t)
          \/ \E id \in Ids, obj \in scene \cup {Null} : Call(t, id, obj)
          \/ \E o \in scene : SceneDrop(t, o)
    \/ \E r \in Readers : BeginPass(r) \/ BeginHook(r) \/ Pass(r)
    \/ Toggle

Spec == Init /\ [][Next]_vars

(***************************************************************************)
(* A call of UpdateIDto3DMap and a culling pass keep running when they are *)
(* not blocked; the engine need not start either, nor change the setting.  *)
(* Passes are finite, so a writer that waits for the table's lock gets it  *)
(* under weak fairness once they end.                                      *)
(***************************************************************************)
FairSpec ==
    /\ Spec
    /\ \A t \in Updaters : WF_vars(UpdateIDto3DMap(t))
    /\ \A r \in Readers : WF_vars(Pass(r))

-----------------------------------------------------------------------------
(* Correctness *)

\* Types; and the locks exclude one another.
TypeOK ==
    /\ usePreCulled \in BOOLEAN /\ toggles \in 0..MaxToggles /\ calls \in 0..MaxCalls
    /\ stock \in [Ids -> Objects \cup {Null}] /\ ours \in [Ids -> Objects \cup {Null}]
    /\ scene \subseteq Objects /\ dead \subseteq Objects
    /\ \A t \in Updaters : Frames(t) \subseteq Frame
    /\ \A r \in Readers :
          /\ reader[r].pc \in ReaderPcs /\ reader[r].passes \in 0..MaxPasses
          /\ reader[r].todo \subseteq Ids
          /\ reader[r].obj \in Objects \cup {Null}
    /\ \A t \in Updaters, shard \in Range(ShardIndex) : HoldsShard(t, shard) =>
          /\ \A u \in Updaters \ {t} : ~HoldsShard(u, shard)
          /\ \A r \in Readers : ~ReadsShard(r, shard)

(***************************************************************************)
(* "until the original drops the stock reference to a replaced or removed  *)
(* object, an object a reader just fetched from our map stays alive"       *)
(* (BSPreCulledObjectsPatchVR.cpp:568-570): no pass uses a dead object.    *)
(***************************************************************************)
FetchedStaysAlive ==
    \A r \in Readers : reader[r].pc \in {"use", "real"} => reader[r].obj \notin dead

\* The same, as long as nobody changes bUsePreCulledObjects.
FetchedStaysAliveIfSet == toggles = 0 => FetchedStaysAlive

(***************************************************************************)
(* "Keep the stock table and our map in step": they differ on an id only   *)
(* while an update of its shard is under way, however updates, destructors *)
(* and passes interleave (BSPreCulledObjectsPatchVR.cpp:560-565).          *)
(***************************************************************************)
InStep ==
    toggles = 0 /\ usePreCulled =>
        \A id \in Ids :
            ours[id] # stock[id] => \E t \in Updaters : HoldsWriter(t, ShardIndex[id])

(***************************************************************************)
(* The sentinel counts a "real" miss, "so a divergence shows up in the     *)
(* log" (BSPreCulledObjectsPatchVR.cpp:733-734): one is counted only while *)
(* an update of that shard is under way, never for a lasting divergence.   *)
(***************************************************************************)
RealMissIsTransient ==
    toggles = 0 =>
        \A r \in Readers : reader[r].pc = "real" =>
            \E t \in Updaters : HoldsWriter(t, ShardIndex[reader[r].id])

(***************************************************************************)
(* No destructor runs on a thread that holds a shard lock, which its       *)
(* re-entrant update would wait for: the references that leave the map are *)
(* released after dropping it (BSPreCulledObjectsPatchVR.cpp:59-61).       *)
(***************************************************************************)
DestructorsRunUnlocked ==
    [][\A t \in Updaters, shard \in Range(ShardIndex) :
          dead' # dead /\ stack'[t] # stack[t] => ~HoldsShard(t, shard)]_vars

\* Every call returns: no update waits for good on a pass, on another update or
\* on one that its own destructors started.
EveryCallReturns == \A t \in Updaters : stack[t] # <<>> ~> stack[t] = <<>>
=============================================================================
