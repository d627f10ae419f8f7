------------------------------- MODULE NavCut -------------------------------
(***************************************************************************)
(* The interior navmesh fix: workshop items of the interior cell the       *)
(* player is in cut the navmesh, those of other cells must not.  A listener*)
(* tells the engine of each cell that is attached or detached and queues   *)
(* one task that applies what was told; after a save is loaded all cells   *)
(* are told anew.                                                          *)
(*                                                                         *)
(* A cell stands for the workshop items in it.  External: the engine's     *)
(* DynamicNavmesh (told by UpdateDynamicNavmesh, applied by ForceUpdate),  *)
(* its cell events, and F4SE's queue, whose tasks the main thread runs.    *)
(***************************************************************************)
EXTENDS Naturals, Sequences

CONSTANTS
    NavThreads, MainThread,
    Cells,
    WorkshopCells,  \* the interior cells with a workshop
    RemovedCells,   \* the cells whose items are deleted or disabled
    MaxMoves,       \* bound: how often the player changes cells
    MaxLoads        \* bound: how often a save is loaded

ASSUME NavCutAssumption ==
    /\ MainThread \in NavThreads
    /\ WorkshopCells \subseteq Cells /\ RemovedCells \subseteq Cells
    /\ MaxMoves \in Nat /\ MaxLoads \in Nat

VARIABLES
    onMain,             \* whether cell events are raised on the main thread only
    playerCell,
    told,               \* the cells the navmesh was told to cut for
    carved,             \* the cells that cut the navmesh now
    updateTaskQueued,
    tasks,              \* tasks of the fix in F4SE's queue
    navAt,              \* where each thread is
    moves, loads

navVars == <<onMain, playerCell, told, carved, updateTaskQueued, tasks, navAt, moves, loads>>

Idle == [pc |-> "idle", events |-> <<>>, refs |-> {}]

NavTypeOK ==
    /\ onMain \in BOOLEAN /\ updateTaskQueued \in BOOLEAN
    /\ playerCell \in Cells
    /\ told \subseteq Cells /\ carved \subseteq Cells
    /\ tasks \in Nat /\ moves \in 0..MaxMoves /\ loads \in 0..MaxLoads
    /\ navAt \in [NavThreads ->
           [pc : {"idle", "event", "test", "set", "add", "refs", "clear"},
            events : Seq([cell : Cells, attached : BOOLEAN]), refs : SUBSET Cells]]

\* The listener is registered; cuts of a former game persist, which is the
\* engine's bug.
NavInit ==
    /\ onMain \in BOOLEAN
    /\ playerCell \in Cells
    /\ told = WorkshopCells /\ carved = WorkshopCells
    /\ updateTaskQueued = FALSE /\ tasks = 0
    /\ navAt = [t \in NavThreads |-> Idle]
    /\ moves = 0 /\ loads = 0

-----------------------------------------------------------------------------

\* What the navmesh has been told after DoUpdateNavmesh(cell, attaching).
DoUpdateNavmesh(cell, attaching) ==
    IF cell \notin WorkshopCells THEN told
    ELSE IF attaching /\ cell \notin RemovedCells THEN told \cup {cell}
    ELSE told \ {cell}

\* The player walks into another cell: on some thread the engine raises the
\* events for the cell that is left and the one that is entered.
PlayerMoves(t, cell) ==
    /\ moves < MaxMoves /\ loads > 0 /\ cell # playerCell
    /\ onMain => t = MainThread
    /\ \A u \in NavThreads : navAt[u].events = <<>> /\ navAt[u].pc # "refs"
    /\ navAt[t] = Idle
    /\ playerCell' = cell
    /\ moves' = moves + 1
    /\ navAt' = [navAt EXCEPT ![t] = [pc |-> "event", refs |-> {},
                   events |-> << [cell |-> playerCell, attached |-> FALSE],
                                 [cell |-> cell, attached |-> TRUE] >>]]
    /\ UNCHANGED <<onMain, told, carved, updateTaskQueued, tasks, loads>>

\* ProcessEvent: the engine is told first.
TellEvent(t) ==
    /\ navAt[t].pc = "event"
    /\ LET e == Head(navAt[t].events) IN told' = DoUpdateNavmesh(e.cell, e.attached)
    /\ navAt' = [navAt EXCEPT ![t].pc = "test"]
    /\ UNCHANGED <<onMain, playerCell, carved, updateTaskQueued, tasks, moves, loads>>

\* The thread's state after it is done with its first event.
NextEvent(t) ==
    LET rest == Tail(navAt[t].events)
    IN  [navAt EXCEPT ![t] = IF rest = <<>> THEN Idle ELSE [@ EXCEPT !.pc = "event", !.events = rest]]

\* if (!updateTaskQueued)
TestQueued(t) ==
    /\ navAt[t].pc = "test"
    /\ navAt' = IF updateTaskQueued THEN NextEvent(t) ELSE [navAt EXCEPT ![t].pc = "set"]
    /\ UNCHANGED <<onMain, playerCell, told, carved, updateTaskQueued, tasks, moves, loads>>

SetQueued(t) ==
    /\ navAt[t].pc = "set"
    /\ updateTaskQueued' = TRUE
    /\ navAt' = [navAt EXCEPT ![t].pc = "add"]
    /\ UNCHANGED <<onMain, playerCell, told, carved, tasks, moves, loads>>

AddTask(t) ==
    /\ navAt[t].pc = "add"
    /\ tasks' = tasks + 1
    /\ navAt' = NextEvent(t)
    /\ UNCHANGED <<onMain, playerCell, told, carved, updateTaskQueued, moves, loads>>

\* The task: ForceUpdate, then the flag.
RunTask ==
    /\ navAt[MainThread] = Idle /\ tasks > 0
    /\ tasks' = tasks - 1
    /\ carved' = told
    /\ navAt' = [navAt EXCEPT ![MainThread].pc = "clear"]
    /\ UNCHANGED <<onMain, playerCell, told, updateTaskQueued, moves, loads>>

\* Defect: the flag is never reset.
KeepQueued ==
    /\ navAt[MainThread].pc = "clear"
    /\ navAt' = [navAt EXCEPT ![MainThread] = Idle]
    /\ UNCHANGED <<onMain, playerCell, told, carved, updateTaskQueued, tasks, moves, loads>>

ClearQueued ==
    /\ navAt[MainThread].pc = "clear"
    /\ updateTaskQueued' = FALSE
    /\ navAt' = [navAt EXCEPT ![MainThread] = Idle]
    /\ UNCHANGED <<onMain, playerCell, told, carved, tasks, moves, loads>>

\* A save with the player in some cell is loaded, and ForceNavMeshUpdate takes
\* its snapshot of the interior references.
LoadGame(cell) ==
    /\ loads < MaxLoads
    /\ \A u \in NavThreads : navAt[u].events = <<>>
    /\ navAt[MainThread] = Idle
    /\ loads' = loads + 1
    /\ playerCell' = cell
    /\ navAt' = [navAt EXCEPT ![MainThread] = [pc |-> "refs", events |-> <<>>, refs |-> Cells]]
    /\ UNCHANGED <<onMain, told, carved, updateTaskQueued, tasks, moves>>

\* Defect: the cells that are not the player's are skipped.
TellPlayerCellOnly(cell) ==
    /\ cell \in navAt[MainThread].refs
    /\ told' = IF cell = playerCell THEN DoUpdateNavmesh(cell, TRUE) ELSE told
    /\ navAt' = [navAt EXCEPT ![MainThread].refs = @ \ {cell}]
    /\ UNCHANGED <<onMain, playerCell, carved, updateTaskQueued, tasks, moves, loads>>

TellReference(cell) ==
    /\ cell \in navAt[MainThread].refs
    /\ told' = DoUpdateNavmesh(cell, cell = playerCell)
    /\ navAt' = [navAt EXCEPT ![MainThread].refs = @ \ {cell}]
    /\ UNCHANGED <<onMain, playerCell, carved, updateTaskQueued, tasks, moves, loads>>

FinishLoad ==
    /\ navAt[MainThread].pc = "refs" /\ navAt[MainThread].refs = {}
    /\ carved' = told
    /\ navAt' = [navAt EXCEPT ![MainThread] = Idle]
    /\ UNCHANGED <<onMain, playerCell, told, updateTaskQueued, tasks, moves, loads>>

NavThreadStep(t) == TellEvent(t) \/ TestQueued(t) \/ SetQueued(t) \/ AddTask(t)

NavMainStep == RunTask \/ ClearQueued \/ FinishLoad \/ \E c \in Cells : TellReference(c)

NavEngineStep ==
    \E c \in Cells : LoadGame(c) \/ \E t \in NavThreads : PlayerMoves(t, c)

NavNext == NavEngineStep \/ NavMainStep \/ \E t \in NavThreads : NavThreadStep(t)

NavSpec == NavInit /\ [][NavNext]_navVars

-----------------------------------------------------------------------------

Wanted == {playerCell} \cap (WorkshopCells \ RemovedCells)

\* Nothing is under way: no event, no task and no load.
NavQuiet == tasks = 0 /\ \A t \in NavThreads : navAt[t] = Idle

(***************************************************************************)
(* Whenever the listener and the load-time update have nothing left to do, *)
(* the navmesh is cut by the workshop items of the player's cell and by no *)
(* other.  updateTaskQueued is why it could fail: an event that finds it   *)
(* set relies on a task that must not have called ForceUpdate yet.         *)
(***************************************************************************)
QuietNavmeshIsRight == onMain /\ loads > 0 /\ NavQuiet => carved = Wanted

(***************************************************************************)
(* Once the player stays where they are, the navmesh is cut by the         *)
(* workshop items of the player's cell and by no other: no event, task or  *)
(* load-time update is lost (ProcessEvent, its task, ForceNavMeshUpdate).  *)
(* It needs the engine to raise cell events on the thread that runs the    *)
(* tasks: from another thread an event may find updateTaskQueued still set *)
(* by a task that has called ForceUpdate already, and nothing follows it.  *)
(***************************************************************************)
NavmeshSettles == onMain => <>[](loads = 0 \/ carved = Wanted)
=============================================================================
