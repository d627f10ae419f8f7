---------------------------- MODULE MemoryTraces ----------------------------
(***************************************************************************)
(* Patches::MemoryManagerPatch with MemoryManagerDebug: the engine's       *)
(* allocation routines are replaced by routines that remember, for every   *)
(* block of the size of a NiNode, whether it was allocated with a required *)
(* alignment, and that fail when it is deallocated the other way.          *)
(*                                                                         *)
(* The map of traces has a mutex, the heap below has none that the patch   *)
(* shares: a block freed by one thread may be handed out to another before *)
(* the first has erased its trace.  A trace is abstracted to its flag.     *)
(* External: the heap (TBB), and the engine's callers, which deallocate a  *)
(* block once and never while another call works on it.                    *)
(***************************************************************************)
EXTENDS Naturals, FiniteSets

CONSTANTS
    Threads,
    Blocks,     \* bound: the addresses of the heap
    Null

ASSUME MemoryTracesAssumption == Null \notin Blocks

VARIABLES
    live,       \* the heap: the blocks handed out
    traces,     \* the map, a function on the traced addresses
    call,       \* the call each thread is in
    failed,     \* report_and_fail has run
    required,   \* history: the flag each block was last allocated with
    nodes,      \* history: the live blocks that began with a NiNode's size
    kept        \* history: the blocks a failed reallocation left to their owner

vars == <<live, traces, call, failed, required, nodes, kept>>

Pointers == Blocks \cup {Null}

\* "free", "trace" and "retrace" hold the mutex; "emplace" is waiting for it.
Pcs == {"idle", "emplace", "locking", "free", "erase", "realloc", "retrace"}

Idle == [pc |-> "idle", mem |-> Null, result |-> Null, aligned |-> FALSE]

NoTrace == [b \in {} |-> FALSE]

Init ==
    /\ live = {}
    /\ traces = NoTrace
    /\ call = [t \in Threads |-> Idle]
    /\ failed = FALSE
    /\ required = [b \in Blocks |-> FALSE]
    /\ nodes = {}
    /\ kept = {}

\* Defect: the mutex is released before the trace is erased.
ReleasedEarly(t) == call[t].pc \in {"free", "realloc", "retrace"}

HoldsLock(t) == call[t].pc \in {"free", "erase", "realloc", "retrace"}

LockFree == \A t \in Threads : ~HoldsLock(t)

At(t, pc) == ~failed /\ call[t].pc = pc

\* The blocks some call works on, whose owner is the thread in that call.
InCall == {call[t].mem : t \in Threads} \cup {call[t].result : t \in Threads}

\* unordered_flat_map::emplace keeps an entry that is there, erase drops it.
Emplaced(map, key, flag) ==
    IF key \in DOMAIN map THEN map
    ELSE [k \in DOMAIN map \cup {key} |-> IF k = key THEN flag ELSE map[k]]

Erased(map, key) == [k \in DOMAIN map \ {key} |-> map[k]]

-----------------------------------------------------------------------------
(* DbgAllocate *)

\* Size 0, or no memory left: nullptr.  Only a NiNode's size is traced.
Allocate(t) ==
    /\ At(t, "idle")
    /\ \E b \in Blocks \ live, aligned \in BOOLEAN, node \in BOOLEAN :
          /\ live' = live \cup {b}
          /\ required' = [required EXCEPT ![b] = aligned]
          /\ nodes' = IF node THEN nodes \cup {b} ELSE nodes
          /\ call' = IF node
                     THEN [call EXCEPT ![t] = [Idle EXCEPT !.pc = "emplace", !.result = b,
                                                           !.aligned = aligned]]
                     ELSE call
    /\ UNCHANGED <<traces, failed, kept>>

Emplace(t) ==
    /\ At(t, "emplace") /\ LockFree
    /\ traces' = Emplaced(traces, call[t].result, call[t].aligned)
    /\ call' = [call EXCEPT ![t] = Idle]
    /\ UNCHANGED <<live, failed, required, nodes, kept>>

-----------------------------------------------------------------------------
(* DbgDeallocate *)

\* The trace that accuses: made with the other flag.
Mismatch(mem, aligned) == mem \in DOMAIN traces /\ traces[mem] # aligned

\* The call of DbgDeallocate; it takes the mutex in a step of its own.
CallDeallocate(t) ==
    /\ At(t, "idle")
    /\ \E mem \in (live \ InCall) \cup {Null}, aligned \in BOOLEAN :
          call' = [call EXCEPT ![t] = [Idle EXCEPT !.pc = "locking", !.mem = mem,
                                                   !.aligned = aligned]]
    /\ UNCHANGED <<live, traces, failed, required, nodes, kept>>

\* Defect: the trace is looked up before the mutex is taken.
CheckTraceUnlocked(t) ==
    /\ At(t, "locking")
    /\ IF Mismatch(call[t].mem, call[t].aligned)
       THEN failed' = TRUE /\ UNCHANGED call
       ELSE LockFree /\ call' = [call EXCEPT ![t].pc = "free"] /\ UNCHANGED failed
    /\ UNCHANGED <<live, traces, required, nodes, kept>>

\* The mutex is taken and the trace looked up.
CheckTrace(t) ==
    /\ At(t, "locking") /\ LockFree
    /\ IF Mismatch(call[t].mem, call[t].aligned)
       THEN failed' = TRUE /\ UNCHANGED call
       ELSE call' = [call EXCEPT ![t].pc = "free"] /\ UNCHANGED failed
    /\ UNCHANGED <<live, traces, required, nodes, kept>>

\* Deallocate, under the mutex; nullptr is ignored by the heap.
Free(t) ==
    /\ At(t, "free")
    /\ live' = live \ {call[t].mem}
    /\ nodes' = nodes \ {call[t].mem}
    /\ kept' = kept \ {call[t].mem}
    /\ call' = [call EXCEPT ![t].pc = "erase"]
    /\ UNCHANGED <<traces, failed, required>>

Erase(t) ==
    /\ At(t, "erase")
    /\ traces' = Erased(traces, call[t].mem)
    /\ call' = [call EXCEPT ![t] = Idle]
    /\ UNCHANGED <<live, failed, required, nodes, kept>>

-----------------------------------------------------------------------------
(* DbgReallocate *)

\* Defect: the heap is called before the mutex is taken.
ReallocateUnlocked(t) ==
    /\ At(t, "idle")
    /\ \E mem \in (live \ InCall) \cup {Null}, aligned \in BOOLEAN :
          call' = [call EXCEPT ![t] = [Idle EXCEPT !.pc = "realloc", !.mem = mem,
                                                   !.aligned = aligned]]
    /\ UNCHANGED <<live, traces, failed, required, nodes, kept>>

LockReallocate(t) ==
    /\ At(t, "idle") /\ LockFree
    /\ \E mem \in (live \ InCall) \cup {Null}, aligned \in BOOLEAN :
          call' = [call EXCEPT ![t] = [Idle EXCEPT !.pc = "realloc", !.mem = mem,
                                                   !.aligned = aligned]]
    /\ UNCHANGED <<live, traces, failed, required, nodes, kept>>

\* The block stays or moves to a free address.
Move(t) ==
    LET mem == call[t].mem
    IN  /\ At(t, "realloc")
        /\ \E b \in Blocks \ (live \ {mem}) :
              /\ live' = (live \ {mem}) \cup {b}
              /\ nodes' = (nodes \ {mem}) \cup (IF mem \in nodes THEN {b} ELSE {})
              /\ kept' = (kept \ {mem}) \cup (IF mem \in kept THEN {b} ELSE {})
              /\ required' = [required EXCEPT ![b] = call[t].aligned]
              /\ call' = [call EXCEPT ![t].pc = "retrace", ![t].result = b]
        /\ UNCHANGED <<traces, failed>>

\* A new size of 0 frees the block and returns nullptr.
Shrink(t) ==
    /\ At(t, "realloc") /\ call[t].mem # Null
    /\ live' = live \ {call[t].mem}
    /\ nodes' = nodes \ {call[t].mem}
    /\ kept' = kept \ {call[t].mem}
    /\ call' = [call EXCEPT ![t].pc = "retrace"]
    /\ UNCHANGED <<traces, failed, required>>

\* No memory left: nullptr is returned, the old block is still its owner's.
OutOfMemory(t) ==
    /\ At(t, "realloc")
    /\ kept' = kept \cup ({call[t].mem} \cap Blocks)
    /\ call' = [call EXCEPT ![t].pc = "retrace"]
    /\ UNCHANGED <<live, traces, failed, required, nodes>>

\* Defect: the new address is traced, the old trace stays.
RetraceKeeping(t) ==
    LET mem == call[t].mem
    IN  /\ At(t, "retrace")
        /\ traces' = IF mem \in DOMAIN traces
                     THEN Emplaced(traces, call[t].result, call[t].aligned)
                     ELSE traces
        /\ call' = [call EXCEPT ![t] = Idle]
        /\ UNCHANGED <<live, failed, required, nodes, kept>>

\* A traced block is traced at its new address, with the new flag.
Retrace(t) ==
    LET mem == call[t].mem
    IN  /\ At(t, "retrace")
        /\ traces' = IF mem \in DOMAIN traces
                     THEN Emplaced(Erased(traces, mem), call[t].result, call[t].aligned)
                     ELSE traces
        /\ call' = [call EXCEPT ![t] = Idle]
        /\ UNCHANGED <<live, failed, required, nodes, kept>>

DbgAllocate(t) == Allocate(t) \/ Emplace(t)
DbgDeallocate(t) == CallDeallocate(t) \/ CheckTrace(t) \/ Free(t) \/ Erase(t)
DbgReallocate(t) ==
    LockReallocate(t) \/ Move(t) \/ Shrink(t) \/ OutOfMemory(t) \/ Retrace(t)

Next == \E t \in Threads : DbgAllocate(t) \/ DbgDeallocate(t) \/ DbgReallocate(t)

Spec == Init /\ [][Next]_vars

-----------------------------------------------------------------------------
(* Correctness *)

TypeOK ==
    /\ live \subseteq Blocks
    /\ DOMAIN traces \subseteq Pointers /\ \A p \in DOMAIN traces : traces[p] \in BOOLEAN
    /\ call \in [Threads -> [pc : Pcs, mem : Pointers, result : Pointers, aligned : BOOLEAN]]
    /\ failed \in BOOLEAN
    /\ required \in [Blocks -> BOOLEAN]
    /\ nodes \subseteq live /\ kept \subseteq live
    /\ \A t, u \in Threads : HoldsLock(t) /\ HoldsLock(u) => t = u

\* An address one call has released and not yet erased or retraced: its trace is
\* the one of the block that was there.
Released == {call[t].mem : t \in {u \in Threads : call[u].pc \in {"erase", "retrace"}}}

(***************************************************************************)
(* No trace outlives its block: an address that is traced is live, or its  *)
(* trace is about to go under the mutex.  A stale trace would survive      *)
(* emplace, which does not overwrite, and accuse the next owner of the     *)
(* address (MemoryManagerPatch.h:109-112, .cpp:143-144).  The one address  *)
(* exempt is nullptr, which DbgReallocate may trace.                       *)
(***************************************************************************)
NoStaleTrace == DOMAIN traces \subseteq live \cup Released \cup {Null}

(***************************************************************************)
(* Every block of a NiNode's origin that no call is working on is traced   *)
(* with the flag of its last allocation, if no reallocation of it has      *)
(* failed: a bad deallocation of it will be reported, whichever threads    *)
(* have handed its address back and forth (MemoryManagerPatch.h:105-146).  *)
(***************************************************************************)
NodesAreTraced ==
    \A b \in nodes \ (InCall \cup kept) : b \in DOMAIN traces /\ traces[b] = required[b]

\* What the report says: the block is live, and was allocated the other way.
BadDeallocation(t) ==
    /\ call[t].pc = "locking" /\ call[t].mem \in live
    /\ required[call[t].mem] # call[t].aligned

(***************************************************************************)
(* "A bad deallocation has resulted in a crash" (MemoryManagerPatch        *)
(* .cpp:141): the process is ended only for a deallocation that does not   *)
(* match its allocation.  Deallocating nullptr is not bad, and yet is      *)
(* reported once a reallocation that returned nullptr was traced.          *)
(***************************************************************************)
ReportIsJust == failed => \E t \in Threads : BadDeallocation(t)

\* The same as long as nullptr has no trace: no reused address, no reallocation
\* that moved a block and no waiting thread has an innocent block reported.  Once
\* nullptr is traced, nothing is claimed of any block.
BlockReportIsJust == Null \notin DOMAIN traces => ReportIsJust
=============================================================================
