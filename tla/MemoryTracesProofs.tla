------------------------- MODULE MemoryTracesProofs -------------------------
(***************************************************************************)
(* Theorems about MemoryTraces for any sets of threads and addresses.      *)
(*                                                                         *)
(* None of the properties is inductive: each speaks of the blocks that no  *)
(* call works on, so a call that ends must have left its block in order.   *)
(* IInv says what each position of a call knows of the blocks it works on  *)
(* (CallsKnow), that no two calls work on one live block (Unshared), that  *)
(* every trace outside a released address is true (TracesAreTrue), and     *)
(* which call owes a trace to a block that has none (NodesAreOwed).        *)
(***************************************************************************)
EXTENDS MemoryTraces, TLAPS

AtOrNull(S) == S \cup {Null}

CallsKnow ==
    \A t \in Threads :
        LET c == call[t]
        IN  /\ c.pc = "idle" => c = Idle
            /\ c.pc = "emplace" => /\ c.mem = Null /\ c.result \in live
                                   /\ required[c.result] = c.aligned
            /\ c.pc \in {"locking", "free", "realloc"} => c.mem \in AtOrNull(live) /\ c.result = Null
            /\ c.pc = "erase" => c.result = Null
            /\ c.pc = "retrace" => c.result = Null \/ (c.result \in live /\ required[c.result] = c.aligned)

\* A call that may take its block from the heap shares it with no other call
\* that will still need it.
Unshared ==
    \A t, u \in Threads :
        /\ t # u
        /\ call[t].pc \in {"locking", "free", "realloc"} /\ call[t].mem # Null
        => /\ call[u].pc \in {"locking", "free", "realloc"} => call[u].mem # call[t].mem
           /\ call[u].pc = "emplace" => call[u].result # call[t].mem

TracesAreTrue ==
    \A b \in DOMAIN traces \ AtOrNull(Released) : b \in live /\ traces[b] = required[b]

Emplacing(b) == \E t \in Threads : call[t].pc = "emplace" /\ call[t].result = b

Retracing(b) == \E t \in Threads : call[t].pc = "retrace" /\ call[t].result = b

Traced(b) == b \in DOMAIN traces /\ traces[b] = required[b]

\* A trace that is missing or about to be erased will be made by Emplace, or by
\* the Retrace of the block's old address.
NodesAreOwed ==
    /\ \A b \in nodes \ kept : Traced(b) \/ Emplacing(b) \/ Retracing(b)
    /\ \A t \in Threads :
         LET c == call[t]
         IN  /\ c.pc \in {"erase", "retrace"} /\ c.mem \in nodes \ kept =>
                  c.mem = c.result \/ Emplacing(c.mem)
             /\ c.pc = "retrace" /\ c.result \in nodes \ kept => c.mem \in DOMAIN traces

IInv == TypeOK /\ CallsKnow /\ Unshared /\ TracesAreTrue /\ NodesAreOwed

-----------------------------------------------------------------------------

LEMMA InitIInv == Init => IInv
<1> SUFFICES ASSUME Init PROVE IInv
  OBVIOUS
<1> USE MemoryTracesAssumption DEF Init, Idle, NoTrace
<1>1. TypeOK
  BY DEF TypeOK, Pcs, Pointers, HoldsLock
<1>2. CallsKnow /\ Unshared
  BY DEF CallsKnow, Unshared
<1>3. TracesAreTrue
  BY DEF TracesAreTrue
<1>4. NodesAreOwed
  BY DEF NodesAreOwed
<1>5. QED
  BY <1>1, <1>2, <1>3, <1>4 DEF IInv

\* No step of the three routines breaks IInv.
LEMMA NextIInv == IInv /\ [Next]_vars => IInv'
<1> SUFFICES ASSUME IInv, [Next]_vars PROVE IInv'
  OBVIOUS
<1> USE MemoryTracesAssumption DEF IInv, TypeOK, Pcs, Pointers, Idle, HoldsLock, At, AtOrNull
<1>1. ASSUME NEW t \in Threads, Allocate(t) PROVE IInv'
  <2> PICK b \in Blocks \ live, aligned \in BOOLEAN, node \in BOOLEAN :
         /\ live' = live \cup {b}
         /\ required' = [required EXCEPT ![b] = aligned]
         /\ nodes' = IF node THEN nodes \cup {b} ELSE nodes
         /\ call' = IF node
                    THEN [call EXCEPT ![t] = [Idle EXCEPT !.pc = "emplace", !.result = b,
                                                          !.aligned = aligned]]
                    ELSE call
    BY <1>1 DEF Allocate
  <2>1. TypeOK'
    <3>1. CASE node
      <4>1. call' \in [Threads -> [pc : Pcs, mem : Pointers, result : Pointers, aligned : BOOLEAN]]
        BY <3>1
      <4>2. \A u \in Threads : HoldsLock(u)' => HoldsLock(u)
        BY <3>1
      <4>3. QED
        BY <1>1, <3>1, <4>1, <4>2 DEF Allocate
    <3>2. CASE ~node
      BY <1>1, <3>2 DEF Allocate
    <3>3. QED
      BY <3>1, <3>2
  <2>2. CallsKnow'
    <3>1. CASE node
      BY <3>1 DEF CallsKnow
    <3>2. CASE ~node
      BY <3>2 DEF CallsKnow
    <3>3. QED
      BY <3>1, <3>2
  <2>3. Unshared'
    BY <1>1 DEF Allocate, CallsKnow, Unshared
  <2>4. TracesAreTrue'
    BY <1>1 DEF Allocate, CallsKnow, TracesAreTrue, Released
  <2>5. NodesAreOwed'
    BY <1>1 DEF Allocate, CallsKnow, NodesAreOwed, Traced, Emplacing, Retracing
  <2>6. QED
    BY <2>1, <2>2, <2>3, <2>4, <2>5
<1>2. ASSUME NEW t \in Threads, Emplace(t) PROVE IInv'
  <2>1. TypeOK'
    BY <1>2 DEF Emplace, Emplaced, CallsKnow
  <2>2. CallsKnow'
    BY <1>2 DEF Emplace, CallsKnow
  <2>3. Unshared'
    BY <1>2 DEF Emplace, CallsKnow, Unshared
  <2>4. TracesAreTrue'
    BY <1>2 DEF Emplace, CallsKnow, TracesAreTrue, Released, Emplaced, LockFree
  <2>5. NodesAreOwed'
    BY <1>2 DEF Emplace, CallsKnow, NodesAreOwed, Traced, Emplacing, Retracing, Emplaced, LockFree, Unshared, TracesAreTrue, Released
  <2>6. QED
    BY <2>1, <2>2, <2>3, <2>4, <2>5
<1>3. ASSUME NEW t \in Threads, CallDeallocate(t) PROVE IInv'
  <2>1. TypeOK'
    <3>1. PICK mem \in AtOrNull(live), aligned \in BOOLEAN :
             call' = [call EXCEPT ![t] = [Idle EXCEPT !.pc = "locking", !.mem = mem,
                                                      !.aligned = aligned]]
      BY <1>3 DEF CallDeallocate
    <3>2. call' \in [Threads -> [pc : Pcs, mem : Pointers, result : Pointers, aligned : BOOLEAN]]
      BY <3>1
    <3>3. QED
      BY <1>3, <3>1, <3>2 DEF CallDeallocate
  <2>2. CallsKnow'
    BY <1>3 DEF CallDeallocate, CallsKnow
  <2>3. Unshared'
    BY <1>3 DEF CallDeallocate, CallsKnow, Unshared, InCall
  <2>4. TracesAreTrue'
    BY <1>3 DEF CallDeallocate, CallsKnow, TracesAreTrue, Released
  <2>5. NodesAreOwed'
    BY <1>3 DEF CallDeallocate, CallsKnow, NodesAreOwed, Traced, Emplacing, Retracing
  <2>6. QED
    BY <2>1, <2>2, <2>3, <2>4, <2>5
<1>4. ASSUME NEW t \in Threads, CheckTrace(t) PROVE IInv'
  <2>1. TypeOK'
    <3>1. CASE Mismatch(call[t].mem, call[t].aligned)
      BY <1>4, <3>1 DEF CheckTrace
    <3>2. CASE ~Mismatch(call[t].mem, call[t].aligned)
      BY <1>4, <3>2 DEF CheckTrace, LockFree
    <3>3. QED
      BY <3>1, <3>2
  <2>2. CallsKnow'
    <3>1. CASE Mismatch(call[t].mem, call[t].aligned)
      BY <1>4, <3>1 DEF CheckTrace, CallsKnow
    <3>2. CASE ~Mismatch(call[t].mem, call[t].aligned)
      BY <1>4, <3>2 DEF CheckTrace, CallsKnow
    <3>3. QED
      BY <3>1, <3>2
  <2>3. Unshared'
    BY <1>4 DEF CheckTrace, CallsKnow, Unshared
  <2>4. TracesAreTrue'
    BY <1>4 DEF CheckTrace, CallsKnow, TracesAreTrue, Released, LockFree
  <2>5. NodesAreOwed'
    BY <1>4 DEF CheckTrace, CallsKnow, NodesAreOwed, Traced, Emplacing, Retracing
  <2>6. QED
    BY <2>1, <2>2, <2>3, <2>4, <2>5
<1>5. ASSUME NEW t \in Threads, Free(t) PROVE IInv'
  <2>1. TypeOK'
    BY <1>5 DEF Free, CallsKnow
  <2>2. CallsKnow'
    BY <1>5 DEF Free, CallsKnow, Unshared
  <2>3. Unshared'
    BY <1>5 DEF Free, CallsKnow, Unshared
  <2>4. TracesAreTrue'
    BY <1>5 DEF Free, CallsKnow, TracesAreTrue, Released
  <2>5. NodesAreOwed'
    BY <1>5 DEF Free, CallsKnow, NodesAreOwed, Traced, Emplacing, Retracing, Unshared, TracesAreTrue, Released
  <2>6. QED
    BY <2>1, <2>2, <2>3, <2>4, <2>5
<1>6. ASSUME NEW t \in Threads, Erase(t) PROVE IInv'
  <2>1. TypeOK'
    BY <1>6 DEF Erase, Erased
  <2>2. CallsKnow'
    BY <1>6 DEF Erase, CallsKnow
  <2>3. Unshared'
    BY <1>6 DEF Erase, CallsKnow, Unshared
  <2>4. TracesAreTrue'
    BY <1>6 DEF Erase, CallsKnow, TracesAreTrue, Released, Erased
  <2>5. NodesAreOwed'
    BY <1>6 DEF Erase, CallsKnow, NodesAreOwed, Traced, Emplacing, Retracing, Erased, Unshared, TracesAreTrue, Released
  <2>6. QED
    BY <2>1, <2>2, <2>3, <2>4, <2>5
<1>7. ASSUME NEW t \in Threads, LockReallocate(t) PROVE IInv'
  <2>1. TypeOK'
    <3>1. PICK mem \in AtOrNull(live), aligned \in BOOLEAN :
             call' = [call EXCEPT ![t] = [Idle EXCEPT !.pc = "realloc", !.mem = mem,
                                                      !.aligned = aligned]]
      BY <1>7 DEF LockReallocate
    <3>2. call' \in [Threads -> [pc : Pcs, mem : Pointers, result : Pointers, aligned : BOOLEAN]]
      BY <3>1
    <3>3. QED
      BY <1>7, <3>1, <3>2 DEF LockReallocate, LockFree
  <2>2. CallsKnow'
    BY <1>7 DEF LockReallocate, CallsKnow
  <2>3. Unshared'
    BY <1>7 DEF LockReallocate, CallsKnow, Unshared, InCall
  <2>4. TracesAreTrue'
    BY <1>7 DEF LockReallocate, CallsKnow, TracesAreTrue, Released, LockFree
  <2>5. NodesAreOwed'
    BY <1>7 DEF LockReallocate, CallsKnow, NodesAreOwed, Traced, Emplacing, Retracing
  <2>6. QED
    BY <2>1, <2>2, <2>3, <2>4, <2>5
<1>8. ASSUME NEW t \in Threads, Move(t) PROVE IInv'
  <2>1. TypeOK'
    BY <1>8 DEF Move, CallsKnow
  <2>2. CallsKnow'
    BY <1>8 DEF Move, CallsKnow, Unshared
  <2>3. Unshared'
    BY <1>8 DEF Move, CallsKnow, Unshared
  <2>4. TracesAreTrue'
    BY <1>8 DEF Move, CallsKnow, TracesAreTrue, Released
  <2>5. NodesAreOwed'
    BY <1>8 DEF Move, CallsKnow, NodesAreOwed, Traced, Emplacing, Retracing, Unshared, TracesAreTrue, Released
  <2>6. QED
    BY <2>1, <2>2, <2>3, <2>4, <2>5
<1>9. ASSUME NEW t \in Threads, Shrink(t) PROVE IInv'
  <2>1. TypeOK'
    BY <1>9 DEF Shrink, CallsKnow
  <2>2. CallsKnow'
    BY <1>9 DEF Shrink, CallsKnow, Unshared
  <2>3. Unshared'
    BY <1>9 DEF Shrink, CallsKnow, Unshared
  <2>4. TracesAreTrue'
    BY <1>9 DEF Shrink, CallsKnow, TracesAreTrue, Released
  <2>5. NodesAreOwed'
    BY <1>9 DEF Shrink, CallsKnow, NodesAreOwed, Traced, Emplacing, Retracing, Unshared, TracesAreTrue, Released
  <2>6. QED
    BY <2>1, <2>2, <2>3, <2>4, <2>5
<1>10. ASSUME NEW t \in Threads, OutOfMemory(t) PROVE IInv'
  <2>1. TypeOK'
    BY <1>10 DEF OutOfMemory, CallsKnow
  <2>2. CallsKnow'
    BY <1>10 DEF OutOfMemory, CallsKnow
  <2>3. Unshared'
    BY <1>10 DEF OutOfMemory, CallsKnow, Unshared
  <2>4. TracesAreTrue'
    BY <1>10 DEF OutOfMemory, CallsKnow, TracesAreTrue, Released
  <2>5. NodesAreOwed'
    BY <1>10 DEF OutOfMemory, CallsKnow, NodesAreOwed, Traced, Emplacing, Retracing, Unshared, TracesAreTrue, Released
  <2>6. QED
    BY <2>1, <2>2, <2>3, <2>4, <2>5
<1>11. ASSUME NEW t \in Threads, Retrace(t) PROVE IInv'
  <2>1. TypeOK'
    BY <1>11 DEF Retrace, Emplaced, Erased, CallsKnow
  <2>2. CallsKnow'
    BY <1>11 DEF Retrace, CallsKnow
  <2>3. Unshared'
    BY <1>11 DEF Retrace, CallsKnow, Unshared
  <2>4. TracesAreTrue'
    BY <1>11 DEF Retrace, CallsKnow, TracesAreTrue, Released, Emplaced, Erased
  <2>5. NodesAreOwed'
    BY <1>11 DEF Retrace, CallsKnow, NodesAreOwed, Traced, Emplacing, Retracing, Emplaced, Erased, Unshared, TracesAreTrue, Released
  <2>6. QED
    BY <2>1, <2>2, <2>3, <2>4, <2>5
<1>12. CASE UNCHANGED vars
  BY <1>12 DEF vars, CallsKnow, Unshared, TracesAreTrue, NodesAreOwed, Released, Emplacing,
             Retracing, Traced
<1>13. QED
  BY <1>1, <1>2, <1>3, <1>4, <1>5, <1>6, <1>7, <1>8, <1>9, <1>10, <1>11, <1>12
     DEF Next, DbgAllocate, DbgDeallocate, DbgReallocate

LEMMA Invariance == Spec => []IInv
BY InitIInv, NextIInv, PTL DEF Spec

\* Every variable keeps its type, and one call at a time is under the mutex of
\* the map (MemoryManagerPatch.h:105-146).
THEOREM TypeCorrect == Spec => []TypeOK
<1>1. IInv => TypeOK
  BY DEF IInv
<1>2. QED
  BY <1>1, Invariance, PTL

\* However many threads exchange however many addresses, no trace outlives its
\* block (MemoryManagerPatch.h:109-112, .cpp:143-144).
THEOREM NoStaleTraceHolds == Spec => []NoStaleTrace
<1>1. IInv => NoStaleTrace
  BY DEF IInv, TracesAreTrue, NoStaleTrace, AtOrNull
<1>2. QED
  BY <1>1, Invariance, PTL

\* A NiNode's block that no call works on has the trace of its last allocation,
\* so a bad deallocation of it is reported (MemoryManagerPatch.h:105-146).
THEOREM NodesAreTracedHolds == Spec => []NodesAreTraced
<1>1. IInv => NodesAreTraced
  BY DEF IInv, NodesAreOwed, NodesAreTraced, Traced, Emplacing, Retracing, InCall
<1>2. QED
  BY <1>1, Invariance, PTL

\* Only CheckTrace accuses, and the trace it accuses by is true.
LEMMA NextReport == IInv /\ BlockReportIsJust /\ [Next]_vars => BlockReportIsJust'
<1> SUFFICES ASSUME IInv, BlockReportIsJust, [Next]_vars PROVE BlockReportIsJust'
  OBVIOUS
<1>1. ASSUME NEW t \in Threads, CheckTrace(t) PROVE BlockReportIsJust'
  <2>1. CASE Mismatch(call[t].mem, call[t].aligned) /\ Null \notin DOMAIN traces
    <3>1. call[t].mem \in DOMAIN traces \ AtOrNull(Released)
      BY <1>1, <2>1 DEF CheckTrace, LockFree, HoldsLock, Released, Mismatch, AtOrNull
    <3>2. BadDeallocation(t)'
      BY <1>1, <2>1, <3>1 DEF CheckTrace, At, Mismatch, BadDeallocation, IInv, TracesAreTrue
    <3>3. QED
      BY <3>2 DEF BlockReportIsJust, ReportIsJust
  <2>2. CASE Null \in DOMAIN traces
    BY <1>1, <2>2 DEF CheckTrace, BlockReportIsJust
  <2>3. CASE ~Mismatch(call[t].mem, call[t].aligned)
    BY <1>1, <2>3 DEF CheckTrace, At, BlockReportIsJust, ReportIsJust
  <2>4. QED
    BY <2>1, <2>2, <2>3
<1>2. ASSUME NEW t \in Threads,
             \/ Allocate(t) \/ Emplace(t) \/ CallDeallocate(t) \/ Free(t) \/ Erase(t)
             \/ LockReallocate(t) \/ Move(t) \/ Shrink(t) \/ OutOfMemory(t) \/ Retrace(t)
      PROVE  BlockReportIsJust'
  <2>1. ~failed'
    BY <1>2 DEF Allocate, Emplace, CallDeallocate, Free, Erase, LockReallocate, Move, Shrink,
                OutOfMemory, Retrace, At
  <2>2. QED
    BY <2>1 DEF BlockReportIsJust, ReportIsJust
<1>3. CASE UNCHANGED vars
  BY <1>3 DEF vars, BlockReportIsJust, ReportIsJust, BadDeallocation
<1>4. QED
  BY <1>1, <1>2, <1>3 DEF Next, DbgAllocate, DbgDeallocate, DbgReallocate

\* While nullptr has no trace, the process is ended for no innocent block
\* (MemoryManagerPatch.cpp:138-144).
THEOREM BlockReportIsJustHolds == Spec => []BlockReportIsJust
<1>1. Init => BlockReportIsJust
  BY DEF Init, BlockReportIsJust, ReportIsJust
<1>2. QED
  BY <1>1, NextReport, Invariance, PTL DEF Spec
=============================================================================
