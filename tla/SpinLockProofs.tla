---------------------------- MODULE SpinLockProofs ----------------------------
(***************************************************************************)
(* Theorems about SpinLock for any finite set of threads.                  *)
(*                                                                         *)
(* MutualExclusion is not inductive: it needs to know that the flag is set *)
(* exactly while some thread is on its way through HoldingPcs, and that    *)
(* unlock() lets nobody else in there, which is OwnerIntegrity.  IInv puts *)
(* the three together.                                                     *)
(***************************************************************************)
EXTENDS SpinLock, FiniteSetTheorems, TLAPS

FlagIsHeld == flag <=> Holders # {}

CountsCallers == lockCount = Cardinality(Counted)

Types ==
    /\ flag \in BOOLEAN
    /\ owningThread \in Threads \cup {NoThread}
    /\ pc \in [Threads -> Pcs]

IInv == Types /\ FlagIsHeld /\ MutualExclusion /\ OwnerIntegrity

LEMMA InitIInv == Init => IInv
BY ThreadsAssumption
   DEF Init, IInv, Types, FlagIsHeld, MutualExclusion, OwnerIntegrity, Holders,
       Pcs, HoldingPcs, OwningPcs

\* No step of lock() or unlock() breaks IInv.
LEMMA NextIInv == IInv /\ [Next]_vars => IInv'
<1> SUFFICES ASSUME IInv, [Next]_vars PROVE IInv'
  OBVIOUS
<1> USE ThreadsAssumption
    DEF IInv, Types, FlagIsHeld, MutualExclusion, OwnerIntegrity, Holders, At,
        Pcs, HoldingPcs, OwningPcs
<1>1. ASSUME NEW t \in Threads, LockCount(t) PROVE IInv'
  BY <1>1 DEF LockCount
<1>2. ASSUME NEW t \in Threads, TestAndSet(t) PROVE IInv'
  BY <1>2 DEF TestAndSet
<1>3. ASSUME NEW t \in Threads, SleepOne(t) PROVE IInv'
  BY <1>3 DEF SleepOne
<1>4. ASSUME NEW t \in Threads, Wake(t) PROVE IInv'
  BY <1>4 DEF Wake
<1>5. ASSUME NEW t \in Threads, PublishOwner(t) PROVE IInv'
  BY <1>5 DEF PublishOwner
<1>6. ASSUME NEW t \in Threads, CallUnlock(t) PROVE IInv'
  BY <1>6 DEF CallUnlock
<1>7. ASSUME NEW t \in Threads, UnlockAsOwner(t) PROVE IInv'
  BY <1>7 DEF UnlockAsOwner
<1>8. ASSUME NEW t \in Threads, UnlockRefused(t) PROVE IInv'
  BY <1>8 DEF UnlockRefused
<1>9. ASSUME NEW t \in Threads, Uncount(t) PROVE IInv'
  BY <1>9 DEF Uncount
<1>10. ASSUME NEW t \in Threads, Disown(t) PROVE IInv'
  BY <1>10 DEF Disown
<1>11. ASSUME NEW t \in Threads, ClearFlag(t) PROVE IInv'
  BY <1>11 DEF ClearFlag
<1>12. CASE UNCHANGED vars
  BY <1>12 DEF vars
<1>13. QED
  BY <1>1, <1>2, <1>3, <1>4, <1>5, <1>6, <1>7, <1>8, <1>9, <1>10, <1>11, <1>12
     DEF Next, Lock, Unlock, Release

LEMMA Invariance == Spec => []IInv
BY InitIInv, NextIInv, PTL DEF Spec

\* Whatever the number of callers, at most one is inside (EscapeFreeze.h:35-55).
THEOREM MutualExclusionHolds == Spec => []MutualExclusion
<1>1. IInv => MutualExclusion
  BY DEF IInv
<1>2. QED
  BY <1>1, Invariance, PTL

\* Whatever the number of callers, _owningThread names the one thread that
\* unlock() lets through (the claim of the comment at EscapeFreeze.h:46-50).
THEOREM OwnerIntegrityHolds == Spec => []OwnerIntegrity
<1>1. IInv => OwnerIntegrity
  BY DEF IInv
<1>2. QED
  BY <1>1, Invariance, PTL

-----------------------------------------------------------------------------
(* _lockCount *)

LEMMA CountedFinite == IsFiniteSet(Counted) /\ Cardinality(Counted) \in Nat
BY ThreadsAssumption, FS_Subset, FS_CardinalityType DEF Counted

\* Only LockCount and Uncount change who is counted, by one thread each.
LEMMA NextCounts == IInv /\ CountsCallers /\ [Next]_vars => CountsCallers'
<1> SUFFICES ASSUME IInv, CountsCallers, [Next]_vars PROVE CountsCallers'
  OBVIOUS
<1> USE DEF IInv, Types, Pcs, HoldingPcs
<1>1. ASSUME NEW t \in Threads, LockCount(t) PROVE CountsCallers'
  <2>1. t \notin Counted /\ Counted' = Counted \cup {t}
    BY <1>1 DEF LockCount, At, Counted, CountedPcs
  <2>2. Cardinality(Counted') = Cardinality(Counted) + 1
    BY <2>1, CountedFinite, FS_AddElement
  <2>3. QED
    BY <1>1, <2>2 DEF LockCount, CountsCallers
<1>2. ASSUME NEW t \in Threads, Uncount(t) PROVE CountsCallers'
  <2>1. t \in Counted /\ Counted' = Counted \ {t}
    BY <1>2 DEF Uncount, At, Counted, CountedPcs
  <2>2. Cardinality(Counted') = Cardinality(Counted) - 1
    BY <2>1, CountedFinite, FS_RemoveElement
  <2>3. QED
    BY <1>2, <2>2 DEF Uncount, CountsCallers
<1>3. ASSUME NEW t \in Threads,
             \/ TestAndSet(t) \/ SleepOne(t) \/ Wake(t) \/ PublishOwner(t) \/ CallUnlock(t)
             \/ UnlockAsOwner(t) \/ UnlockRefused(t) \/ Disown(t) \/ ClearFlag(t)
      PROVE  CountsCallers'
  <2>1. lockCount' = lockCount
    BY <1>3 DEF TestAndSet, SleepOne, Wake, PublishOwner, CallUnlock, UnlockAsOwner,
                UnlockRefused, Disown, ClearFlag
  <2>2. Counted' = Counted
    BY <1>3 DEF TestAndSet, SleepOne, Wake, PublishOwner, CallUnlock, UnlockAsOwner,
                UnlockRefused, Disown, ClearFlag, At, Counted, CountedPcs, OwnerIntegrity,
                OwningPcs
  <2>3. QED
    BY <2>1, <2>2 DEF CountsCallers
<1>4. CASE UNCHANGED vars
  BY <1>4 DEF vars, CountsCallers, Counted
<1>5. QED
  BY <1>1, <1>2, <1>3, <1>4 DEF Next, Lock, Unlock, Release

\* _lockCount is the number of threads that wait for the lock or hold it,
\* through every refused unlock, so the uint32 of EscapeFreeze.h:59 never wraps
\* below zero.
THEOREM CountsCallersHolds == Spec => []CountsCallers
<1>1. Init => CountsCallers
  <2>1. Init => Counted = {}
    BY DEF Init, Counted, CountedPcs
  <2>2. QED
    BY <2>1, FS_EmptySet DEF Init, CountsCallers
<1>2. QED
  BY <1>1, NextCounts, Invariance, PTL DEF Spec

\* Every variable keeps its type: EscapeFreeze.h:32-59.
THEOREM TypeCorrect == Spec => []TypeOK
<1>1. IInv /\ CountsCallers => TypeOK
  BY CountedFinite DEF IInv, Types, CountsCallers, TypeOK
<1>2. QED
  BY <1>1, Invariance, CountsCallersHolds, PTL

-----------------------------------------------------------------------------
(* Refinement of Mutex *)

LEMMA HolderIsUnique ==
  ASSUME IInv
  PROVE  /\ ~flag => holder = NoThread
         /\ \A t \in Holders : holder = t
BY DEF IInv, FlagIsHeld, MutualExclusion, holder, Holders

\* A step takes the lock, gives it back, or leaves its holder alone.
LEMMA StepRefines == IInv /\ IInv' /\ [Next]_vars => [Abstract!Next]_holder
<1> SUFFICES ASSUME IInv, IInv', [Next]_vars PROVE Abstract!Next \/ holder' = holder
  OBVIOUS
<1> USE DEF IInv, Types, Pcs, HoldingPcs
<1>1. ASSUME NEW t \in Threads, TestAndSet(t) PROVE Abstract!Acquire(t)
  <2>1. holder = NoThread
    BY <1>1, HolderIsUnique DEF TestAndSet
  <2>2. flag' /\ pc'[t] \in HoldingPcs
    BY <1>1 DEF TestAndSet, At
  <2>3. holder' = t
    BY <2>2 DEF holder, MutualExclusion, Holders
  <2>4. QED
    BY <2>1, <2>3 DEF Abstract!Acquire
<1>2. ASSUME NEW t \in Threads, ClearFlag(t) PROVE Abstract!Release(t)
  <2>1. holder = t
    BY <1>2, HolderIsUnique DEF ClearFlag, At, Holders
  <2>2. holder' = NoThread
    BY <1>2 DEF ClearFlag, holder
  <2>3. QED
    BY <2>1, <2>2 DEF Abstract!Release
<1>3. ASSUME NEW t \in Threads,
             \/ LockCount(t) \/ SleepOne(t) \/ Wake(t) \/ PublishOwner(t) \/ CallUnlock(t)
             \/ UnlockAsOwner(t) \/ UnlockRefused(t) \/ Uncount(t) \/ Disown(t)
      PROVE  holder' = holder
  <2>1. flag' = flag
    BY <1>3 DEF LockCount, SleepOne, Wake, PublishOwner, CallUnlock, UnlockAsOwner,
                UnlockRefused, Uncount, Disown
  <2>2. \A u \in Threads : pc'[u] \in HoldingPcs <=> pc[u] \in HoldingPcs
    BY <1>3 DEF LockCount, SleepOne, Wake, PublishOwner, CallUnlock, UnlockAsOwner,
                UnlockRefused, Uncount, Disown, At, OwnerIntegrity, OwningPcs
  <2>3. QED
    <3>1. CASE ~flag
      BY <2>1, <3>1 DEF holder
    <3>2. CASE flag
      <4>1. PICK u \in Threads : pc[u] \in HoldingPcs
        BY <3>2 DEF FlagIsHeld, Holders
      <4>2. holder = u
        BY <3>2, <4>1 DEF holder, MutualExclusion, Holders
      <4>3. holder' = u
        BY <2>1, <2>2, <3>2, <4>1 DEF holder, MutualExclusion, Holders
      <4>4. QED
        BY <4>2, <4>3
    <3>3. QED
      BY <3>1, <3>2
<1>4. CASE UNCHANGED vars
  BY <1>4 DEF vars, holder
<1>5. QED
  BY <1>1, <1>2, <1>3, <1>4 DEF Next, Lock, Unlock, Release, Abstract!Next

\* The replacement is a lock: every behaviour of EscapeFreeze.h:35-55 is one of
\* Mutex (the safety part of ImplementsMutex).
THEOREM SpinLockIsMutex == Spec => Abstract!Spec
<1>1. Init => Abstract!Init
  BY DEF Init, Abstract!Init, holder
<1>2. QED
  BY <1>1, StepRefines, Invariance, PTL DEF Spec, Abstract!Spec
=============================================================================
