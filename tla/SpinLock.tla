------------------------------- MODULE SpinLock -------------------------------
(***************************************************************************)
(* Fixes::EscapeFreeze::Spinlock, the lock that replaces the engine's own  *)
(* around VATS::GetCurrentAction.  A thread is a caller of lock() and      *)
(* unlock(); each atomic operation of the code is one action.              *)
(*                                                                         *)
(* The accesses to _owningThread and _lockCount are relaxed, yet a thread  *)
(* only ever compares _owningThread with its own id, which it alone        *)
(* writes, so coherence makes every interleaving below the ones the        *)
(* memory model allows.                                                    *)
(***************************************************************************)
EXTENDS Naturals, FiniteSets

CONSTANTS
    Threads,
    NoThread

ASSUME ThreadsAssumption == IsFiniteSet(Threads) /\ NoThread \notin Threads

VARIABLES
    flag,           \* atomic_flag
    owningThread,   \* _owningThread, NoThread for 0
    lockCount,      \* _lockCount: callers waiting or holding
    pc              \* where each thread is in lock() and unlock()

vars == <<flag, owningThread, lockCount, pc>>

\* A thread that won the flag and has not cleared it yet.
HoldingPcs == {"publish", "critical", "unlock", "uncount", "disown", "clear"}

\* The part of that during which _owningThread carries its id.
OwningPcs == {"critical", "unlock", "uncount", "disown"}

\* The part of lock() and unlock() during which _lockCount counts it.
CountedPcs == {"spin", "asleep", "publish", "critical", "unlock", "uncount"}

Pcs == HoldingPcs \cup {"idle", "spin", "asleep", "stray"}

Init ==
    /\ flag = FALSE
    /\ owningThread = NoThread
    /\ lockCount = 0
    /\ pc = [t \in Threads |-> "idle"]

At(t, from, to) == pc[t] = from /\ pc' = [pc EXCEPT ![t] = to]

-----------------------------------------------------------------------------
(* lock() *)

\* Defect: unlock() would uncount a caller that lock() never counted.
LockUncounted(t) ==
    /\ At(t, "idle", "spin")
    /\ UNCHANGED <<flag, owningThread, lockCount>>

LockCount(t) ==
    /\ At(t, "idle", "spin")
    /\ lockCount' = lockCount + 1
    /\ UNCHANGED <<flag, owningThread>>

\* Defect: the flag is read, found clear and set in separate steps, so the
\* reading may be out of date.
SetUntested(t) ==
    /\ At(t, "spin", "publish")
    /\ flag' = TRUE
    /\ UNCHANGED <<owningThread, lockCount>>

TestAndSet(t) ==
    /\ ~flag
    /\ At(t, "spin", "publish")
    /\ flag' = TRUE
    /\ UNCHANGED <<owningThread, lockCount>>

\* test_and_set found the flag set: Sleep(1), then try again.
SleepOne(t) ==
    /\ flag
    /\ At(t, "spin", "asleep")
    /\ UNCHANGED <<flag, owningThread, lockCount>>

Wake(t) ==
    /\ At(t, "asleep", "spin")
    /\ UNCHANGED <<flag, owningThread, lockCount>>

PublishOwner(t) ==
    /\ At(t, "publish", "critical")
    /\ owningThread' = t
    /\ UNCHANGED <<flag, lockCount>>

Lock(t) == LockCount(t) \/ TestAndSet(t) \/ SleepOne(t) \/ Wake(t) \/ PublishOwner(t)

-----------------------------------------------------------------------------
(* unlock(), called by the thread that locked, or by one that did not      *)
(* ("stray"): the engine code that calls it is not the plugin's.           *)

CallUnlock(t) ==
    /\ At(t, "critical", "unlock") \/ At(t, "idle", "stray")
    /\ UNCHANGED <<flag, owningThread, lockCount>>

\* Defect: unlock() without the test of the owner.
UnlockUnchecked(t) ==
    /\ At(t, "unlock", "uncount") \/ At(t, "stray", "uncount")
    /\ UNCHANGED <<flag, owningThread, lockCount>>

UnlockAsOwner(t) ==
    /\ owningThread = t
    /\ At(t, "unlock", "uncount") \/ At(t, "stray", "uncount")
    /\ UNCHANGED <<flag, owningThread, lockCount>>

\* The caller is not the recorded owner: nothing is released.
UnlockRefused(t) ==
    /\ owningThread # t
    /\ At(t, "unlock", "idle") \/ At(t, "stray", "idle")
    /\ UNCHANGED <<flag, owningThread, lockCount>>

Uncount(t) ==
    /\ At(t, "uncount", "disown")
    /\ lockCount' = lockCount - 1
    /\ UNCHANGED <<flag, owningThread>>

Disown(t) ==
    /\ At(t, "disown", "clear")
    /\ owningThread' = NoThread
    /\ UNCHANGED <<flag, lockCount>>

ClearFlag(t) ==
    /\ At(t, "clear", "idle")
    /\ flag' = FALSE
    /\ UNCHANGED <<owningThread, lockCount>>

\* Defect: the flag is cleared first and the owner's id afterwards, as the
\* comment in unlock() says an earlier version did.
FlagClearedFirst(t) ==
    \/ /\ At(t, "uncount", "disown")
       /\ lockCount' = lockCount - 1
       /\ flag' = FALSE
       /\ UNCHANGED owningThread
    \/ /\ At(t, "disown", "idle")
       /\ owningThread' = NoThread
       /\ UNCHANGED <<flag, lockCount>>

\* The owner's bookkeeping, in the order of the code: the flag last.
Release(t) == Uncount(t) \/ Disown(t) \/ ClearFlag(t)

Unlock(t) == UnlockAsOwner(t) \/ UnlockRefused(t) \/ Release(t)

-----------------------------------------------------------------------------
Next == \E t \in Threads : Lock(t) \/ CallUnlock(t) \/ Unlock(t)

Spec == Init /\ [][Next]_vars

(***************************************************************************)
(* A thread inside lock(), unlock() or the short critical section keeps    *)
(* running; nothing obliges an idle thread to call.                        *)
(***************************************************************************)
Proceed(t) ==
    \/ TestAndSet(t) \/ SleepOne(t) \/ Wake(t) \/ PublishOwner(t) \/ Unlock(t)
    \/ pc[t] = "critical" /\ CallUnlock(t)

FairSpec == Spec /\ \A t \in Threads : WF_vars(Proceed(t))

-----------------------------------------------------------------------------
(* Correctness *)

Holders == {t \in Threads : pc[t] \in HoldingPcs}

Counted == {t \in Threads : pc[t] \in CountedPcs}

\* Types; lockCount never passes below zero, where the code's uint32 wraps.
TypeOK ==
    /\ flag \in BOOLEAN
    /\ owningThread \in Threads \cup {NoThread}
    /\ lockCount \in Nat
    /\ pc \in [Threads -> Pcs]

\* Two threads never hold the replacement lock at once (EscapeFreeze.h:35-55).
MutualExclusion == \A t, u \in Holders : t = u

(***************************************************************************)
(* _owningThread names exactly the thread that would be let through        *)
(* unlock().  This is what the comment at EscapeFreeze.h:46-50 says the    *)
(* order of the stores is for: were it false for the holder, the holder    *)
(* would be refused; were it true for another, that one could unlock.      *)
(***************************************************************************)
OwnerIntegrity == \A t \in Threads : owningThread = t <=> pc[t] \in OwningPcs

(***************************************************************************)
(* A caller never stalls everybody: while some thread waits, some thread   *)
(* gets the lock (starvation of one particular thread is possible: the     *)
(* flag is retried, not queued).                                           *)
(***************************************************************************)
SomeCallerProceeds ==
    (\E t \in Threads : pc[t] \in {"spin", "asleep"}) ~> (\E t \in Threads : pc[t] = "critical")

\* The spin lock is a lock: it implements Mutex, the releases included.
holder == IF flag THEN CHOOSE t \in Threads : pc[t] \in HoldingPcs ELSE NoThread

Abstract == INSTANCE Mutex

ImplementsMutex == Abstract!FairSpec
=============================================================================
