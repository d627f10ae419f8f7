-------------------------------- MODULE Mutex --------------------------------
(***************************************************************************)
(* What a lock promises its callers: at most one thread holds it, only the *)
(* holder gives it back, and whoever took it gives it back.                *)
(***************************************************************************)
CONSTANTS
    Threads,    \* the threads that call the lock
    NoThread    \* stands for thread id 0, which is no thread's id

VARIABLE holder    \* the thread that holds the lock, or NoThread

Init == holder = NoThread

Acquire(t) == holder = NoThread /\ holder' = t

Release(t) == holder = t /\ holder' = NoThread

Next == \E t \in Threads : Acquire(t) \/ Release(t)

Spec == Init /\ [][Next]_holder

FairSpec == Spec /\ \A t \in Threads : WF_holder(Release(t))
=============================================================================
