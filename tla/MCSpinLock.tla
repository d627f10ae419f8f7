------------------------------ MODULE MCSpinLock ------------------------------
(***************************************************************************)
(* SpinLock with three callers: one holding, one waiting and one calling   *)
(* unlock() out of turn are enough for every interleaving of two threads   *)
(* in the lock with a third.                                               *)
(***************************************************************************)
EXTENDS SpinLock
=============================================================================
