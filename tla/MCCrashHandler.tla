--------------------------- MODULE MCCrashHandler ---------------------------
(***************************************************************************)
(* CrashHandler with two threads that may crash, in two different seconds  *)
(* or in the same one, and three sections: a first, a middle and a last.   *)
(***************************************************************************)
EXTENDS CrashHandler

MCCrts == {"msvcr110", "ucrtbase"}
=============================================================================
