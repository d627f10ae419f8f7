------------------------- MODULE CrashHandlerProofs -------------------------
(***************************************************************************)
(* Theorems about CrashHandler for any set of threads, any number of       *)
(* sections and any clock.                                                 *)
(*                                                                         *)
(* LogsDoNotMix is not inductive: that nobody else touches the file of a   *)
(* thread which prints rests on sync (SyncExcludes) and on the outer catch *)
(* blocks being reached only after a failure (Failures).  For              *)
(* LoneCrashLogged, IInv also says what the thread at TerminateProcess has *)
(* left behind and what else can have ended the process (Deaths).          *)
(***************************************************************************)
EXTENDS CrashHandler, FiniteSetTheorems, SequenceTheorems, TLAPS

ThreadState ==
    [pc : Pcs, handled : BOOLEAN, section : 0..(SectionCount + 1), log : 0..MaxTime]

Types ==
    /\ alive \in BOOLEAN /\ installed \in BOOLEAN /\ debugger \in BOOLEAN
    /\ filter \in {"ours", "other"}
    /\ crtHandler \in [Crts -> {"absent", "default", "foreign", "ours"}]
    /\ clock \in 1..MaxTime
    /\ files \in [1..MaxTime -> Seq(Entry)]
    /\ thread \in [Threads -> ThreadState]
    /\ foreign \in [Threads -> BOOLEAN]
    /\ outerFailed \in BOOLEAN

SyncExcludes == \A t, u \in Threads : HoldsSync(t) /\ HoldsSync(u) => t = u

Printing(t) ==
    /\ thread[t].section \in 1..SectionCount /\ thread[t].log \in 1..MaxTime
    /\ ~outerFailed => LogUpTo(t, thread[t].section, files[thread[t].log])

LogsAreOwn == \A t \in Threads : thread[t].pc = "print" => Printing(t)

Failures == \A t \in Threads : thread[t].pc = "caught" => outerFailed

Crashing(t) ==
    \/ thread[t].pc \in Pcs \ {"run", "first"}
    \/ thread[t].pc = "first" /\ ~thread[t].handled

CrashesKnown ==
    /\ IsFiniteSet(crashed)
    /\ \A t \in Threads : Crashing(t) => t \in crashed

\* While a thread searches for a handler, only foreign takes the filter away.
FilterKept == \A t \in Threads : thread[t].pc = "search" /\ filter = "other" => foreign[t]

Printed(t) ==
    thread[t].log \in 1..MaxTime /\ CompleteLogOf(t, files[thread[t].log])

Deaths ==
    /\ \A t \in Threads :
         thread[t].pc = "kill" /\ ~outerFailed /\ crashed \subseteq {t} => Printed(t)
    /\ ~alive => \/ outerFailed
                 \/ \E t \in Threads : foreign[t] \/ thread[t].pc = "kill"

IInv ==
    /\ Types /\ SyncExcludes /\ LogsAreOwn /\ Failures /\ CrashesKnown /\ FilterKept
    /\ Deaths



-----------------------------------------------------------------------------

LEMMA HeaderIs ==
  ASSUME NEW t \in Threads
  PROVE  Header(t) \in Seq(Entry) /\ LogUpTo(t, 1, Header(t))
<1>1. [by |-> t, section |-> 0, failed |-> FALSE] \in Entry
  BY CrashHandlerAssumption DEF Entry
<1>2. QED
  BY <1>1 DEF Header, LogUpTo

\* print, section by section, makes the log of its thread.
LEMMA PrintExtends ==
  ASSUME NEW t \in Threads, NEW n \in 1..SectionCount, NEW failed \in BOOLEAN, NEW log \in Seq(Entry)
  PROVE  LET more == Append(log, [by |-> t, section |-> n, failed |-> failed])
         IN  more \in Seq(Entry) /\ (LogUpTo(t, n, log) => LogUpTo(t, n + 1, more))
<1> DEFINE e == [by |-> t, section |-> n, failed |-> failed]
<1>1. e \in Entry /\ n \in Nat /\ e.by = t /\ e.section = n
  BY CrashHandlerAssumption DEF Entry
<1> HIDE DEF e
<1>2. /\ Append(log, e) \in Seq(Entry) /\ Len(Append(log, e)) = Len(log) + 1 /\ Len(log) \in Nat
      /\ \A i \in 1..(Len(log) + 1) : Append(log, e)[i] = IF i <= Len(log) THEN log[i] ELSE e
  BY <1>1, AppendProperties
<1>3. ASSUME LogUpTo(t, n, log) PROVE LogUpTo(t, n + 1, Append(log, e))
  BY <1>1, <1>2, <1>3 DEF LogUpTo
<1>4. QED
  BY <1>2, <1>3 DEF e

-----------------------------------------------------------------------------

LEMMA InitIInv == Init => IInv
<1> SUFFICES ASSUME Init PROVE IInv
  OBVIOUS
<1> USE CrashHandlerAssumption DEF Init, Pcs
<1>1. Types
  <2>1. thread \in [Threads -> ThreadState]
    BY DEF ThreadState
  <2>2. files \in [1..MaxTime -> Seq(Entry)]
    BY EmptySeq DEF NoFile
  <2>3. crtHandler \in [Crts -> {"absent", "default", "foreign", "ours"}]
    OBVIOUS
  <2>4. foreign \in [Threads -> BOOLEAN] /\ clock \in 1..MaxTime
    OBVIOUS
  <2>5. QED
    BY <2>1, <2>2, <2>3, <2>4 DEF Types
<1>2. SyncExcludes /\ LogsAreOwn /\ Failures /\ FilterKept /\ Deaths
  BY DEF SyncExcludes, HoldsSync, LogsAreOwn, Failures, FilterKept, Deaths
<1>3. CrashesKnown
  BY FS_EmptySet DEF CrashesKnown, Crashing
<1>4. QED
  BY <1>1, <1>2, <1>3 DEF IInv

\* No step breaks IInv.
LEMMA NextIInv == IInv /\ [Next]_vars => IInv'
<1> SUFFICES ASSUME IInv, [Next]_vars PROVE IInv'
  OBVIOUS
<1> USE CrashHandlerAssumption DEF IInv, Types, ThreadState, Pcs, At, Goto
<1>1. ASSUME Install PROVE IInv'
  <2>1. Types'
    BY <1>1 DEF Install, InvalidParameterHandlers
  <2>2. SyncExcludes' /\ LogsAreOwn' /\ Failures'
    BY <1>1 DEF Install, SyncExcludes, HoldsSync, LogsAreOwn, Printing, Failures
  <2>3. CrashesKnown' /\ FilterKept'
    BY <1>1 DEF Install, CrashesKnown, Crashing, FilterKept
  <2>4. Deaths'
    BY <1>1 DEF Install, Deaths, Printed
  <2>5. QED
    BY <2>1, <2>2, <2>3, <2>4
<1>2. ASSUME OtherFilter PROVE IInv'
  <2>1. Types'
    BY <1>2 DEF OtherFilter
  <2>2. SyncExcludes' /\ LogsAreOwn' /\ Failures'
    BY <1>2 DEF OtherFilter, SyncExcludes, HoldsSync, LogsAreOwn, Printing, Failures
  <2>3. CrashesKnown' /\ FilterKept'
    BY <1>2 DEF OtherFilter, CrashesKnown, Crashing, FilterKept
  <2>4. Deaths'
    BY <1>2 DEF OtherFilter, Deaths, Printed
  <2>5. QED
    BY <2>1, <2>2, <2>3, <2>4
<1>3. ASSUME AttachDebugger PROVE IInv'
  <2>1. Types'
    BY <1>3 DEF AttachDebugger
  <2>2. SyncExcludes' /\ LogsAreOwn' /\ Failures'
    BY <1>3 DEF AttachDebugger, SyncExcludes, HoldsSync, LogsAreOwn, Printing, Failures
  <2>3. CrashesKnown' /\ FilterKept'
    BY <1>3 DEF AttachDebugger, CrashesKnown, Crashing, FilterKept
  <2>4. Deaths'
    BY <1>3 DEF AttachDebugger, Deaths, Printed
  <2>5. QED
    BY <2>1, <2>2, <2>3, <2>4
<1>4. ASSUME Tick PROVE IInv'
  <2>1. Types'
    BY <1>4 DEF Tick
  <2>2. SyncExcludes' /\ LogsAreOwn' /\ Failures'
    BY <1>4 DEF Tick, SyncExcludes, HoldsSync, LogsAreOwn, Printing, Failures
  <2>3. CrashesKnown' /\ FilterKept'
    BY <1>4 DEF Tick, CrashesKnown, Crashing, FilterKept
  <2>4. Deaths'
    BY <1>4 DEF Tick, Deaths, Printed
  <2>5. QED
    BY <2>1, <2>2, <2>3, <2>4
<1>5. ASSUME NEW t \in Threads, Raise(t) PROVE IInv'
  <2> PICK handled \in BOOLEAN :
         /\ thread' = [thread EXCEPT ![t].pc = "first", ![t].handled = handled]
         /\ crashed' = IF handled THEN crashed ELSE crashed \cup {t}
    BY <1>5 DEF Raise
  <2>1. Types'
    <3>1. thread' = [thread EXCEPT ![t] = [thread[t] EXCEPT !.pc = "first", !.handled = handled]]
      OBVIOUS
    <3>2. [thread[t] EXCEPT !.pc = "first", !.handled = handled] \in ThreadState
      OBVIOUS
    <3>3. QED
      BY <1>5, <3>1, <3>2 DEF Raise
  <2>2. SyncExcludes' /\ LogsAreOwn' /\ Failures'
    BY <1>5 DEF Raise, SyncExcludes, HoldsSync, LogsAreOwn, Printing, Failures
  <2>3. CrashesKnown' /\ FilterKept'
    <3>1. CASE handled
      BY <1>5, <3>1 DEF Raise, CrashesKnown, Crashing, FilterKept
    <3>2. CASE ~handled
      <4>1. IsFiniteSet(crashed')
        BY <3>2, FS_AddElement DEF CrashesKnown
      <4>2. QED
        BY <1>5, <3>2, <4>1 DEF Raise, CrashesKnown, Crashing, FilterKept
    <3>3. QED
      BY <3>1, <3>2
  <2>4. Deaths'
    <3>1. \A u \in Threads : thread'[u].pc = "kill" => u # t /\ thread[u] = thread'[u]
      OBVIOUS
    <3>2. crashed \subseteq crashed'
      OBVIOUS
    <3>3. QED
      BY <1>5, <3>1, <3>2 DEF Raise, Deaths, Printed
  <2>5. QED
    BY <2>1, <2>2, <2>3, <2>4
<1>6. ASSUME NEW t \in Threads, InvalidParameter(t) PROVE IInv'
  <2>1. Types'
    <3>1. thread' = [thread EXCEPT ![t] = [thread[t] EXCEPT !.pc = "first", !.handled = FALSE]]
      BY <1>6 DEF InvalidParameter
    <3>2. [thread[t] EXCEPT !.pc = "first", !.handled = FALSE] \in ThreadState
      OBVIOUS
    <3>3. foreign' \in [Threads -> BOOLEAN]
      BY <1>6 DEF InvalidParameter
    <3>4. thread' \in [Threads -> ThreadState]
      BY <3>1, <3>2
    <3>5. UNCHANGED <<alive, installed, filter, crtHandler, debugger, clock, files, outerFailed>>
      BY <1>6 DEF InvalidParameter
    <3>6. QED
      BY <3>3, <3>4, <3>5
  <2>2. SyncExcludes' /\ LogsAreOwn' /\ Failures'
    BY <1>6 DEF InvalidParameter, SyncExcludes, HoldsSync, LogsAreOwn, Printing, Failures
  <2>3. CrashesKnown' /\ FilterKept'
    <3>1. IsFiniteSet(crashed')
      BY <1>6, FS_AddElement DEF InvalidParameter, CrashesKnown
    <3>2. QED
      BY <1>6, <3>1 DEF InvalidParameter, CrashesKnown, Crashing, FilterKept
  <2>4. Deaths'
    BY <1>6 DEF InvalidParameter, Deaths, Printed, CrashesKnown, Crashing
  <2>5. QED
    BY <2>1, <2>2, <2>3, <2>4
<1>7. ASSUME NEW t \in Threads, VectoredExceptions(t) PROVE IInv'
  <2>1. Types'
    BY <1>7 DEF VectoredExceptions
  <2>2. SyncExcludes' /\ LogsAreOwn' /\ Failures'
    BY <1>7 DEF VectoredExceptions, SyncExcludes, HoldsSync, LogsAreOwn, Printing, Failures
  <2>3. CrashesKnown' /\ FilterKept'
    BY <1>7 DEF VectoredExceptions, CrashesKnown, Crashing, FilterKept
  <2>4. Deaths'
    BY <1>7 DEF VectoredExceptions, Deaths, Printed
  <2>5. QED
    BY <2>1, <2>2, <2>3, <2>4
<1>8. ASSUME NEW t \in Threads, Unhandled(t) PROVE IInv'
  <2>1. CASE filter = "ours"
    <3> thread' = [thread EXCEPT ![t].pc = "enter"] /\ alive' = alive
      BY <1>8, <2>1 DEF Unhandled
    <3>1. Types'
      <4>1. thread' \in [Threads -> ThreadState]
        OBVIOUS
      <4>2. QED
        BY <1>8, <4>1 DEF Unhandled
    <3>2. SyncExcludes' /\ LogsAreOwn' /\ Failures'
      BY <1>8, <2>1 DEF Unhandled, SyncExcludes, HoldsSync, LogsAreOwn, Printing, Failures
    <3>3. CrashesKnown' /\ FilterKept'
      BY <1>8, <2>1 DEF Unhandled, CrashesKnown, Crashing, FilterKept
    <3>4. Deaths'
      BY <1>8, <2>1 DEF Unhandled, Deaths, Printed
    <3>5. QED
      BY <3>1, <3>2, <3>3, <3>4
  <2>2. CASE filter = "other"
    <3>1. foreign[t]
      BY <1>8, <2>2 DEF Unhandled, FilterKept
    <3>2. QED
      BY <1>8, <2>2, <3>1
         DEF Unhandled, SyncExcludes, HoldsSync, LogsAreOwn, Printing, Failures, CrashesKnown,
             Crashing, FilterKept, Deaths, Printed
  <2>3. QED
    BY <2>1, <2>2
<1>9. ASSUME NEW t \in Threads, Enter(t) PROVE IInv'
  <2>1. Types'
    BY <1>9 DEF Enter
  <2>2. SyncExcludes' /\ LogsAreOwn' /\ Failures'
    BY <1>9 DEF Enter, SyncExcludes, HoldsSync, LogsAreOwn, Printing, Failures
  <2>3. CrashesKnown' /\ FilterKept'
    BY <1>9 DEF Enter, CrashesKnown, Crashing, FilterKept
  <2>4. Deaths'
    BY <1>9 DEF Enter, Deaths, Printed
  <2>5. QED
    BY <2>1, <2>2, <2>3, <2>4
<1>10. ASSUME NEW t \in Threads, LockSync(t) PROVE IInv'
  <2>1. Types'
    BY <1>10 DEF LockSync
  <2>2. SyncExcludes' /\ LogsAreOwn' /\ Failures'
    BY <1>10 DEF LockSync, SyncExcludes, HoldsSync, LogsAreOwn, Printing, Failures
  <2>3. CrashesKnown' /\ FilterKept'
    BY <1>10 DEF LockSync, CrashesKnown, Crashing, FilterKept
  <2>4. Deaths'
    BY <1>10 DEF LockSync, Deaths, Printed
  <2>5. QED
    BY <2>1, <2>2, <2>3, <2>4
<1>11. ASSUME NEW t \in Threads, GetModules(t) PROVE IInv'
  <2>1. CASE Goto(t, "open") /\ UNCHANGED outerFailed
    <3>1. Types'
      BY <1>11, <2>1 DEF GetModules
    <3>2. SyncExcludes' /\ Failures'
      BY <1>11, <2>1 DEF GetModules, SyncExcludes, HoldsSync, Failures
    <3>3. LogsAreOwn'
      BY <1>11, <2>1 DEF GetModules, LogsAreOwn, Printing
    <3>4. CrashesKnown' /\ FilterKept'
      BY <1>11, <2>1 DEF GetModules, CrashesKnown, Crashing, FilterKept
    <3>5. Deaths'
      BY <1>11, <2>1 DEF GetModules, Deaths, Printed
    <3>6. QED
      BY <3>1, <3>2, <3>3, <3>4, <3>5
  <2>2. CASE Goto(t, "caught") /\ outerFailed' = TRUE
    <3>1. Types'
      BY <1>11, <2>2 DEF GetModules
    <3>2. SyncExcludes' /\ Failures'
      BY <1>11, <2>2 DEF GetModules, SyncExcludes, HoldsSync, Failures
    <3>3. LogsAreOwn'
      BY <1>11, <2>2 DEF GetModules, LogsAreOwn, Printing
    <3>4. CrashesKnown' /\ FilterKept'
      BY <1>11, <2>2 DEF GetModules, CrashesKnown, Crashing, FilterKept
    <3>5. Deaths'
      BY <1>11, <2>2 DEF GetModules, Deaths, Printed
    <3>6. QED
      BY <3>1, <3>2, <3>3, <3>4, <3>5
  <2>3. QED
    BY <1>11, <2>1, <2>2 DEF GetModules
<1>12. ASSUME NEW t \in Threads, OpenLog(t) PROVE IInv'
  <2>1. CASE /\ files' = [files EXCEPT ![clock] = Header(t)]
             /\ thread' = [thread EXCEPT ![t].pc = "print", ![t].section = 1, ![t].log = clock]
             /\ UNCHANGED outerFailed
    <3>1. Types'
      <4>1. Header(t) \in Seq(Entry)
        BY HeaderIs
      <4>2. files' \in [1..MaxTime -> Seq(Entry)]
        BY <2>1, <4>1
      <4>3. thread' \in [Threads -> ThreadState]
        <5>1. thread' = [thread EXCEPT ![t] = [thread[t] EXCEPT !.pc = "print", !.section = 1, !.log = clock]]
          BY <2>1
        <5>2. [thread[t] EXCEPT !.pc = "print", !.section = 1, !.log = clock] \in ThreadState
          <6>1. thread[t] \in ThreadState /\ 1 \in 0..(SectionCount + 1) /\ clock \in 0..MaxTime
            OBVIOUS
          <6>2. QED
            BY <6>1 DEF ThreadState
        <5>3. QED
          BY <5>1, <5>2
      <4>4. QED
        BY <1>12, <2>1, <4>2, <4>3 DEF OpenLog
    <3>2. SyncExcludes' /\ Failures'
      BY <1>12, <2>1 DEF OpenLog, SyncExcludes, HoldsSync, Failures
    <3>3. LogsAreOwn'
      BY <1>12, <2>1, HeaderIs DEF OpenLog, LogsAreOwn, Printing, SyncExcludes, HoldsSync
    <3>4. CrashesKnown' /\ FilterKept'
      BY <1>12, <2>1 DEF OpenLog, CrashesKnown, Crashing, FilterKept
    <3>5. Deaths'
      <4>1. \A u \in Threads : thread'[u].pc = "kill" => ~(crashed \subseteq {u})
        BY <1>12, <2>1 DEF OpenLog, CrashesKnown, Crashing
      <4>2. QED
        BY <1>12, <2>1, <4>1 DEF OpenLog, Deaths, Printed
    <3>6. QED
      BY <3>1, <3>2, <3>3, <3>4, <3>5
  <2>2. CASE Goto(t, "caught") /\ outerFailed' = TRUE /\ UNCHANGED files
    <3>1. Types'
      BY <1>12, <2>2 DEF OpenLog
    <3>2. SyncExcludes' /\ Failures'
      BY <1>12, <2>2 DEF OpenLog, SyncExcludes, HoldsSync, Failures
    <3>3. LogsAreOwn'
      BY <1>12, <2>2 DEF OpenLog, LogsAreOwn, Printing
    <3>4. CrashesKnown' /\ FilterKept'
      BY <1>12, <2>2 DEF OpenLog, CrashesKnown, Crashing, FilterKept
    <3>5. Deaths'
      BY <1>12, <2>2 DEF OpenLog, Deaths, Printed
    <3>6. QED
      BY <3>1, <3>2, <3>3, <3>4, <3>5
  <2>3. QED
    BY <1>12, <2>1, <2>2 DEF OpenLog
<1>13. ASSUME NEW t \in Threads, PrintSection(t) PROVE IInv'
  <2> DEFINE n == thread[t].section
             l == thread[t].log
  <2>1. n \in 1..SectionCount /\ l \in 1..MaxTime
    BY <1>13 DEF PrintSection, LogsAreOwn, Printing
  <2>2. PICK failed \in BOOLEAN : WriteEntry(t, n, failed)
    BY <1>13 DEF PrintSection
  <2> DEFINE more == Append(files[l], [by |-> t, section |-> n, failed |-> failed])
  <2>3. /\ files' = [files EXCEPT ![l] = more] /\ more \in Seq(Entry)
        /\ ~outerFailed => LogUpTo(t, n + 1, more)
    <3>1. /\ more \in Seq(Entry)
          /\ LogUpTo(t, n, files[l]) => LogUpTo(t, n + 1, more)
      BY <2>1, PrintExtends
    <3>2. ~outerFailed => LogUpTo(t, n, files[l])
      BY <1>13 DEF PrintSection, LogsAreOwn, Printing
    <3>3. QED
      BY <2>2, <3>1, <3>2 DEF WriteEntry
  <2> HIDE DEF more
  <2>4. \A u \in Threads \ {t} : thread'[u] = thread[u] /\ thread[u].pc # "print"
    BY <1>13 DEF PrintSection, SyncExcludes, HoldsSync
  <2>5. \A u \in Threads \ {t} : ~(crashed \subseteq {u})
    BY <1>13 DEF PrintSection, CrashesKnown, Crashing
  <2>6. thread'[t].log = l /\ thread'[t].section = n + 1
    BY <1>13 DEF PrintSection
  <2>7. /\ n = SectionCount => thread' = [thread EXCEPT ![t].section = n + 1, ![t].pc = "kill"]
        /\ n # SectionCount => thread' = [thread EXCEPT ![t].section = n + 1, ![t].pc = "print"]
    BY <1>13 DEF PrintSection
  <2>8. Types'
    <3>1. PICK pc \in {"kill", "print"} :
            thread' = [thread EXCEPT ![t] = [thread[t] EXCEPT !.section = n + 1, !.pc = pc]]
      BY <2>7
    <3>2. n + 1 \in 0..(SectionCount + 1)
      BY <2>1
    <3>3. [thread[t] EXCEPT !.section = n + 1, !.pc = pc] \in ThreadState
      BY <3>2
    <3>4. thread' \in [Threads -> ThreadState]
      BY <3>1, <3>3
    <3>5. files' \in [1..MaxTime -> Seq(Entry)]
      BY <2>1, <2>3
    <3>6. UNCHANGED <<alive, installed, filter, crtHandler, debugger, clock, foreign, crashed, outerFailed>>
      BY <1>13 DEF PrintSection
    <3>7. QED
      BY <3>4, <3>5, <3>6
  <2>9. SyncExcludes' /\ Failures'
    BY <1>13, <2>7 DEF PrintSection, SyncExcludes, HoldsSync, Failures
  <2>10. LogsAreOwn'
    BY <1>13, <2>1, <2>3, <2>4, <2>6, <2>7 DEF PrintSection, LogsAreOwn, Printing
  <2>11. CrashesKnown' /\ FilterKept'
    BY <1>13, <2>7 DEF PrintSection, CrashesKnown, Crashing, FilterKept
  <2>12. Deaths'
    BY <1>13, <2>1, <2>3, <2>4, <2>5, <2>6, <2>7 DEF PrintSection, Deaths, Printed, CompleteLogOf
  <2>13. QED
    BY <2>8, <2>9, <2>10, <2>11, <2>12
<1>14. ASSUME NEW t \in Threads, WorkerThrows(t) PROVE IInv'
  <2>1. Types'
    BY <1>14 DEF WorkerThrows
  <2>2. SyncExcludes' /\ LogsAreOwn' /\ Failures'
    BY <1>14 DEF WorkerThrows, SyncExcludes, HoldsSync, LogsAreOwn, Printing, Failures
  <2>3. CrashesKnown' /\ FilterKept'
    BY <1>14 DEF WorkerThrows, CrashesKnown, Crashing, FilterKept
  <2>4. Deaths'
    BY <1>14 DEF WorkerThrows, Deaths, Printed
  <2>5. QED
    BY <2>1, <2>2, <2>3, <2>4
<1>15. ASSUME NEW t \in Threads, LogCaught(t) PROVE IInv'
  <2>1. CASE /\ files' = [files EXCEPT ![clock] = Header(t)]
             /\ Goto(t, "kill") /\ UNCHANGED alive
    <3>1. Types'
      <4>1. Header(t) \in Seq(Entry)
        BY HeaderIs
      <4>2. files' \in [1..MaxTime -> Seq(Entry)]
        BY <2>1, <4>1
      <4>3. thread' \in [Threads -> ThreadState]
        BY <2>1
      <4>4. QED
        BY <1>15, <2>1, <4>2, <4>3 DEF LogCaught
    <3>2. SyncExcludes' /\ Failures'
      BY <1>15, <2>1 DEF LogCaught, SyncExcludes, HoldsSync, Failures
    <3>3. LogsAreOwn'
      BY <1>15, <2>1 DEF LogCaught, LogsAreOwn, Printing, Failures
    <3>4. CrashesKnown' /\ FilterKept'
      BY <1>15, <2>1 DEF LogCaught, CrashesKnown, Crashing, FilterKept
    <3>5. Deaths'
      BY <1>15, <2>1 DEF LogCaught, Deaths, Printed, Failures
    <3>6. QED
      BY <3>1, <3>2, <3>3, <3>4, <3>5
  <2>2. CASE alive' = FALSE /\ UNCHANGED <<files, thread>>
    <3>1. Types'
      BY <1>15, <2>2 DEF LogCaught
    <3>2. SyncExcludes' /\ Failures'
      BY <1>15, <2>2 DEF LogCaught, SyncExcludes, HoldsSync, Failures
    <3>3. LogsAreOwn'
      BY <1>15, <2>2 DEF LogCaught, LogsAreOwn, Printing
    <3>4. CrashesKnown' /\ FilterKept'
      BY <1>15, <2>2 DEF LogCaught, CrashesKnown, Crashing, FilterKept
    <3>5. Deaths'
      BY <1>15, <2>2 DEF LogCaught, Deaths, Printed, Failures
    <3>6. QED
      BY <3>1, <3>2, <3>3, <3>4, <3>5
  <2>3. QED
    BY <1>15, <2>1, <2>2 DEF LogCaught
<1>16. ASSUME NEW t \in Threads, Terminate(t) PROVE IInv'
  <2>1. Types'
    BY <1>16 DEF Terminate
  <2>2. SyncExcludes' /\ LogsAreOwn' /\ Failures'
    BY <1>16 DEF Terminate, SyncExcludes, HoldsSync, LogsAreOwn, Printing, Failures
  <2>3. CrashesKnown' /\ FilterKept'
    BY <1>16 DEF Terminate, CrashesKnown, Crashing, FilterKept
  <2>4. Deaths'
    BY <1>16 DEF Terminate, Deaths, Printed
  <2>5. QED
    BY <2>1, <2>2, <2>3, <2>4
<1>17. CASE UNCHANGED vars
  BY <1>17 DEF vars, SyncExcludes, HoldsSync, LogsAreOwn, Printing, Failures, CrashesKnown,
             Crashing, FilterKept, Deaths, Printed
<1>18. QED
  BY <1>1, <1>2, <1>3, <1>4, <1>5, <1>6, <1>7, <1>8, <1>9, <1>10, <1>11, <1>12, <1>13, <1>14, <1>15, <1>16, <1>17
     DEF Next, Dispatch, UnhandledExceptions

LEMMA Invariance == Spec => []IInv
BY InitIInv, NextIInv, PTL DEF Spec

\* Every variable keeps its type, whatever crashes.
THEOREM TypeCorrect == Spec => []TypeOK
<1>1. IInv => TypeOK
  BY DEF IInv, Types, ThreadState, TypeOK
<1>2. QED
  BY <1>1, Invariance, PTL

\* However many threads crash, none writes into the log that another prints
\* before something has failed outside the sections (CrashHandler.cpp:598-599).
THEOREM LogsDoNotMixHolds == Spec => []LogsDoNotMix
<1>1. IInv => LogsDoNotMix
  BY DEF IInv, LogsAreOwn, Printing, LogsDoNotMix
<1>2. QED
  BY <1>1, Invariance, PTL

LEMMA LoneCrashIsLogged == ASSUME IInv PROVE LoneCrashLogged
<1> SUFFICES ASSUME Cardinality(crashed) = 1, ~alive, ~outerFailed, \A t \in Threads : ~foreign[t]
             PROVE  \E s \in 1..MaxTime, t \in crashed : CompleteLogOf(t, files[s])
  BY DEF LoneCrashLogged, CrashLogProduced
<1>1. PICK t \in Threads : thread[t].pc = "kill"
  BY DEF IInv, Deaths
<1>2. t \in crashed
  BY <1>1 DEF IInv, CrashesKnown, Crashing, Pcs
<1>3. crashed \subseteq {t}
  BY <1>2, FS_Singleton DEF IInv, CrashesKnown
<1>4. Printed(t)
  BY <1>1, <1>3 DEF IInv, Deaths
<1>5. QED
  BY <1>2, <1>4 DEF Printed

\* When a single thread of any number crashes, its log is complete before the
\* process ends (CrashHandler.cpp:660-676).
THEOREM LoneCrashLoggedHolds == Spec => []LoneCrashLogged
BY LoneCrashIsLogged, Invariance, PTL
=============================================================================
