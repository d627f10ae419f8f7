---------------------------- MODULE CrashHandler ----------------------------
(***************************************************************************)
(* Crash::CrashHandler: how an exception nobody handles becomes a crash    *)
(* log and the end of the process, when several threads may crash and      *)
(* other plugins set exception filters of their own.                       *)
(*                                                                         *)
(* A log is a sequence of entries, the header and the sections, each with  *)
(* the thread that wrote it and whether it failed; the file is named by the second in which it was opened, and opening it  *)
(* truncates it.  External: the CRT and the operating system, which call   *)
(* vectored handlers first and the one top-level filter last.              *)
(***************************************************************************)
EXTENDS Naturals, Sequences, FiniteSets

CONSTANTS
    Threads,
    Crts,               \* the C runtimes with an invalid parameter handler
    SectionCount,       \* the sections of a log, ten in the code
    ParallelSections,   \* those that analyse words in parallel, the 6th and 7th
    WaitForDebugger,    \* Settings::WaitForDebugger
    MaxTime             \* bound: the clock, in seconds

ASSUME CrashHandlerAssumption ==
    /\ SectionCount \in Nat \ {0} /\ MaxTime \in Nat \ {0}
    /\ ParallelSections \subseteq 1..SectionCount
    /\ WaitForDebugger \in BOOLEAN

VARIABLES
    alive,      \* the process runs
    installed,  \* Install has run
    filter,     \* the top-level exception filter: "ours" or "other"
    crtHandler, \* the invalid parameter handler of each CRT
    debugger,   \* a debugger is attached
    clock,
    files,      \* the log of each second
    thread,     \* position, next section and open log of each thread
    foreign,    \* history: who set the filter while this thread was crashing
    crashed,    \* history: the threads whose exception nobody handled
    outerFailed \* history: a step outside the sections, or a worker, has thrown

vars == <<alive, installed, filter, crtHandler, debugger, clock, files, thread,
          foreign, crashed, outerFailed>>

Pcs == {"run", "first", "search", "enter", "lock", "modules", "open", "print", "caught", "kill"}

NoFile == <<>>

Init ==
    /\ alive = TRUE
    /\ installed = FALSE
    /\ filter = "other"
    /\ crtHandler \in [Crts -> {"absent", "default", "foreign"}]
    /\ debugger = FALSE
    /\ clock = 1
    /\ files = [s \in 1..MaxTime |-> NoFile]
    /\ thread = [t \in Threads |-> [pc |-> "run", handled |-> FALSE, section |-> 0, log |-> 0]]
    /\ foreign = [t \in Threads |-> FALSE]
    /\ crashed = {}
    /\ outerFailed = FALSE

\* What a log starts with.
Header(t) == <<[by |-> t, section |-> 0, failed |-> FALSE]>>

At(t, pc) == alive /\ thread[t].pc = pc

Goto(t, pc) == thread' = [thread EXCEPT ![t].pc = pc]

\* static std::mutex sync, held by lock_guard from "modules" to the last section.
HoldsSync(t) == thread[t].pc \in {"modules", "open", "print"}

-----------------------------------------------------------------------------
(* Install *)

\* A handler somebody else installed is put back; an absent CRT is passed over.
InvalidParameterHandlers ==
    [c \in Crts |-> IF crtHandler[c] = "default" THEN "ours" ELSE crtHandler[c]]

Install ==
    /\ alive /\ ~installed
    /\ installed' = TRUE
    /\ crtHandler' = InvalidParameterHandlers
    /\ UNCHANGED <<alive, filter, debugger, clock, files, thread, foreign, crashed, outerFailed>>

-----------------------------------------------------------------------------
(* Exceptions *)

\* Some code raises an exception that a frame handles, or that none does.
Raise(t) ==
    /\ At(t, "run") /\ installed
    /\ \E handled \in BOOLEAN :
          /\ thread' = [thread EXCEPT ![t].pc = "first", ![t].handled = handled]
          /\ crashed' = IF handled THEN crashed ELSE crashed \cup {t}
    /\ foreign' = [foreign EXCEPT ![t] = FALSE]
    /\ UNCHANGED <<alive, installed, filter, crtHandler, debugger, clock, files, outerFailed>>

\* InvalidParameterHandler raises an exception that cannot be continued.
InvalidParameter(t) ==
    /\ At(t, "run") /\ installed
    /\ \E c \in Crts : crtHandler[c] = "ours"
    /\ thread' = [thread EXCEPT ![t].pc = "first", ![t].handled = FALSE]
    /\ crashed' = crashed \cup {t}
    /\ foreign' = [foreign EXCEPT ![t] = FALSE]
    /\ UNCHANGED <<alive, installed, filter, crtHandler, debugger, clock, files, outerFailed>>

\* Defect: the filter is set once, when the plugin loads.
VectoredIdle(t) ==
    /\ At(t, "first")
    /\ Goto(t, IF thread[t].handled THEN "run" ELSE "search")
    /\ UNCHANGED <<alive, installed, filter, crtHandler, debugger, clock, files, foreign, crashed,
                   outerFailed>>

\* Defect: the exception is answered, by EXCEPTION_CONTINUE_EXECUTION.
VectoredContinue(t) ==
    /\ At(t, "first")
    /\ filter' = "ours"
    /\ Goto(t, "run")
    /\ UNCHANGED <<alive, installed, crtHandler, debugger, clock, files, foreign, crashed,
                   outerFailed>>

\* VectoredExceptions sees every exception first: it takes the top-level filter
\* back and lets the search for a handler go on.
VectoredExceptions(t) ==
    /\ At(t, "first")
    /\ filter' = "ours"
    /\ Goto(t, IF thread[t].handled THEN "run" ELSE "search")
    /\ UNCHANGED <<alive, installed, crtHandler, debugger, clock, files, foreign, crashed,
                   outerFailed>>

\* Another plugin sets a filter of its own.
OtherFilter ==
    /\ alive
    /\ filter = "ours"
    /\ filter' = "other"
    /\ foreign' = [t \in Threads |-> foreign[t] \/ thread[t].pc = "search"]
    /\ UNCHANGED <<alive, installed, crtHandler, debugger, clock, files, thread, crashed,
                   outerFailed>>

\* Nobody handled it: the filter is called, and another's ends the process.
Unhandled(t) ==
    /\ At(t, "search")
    /\ IF filter = "ours" THEN Goto(t, "enter") /\ UNCHANGED alive
       ELSE alive' = FALSE /\ UNCHANGED thread
    /\ UNCHANGED <<installed, filter, crtHandler, debugger, clock, files, foreign, crashed,
                   outerFailed>>

-----------------------------------------------------------------------------
(* UnhandledExceptions *)

\* With WaitForDebugger, the thread sleeps until a debugger attaches.
Enter(t) ==
    /\ At(t, "enter")
    /\ WaitForDebugger => debugger
    /\ Goto(t, "lock")
    /\ UNCHANGED <<alive, installed, filter, crtHandler, debugger, clock, files, foreign, crashed,
                   outerFailed>>

\* Defect: no lock.
PassSync(t) ==
    /\ At(t, "lock")
    /\ Goto(t, "modules")
    /\ UNCHANGED <<alive, installed, filter, crtHandler, debugger, clock, files, foreign, crashed,
                   outerFailed>>

LockSync(t) ==
    /\ At(t, "lock")
    /\ \A u \in Threads : ~HoldsSync(u)
    /\ Goto(t, "modules")
    /\ UNCHANGED <<alive, installed, filter, crtHandler, debugger, clock, files, foreign, crashed,
                   outerFailed>>

\* get_loaded_modules, which may throw; unwinding releases sync.
GetModules(t) ==
    /\ At(t, "modules")
    /\ \/ Goto(t, "open") /\ UNCHANGED outerFailed
       \/ Goto(t, "caught") /\ outerFailed' = TRUE
    /\ UNCHANGED <<alive, installed, filter, crtHandler, debugger, clock, files, foreign, crashed>>

\* get_log, and the header: the file of this second, truncated.  It throws if
\* the file cannot be opened.
OpenLog(t) ==
    /\ At(t, "open")
    /\ \/ /\ files' = [files EXCEPT ![clock] = Header(t)]
          /\ thread' = [thread EXCEPT ![t].pc = "print", ![t].section = 1, ![t].log = clock]
          /\ UNCHANGED outerFailed
       \/ Goto(t, "caught") /\ outerFailed' = TRUE /\ UNCHANGED files
    /\ UNCHANGED <<alive, installed, filter, crtHandler, debugger, clock, foreign, crashed>>

\* An entry of the log that t prints, and a flush.
WriteEntry(t, i, failed) ==
    files' = [files EXCEPT ![thread[t].log] = Append(@, [by |-> t, section |-> i, failed |-> failed])]

\* Defect: one section more than there are.
PrintOnePast(t) ==
    LET i == thread[t].section
    IN  /\ At(t, "print")
        /\ WriteEntry(t, i, FALSE)
        /\ thread' = [thread EXCEPT ![t].section = i + 1,
                                    ![t].pc = IF i > SectionCount THEN "kill" ELSE "print"]
        /\ UNCHANGED <<alive, installed, filter, crtHandler, debugger, clock, foreign, crashed,
                       outerFailed>>

\* Defect: no try around a section.
PrintUncaught(t) ==
    LET i == thread[t].section
    IN  /\ At(t, "print")
        /\ \/ /\ WriteEntry(t, i, FALSE)
              /\ thread' = [thread EXCEPT ![t].section = i + 1,
                                          ![t].pc = IF i = SectionCount THEN "kill" ELSE "print"]
           \/ Goto(t, "caught") /\ UNCHANGED files
        /\ UNCHANGED <<alive, installed, filter, crtHandler, debugger, clock, foreign, crashed,
                       outerFailed>>

\* print: a section's text or, if it throws, what it wrote until then and a line
\* that names it.  After the last one the log is closed and sync released.
PrintSection(t) ==
    LET i == thread[t].section
    IN  /\ At(t, "print")
        /\ \E failed \in BOOLEAN : WriteEntry(t, i, failed)
        /\ thread' = [thread EXCEPT ![t].section = i + 1,
                                    ![t].pc = IF i = SectionCount THEN "kill" ELSE "print"]
        /\ UNCHANGED <<alive, installed, filter, crtHandler, debugger, clock, foreign, crashed,
                       outerFailed>>

\* An exception leaves a worker of a parallel loop (get_loaded_modules' over the
\* handles, analyze_data's over the words): std::terminate, past every catch.
WorkerThrows(t) ==
    /\ At(t, "modules") \/ (At(t, "print") /\ thread[t].section \in ParallelSections)
    /\ alive' = FALSE
    /\ outerFailed' = TRUE
    /\ UNCHANGED <<installed, filter, crtHandler, debugger, clock, files, thread, foreign, crashed>>

\* The outer catch blocks, outside sync: get_log again, and one line.  What
\* get_log throws here leaves a noexcept function, which ends the process.
LogCaught(t) ==
    /\ At(t, "caught")
    /\ \/ /\ files' = [files EXCEPT ![clock] = Header(t)]
          /\ Goto(t, "kill") /\ UNCHANGED alive
       \/ alive' = FALSE /\ UNCHANGED <<files, thread>>
    /\ UNCHANGED <<installed, filter, crtHandler, debugger, clock, foreign, crashed,
                   outerFailed>>

Terminate(t) ==
    /\ At(t, "kill")
    /\ alive' = FALSE
    /\ UNCHANGED <<installed, filter, crtHandler, debugger, clock, files, thread, foreign, crashed,
                   outerFailed>>

UnhandledExceptions(t) ==
    \/ Enter(t) \/ LockSync(t) \/ GetModules(t) \/ OpenLog(t) \/ PrintSection(t)
    \/ WorkerThrows(t) \/ LogCaught(t) \/ Terminate(t)

AttachDebugger ==
    /\ alive /\ WaitForDebugger /\ ~debugger
    /\ debugger' = TRUE
    /\ UNCHANGED <<alive, installed, filter, crtHandler, clock, files, thread, foreign, crashed,
                   outerFailed>>

Tick ==
    /\ alive
    /\ clock < MaxTime
    /\ clock' = clock + 1
    /\ UNCHANGED <<alive, installed, filter, crtHandler, debugger, files, thread, foreign, crashed,
                   outerFailed>>

Dispatch(t) == VectoredExceptions(t) \/ Unhandled(t)

Next ==
    \/ Install \/ OtherFilter \/ AttachDebugger \/ Tick
    \/ \E t \in Threads : Raise(t) \/ InvalidParameter(t) \/ Dispatch(t) \/ UnhandledExceptions(t)

Spec == Init /\ [][Next]_vars

(***************************************************************************)
(* The system dispatches every exception, and a thread in the handler is   *)
(* scheduled until the process ends; a mutex that is free again is taken.  *)
(***************************************************************************)
FairSpec ==
    /\ Spec
    /\ \A t \in Threads : WF_vars(Dispatch(t)) /\ WF_vars(UnhandledExceptions(t))

-----------------------------------------------------------------------------
(* Correctness *)

Entry == [by : Threads, section : 0..SectionCount, failed : BOOLEAN]

TypeOK ==
    /\ alive \in BOOLEAN /\ installed \in BOOLEAN /\ debugger \in BOOLEAN
    /\ filter \in {"ours", "other"}
    /\ crtHandler \in [Crts -> {"absent", "default", "foreign", "ours"}]
    /\ clock \in 1..MaxTime
    /\ \A s \in 1..MaxTime : files[s] \in Seq(Entry)
    /\ \A t \in Threads : /\ thread[t].pc \in Pcs
                          /\ thread[t].section \in 0..(SectionCount + 1)
                          /\ thread[t].log \in 0..MaxTime

\* The header and the first sections of a log, all of one thread, in order.
LogUpTo(t, n, log) ==
    Len(log) = n /\ \A i \in 1..n : log[i].by = t /\ log[i].section = i - 1

\* Every section has its entry, also one that failed and those after it.
CompleteLogOf(t, log) == LogUpTo(t, SectionCount + 1, log)

(***************************************************************************)
(* "so it reaches UnhandledExceptions and produces a crash log"            *)
(* (CrashHandler.cpp:665-667): when the process has ended by a crash of    *)
(* which the handler could print everything, and no other plugin took the  *)
(* filter during the crash, some log is complete.  The handler fails this  *)
(* when two threads crash in the same second.                              *)
(***************************************************************************)
CrashLogProduced ==
    ~alive /\ ~outerFailed /\ (\A t \in Threads : ~foreign[t]) =>
        \E s \in 1..MaxTime, t \in crashed : CompleteLogOf(t, files[s])

(***************************************************************************)
(* The same for a process in which a single thread crashed: a section that *)
(* throws costs no other section its place in the log, and neither a filter*)
(* set before the crash nor the CRT's own way to end a process costs the   *)
(* log (CrashHandler.cpp:605-615, 656-660, 665-672).                       *)
(***************************************************************************)
LoneCrashLogged == Cardinality(crashed) = 1 => CrashLogProduced

(***************************************************************************)
(* While a thread is writing its log, every entry of the file is its own   *)
(* and in order, however many threads crash (CrashHandler.cpp:598-599).    *)
(***************************************************************************)
LogsDoNotMix ==
    \A t \in Threads :
        thread[t].pc = "print" /\ ~outerFailed =>
            LogUpTo(t, thread[t].section, files[thread[t].log])

\* A crash ends the process, if no debugger is waited for: threads that wait for
\* sync, or fail on the way, do not keep it alive (CrashHandler.cpp:581-654).
EveryCrashEnds == crashed # {} /\ (WaitForDebugger => debugger) ~> ~alive
=============================================================================
