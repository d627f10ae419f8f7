------------------------------ MODULE PdbDetails ------------------------------
(***************************************************************************)
(* Crash::PDB::pdb_details: the name and line of an address, from the      *)
(* symbols of its module.  One call at a time reads symbols, by objects of *)
(* a COM library that each call initialises and uninitialises on its       *)
(* thread.  A call leaves by a return or by an exception.                  *)
(*                                                                         *)
(* External: COM and the symbol library, whose calls may fail.             *)
(***************************************************************************)
EXTENDS Naturals

CONSTANTS
    PdbThreads,     \* the handler's thread and the workers of a parallel analysis
    MaxPdbCalls     \* bound: calls

ASSUME PdbAssumption == "free" \notin PdbThreads /\ MaxPdbCalls \in Nat

VARIABLES
    pdbEnv,         \* the threads in an apartment of their own, the symcache
    symcacheChecked, symcacheValid,
    pdbSync,        \* the thread in the static mutex, or "free"
    pdbCall,        \* each thread's call
    comInits,       \* successful CoInitializeEx less CoUninitialize, by thread
    pdbThrew,       \* history: calls of each thread that threw while in COM
    pdbCalls

pdbVars == <<pdbEnv, symcacheChecked, symcacheValid, pdbSync, pdbCall, comInits,
             pdbThrew, pdbCalls>>

NoCall == [pc |-> "idle", paths |-> 0, session |-> 0]

PdbPcs == {"idle", "lock", "init", "create", "convert", "check", "load", "session",
           "public", "private", "uninit", "release"}

PdbTypeOK ==
    /\ symcacheChecked \in BOOLEAN /\ symcacheValid \in BOOLEAN
    /\ pdbSync \in PdbThreads \cup {"free"}
    /\ \A t \in PdbThreads :
         /\ pdbCall[t].pc \in PdbPcs /\ pdbCall[t].session \in 0..4
         /\ comInits[t] \in Nat /\ pdbThrew[t] \in Nat
    /\ pdbCalls \in 0..MaxPdbCalls

PdbInit ==
    /\ pdbEnv \in [singleThreaded : SUBSET PdbThreads, symcache : {"unusable", "directory"}]
    /\ symcacheChecked = FALSE /\ symcacheValid = FALSE
    /\ pdbSync = "free"
    /\ pdbCall = [t \in PdbThreads |-> NoCall]
    /\ comInits = [t \in PdbThreads |-> 0] /\ pdbThrew = [t \in PdbThreads |-> 0]
    /\ pdbCalls = 0

PdbAt(t, pc) == pdbCall[t].pc = pc

PdbGo(t, pc) == pdbCall' = [pdbCall EXCEPT ![t].pc = pc]

-----------------------------------------------------------------------------

CallPdbDetails(t) ==
    /\ PdbAt(t, "idle") /\ pdbCalls < MaxPdbCalls
    /\ pdbCalls' = pdbCalls + 1
    /\ PdbGo(t, "lock")
    /\ UNCHANGED <<pdbEnv, symcacheChecked, symcacheValid, pdbSync, comInits, pdbThrew>>

LockSymbols(t) ==
    /\ PdbAt(t, "lock") /\ pdbSync = "free"
    /\ pdbSync' = t
    /\ PdbGo(t, "init")
    /\ UNCHANGED <<pdbEnv, symcacheChecked, symcacheValid, comInits, pdbThrew, pdbCalls>>

\* A thread in a single-threaded apartment cannot join the multithreaded one.
InitializeCom(t) ==
    /\ PdbAt(t, "init")
    /\ IF t \in pdbEnv.singleThreaded
       THEN PdbGo(t, "release") /\ UNCHANGED comInits
       ELSE PdbGo(t, "create") /\ comInits' = [comInits EXCEPT ![t] = @ + 1]
    /\ UNCHANGED <<pdbEnv, symcacheChecked, symcacheValid, pdbSync, pdbThrew, pdbCalls>>

\* NoRegCoCreate on the plugin's own copy of msdia140.dll or, if it fails,
\* CoCreateInstance on a registered one.
CreateSource(t) ==
    /\ PdbAt(t, "create")
    /\ PdbGo(t, "convert") \/ PdbGo(t, "uninit")
    /\ UNCHANGED <<pdbEnv, symcacheChecked, symcacheValid, pdbSync, comInits, pdbThrew, pdbCalls>>

ConvertPath(t) ==
    /\ PdbAt(t, "convert")
    /\ PdbGo(t, "check")
    /\ UNCHANGED <<pdbEnv, symcacheChecked, symcacheValid, pdbSync, comInits, pdbThrew, pdbCalls>>

\* The conversions of the module's path may throw before COM is initialised, and
\* after it utf8_to_utf16 at a path that is not UTF-8, exists when it may not look,
\* and processSymbol's conversions, patterns and strings: what was acquired is
\* released by unwinding, and COM stays initialised on this thread.
Throw(t) ==
    /\ pdbCall[t].pc \in {"init", "convert", "check", "load", "public", "private"}
    /\ pdbCall' = [pdbCall EXCEPT ![t] = NoCall]
    /\ pdbSync' = "free"
    /\ pdbThrew' = IF PdbAt(t, "init") THEN pdbThrew ELSE [pdbThrew EXCEPT ![t] = @ + 1]
    /\ UNCHANGED <<pdbEnv, symcacheChecked, symcacheValid, comInits, pdbCalls>>

\* The first call looks whether the symcache is a directory; every call
\* searches the plugin directory and, if it is, the cache.
CheckSymcache(t) ==
    /\ PdbAt(t, "check")
    /\ symcacheChecked' = TRUE
    /\ symcacheValid' = (symcacheValid \/ (~symcacheChecked /\ pdbEnv.symcache = "directory"))
    /\ pdbCall' = [pdbCall EXCEPT ![t].paths = IF symcacheValid' THEN 2 ELSE 1, ![t].pc = "load"]
    /\ UNCHANGED <<pdbEnv, pdbSync, comInits, pdbThrew, pdbCalls>>

\* loadDataForExe in the next search path.
LoadPdb(t) ==
    /\ PdbAt(t, "load")
    /\ \/ PdbGo(t, "session")
       \/ pdbCall' = [pdbCall EXCEPT ![t].paths = @ - 1,
                                     ![t].pc = IF pdbCall[t].paths = 1 THEN "uninit" ELSE "load"]
    /\ UNCHANGED <<pdbEnv, symcacheChecked, symcacheValid, pdbSync, comInits, pdbThrew, pdbCalls>>

\* Defect: one of the early returns forgets CoUninitialize.
OpenSessionLeaking(t) ==
    /\ PdbAt(t, "session")
    /\ \/ pdbCall' = [pdbCall EXCEPT ![t].session = @ + 1,
                                     ![t].pc = IF pdbCall[t].session = 3 THEN "public" ELSE "session"]
       \/ PdbGo(t, IF pdbCall[t].session = 2 THEN "release" ELSE "uninit")
    /\ UNCHANGED <<pdbEnv, symcacheChecked, symcacheValid, pdbSync, comInits, pdbThrew, pdbCalls>>

\* openSession, get_globalScope, getEnumTables, getSymbolsByAddr.
OpenSession(t) ==
    /\ PdbAt(t, "session")
    /\ \/ pdbCall' = [pdbCall EXCEPT ![t].session = @ + 1,
                                     ![t].pc = IF pdbCall[t].session = 3 THEN "public" ELSE "session"]
       \/ PdbGo(t, "uninit")
    /\ UNCHANGED <<pdbEnv, symcacheChecked, symcacheValid, pdbSync, comInits, pdbThrew, pdbCalls>>

\* The public symbol at the address, or none; then the function it targets.
FindSymbol(t) ==
    /\ PdbAt(t, "public") \/ PdbAt(t, "private")
    /\ \/ PdbAt(t, "public") /\ PdbGo(t, "private")
       \/ PdbGo(t, "uninit")
    /\ UNCHANGED <<pdbEnv, symcacheChecked, symcacheValid, pdbSync, comInits, pdbThrew, pdbCalls>>

UninitializeCom(t) ==
    /\ PdbAt(t, "uninit")
    /\ comInits' = [comInits EXCEPT ![t] = @ - 1]
    /\ PdbGo(t, "release")
    /\ UNCHANGED <<pdbEnv, symcacheChecked, symcacheValid, pdbSync, pdbThrew, pdbCalls>>

\* The return: the smart pointers release what they hold, then sync is free.
ReturnPdbDetails(t) ==
    /\ PdbAt(t, "release")
    /\ pdbSync' = "free"
    /\ pdbCall' = [pdbCall EXCEPT ![t] = NoCall]
    /\ UNCHANGED <<pdbEnv, symcacheChecked, symcacheValid, comInits, pdbThrew, pdbCalls>>

PdbNext ==
    \E t \in PdbThreads :
        \/ CallPdbDetails(t) \/ LockSymbols(t) \/ InitializeCom(t) \/ CreateSource(t)
        \/ ConvertPath(t) \/ Throw(t) \/ CheckSymcache(t) \/ LoadPdb(t) \/ OpenSession(t)
        \/ FindSymbol(t) \/ UninitializeCom(t) \/ ReturnPdbDetails(t)

PdbSpec == PdbInit /\ [][PdbNext]_pdbVars

-----------------------------------------------------------------------------

(***************************************************************************)
(* However a call of pdb_details ends, at any of its returns or by an      *)
(* exception at any step, it leaves its mutex free, and its thread's use of*)
(* COM as it found it, except that an exception after CoInitializeEx costs *)
(* one CoUninitialize; and no other call is under way while one reads      *)
(* symbols (PdbHandler.cpp:295-449).                                       *)
(***************************************************************************)
PdbCallsEndClean ==
    \A t \in PdbThreads :
        /\ pdbSync = t <=> pdbCall[t].pc \notin {"idle", "lock"}
        /\ pdbCall[t].pc \in {"idle", "lock", "init", "release"} => comInits[t] = pdbThrew[t]
=============================================================================
