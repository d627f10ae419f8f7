CONSTANTS
    Threads = {t1, t2}
    Crts <- MCCrts
    SectionCount = 3
    ParallelSections = {2}
    WaitForDebugger = TRUE
    MaxTime = 2
SPECIFICATION FairSpec
INVARIANTS TypeOK LoneCrashLogged LogsDoNotMix
PROPERTIES EveryCrashEnds
CHECK_DEADLOCK FALSE
