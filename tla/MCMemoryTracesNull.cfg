CONSTANTS
    Threads = {t1, t2}
    Blocks = {b1, b2}
    Null = Null
SPECIFICATION Spec
SYMMETRY CallerSymmetry
INVARIANTS ReportIsJust
CHECK_DEADLOCK FALSE
