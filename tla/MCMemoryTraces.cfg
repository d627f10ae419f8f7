CONSTANTS
    Threads = {t1, t2}
    Blocks = {b1, b2}
    Null = Null
SPECIFICATION Spec
SYMMETRY CallerSymmetry
INVARIANTS TypeOK NoStaleTrace NodesAreTraced BlockReportIsJust
CHECK_DEADLOCK FALSE
