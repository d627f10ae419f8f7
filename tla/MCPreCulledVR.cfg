CONSTANTS
    i1 = i1
    i2 = i2
    o1 = o1
    o2 = o2
    Updaters = {u1, u2}
    Readers = {r1}
    Ids = {i1, i2}
    Objects = {o1, o2}
    Null = Null
    ShardIndex <- MCShardIndex
    ChildId <- MCChildId
    MaxCalls = 3
    MaxPasses = 1
    MaxToggles = 2
SPECIFICATION Spec
SYMMETRY UpdaterSymmetry
INVARIANTS TypeOK FetchedStaysAliveIfSet InStep RealMissIsTransient
PROPERTIES DestructorsRunUnlocked
CHECK_DEADLOCK FALSE
