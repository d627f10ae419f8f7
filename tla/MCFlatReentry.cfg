CONSTANTS
    FlatUpdaters = {"u1"}
    FlatReaders = {"r1"}
    FlatIds = {"i1", "i2"}
    FlatObjects = {"o1", "o2"}
    NoObject = "none"
    Bucket <- MCBucket
    AppCulled = {}
    ShadowCasters = {}
    FlatChildId <- MCChildId
    MaxUpdates = 2
    MaxFlatPasses = 1
SPECIFICATION FlatSpec
INVARIANTS NoSelfWait
CHECK_DEADLOCK FALSE
