CONSTANTS
    NavThreads = {"main", "other"}
    MainThread = "main"
    Cells = {"c1", "c2", "c3"}
    WorkshopCells = {"c1", "c2"}
    RemovedCells = {"c2"}
    MaxMoves = 2
    MaxLoads = 2
    Threads = {"w1", "w2", "w3"}
    MaxTasks = 5
    MaxBatches = 2
    FlatUpdaters = {"u1", "u2"}
    FlatReaders = {"r1"}
    FlatIds = {"i1", "i2", "i3"}
    FlatObjects = {"o1", "o2"}
    NoObject = "none"
    Bucket <- MCBucket
    AppCulled = {"o2"}
    ShadowCasters = {"o1"}
    FlatChildId <- MCNoChild
    MaxUpdates = 2
    MaxFlatPasses = 1
    Pipboy = "pipboy"
    Menus = {"pipboy", "other"}
    SettingFiles <- MCSettingFiles
    MaxMessages = 3
    Keywords = {"k1", "k2", "misc"}
    MiscKeyword = "misc"
    AlwaysShowIcon = "always"
    RootList = "root"
    SubLists = {"l1", "l2"}
    NoForm = "null"
    ListSets <- MCListSets
    RecipeSets <- MCRecipeSets
    kMaxFormListDepth = 2
    kMaxFilters = 2
    Deletable = {"k1", "l1"}
    MaxOpenings = 2
    Pages = {1, 2}
    PageGap = 10
    kArenaPageBytes = 4
    kArenaRecordBytes = 2
    kMaxIter = 5
    ArenaContents <- MCArenaContents
    Images = {10, 20, 24, 30}
    ImageSize = 4
    LoadedAtCrash <- MCLoadedAtCrash
    MaxUnloads = 1
    MaxFailures = 1
    PdbThreads = {"p1", "p2"}
    MaxPdbCalls = 2
    Place <- MCPlace
    Stacks <- MCStacks
    BlockSize = 2
SPECIFICATION PartsSpec
INVARIANTS QuietNavmeshIsRight EachTaskOnce CulledObjectsAlive MenusAgreeWithDevice InstalledInTime
    MenuAgrees ChildrenSearchAgrees ArenaWalkAgrees ListingAgrees
    PdbCallsEndClean AnalysisAgrees
PROPERTIES NavmeshSettles
CHECK_DEADLOCK FALSE
