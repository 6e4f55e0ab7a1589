SPECIFICATION MCSpec
CONSTANTS
    Texts <- TextsTried
    Sizings <- SizingsTried
    Cutters = {"window", "mine", "diary"}
    TopicLists <- TopicsFound
    QuoteLists <- QuotesFound
    LineLength <- LengthsTried
    PlainLine = "f"
    TopicLimit = 3
    QuoteLimit = 2
    ClosetLimit = 6
    SearchedDrawer = {"d1", "d2", "d3", "d4"}
    Word = {"a", "b", "c"}
    Wings = {"w", "v"}
    Sources = {"s1", "s2"}
    Query <- QueryTried
    Memories <- MemoriesTried
    ClosetLists <- ClosetsFound
    Asked = {2}
    DefaultLimit = 2
    MaxLimit = 2
    Multiplier = 1
    FilterPool = 4
    RankBoosts <- Boosts
    Rerankers = {0, 3}
    Batch = 2
    Unit = 100
    Far = 3
    MaxTouched = 1
    Agent = {"Ann", "bob"}
    Lower <- LowerCase
    Entry <- Entries
    MaxTime = 1
    MaxWrites = 2
    Wing = {1, 2}
    Link <- Links
    Drawer = {1, 2, 3, 4}
    EntitiesOf <- BothEntities
    RoomOf <- OneRoom
    Label = {"label"}
    MinCount = 2
    Call = {c1, c2}
    MaxCalls = 3
    MaxChanges = 1
    Placements <- PlacementsTried
    WalkedRoom = {0, 1, 2, 3, 4}
    WalkedWing = {"a", "b", "c"}
    GeneralRoom = 0
    Walks <- GraphsTried
    HopsAsked = {0, 1, 3}
    DefaultHops = 2
    MaxHops = 2
    MaxResults = 3
    Namespace = {"drawers"}
    Point = {"p1", "p2"}
    Writer = {w1}
    UpsertBatch = 1
    MaxVersion = 2
    Absent = Absent
SYMMETRY CallSymmetry
INVARIANTS MemoryTypeOK JournalAppends SearchIsFair WalkIsNearest SyncedIsTruth
PROPERTIES TextKept GraphIsRebuilt
CHECK_DEADLOCK FALSE
