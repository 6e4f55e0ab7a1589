SPECIFICATION MCSpec
CONSTANTS
    Process = {p1, p2}
    Database = {a, b}
    MaxBoots = 3
    Parts = {"server", "tools", "export", "proxy", "installer", "launcher", "update", "transfer", "import"}
    Cap = 1
    MaxToolCalls = 2
    Workspaces = {"t", "o"}
    People = {"u", "v"}
    Requester = "u"
    Asked = "t"
    MaxRowChanges = 2
    Messages = 3
    MaxEvents = 1
    Asks = {"copy", "global", "socket", "all", "refresh"}
    Earlier = {{"claude"}, {"sandbox"}}
    MaxRuns = 2
    MaxEdits = 1
    EditedFiles = {"settings.json", "CLAUDE.md", "auth.json"}
    Unreadable = {".credentials.json"}
    Terminal = {s1, s2}
    MaxCommands = 3
    MaxChanges = 1
    Updater = {"u1", "u2"}
    Tag = {"v1", "v2"}
    MaxUpdates = 3
    PageRows = 2
    ClosetBatch = 1
    ImportBatch = 2
    TunnelsHeld = 2
    ImportsPaid = 2
    MaxImports = 3
    Absent = Absent
    Damaged = Damaged
    Link = Link
SYMMETRY HostSymmetry
INVARIANTS HostTypeOK DatabasesApart CallsPaidAndBounded
INVARIANTS ArchiveIsTheirs WingMovesWhole RepliesInOrder ClientsStayWhole
PROPERTY LaunchesAsRecorded
CHECK_DEADLOCK FALSE
