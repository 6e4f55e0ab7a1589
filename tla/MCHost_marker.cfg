SPECIFICATION MCSpec
CONSTANTS
    Process = {p1}
    Database = {a}
    MaxBoots = 0
    Parts = {"installer"}
    Cap = 0
    MaxToolCalls = 0
    Workspaces = {"t"}
    People = {"u"}
    Requester = "u"
    Asked = "t"
    MaxRowChanges = 0
    Messages = 0
    MaxEvents = 0
    Asks = {"shared"}
    Earlier = {{"claude", "codex"}}
    MaxRuns = 1
    MaxEdits = 1
    EditedFiles = {"settings.json", "CLAUDE.md", "auth.json"}
    Unreadable = {".credentials.json"}
    Terminal = {s1}
    MaxCommands = 0
    MaxChanges = 0
    Updater = {}
    Tag = {"v1", "v2"}
    MaxUpdates = 0
    PageRows = 2
    ClosetBatch = 1
    ImportBatch = 2
    TunnelsHeld = 2
    ImportsPaid = 2
    MaxImports = 0
    Absent = Absent
    Damaged = Damaged
    Link = Link
INVARIANT MarkerTellsShared
CHECK_DEADLOCK FALSE
