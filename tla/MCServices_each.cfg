SPECIFICATION MCSpec
CONSTANTS
    Plans <- PlanIds
    Cap <- Caps
    User = {u1, u2, u3}
    Creator = u1
    Roles = {"member", "admin"}
    Request = {r1, r2}
    MaxKeys = 3
    Months = 2
    MaxCount = 4
    MaxErrors = 1
    Fact = {works}
    Endpoints <- EntityIds
    Temporal <- Moments
    MaxRows = 3
    SetSize = 2
    MaxSecrets = 3
    MaxSets = 2
    MaxEdits = 4
    ShareRequest = {q1, q2}
    Actor = {a1, a2, a3}
    PageOf <- OnePerPage
    Pages = 2
    FaultKinds = {"copy", "reopen", "disconnect", "crash"}
    MaxShareFaults = 2
    NumIds = 2
    DrawerEdits = 2
    DrawerFaults = 2
SYMMETRY RequestSymmetry
INVARIANTS ServicesTypeOK BoundedOvershoot WorkspaceHolds CodesWork VersionTellsTextUnlessRaced
PROPERTIES FactsStand ConsentDecides CompletionAgrees
CHECK_DEADLOCK FALSE
