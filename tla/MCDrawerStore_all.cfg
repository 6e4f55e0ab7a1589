SPECIFICATION MCFairSpec
CONSTANTS
    NumIds = 2
    Single = h1
    Id <- Ids
    FiledAt <- FiledInOrder
    Handler = {h1, h2}
    Ops = {"file", "absorb", "delete", "update", "move"}
    Batch = 2
    MaxEdits = 1
    MaxFaults = 1
INVARIANTS TypeOK VectorlessOnlyAfterErase IndexOnlyAfterSoT
PROPERTIES ImplementsLifecycle PendingSettles
CHECK_DEADLOCK FALSE
