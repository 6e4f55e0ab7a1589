SPECIFICATION FairSpec
CONSTANTS
    Job = {j1, j2}
    Worker = {w1}
    Wing = {a, b}
    Drawer = {d1, d2}
    Closet = {c1}
    MaxTime = 1
    MaxFaults = 2
INVARIANT TypeOK
PROPERTIES DoneMeansMerged ImplementsLifecycle JobsSettle
CHECK_DEADLOCK FALSE
