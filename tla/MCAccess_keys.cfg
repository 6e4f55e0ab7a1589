SPECIFICATION AccessSpec
CONSTANTS
    User = {u1, u2}
    Creator = u1
    Roles = {"member", "admin"}
    Request = {r1}
    MaxKeys = 2
    Exchange = {x1, x2}
    CodeTTL = 0
    AccessTTL = 0
    RefreshTTL = 0
    MaxTime = 2
    MaxCodes = 1
    MaxRestarts = 1
SYMMETRY RequestSymmetry
INVARIANTS TokensTypeOK RedeemedOnce
PROPERTY AdmittedAsNow
CHECK_DEADLOCK FALSE
