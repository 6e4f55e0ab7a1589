SPECIFICATION Spec
CONSTANTS
    Request = {r1, r2}
    Actor = {a1}
    Drawer <- WingDrawers
    PageOf <- OnePerPage
    Pages = 2
    FaultKinds = {"disconnect"}
    MaxFaults = 1
INVARIANT NotAcceptedButEmpty
CHECK_DEADLOCK FALSE
