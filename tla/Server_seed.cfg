SPECIFICATION Spec
CONSTANTS
    Process = {p1}
    Database = {a}
    MaxBoots = 2
INVARIANT SeededTogether
CHECK_DEADLOCK FALSE
