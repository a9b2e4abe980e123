SPECIFICATION LiveSpec
CONSTANTS
    Worker = {w1, w2}
    MaxRev = 4
    MaxFaults = 2
CHECK_DEADLOCK FALSE
INVARIANTS
    TypeOK
    SettledAgrees
PROPERTIES
    RevisionsInOrder
    Settles
