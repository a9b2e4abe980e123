SPECIFICATION Spec
CONSTANTS
    Worker = {w1, w2}
    MaxRev = 4
    MaxFaults = 0
SYMMETRY Symmetry
CHECK_DEADLOCK FALSE
INVARIANT ExternalConverges
