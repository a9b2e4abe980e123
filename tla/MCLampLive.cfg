SPECIFICATION LiveCommands
CONSTANTS
    power = power
    colour = colour
    a = a
    b = b
    Field <- TwoFields
    Value <- TwoValues
    Dark <- AllDark
    Patch <- OnOrBlue
    Request = {q1, q2}
    Call = {c1, c2, c3}
    None = None
    Faults = FALSE
    MaxBoots = 1
    MaxReports = 4
CHECK_DEADLOCK FALSE
INVARIANTS
    NoUpdateLost
    CallerGetsItsCommand
PROPERTY LampCatchesUp
