SPECIFICATION Commands
CONSTANTS
    power = power
    colour = colour
    a = a
    b = b
    Field <- TwoFields
    Value <- TwoValues
    Dark <- AllDark
    Patch <- OnOrBlue
    Request = {q1, q2}
    Call = {c1, c2}
    None = None
    Faults = TRUE
    MaxBoots = 2
    MaxReports = 3
SYMMETRY Symmetry
CHECK_DEADLOCK FALSE
INVARIANTS
    CommandTypeOK
    AckedIsDurable
    ShownIsCurrent
    NotPendingIsApplied
PROPERTY CommandsAsPromised
