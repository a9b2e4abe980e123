SPECIFICATION Undisturbed
CONSTANTS
    User = {u1, u2}
    Job = {j1, j2}
    Refresher = r
    None = None
CHECK_DEADLOCK FALSE
INVARIANTS
    SessionTypeOK
    ClaimIsTheSessions
    TokenIsTheSessions
    LeftIsEmpty
PROPERTY SignInConcludes
