SPECIFICATION Setup
CONSTANTS
    Owner = {o1}
    Code = {k1}
    Claim = {c1, c2}
    Cert = {x1}
    Lease = {l1}
    Release = {}
    None = None
    ClaimTtl = 1
    LeaseTtl = 1
    Lag = 0
    MaxTime = 2
    MaxTries = 2
CHECK_DEADLOCK FALSE
INVARIANTS
    AppTypeOK
    LeaseHasWorker
PROPERTIES
    CompleteIsOnline
    SetupConcludes
