SPECIFICATION PatientSetup
CONSTANTS
    Owner = {o1}
    Code = {k1}
    Claim = {c1}
    Cert = {x1}
    Lease = {l1, l2}
    Release = {}
    None = None
    ClaimTtl = 2
    LeaseTtl = 1
    Lag = 0
    MaxTime = 1
    MaxTries = 2
CHECK_DEADLOCK FALSE
PROPERTY StrandedIsTakenOver
