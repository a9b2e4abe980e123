SPECIFICATION System
CONSTANTS
    Owner = {o1}
    Code = {k1, k2}
    Claim = {c1, c2}
    Cert = {x1, x2}
    Lease = {l1, l2}
    Release = {r1, r2}
    None = None
    ClaimTtl = 2
    LeaseTtl = 1
    Lag = 1
    MaxTime = 2
SYMMETRY Symmetry
VIEW View
CHECK_DEADLOCK FALSE
INVARIANTS
    SystemTypeOK
    RuntimeOnlyForBound
    ReleasedIsDisarmed
    AuthorizedIsServiceable
