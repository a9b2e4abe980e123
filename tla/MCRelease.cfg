SPECIFICATION System
CONSTANTS
    Owner = {o1}
    Code = {k1, k2}
    Claim = {c1, c2}
    Cert = {x1, x2}
    Lease = {l1, l2}
    Release = {r1, r2}
    None = None
    ClaimTtl = 2
    LeaseTtl = 1
    Lag = 0
    MaxTime = 2
SYMMETRY Symmetry
CHECK_DEADLOCK FALSE
INVARIANT DecommissionIdempotent
