SPECIFICATION Spec
CONSTANTS
    Owner = {o1, o2}
    Code = {k1, k2}
    Claim = {c1, c2}
    Cert = {x1, x2}
    Lease = {l1, l2}
    None = None
    ClaimTtl = 2
    LeaseTtl = 1
    Lag = 1
    MaxTime = 4
CHECK_DEADLOCK FALSE
INVARIANTS
    TypeOK
    TablesAgree
    OneBinding
    NoWedge
    CodeSingleUse
PROPERTY OwnsAsPromised
