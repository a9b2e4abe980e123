SPECIFICATION LiveEnrollment
CONSTANTS
    Claim = {c1, c2}
    Certificate = {k1, k2, k3}
    None = None
    RetryLimit = 3
    MaxFaults = 2
    MaxCuts = 2
CHECK_DEADLOCK FALSE
INVARIANTS
    EnrollmentTypeOK
    IssuedIsRegistered
    UnregisteredAsksOnce
PROPERTY PendingIsIssued
