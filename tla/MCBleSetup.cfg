SPECIFICATION BleSpec
CONSTANTS
    Lamp = {d1, d2}
    MaxAttempt = 2
    None = None
CHECK_DEADLOCK FALSE
INVARIANTS
    BleTypeOK
    LampHasItsClaim
    WifiShownIsReady
    LeavingFreesTheLamp
PROPERTY SetupMoves
