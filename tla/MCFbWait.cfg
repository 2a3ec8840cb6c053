SPECIFICATION DriverSpec
CONSTANTS
    Words = 1
    Addrs = {"a1"}
    Paced = FALSE
INVARIANTS
    SleeperHasNothing
CHECK_DEADLOCK FALSE
