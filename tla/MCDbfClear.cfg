SPECIFICATION DriverSpec
CONSTANTS
    Slices = {s0, s1}
    Killed = TRUE
PROPERTIES
    EnableClears
CHECK_DEADLOCK FALSE
