\* Images of one word, at one address.
CONSTANTS
  Words = 1
  Addrs = {"a1"}
  Paced = FALSE
SPECIFICATION DriverFairSpec
INVARIANT PendingIsOwed
PROPERTY ImageReported
CHECK_DEADLOCK FALSE
