\* A CPU that posts its writes beside one with blocking writes
\* (set_unblocking_write (0)), both accessing a memory and a device; a ring of three
\* items with three writers.
CONSTANTS
  Cpus = {c1, c2}
  Slaves = {"ram", "dev"}
  Addrs = {"x", "io"}
  SlaveOf <- MCSlaveOf
  IoAddrs = {"io"}
  Posting = {c1}
  QueueSize = 2
  PoolSize = 3
  MaxOps = 2
  Items = {"a", "b"}
  NoItem = "none"
  Writers = {"w1", "w2", "w3"}
  Size = 3
SPECIFICATION MCSpec
INVARIANTS TransactionsConserved NoLostWakeup
PROPERTIES RefinesMemory AccessReturns RefinesFifo
CHECK_DEADLOCK FALSE
