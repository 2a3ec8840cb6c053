\* One CPU posting writes to one memory, a pool one larger than the path can
\* hold (four queues of one, two dispatchers, the device), more writes than the
\* pool has requests.
CONSTANTS
  Cpus = {c1}
  Slaves = {"ram"}
  Addrs = {"x"}
  SlaveOf <- OneSlave
  IoAddrs = {}
  Posting = {c1}
  QueueSize = 1
  PoolSize = 8
  MaxOps = 9
  Items = {}
  NoItem = "none"
  Writers = {}
  Size = 1
SPECIFICATION BusSpec
INVARIANTS NeverOutOfRequests
CHECK_DEADLOCK FALSE
