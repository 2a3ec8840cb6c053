CONSTANTS
  Cpus = {"cpu0", "cpu1"}
  NInterrupts = 3
  IrqCpus <- Shared
  EnableWriters = {"cpu1"}
  ClockCpus = {0, 1}
  Readers = {0}
  Masters = {1}
  Speed <- TwoSpeeds
  Cycle = 3
  Ns = 2
  Half = 2
  Slices = {2}
  ClockEnd = 4
  MaxSyncs = 1
  Periphs = {"cpu", "ram"}
  Cost <- TwoModes
  Period = 2
  HistorySize = 2
  TraceEnd = 7
SPECIFICATION MCSpec
INVARIANTS LineFollowsSources InterruptHasVector EnergyIsIntegral
PROPERTIES InterruptWakes CountIsFresh CyclesTakeTheirTime TimeIsAtItsLevel
CHECK_DEADLOCK FALSE
