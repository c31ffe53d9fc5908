SPECIFICATION FairSpec
CONSTANTS
  Tasks = {1}
  DependsOn <- Single
  Required = {1}
  GpuTasks = {1}
  Owners = {o1, o2}
  NoOwner = NoOwner
  LeaseSeconds = 2
  MaxRetries = 0
  MaxParallel = 2
  MaxModelCalls = 2
  ExpertSlots = 2
  MayStall = TRUE
  MaxClock = 3
  MaxCrashes = 1
PROPERTIES ExecuteEnds NoSlotStarvation
CHECK_DEADLOCK FALSE
