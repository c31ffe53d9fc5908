SPECIFICATION Spec
CONSTANTS
  Tasks = {1, 2, 3}
  DependsOn <- FanIn
  Required = {3}
  GpuTasks = {1}
  Owners = {o1, o2}
  NoOwner = NoOwner
  LeaseSeconds = 1
  MaxRetries = 1
  MaxParallel = 2
  MaxModelCalls = 2
  ExpertSlots = 2
  MayStall = FALSE
  MaxClock = 1
  MaxCrashes = 1
SYMMETRY OwnerSymmetry
INVARIANTS SingleScheduler DurableCausality ResultMatchesAttempt ViewMatchesStore FrontierNeverStuck CancelCutsShort 
PROPERTIES LateWorkKeepsLease SuccessIsReused NothingDroppedSilently ImplementsOwnership
CHECK_DEADLOCK FALSE
