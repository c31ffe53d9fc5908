SPECIFICATION Spec
CONSTANTS
  MaxConversations = 1
  MaxCreated = 1
  MaxRequests = 3
  MaxIterations = 2
  MaxCalls = 2
  MaxRestarts = 1
  Approvals = {FALSE}
INVARIANTS TypeOK InterruptedWriteStays EndedRunSettles FinishedRunIsStored
CHECK_DEADLOCK FALSE
