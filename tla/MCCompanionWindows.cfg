SPECIFICATION Spec
CONSTANTS
  MaxConversations = 2
  MaxCreated = 2
  MaxRequests = 3
  Windows = {"main", "overlay"}
  Starts = {{"main", "overlay"}, {}}
  MaxFaults = 0
  MaxFetches = 1
  MaxGestures = 1
INVARIANTS TypeOK ShownIsStored OneGeneration LeaseEndsWithSocket
PROPERTIES TerminalIsFinal
CHECK_DEADLOCK FALSE
