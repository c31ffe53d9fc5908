SPECIFICATION Spec
CONSTANTS
  MaxConversations = 1
  MaxCreated = 1
  MaxRequests = 3
  MaxIterations = 3
  MaxCalls = 2
  MaxRestarts = 1
  Approvals = {TRUE, FALSE}
INVARIANTS FreshApproval
CHECK_DEADLOCK FALSE
