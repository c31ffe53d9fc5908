SPECIFICATION FairSpec
CONSTANTS
  MaxConversations = 2
  MaxCreated = 2
  MaxRequests = 2
  Windows = {"main"}
  Starts = {{"main"}}
  MaxFaults = 2
  MaxFetches = 1
  MaxGestures = 2
PROPERTIES ReplySettles WindowRecovers
CHECK_DEADLOCK FALSE
