SPECIFICATION Spec
CONSTANTS
  c1 = c1
  c2 = c2
  c3 = c3
  Notes = {1}
  Items = {2, 3}
  Relations = {4}
  Existing = {}
  Endpoints <- Joins
  Unauthorized = {}
  Calls = {c1, c2}
  Selection <- SelectAll
  MaxEdits = 0
  MaxCrashes = 1
INVARIANTS ReplayedIsComplete
CHECK_DEADLOCK FALSE
