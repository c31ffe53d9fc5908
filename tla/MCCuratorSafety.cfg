SPECIFICATION Spec
CONSTANTS
  c1 = c1
  c2 = c2
  c3 = c3
  Notes = {1}
  Items = {2}
  Relations = {4}
  Existing = {1, 2}
  Endpoints <- JoinsOld
  Unauthorized = {}
  Calls = {c1, c2, c3}
  Selection <- SelectDiffering
  MaxEdits = 1
  MaxCrashes = 1
SYMMETRY CallSymmetry
INVARIANTS ObjectHasStep ReceiptIsBacked ProposalsAfterEndpoints
PROPERTIES CommittedNeverTakenBack
CHECK_DEADLOCK FALSE
