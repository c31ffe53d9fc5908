SPECIFICATION Spec
CONSTANTS
  a1 = a1
  m1 = m1
  r1 = r1
  r2 = r2
  Ids = {i1, i2, i3}
  NoId = NoId
  Runs = {r1, r2}
  Scopes = {s1, s2}
  Global = Global
  NoScope = NoScope
  MaxWrites = 3
  Artifacts = {a1}
  RunOf <- Producer
  ClaimsOf <- Claims
  Contents = {good, other}
  Verified = {good}
  NoContent = NoContent
  Memories = {m1}
  WorkspaceOf <- Everywhere
  Updates = {q1}
  MaxCrashes = 1
SYMMETRY Symmetry
INVARIANTS TypeOK DeliveredOnce OnlyApprovedInScope ViewIsFrozen
PROPERTIES SubmitDrains ForgottenEndsRun StatusOnlyAdvances
CHECK_DEADLOCK FALSE
