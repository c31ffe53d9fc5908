SPECIFICATION FairSpec
CONSTANTS
  Contents = {v1, v2}
  Nothing = Nothing
  Requests = {r1, r2}
INVARIANTS SearchMatchesManifest
PROPERTIES IndexingEnds
CHECK_DEADLOCK FALSE
