SPECIFICATION Spec
CONSTANTS
  Windows = {w1, w2}
  Threads = {t1, t2}
  Projects = {p1, p2}
  Drafts = {d1, d2}
  Paragraphs = {x1, x2}
  Cancelled = {d2}
  Citing = {d1}
  Replacements = {r1, blank}
  Broken = {blank}
  None = None
  MaxVersion = 3
  MaxOps = 2
  MaxGestures = 5
  MaxFaults = 1
SYMMETRY Symmetry
CHECK_DEADLOCK FALSE
INVARIANTS ReviewedIsWhatApplies
PROPERTIES ImplementsHistory OwnOrphanNeverBlocks
