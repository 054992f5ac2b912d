SPECIFICATION Spec
CONSTANTS
  f1 = f1
  f2 = f2
  v = v
  Files = {f1, f2}
  Paths = {f1, f2}
  PathOf <- MCPathOf
  Values = {v}
  Plans <- MCPlans
  Cap = 3
INVARIANTS PageTells EvidenceKept
CHECK_DEADLOCK FALSE
