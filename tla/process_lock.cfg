SPECIFICATION Spec
CONSTANTS
  Procs = {p1, p2, p3}
  Sems = {s1, s2}
  None = None
  SemMax = 2
  InitAgain = FALSE
INVARIANT TypeOK
INVARIANT MutualExclusion
INVARIANT LockIsAccountedFor
PROPERTY NobodyWaitsForTheDead
