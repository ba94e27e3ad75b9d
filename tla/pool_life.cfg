SPECIFICATION Spec
CONSTANTS
  Sizes = {0, 2}
  Clients = {c1, c2}
  Tasks = {d1, d2, d3}
  Nil = Nil
  Garbage = Garbage
  CreateMayFail = TRUE
  Quiet = TRUE
CHECK_DEADLOCK FALSE
INVARIANT TypeOK
INVARIANT NoWildAccess
INVARIANT JoinedBeforeFree
INVARIANT TaskInOnePlace
INVARIANT FailedCreateLeavesNothing
PROPERTY DestroyReturns
PROPERTY QueuedTasksRun
