SPECIFICATION Spec
CONSTANTS
  Sizes = {2}
  Clients = {c1}
  Tasks = {d1}
  Nil = Nil
  Garbage = Garbage
  CreateMayFail = TRUE
  Quiet = TRUE
CHECK_DEADLOCK FALSE
INVARIANT FailedCreateReturns
