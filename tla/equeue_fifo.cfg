SPECIFICATION Spec
CONSTANTS
  Data = {d1, d2}
  Nil = Nil
  Garbage = Garbage
  Pushers = {t1, t2}
  Poppers = {t2, t3}
  Peekers = {t3}
  Nobody = Nobody
  Requested = {1, 3}
  InitQueueSize = 2
  ReallocMayFail = TRUE
  MaxHeld = 3
INVARIANT TypeOK
PROPERTY IsFifo
CHECK_DEADLOCK FALSE
