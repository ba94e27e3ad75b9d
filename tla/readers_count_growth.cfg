SPECIFICATION ReadersSpec
CONSTANTS
  Data = {d1}
  Nil = Nil
  Garbage = Garbage
  Pushers = {t1}
  Poppers = {t3}
  Peekers = {}
  Readers = {t3}
  Nobody = Nobody
  Requested = {2, 3}
  InitQueueSize = 2
  ReallocMayFail = FALSE
  MaxHeld = 4
INVARIANT CountIsTrueDespiteGrowth
