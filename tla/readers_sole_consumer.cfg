SPECIFICATION ReadersSpec
CONSTANTS
  Data = {d1}
  Nil = Nil
  Garbage = Garbage
  Pushers = {t1, t2}
  Poppers = {t3}
  Peekers = {t3}
  Readers = {t3}
  Nobody = Nobody
  Requested = {2, 3}
  InitQueueSize = 2
  ReallocMayFail = TRUE
  MaxHeld = 4
INVARIANT NotEmptyStays
INVARIANT EmptyIsTrue
INVARIANT CountIsTrue
PROPERTY MutexReleased
CHECK_DEADLOCK FALSE
