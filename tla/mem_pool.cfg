SPECIFICATION Spec
CONSTANTS
  PageSize = 16
  PoolHeader = 4
  PageHeader = 4
  Alignment = 4
  MaxFailed = 2
  Requests = {1, 3, 8, 12, 13}
  MaxPages = 4
INVARIANT TypeOK
INVARIANT BlocksApart
INVARIANT BlocksInPage
INVARIANT SearchIsShort
INVARIANT CurrentDivides
CHECK_DEADLOCK FALSE
