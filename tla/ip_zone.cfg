SPECIFICATION Spec
CONSTANTS
  Space = 8
  Subnets <- MCSubnets
  Files <- MCFiles
  Null = Null
INVARIANT TypeOK
INVARIANT SortedByStart
INVARIANT FindIsRight
INVARIANT NothingLost
PROPERTY LoadReturns
CHECK_DEADLOCK FALSE
