SPECIFICATION Spec
CONSTANTS
  Space = 8
  Subnets <- MCSubnets
  Files <- MCFiles
  Null = Null
INVARIANT FindsItsSubnet
CHECK_DEADLOCK FALSE
