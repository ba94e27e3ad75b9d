SPECIFICATION Spec
CONSTANTS
  Slots = 6
  A = A
  B = B
  C = C
  Idens = {A, B, C}
  Replicas = 2
  Lacking = {{}}
  Points = {1, 2, 3, 4, 5, 6}
  HashFunctions <- MCHash
PROPERTY DeletesTheNamed
CHECK_DEADLOCK FALSE
