SPECIFICATION Spec
CONSTANTS
  r1 = r1
  r2 = r2
  s1 = s1
  s2 = s2
  a1 = a1
  a2 = a2
  Free = Free
  Request = {r1, r2}
  Resource = {s1, s2}
  Quantity <- One
  Actor = {a1, a2}
  MaxMoves = 3
  First <- Starts
  MaxFaults = 1
SYMMETRY Symmetric
INVARIANTS QuantityHolds EscalatedOnce
PROPERTY PeopleFollowTable
CHECK_DEADLOCK FALSE
