SPECIFICATION Spec
CONSTANTS
  o1 = o1
  o2 = o2
  p1 = p1
  p2 = p2
  b1 = b1
  b2 = b2
  Nobody = Nobody
  Op = {o1, o2}
  Passes <- OneEach
  Box = {b1, b2}
  BoxOf <- TwoBoxes
  Kinds = {TRUE}
  Refusable = {o1, o2}
  MaxCloses <- NoClose
PROPERTY LeavesOnReceipt
CHECK_DEADLOCK FALSE
