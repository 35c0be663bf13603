SPECIFICATION FairSpec
CONSTANTS
  o1 = o1
  o2 = o2
  p1 = p1
  p2 = p2
  b1 = b1
  b2 = b2
  Nobody = Nobody
  Op = {o1, o2}
  Passes <- OneOrTwo
  Box = {b1}
  BoxOf <- OneBox
  Kinds = {TRUE, FALSE}
  Refusable = {o1, o2}
  MaxCloses <- CloseOnce
INVARIANT SentIsStored
PROPERTIES LeavesOnReceipt QueueDrains
CHECK_DEADLOCK FALSE
