SPECIFICATION FairSpec
CONSTANTS
  n1 = n1
  n2 = n2
  w1 = w1
  w2 = w2
  a1 = a1
  NoRow = NoRow
  Note = {n1, n2}
  Fallback = {n1}
  Copies <- ResentOnce
  Worker = {w1, w2}
  Admin = {a1}
  Batch = 2
  Threshold = 1
  MaxFaults = 1
INVARIANTS SentOnce NoteTellsLatest WithdrawnIsUnsent
PROPERTIES SettledStays EveryDeliverySettles
CHECK_DEADLOCK FALSE
CONSTRAINT OneWorkerForTwo
