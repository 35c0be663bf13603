SPECIFICATION FairSpec
CONSTANTS
  r1 = r1
  r2 = r2
  w1 = w1
  w2 = w2
  NoWrite = NoWrite
  Record = {r1}
  Worker = {w1}
  MaxEdits = 2
  MaxShares = 2
  MaxFiles = 1
  MaxFaults = 1
  Batch = 2
  Overlaps = FALSE
INVARIANTS TypeOK NothingLost DeletionsReach DeliveredIsApplied DeliveredInOrder
PROPERTY EditsArrive
CHECK_DEADLOCK FALSE
