SPECIFICATION ForwardFairSpec
CONSTANTS
  f1 = f1
  f2 = f2
  Forwarder = {f1, f2}
  Xacts = 3
  Events = 2
  Batch = 2
  MaxFailures = 1
INVARIANTS MarkPassesNothing HeardInOrder
PROPERTY EveryEventForwarded
CHECK_DEADLOCK FALSE
