SPECIFICATION Spec
CONSTANTS
  s1 = s1
  s2 = s2
  a1 = a1
  a2 = a2
  w1 = w1
  w2 = w2
  Session = {s1, s2}
  Guest = {s2}
  Apply = {a1, a2}
  Write = {w1}
  Triggers <- OneTrigger
  Partial = {a2}
  Threshold = 2
  InOrder = FALSE
  MaxVersion = 2
  MaxRestarts = 0
INVARIANT SnapshotWhole
CHECK_DEADLOCK FALSE
