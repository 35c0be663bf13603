SPECIFICATION FairSpec
CONSTANTS
  s1 = s1
  s2 = s2
  a1 = a1
  a2 = a2
  w1 = w1
  w2 = w2
  Session = {s1, s2}
  Guest = {}
  Apply = {a1, a2}
  Write = {w1, w2}
  Triggers <- OneTrigger
  Partial = {}
  Threshold = 2
  InOrder = TRUE
  MaxVersion = 1
  MaxRestarts = 1
INVARIANTS SubscribersHearAll DocumentHoldsApplies
PROPERTY IdleIsDropped
CHECK_DEADLOCK FALSE
