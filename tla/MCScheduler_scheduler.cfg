SPECIFICATION FairSpec
CONSTANTS
  a = a
  b = b
  report = report
  row = row
  briefing = briefing
  Free = Free
  Orphan = Orphan
  Node = {a, b}
  Job = {report, row, briefing}
  Kind <- ReportRowAndBriefing
  Occasions = 1
  MaxFaults = 2
INVARIANTS NeverOverlapsItself OncePerOccasion
PROPERTIES OverlapEnds DueIsClaimed
CHECK_DEADLOCK FALSE
