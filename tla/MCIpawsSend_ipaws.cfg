SPECIFICATION FairSpec
CONSTANTS
  a1 = a1
  a2 = a2
  a3 = a3
  r1 = r1
  r2 = r2
  c1 = c1
  c2 = c2
  Nobody = Nobody
  Admin = {a1, a2, a3}
  Request = {r1}
  Cog = {c1, c2}
  MaxEdits = 3
  MaxFaults = 1
INVARIANTS RecordTellsTruth HandshakeStaysInTest
PROPERTIES KeepsTwoPersonRule ConfirmedIsRecorded
CHECK_DEADLOCK FALSE
