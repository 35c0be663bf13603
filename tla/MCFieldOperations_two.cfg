CONSTANTS
  o1 = o1
  o2 = o2
  Op = {o1, o2}
  Conn = {c1, c2}
  Kind <- CompletionAndMessage
  NoOp = NoOp
  NoConn = NoConn
  MaxDeciders = 1
SPECIFICATION Spec
SYMMETRY ConnSymmetry
PROPERTIES NoWorkOnClosedIncident KeepsItsPromise
CHECK_DEADLOCK FALSE
