CONSTANTS
  o1 = o1
  o2 = o2
  Op = {o1}
  Conn = {c1, c2, c3}
  Kind <- OneTask
  NoOp = NoOp
  NoConn = NoConn
  MaxDeciders = 2
SPECIFICATION FairSpec
INVARIANTS AppliedOnce AcceptedWasApplied AnswersAreTrue
PROPERTIES EveryTransactionEnds DecidedOnce KeepsItsPromise
CHECK_DEADLOCK FALSE
