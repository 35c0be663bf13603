----------------------- MODULE FieldOperationsProofs -----------------------
(***************************************************************************)
(* Theorems about FieldOperations, for every set of operations and every   *)
(* pool of connections.                                                    *)
(***************************************************************************)
EXTENDS FieldOperations, TLAPS

(* What the helpers of every action do to the transactions, field by field. *)

LEMMA GoToFields ==
  ASSUME TypeOK, NEW c \in Conn, NEW step \in Steps, GoTo(c, step)
  PROVE  /\ tx' \in [Conn -> Transaction]
         /\ tx'[c].at = step /\ tx'[c].op = tx[c].op
         /\ tx'[c].by = tx[c].by /\ tx'[c].wrote = tx[c].wrote
         /\ \A d \in Conn \ {c} : tx'[d] = tx[d]
  BY DEF GoTo, TypeOK, Transaction

LEMMA WriteFields ==
  ASSUME TypeOK, NEW c \in Conn, tx' = [tx EXCEPT ![c].at = "receipt", ![c].wrote = TRUE]
  PROVE  /\ tx' \in [Conn -> Transaction]
         /\ tx'[c].at = "receipt" /\ tx'[c].op = tx[c].op
         /\ tx'[c].by = tx[c].by /\ tx'[c].wrote
         /\ \A d \in Conn \ {c} : tx'[d] = tx[d]
  BY DEF TypeOK, Transaction, Steps, RunSteps

LEMMA IdleFields ==
  /\ Idle \in Transaction
  /\ Idle.at = "idle" /\ Idle.op = NoOp /\ Idle.by = NoConn /\ ~Idle.wrote
  BY DEF Idle, Transaction, Steps

LEMMA EndFields ==
  ASSUME TypeOK, NEW c \in Conn, tx' = [tx EXCEPT ![c] = Idle]
  PROVE  /\ tx' \in [Conn -> Transaction]
         /\ tx'[c].at = "idle" /\ tx'[c].by = NoConn /\ ~tx'[c].wrote
         /\ \A d \in Conn \ {c} : tx'[d] = tx[d]
  BY IdleFields DEF TypeOK

LEMMA BeginFields ==
  ASSUME TypeOK, NEW c \in Conn, NEW step \in Steps, NEW o \in Op \cup {NoOp},
         tx' = [tx EXCEPT ![c] = Begin(step, o, NoConn)]
  PROVE  /\ tx' \in [Conn -> Transaction]
         /\ tx'[c].at = step /\ tx'[c].op = o /\ tx'[c].by = NoConn /\ ~tx'[c].wrote
         /\ \A d \in Conn \ {c} : tx'[d] = tx[d]
  BY DEF TypeOK, Transaction, Begin

LEMMA NestFields ==
  ASSUME TypeOK, NEW c \in Conn, NEW inner \in Conn \ {c}, tx[c].op \in Op,
         tx' = [tx EXCEPT ![c].at = "inner", ![inner] = Begin("prior", tx[c].op, c)]
  PROVE  /\ tx' \in [Conn -> Transaction]
         /\ tx'[c].at = "inner" /\ tx'[c].op = tx[c].op
         /\ tx'[c].by = tx[c].by /\ tx'[c].wrote = tx[c].wrote
         /\ tx'[inner].at = "prior" /\ tx'[inner].op = tx[c].op
         /\ tx'[inner].by = c /\ ~tx'[inner].wrote
         /\ \A d \in Conn \ {c, inner} : tx'[d] = tx[d]
  BY DEF TypeOK, Transaction, Begin, Steps, RunSteps, DecideSteps

LEMMA FinishFields ==
  ASSUME TypeOK, NEW c \in Conn, NEW committed \in BOOLEAN, Finish(c, committed)
  PROVE  /\ tx' \in [Conn -> Transaction]
         /\ tx'[c].at = "idle" /\ tx'[c].by = NoConn /\ ~tx'[c].wrote
         /\ \A d \in Conn \ {c} :
              IF d # tx[c].by THEN tx'[d] = tx[d]
              ELSE IF committed
                THEN /\ tx'[d].at = "decide" /\ tx'[d].op = tx[d].op
                     /\ tx'[d].by = tx[d].by /\ tx'[d].wrote = tx[d].wrote
                ELSE tx'[d].at = "idle" /\ tx'[d].by = NoConn /\ ~tx'[d].wrote
<1> DEFINE step(d) == [tx[d] EXCEPT !.at = "decide"]
<1>1. \A d \in Conn : /\ step(d) \in Transaction
                      /\ step(d).at = "decide" /\ step(d).op = tx[d].op
                      /\ step(d).by = tx[d].by /\ step(d).wrote = tx[d].wrote
  BY DEF TypeOK, Transaction, Steps, DecideSteps
<1> HIDE DEF step
<1>2. tx' = [d \in Conn |-> IF d = c \/ (d = tx[c].by /\ ~committed) THEN Idle
                           ELSE IF d = tx[c].by THEN step(d) ELSE tx[d]]
  BY DEF Finish, step
<1>3. \A d \in Conn : tx[d] \in Transaction
  BY DEF TypeOK
<1>4. QED
  BY <1>1, <1>2, <1>3, IdleFields

-----------------------------------------------------------------------------
(* What each shape of step does to the invariant. A step that moves one transaction on    *)
(* keeps the parts of the invariant about the others; what it must show is what it newly  *)
(* holds and what the rows it wrote mean for what others read.                            *)

Moved(c, at, wrote) ==
  /\ tx' \in [Conn -> Transaction]
  /\ tx'[c].at = at /\ tx'[c].op = tx[c].op
  /\ tx'[c].by = tx[c].by /\ tx'[c].wrote = wrote
  /\ \A d \in Conn \ {c} : tx'[d] = tx[d]

Ended(c) ==
  /\ tx' \in [Conn -> Transaction]
  /\ tx'[c].at = "idle" /\ tx'[c].by = NoConn /\ ~tx'[c].wrote
  /\ \A d \in Conn \ {c} : tx'[d] = tx[d]

\* ReadsStayTrue for one transaction t, of the rows named.
Reads(t, cl, fo, la) ==
  /\ t.at \in {"check", "nest", "inner", "decide"} => la[t.op] = "pending"
  /\ t.at = "keeping" => la[t.op] = "none"
  /\ t.at = "decide" => t.op \in fo
  /\ t.at = "receipt" /\ ~t.wrote => t.op \in fo
  /\ t.at = "commit" => t.wrote /\ t.op \notin fo
  /\ t.wrote /\ Kind[t.op] # "thread_message" => ~cl

LEMMA ReadsDef ==
  /\ ReadsStayTrue <=> \A c \in Conn : Reads(tx[c], closed, fieldOps, late)
  /\ ReadsStayTrue' <=> \A c \in Conn : Reads(tx'[c], closed', fieldOps', late')
  BY DEF ReadsStayTrue, Reads

LEMMA MovedKeeps ==
  ASSUME IInv, NEW c \in Conn, NEW at \in Steps, NEW wrote \in BOOLEAN, Moved(c, at, wrote),
         tx[c].at \notin {"idle", "inner"},
         at \in (RunSteps \cup DecideSteps) \ {"inner"},
         tx[c].at \in RunSteps <=> at \in RunSteps,
         tx[c].by # NoConn => at \notin {"kept", "keeping"},
         wrote => at \in {"receipt", "commit"},
         tx[c].op \in Op
  PROVE  WellFormed'
<1>1. \A d \in Conn : tx'[d].by = tx[d].by /\ tx'[d].op = tx[d].op
  BY DEF Moved
<1>2. \A d \in Conn : tx[d].by # NoConn => tx[d].by # c /\ tx[d].by \in Conn
  BY DEF IInv, WellFormed, TypeOK, Transaction
<1>3. tx[c].by # NoConn => tx[c].at \in RunSteps
  BY DEF IInv, WellFormed
<1>4. QED
  BY <1>1, <1>2, <1>3 DEF Moved, IInv, WellFormed

LEMMA EndedKeeps ==
  ASSUME IInv, NEW c \in Conn, Ended(c), tx[c].at # "inner"
  PROVE  WellFormed' /\ LocksExclude'
<1>1. \A d \in Conn : tx[d].by # NoConn => tx[d].by # c /\ tx[d].by \in Conn
  BY DEF IInv, WellFormed, TypeOK, Transaction
<1>2. WellFormed'
  BY <1>1 DEF Ended, IInv, WellFormed, RunSteps, DecideSteps
<1>3. LocksExclude'
  BY DEF Ended, IInv, LocksExclude, HoldsIncident, HoldsLateRow, InsertingReceipt, InsertingLate
<1>4. QED
  BY <1>2, <1>3

LEMMA FinishKeeps ==
  ASSUME IInv, NEW c \in Conn, NEW committed \in BOOLEAN, tx[c].at \in RunSteps,
         Finish(c, committed)
  PROVE  WellFormed' /\ LocksExclude'
<1> DEFINE end(d) == tx'[d].at = "idle" /\ tx'[d].by = NoConn /\ ~tx'[d].wrote
           resume(d) == /\ tx'[d].at = "decide" /\ tx'[d].op = tx[d].op
                        /\ tx'[d].by = tx[d].by /\ tx'[d].wrote = tx[d].wrote
<1>0. /\ end(c)
      /\ \A d \in Conn \ {c} :
           IF d # tx[c].by THEN tx'[d] = tx[d]
           ELSE resume(d) \/ end(d)
  <2>1. TypeOK
    BY DEF IInv
  <2>2. QED
    BY <2>1, FinishFields
<1>1. tx[c].by # NoConn => /\ tx[c].by \in Conn \ {c}
                           /\ tx[tx[c].by].at = "inner"
                           /\ tx[tx[c].by].op = tx[c].op
                           /\ ~tx[tx[c].by].wrote
                           /\ tx[tx[c].by].by = NoConn
                           /\ \A d \in Conn \ {c} : tx[d].by # tx[c].by
  BY ConnAssumption DEF IInv, WellFormed, TypeOK, Transaction, RunSteps
<1>2. \A d \in Conn : tx[d].by # NoConn => /\ tx[d].by \in Conn
                                          /\ tx[tx[d].by].at = "inner"
  BY DEF IInv, WellFormed, TypeOK, Transaction
<1>3. \A d \in Conn : tx[d].by # c
  BY <1>2, ConnAssumption DEF RunSteps
<1>4. ASSUME NEW d \in Conn, tx'[d].at \in RunSteps \cup DecideSteps
      PROVE  d # c /\ tx[d].at \in RunSteps \cup DecideSteps /\ tx'[d].op = tx[d].op
  BY <1>0, <1>1, <1>4, ConnAssumption DEF RunSteps, DecideSteps
<1>5. ASSUME NEW d \in Conn, tx'[d].by # NoConn
      PROVE  /\ d # c /\ tx'[d] = tx[d]
             /\ tx[d].by # tx[c].by
             /\ tx'[tx[d].by] = tx[tx[d].by]
  BY <1>1, <1>2, <1>3, <1>0, <1>5, ConnAssumption
<1>6. ASSUME NEW d \in Conn, tx'[d].wrote
      PROVE  tx'[d] = tx[d]
  BY <1>0, <1>1, <1>6, ConnAssumption
<1>7. WellFormed'
  BY <1>4, <1>5, <1>6 DEF IInv, WellFormed
<1>8. LocksExclude'
  BY <1>0, <1>1, ConnAssumption DEF IInv, LocksExclude, HoldsIncident, HoldsLateRow,
     InsertingReceipt, InsertingLate
<1>9. QED
  BY <1>7, <1>8

LEMMA MovedLocks ==
  ASSUME IInv, NEW c \in Conn, NEW at \in Steps, NEW wrote \in BOOLEAN, Moved(c, at, wrote),
         at \notin {"closing", "reopening"},
         at \in {"receipt", "commit"} /\ Kind[tx[c].op] \notin MessageKinds =>
           tx[c].at \in {"receipt", "commit"} \/ IncidentLockFree(c),
         at \in {"check", "nest", "inner", "decide"} =>
           tx[c].at \in {"check", "nest", "inner", "decide"} \/ LateRowFree(c),
         at = "commit" => \A d \in Conn \ {c} : ~InsertingReceipt(d, tx[c].op),
         at = "keeping" => \A d \in Conn \ {c} : ~InsertingLate(d, tx[c].op)
  PROVE  LocksExclude'
<1> SUFFICES ASSUME NEW d \in Conn, NEW e \in Conn, d # e
             PROVE  (/\ ~(HoldsIncident(d) /\ HoldsIncident(e))
                     /\ \A o \in Op :
                          /\ ~(HoldsLateRow(d, o) /\ HoldsLateRow(e, o))
                          /\ ~(InsertingReceipt(d, o) /\ InsertingReceipt(e, o))
                          /\ ~(InsertingLate(d, o) /\ InsertingLate(e, o)))'
  BY DEF LocksExclude
<1> USE DEF HoldsIncident, HoldsLateRow, InsertingReceipt, InsertingLate
<1>1. CASE c \notin {d, e}
  BY <1>1 DEF Moved, IInv, LocksExclude
<1>2. CASE d = c
  BY <1>2 DEF Moved, IInv, LocksExclude, IncidentLockFree, LateRowFree
<1>3. CASE e = c
  BY <1>3 DEF Moved, IInv, LocksExclude, IncidentLockFree, LateRowFree
<1>4. QED
  BY <1>1, <1>2, <1>3

LEMMA OthersRead ==
  ASSUME NEW c \in Conn, \A d \in Conn \ {c} : tx'[d] = tx[d],
         \A d \in Conn \ {c} : Reads(tx[d], closed', fieldOps', late'),
         Reads(tx'[c], closed', fieldOps', late')
  PROVE  ReadsStayTrue'
  BY ReadsDef

LEMMA IdleReads ==
  ASSUME NEW t, t.at \in {"idle", "closing", "reopening"}, ~t.wrote, NEW cl, NEW fo, NEW la
  PROVE  Reads(t, cl, fo, la)
  BY DEF Reads

LEMMA FinishReads ==
  ASSUME IInv, NEW c \in Conn, NEW committed \in BOOLEAN, tx[c].at \in RunSteps,
         Finish(c, committed),
         committed /\ tx[c].by # NoConn => tx[c].op \in fieldOps',
         \A d \in Conn \ {c} : Reads(tx[d], closed', fieldOps', late')
  PROVE  ReadsStayTrue'
<1>0. /\ tx'[c].at = "idle" /\ ~tx'[c].wrote
      /\ \A d \in Conn \ {c} :
           \/ tx'[d] = tx[d]
           \/ tx'[d].at = "idle" /\ ~tx'[d].wrote
           \/ /\ d = tx[c].by /\ committed
              /\ tx'[d].at = "decide" /\ tx'[d].op = tx[d].op
              /\ tx'[d].wrote = tx[d].wrote
  <2>1. TypeOK
    BY DEF IInv
  <2>2. QED
    BY <2>1, FinishFields
<1>1. \A d \in Conn \ {c} : d = tx[c].by => /\ tx[c].by # NoConn /\ tx[d].at = "inner"
                                           /\ tx[d].op = tx[c].op /\ ~tx[d].wrote
  BY ConnAssumption DEF IInv, WellFormed
<1>2. ASSUME NEW d \in Conn \ {c}
      PROVE  Reads(tx'[d], closed', fieldOps', late')
  BY <1>0, <1>1, <1>2 DEF Reads
<1>3. Reads(tx'[c], closed', fieldOps', late')
  BY <1>0 DEF Reads
<1>4. QED
  BY <1>2, <1>3, ReadsDef

(* The history parts, whatever the transactions do. *)

LEMMA TellKeeps ==
  ASSUME IInv, NEW c \in Conn, NEW answers \in SUBSET Answers, tx[c].op \in Op, Tell(c, answers),
         fieldOps \subseteq fieldOps',
         \A o \in Op : late[o] # "none" => late'[o] # "none",
         "applied" \in answers => tx[c].op \in fieldOps',
         "late" \in answers => late'[tx[c].op] # "none"
  PROVE  AnswersAreTrue' /\ told' \in [Op -> SUBSET Answers]
<1>1. told \in [Op -> SUBSET Answers] /\ AnswersAreTrue
  BY DEF IInv, TypeOK
<1>2. told' \in [Op -> SUBSET Answers]
  BY <1>1 DEF Tell
<1>3. \A o \in Op : told'[o] = told[o] \/ (o = tx[c].op /\ told'[o] = told[o] \cup answers)
  BY <1>1 DEF Tell
<1>4. AnswersAreTrue'
  BY <1>1, <1>3 DEF AnswersAreTrue
<1>5. QED
  BY <1>2, <1>4

LEMMA UntoldKeeps ==
  ASSUME IInv, UNCHANGED told, fieldOps \subseteq fieldOps',
         \A o \in Op : late[o] # "none" => late'[o] # "none"
  PROVE  AnswersAreTrue'
  BY DEF IInv, AnswersAreTrue

LEMMA RowsKeep ==
  ASSUME IInv, UNCHANGED <<rows, mayContribute>>
  PROVE  /\ AppliedOnce' /\ AcceptedWasApplied'
         /\ closed' \in BOOLEAN /\ mayContribute' \in [Op -> BOOLEAN]
         /\ effects' \in [Op -> Nat] /\ fieldOps' \subseteq Op /\ late' \in [Op -> LateStatus]
         /\ \A d \in Conn : Reads(tx[d], closed', fieldOps', late')
<1>1. closed' = closed /\ effects' = effects /\ fieldOps' = fieldOps /\ late' = late
  BY DEF rows
<1>2. ReadsStayTrue
  BY DEF IInv
<1>3. QED
  BY <1>1, <1>2, ReadsDef DEF IInv, TypeOK, AppliedOnce, AcceptedWasApplied

-----------------------------------------------------------------------------
(* Steps that change no row. *)

LEMMA QuietMove ==
  ASSUME IInv, NEW c \in Conn, NEW at \in Steps, NEW wrote \in BOOLEAN, Moved(c, at, wrote),
         UNCHANGED <<rows, mayContribute, told>>,
         WellFormed', LocksExclude',
         Reads(tx'[c], closed, fieldOps, late)
  PROVE  IInv'
<1>1. UNCHANGED <<rows, mayContribute>> /\ UNCHANGED told
  OBVIOUS
<1>2. closed' = closed /\ fieldOps' = fieldOps /\ late' = late
  BY DEF rows
<1>3. TypeOK'
  BY <1>1, RowsKeep DEF IInv, TypeOK, Moved
<1>4. ReadsStayTrue'
  BY <1>1, <1>2, RowsKeep, OthersRead DEF Moved
<1>5. AnswersAreTrue'
  BY <1>2, UntoldKeeps
<1>6. QED
  BY <1>1, <1>3, <1>4, <1>5, RowsKeep DEF IInv

LEMMA QuietFinish ==
  ASSUME IInv, NEW c \in Conn, NEW committed \in BOOLEAN, NEW answers \in SUBSET Answers,
         tx[c].at \in RunSteps, Finish(c, committed), Tell(c, answers),
         UNCHANGED <<rows, mayContribute>>,
         committed /\ tx[c].by # NoConn => tx[c].op \in fieldOps,
         "applied" \in answers => tx[c].op \in fieldOps,
         "late" \in answers => late[tx[c].op] # "none"
  PROVE  IInv'
<1>1. closed' = closed /\ fieldOps' = fieldOps /\ late' = late
  BY DEF rows
<1>2. tx[c].op \in Op
  BY DEF IInv, WellFormed
<1>3. AnswersAreTrue' /\ told' \in [Op -> SUBSET Answers]
  BY <1>1, <1>2, TellKeeps
<1>4. tx' \in [Conn -> Transaction]
  BY FinishFields DEF IInv
<1>5. TypeOK'
  BY <1>3, <1>4, RowsKeep DEF TypeOK
<1>6. ReadsStayTrue'
  BY <1>1, RowsKeep, FinishReads
<1>7. WellFormed' /\ LocksExclude'
  BY FinishKeeps
<1>8. QED
  BY <1>3, <1>5, <1>6, <1>7, RowsKeep DEF IInv

LEMMA FailKeeps ==
  ASSUME IInv, NEW c \in Conn, NEW answers \in SUBSET {"closed", "denied"},
         tx[c].at \in RunSteps, Fail(c, answers)
  PROVE  IInv'
  BY QuietFinish DEF Fail, Answers

LEMMA QuietEnd ==
  ASSUME IInv, NEW c \in Conn, tx' = [tx EXCEPT ![c] = Idle], tx[c].at # "inner",
         UNCHANGED <<rows, mayContribute, told>>
  PROVE  IInv'
<1>1. Ended(c)
  BY EndFields DEF Ended, IInv
<1>2. UNCHANGED <<rows, mayContribute>> /\ told' = told
  OBVIOUS
<1>3. closed' = closed /\ fieldOps' = fieldOps /\ late' = late
  BY DEF rows
<1>4. Reads(tx'[c], closed', fieldOps', late')
  BY <1>1 DEF Ended, Reads
<1>5. ReadsStayTrue'
  BY <1>1, <1>2, <1>4, RowsKeep, OthersRead DEF Ended
<1>6. TypeOK'
  BY <1>1, <1>2, RowsKeep DEF Ended, TypeOK, IInv
<1>7. AnswersAreTrue'
  BY <1>2, <1>3, UntoldKeeps
<1>8. QED
  BY <1>1, <1>2, <1>5, <1>6, <1>7, RowsKeep, EndedKeeps DEF IInv

LEMMA QuietBegin ==
  ASSUME IInv, NEW c \in Conn, NEW o \in Op \cup {NoOp}, NEW step \in Steps,
         Free(c), tx' = [tx EXCEPT ![c] = Begin(step, o, NoConn)],
         \/ step \in {"prior", "accept", "refuse"} /\ o \in Op
         \/ step \in {"closing", "reopening"} /\ IncidentLockFree(c),
         UNCHANGED <<rows, mayContribute, told>>
  PROVE  IInv'
<1>1. /\ tx' \in [Conn -> Transaction]
      /\ tx'[c].at = step /\ tx'[c].op = o /\ tx'[c].by = NoConn /\ ~tx'[c].wrote
      /\ \A d \in Conn \ {c} : tx'[d] = tx[d]
  <2>1. TypeOK
    BY DEF IInv
  <2>2. QED
    BY <2>1, BeginFields
<1>2. UNCHANGED <<rows, mayContribute>> /\ told' = told
  OBVIOUS
<1>3. closed' = closed /\ fieldOps' = fieldOps /\ late' = late
  BY DEF rows
<1>4. Reads(tx'[c], closed', fieldOps', late')
  BY <1>1 DEF Reads
<1>5. ReadsStayTrue'
  BY <1>1, <1>2, <1>4, RowsKeep, OthersRead
<1>6. TypeOK'
  BY <1>1, <1>2, RowsKeep DEF TypeOK, IInv
<1>7. AnswersAreTrue'
  BY <1>2, <1>3, UntoldKeeps
<1>8. \A d \in Conn : tx[d].by # NoConn => tx[d].by # c /\ tx[d].by \in Conn
  BY DEF IInv, WellFormed, TypeOK, Transaction, Free
<1>9. WellFormed'
  BY <1>1, <1>8 DEF IInv, WellFormed, RunSteps, DecideSteps
<1>10. LocksExclude'
  BY <1>1 DEF IInv, LocksExclude, HoldsIncident, HoldsLateRow, InsertingReceipt,
     InsertingLate, IncidentLockFree
<1>11. QED
  BY <1>2, <1>5, <1>6, <1>7, <1>9, <1>10, RowsKeep DEF IInv

-----------------------------------------------------------------------------
(* Each statement keeps the invariant. *)

LEMMA GoToMoves ==
  ASSUME IInv, NEW c \in Conn, NEW step \in Steps, GoTo(c, step)
  PROVE  Moved(c, step, tx[c].wrote) /\ tx[c].wrote \in BOOLEAN
  BY GoToFields DEF Moved, IInv, TypeOK, Transaction

LEMMA ReadPriorKeeps ==
  ASSUME IInv, NEW c \in Conn, ReadPrior(c)
  PROVE  IInv'
<1>1. tx[c].at = "prior" /\ tx[c].op \in Op /\ ~tx[c].wrote
  BY DEF ReadPrior, At, IInv, WellFormed, RunSteps
<1>2. CASE tx[c].op \in fieldOps
  BY <1>1, <1>2, QuietFinish DEF ReadPrior, RunSteps, Answers
<1>3. CASE tx[c].op \notin fieldOps
  <2> DEFINE step == IF tx[c].by = NoConn THEN "kept" ELSE "incident"
  <2>1. step \in Steps /\ GoTo(c, step) /\ UNCHANGED <<rows, mayContribute, told>>
    BY <1>3 DEF ReadPrior, Steps, RunSteps
  <2>2. Moved(c, step, tx[c].wrote) /\ tx[c].wrote \in BOOLEAN
    BY <2>1, GoToMoves
  <2>3. WellFormed' /\ LocksExclude'
    BY <1>1, <2>1, <2>2, MovedKeeps, MovedLocks DEF RunSteps, DecideSteps
  <2>4. Reads(tx'[c], closed, fieldOps, late)
    BY <1>1, <2>2 DEF Moved, Reads
  <2>5. QED
    BY <2>1, <2>2, <2>3, <2>4, QuietMove
<1>4. QED
  BY <1>2, <1>3

LEMMA ReadKeptKeeps ==
  ASSUME IInv, NEW c \in Conn, ReadKept(c)
  PROVE  IInv'
<1>1. /\ tx[c].at = "kept" /\ tx[c].op \in Op /\ ~tx[c].wrote
      /\ tx[c].by = NoConn
  BY DEF ReadKept, At, IInv, WellFormed, RunSteps
<1>2. CASE late[tx[c].op] # "none"
  BY <1>1, <1>2, QuietFinish DEF ReadKept, RunSteps, Answers
<1>3. CASE late[tx[c].op] = "none"
  <2>1. GoTo(c, "incident") /\ UNCHANGED <<rows, mayContribute, told>>
    BY <1>3 DEF ReadKept
  <2>2. Moved(c, "incident", tx[c].wrote) /\ tx[c].wrote \in BOOLEAN
    BY <2>1, GoToMoves DEF Steps, RunSteps
  <2>3. WellFormed' /\ LocksExclude'
    BY <1>1, <2>2, MovedKeeps, MovedLocks DEF Steps, RunSteps, DecideSteps
  <2>4. Reads(tx'[c], closed, fieldOps, late)
    BY <1>1, <2>2 DEF Moved, Reads
  <2>5. QED
    BY <2>1, <2>2, <2>3, <2>4, QuietMove DEF Steps, RunSteps
<1>4. QED
  BY <1>2, <1>3

LEMMA ReadIncidentKeeps ==
  ASSUME IInv, NEW c \in Conn, ReadIncident(c)
  PROVE  IInv'
<1>1. tx[c].at = "incident" /\ tx[c].op \in Op /\ ~tx[c].wrote
  BY DEF ReadIncident, At, IInv, WellFormed, RunSteps
<1> DEFINE step == IF closed THEN "keep" ELSE "apply"
<1>2. step \in Steps /\ GoTo(c, step) /\ UNCHANGED <<rows, mayContribute, told>>
  BY DEF ReadIncident, Steps, RunSteps
<1>3. Moved(c, step, tx[c].wrote) /\ tx[c].wrote \in BOOLEAN
  BY <1>2, GoToMoves
<1>4. WellFormed' /\ LocksExclude'
  BY <1>1, <1>2, <1>3, MovedKeeps, MovedLocks DEF RunSteps, DecideSteps
<1>5. Reads(tx'[c], closed, fieldOps, late)
  BY <1>1, <1>3 DEF Moved, Reads
<1>6. QED
  BY <1>2, <1>3, <1>4, <1>5, QuietMove

\* An acceptance's run never keeps a second row: its submission is there, and locked.
LEMMA KeepLateKeeps ==
  ASSUME IInv, NEW c \in Conn, KeepLate(c)
  PROVE  IInv'
<1>1. tx[c].at = "keep" /\ tx[c].op \in Op /\ ~tx[c].wrote
  BY DEF KeepLate, At, IInv, WellFormed, RunSteps
<1>2. CASE \E answers \in SUBSET {"closed", "denied"} : Fail(c, answers)
  BY <1>1, <1>2, FailKeeps DEF RunSteps
<1>3. CASE /\ late[tx[c].op] = "none"
           /\ GoTo(c, "keeping")
           /\ UNCHANGED <<rows, mayContribute, told>>
  <2>1. tx[c].by = NoConn
    BY <1>3, <1>1 DEF IInv, WellFormed, ReadsStayTrue, TypeOK, Transaction
  <2>2. Moved(c, "keeping", tx[c].wrote) /\ tx[c].wrote \in BOOLEAN
    BY <1>3, GoToMoves DEF Steps, RunSteps
  <2>3. \A d \in Conn \ {c} : ~InsertingLate(d, tx[c].op)
    BY DEF KeepLate
  <2>4. WellFormed' /\ LocksExclude'
    BY <1>1, <2>1, <2>2, <2>3, MovedKeeps, MovedLocks DEF Steps, RunSteps, DecideSteps
  <2>5. Reads(tx'[c], closed, fieldOps, late)
    BY <1>1, <1>3, <2>2 DEF Moved, Reads
  <2>6. QED
    BY <1>3, <2>2, <2>4, <2>5, QuietMove DEF Steps, RunSteps
<1>4. QED
  BY <1>2, <1>3 DEF KeepLate

LEMMA ApplyEffectKeeps ==
  ASSUME IInv, NEW c \in Conn, NEW recorded \in BOOLEAN, tx[c].at = "apply",
         recorded => effects[tx[c].op] > 0,
         Kind[tx[c].op] \notin MessageKinds => IncidentLockFree(c),
         ApplyEffect(c, recorded)
  PROVE  IInv'
<1>1. tx[c].op \in Op /\ ~tx[c].wrote
  BY DEF IInv, WellFormed, RunSteps
<1>2. CASE ~recorded /\ Fail(c, Refusal(tx[c].op))
  <2>1. Refusal(tx[c].op) \in SUBSET {"closed", "denied"}
    BY DEF Refusal
  <2>2. QED
    BY <1>2, <2>1, FailKeeps DEF RunSteps
<1>3. CASE /\ recorded /\ GoTo(c, "receipt")
           /\ UNCHANGED <<rows, mayContribute, told>>
  <2>1. tx[c].op \in fieldOps
    BY <1>1, <1>3 DEF IInv, AppliedOnce
  <2>2. Moved(c, "receipt", tx[c].wrote) /\ tx[c].wrote \in BOOLEAN
    BY <1>3, GoToMoves DEF Steps, RunSteps
  <2>3. WellFormed' /\ LocksExclude'
    BY <1>1, <2>2, MovedKeeps, MovedLocks DEF Steps, RunSteps, DecideSteps
  <2>4. Reads(tx'[c], closed, fieldOps, late)
    BY <1>1, <2>1, <2>2 DEF Moved, Reads
  <2>5. QED
    BY <1>3, <2>2, <2>3, <2>4, QuietMove DEF Steps, RunSteps
<1>4. CASE /\ Refusal(tx[c].op) = {}
           /\ tx' = [tx EXCEPT ![c].at = "receipt", ![c].wrote = TRUE]
           /\ UNCHANGED <<rows, mayContribute, told>>
  <2>1. Moved(c, "receipt", TRUE)
    BY <1>4, WriteFields DEF Moved, IInv
  <2>2. WellFormed' /\ LocksExclude'
    BY <1>1, <2>1, MovedKeeps, MovedLocks DEF Steps, RunSteps, DecideSteps
  <2>3. Kind[tx[c].op] # "thread_message" => ~closed
    BY <1>4 DEF Refusal
  <2>4. Reads(tx'[c], closed, fieldOps, late)
    BY <2>1, <2>3 DEF Moved, Reads
  <2>5. QED
    BY <1>4, <2>1, <2>2, <2>4, QuietMove DEF Steps, RunSteps
<1>5. QED
  BY <1>2, <1>3, <1>4 DEF ApplyEffect

LEMMA PostMessageKeeps ==
  ASSUME IInv, NEW c \in Conn, PostMessage(c)
  PROVE  IInv'
<1>1. /\ tx[c].at = "apply" /\ ApplyEffect(c, effects[tx[c].op] > 0)
      /\ Kind[tx[c].op] \in MessageKinds
  BY DEF PostMessage, At
<1>2. (effects[tx[c].op] > 0) \in BOOLEAN
  OBVIOUS
<1>3. QED
  BY <1>1, <1>2, ApplyEffectKeeps

LEMMA RunTaskKeeps ==
  ASSUME IInv, NEW c \in Conn, RunTask(c)
  PROVE  IInv'
  BY ApplyEffectKeeps DEF RunTask, At

LEMMA WriteReceiptKeeps ==
  ASSUME IInv, NEW c \in Conn, WriteReceipt(c)
  PROVE  IInv'
<1>1. tx[c].at = "receipt" /\ tx[c].op \in Op /\ tx[c].wrote \in BOOLEAN
  BY DEF WriteReceipt, At, IInv, WellFormed, RunSteps, TypeOK, Transaction
<1>2. CASE Fail(c, {})
  BY <1>1, <1>2, FailKeeps DEF RunSteps
<1>3. CASE /\ tx[c].op \notin fieldOps /\ GoTo(c, "commit")
           /\ UNCHANGED <<rows, mayContribute, told>>
  <2>1. Moved(c, "commit", tx[c].wrote)
    BY <1>3, GoToMoves DEF Steps, RunSteps
  <2>2. \A d \in Conn \ {c} : ~InsertingReceipt(d, tx[c].op)
    BY DEF WriteReceipt
  <2>3. WellFormed' /\ LocksExclude'
    BY <1>1, <2>1, <2>2, MovedKeeps, MovedLocks DEF Steps, RunSteps, DecideSteps
  <2>4. Reads(tx[c], closed, fieldOps, late)
    BY ReadsDef DEF IInv
  <2>5. Reads(tx'[c], closed, fieldOps, late)
    BY <1>1, <1>3, <2>1, <2>4 DEF Moved, Reads
  <2>6. QED
    BY <1>1, <1>3, <2>1, <2>3, <2>5, QuietMove DEF Steps, RunSteps
<1>4. QED
  BY <1>2, <1>3 DEF WriteReceipt

\* Only this run was about to write the row: the insert lock is exclusive.
LEMMA CommitKeptKeeps ==
  ASSUME IInv, NEW c \in Conn, CommitKept(c)
  PROVE  IInv'
<1>1. /\ tx[c].at = "keeping" /\ tx[c].op \in Op /\ tx[c].by = NoConn
      /\ late[tx[c].op] = "none"
  BY DEF CommitKept, At, IInv, WellFormed, RunSteps, ReadsStayTrue
<1>2. /\ late' = [late EXCEPT ![tx[c].op] = "pending"]
      /\ UNCHANGED <<closed, effects, fieldOps, mayContribute>>
      /\ Finish(c, TRUE) /\ Tell(c, {"late"})
  BY DEF CommitKept
<1>3. late' \in [Op -> LateStatus] /\ late'[tx[c].op] = "pending"
  BY <1>1, <1>2 DEF IInv, TypeOK, LateStatus
<1>4. \A o \in Op \ {tx[c].op} : late'[o] = late[o]
  BY <1>2 DEF IInv, TypeOK
<1>5. AnswersAreTrue' /\ told' \in [Op -> SUBSET Answers]
  BY <1>1, <1>2, <1>3, <1>4, TellKeeps DEF Answers
<1>6. tx' \in [Conn -> Transaction]
  BY <1>2, FinishFields DEF IInv
<1>7. TypeOK'
  BY <1>2, <1>3, <1>5, <1>6 DEF IInv, TypeOK
<1>8. WellFormed' /\ LocksExclude'
  BY <1>1, <1>2, FinishKeeps DEF RunSteps
<1>9. ASSUME NEW d \in Conn \ {c}
      PROVE  Reads(tx[d], closed', fieldOps', late')
  <2>1. Reads(tx[d], closed, fieldOps, late)
    BY ReadsDef DEF IInv
  <2>2. ~InsertingLate(d, tx[c].op)
    BY <1>1 DEF IInv, LocksExclude, InsertingLate
  <2>3. tx[d].at \in RunSteps \cup DecideSteps => tx[d].op \in Op
    BY DEF IInv, WellFormed
  <2>4. CASE tx[d].op = tx[c].op
    BY <1>1, <1>2, <1>3, <2>1, <2>2, <2>4 DEF Reads, InsertingLate
  <2>5. CASE tx[d].op # tx[c].op
    BY <1>2, <1>4, <2>1, <2>3, <2>5 DEF Reads, RunSteps, DecideSteps
  <2>6. QED
    BY <2>4, <2>5
<1>10. ReadsStayTrue'
  BY <1>1, <1>2, <1>9, FinishReads DEF RunSteps
<1>11. AppliedOnce' /\ AcceptedWasApplied'
  BY <1>1, <1>2, <1>3, <1>4 DEF IInv, AppliedOnce, AcceptedWasApplied
<1>12. QED
  BY <1>5, <1>7, <1>8, <1>10, <1>11 DEF IInv

\* A run commits an effect only with the one receipt of its operation.
LEMMA CommitRunKeeps ==
  ASSUME IInv, NEW c \in Conn, CommitRun(c)
  PROVE  IInv'
<1>1. /\ tx[c].at = "commit" /\ tx[c].op \in Op /\ tx[c].wrote
      /\ tx[c].op \notin fieldOps /\ effects[tx[c].op] = 0
  BY DEF CommitRun, At, IInv, WellFormed, RunSteps, ReadsStayTrue, AppliedOnce
<1>2. /\ fieldOps' = fieldOps \cup {tx[c].op}
      /\ effects' = [effects EXCEPT ![tx[c].op] = @ + 1]
      /\ UNCHANGED <<closed, late, mayContribute>>
      /\ Finish(c, TRUE) /\ Tell(c, {"applied"})
  BY <1>1 DEF CommitRun
<1>3. effects' \in [Op -> Nat] /\ AppliedOnce'
  BY <1>1, <1>2 DEF IInv, TypeOK, AppliedOnce
<1>4. AnswersAreTrue' /\ told' \in [Op -> SUBSET Answers]
  BY <1>1, <1>2, TellKeeps DEF Answers
<1>5. tx' \in [Conn -> Transaction]
  BY <1>2, FinishFields DEF IInv
<1>6. TypeOK'
  BY <1>1, <1>2, <1>3, <1>4, <1>5 DEF IInv, TypeOK
<1>7. WellFormed' /\ LocksExclude'
  BY <1>1, <1>2, FinishKeeps DEF RunSteps
<1>8. ASSUME NEW d \in Conn \ {c}
      PROVE  Reads(tx[d], closed', fieldOps', late')
  <2>1. Reads(tx[d], closed, fieldOps, late)
    BY ReadsDef DEF IInv
  <2>2. ~InsertingReceipt(d, tx[c].op)
    BY <1>1 DEF IInv, LocksExclude, InsertingReceipt
  <2>3. QED
    BY <1>2, <2>1, <2>2 DEF Reads, InsertingReceipt
<1>9. ReadsStayTrue'
  BY <1>1, <1>2, <1>8, FinishReads DEF RunSteps
<1>10. AcceptedWasApplied'
  BY <1>2 DEF IInv, AcceptedWasApplied
<1>11. QED
  BY <1>3, <1>4, <1>6, <1>7, <1>9, <1>10 DEF IInv

LEMMA RequestKeeps ==
  ASSUME IInv, NEW o \in Op, NEW c \in Conn,
         \/ Request(o, c)
         \/ RequestDecision(o, c, "accept")
         \/ RequestDecision(o, c, "refuse")
  PROVE  IInv'
  BY QuietBegin DEF Request, RequestDecision, Steps, RunSteps, DecideSteps

LEMMA AcceptLockKeeps ==
  ASSUME IInv, NEW c \in Conn, AcceptLock(c)
  PROVE  IInv'
<1>1. tx[c].at = "accept" /\ tx[c].op \in Op /\ ~tx[c].wrote /\ tx[c].by = NoConn
  BY DEF AcceptLock, At, IInv, WellFormed, RunSteps, DecideSteps
<1>2. CASE late[tx[c].op] # "pending"
  BY <1>1, <1>2, QuietEnd DEF AcceptLock
<1>3. CASE late[tx[c].op] = "pending"
  <2>1. GoTo(c, "check") /\ UNCHANGED <<rows, mayContribute, told>> /\ LateRowFree(c)
    BY <1>3 DEF AcceptLock
  <2>2. Moved(c, "check", tx[c].wrote) /\ tx[c].wrote \in BOOLEAN
    BY <2>1, GoToMoves DEF Steps, DecideSteps
  <2>3. WellFormed' /\ LocksExclude'
    BY <1>1, <2>1, <2>2, MovedKeeps, MovedLocks DEF Steps, RunSteps, DecideSteps
  <2>4. Reads(tx'[c], closed, fieldOps, late)
    BY <1>1, <1>3, <2>2 DEF Moved, Reads
  <2>5. QED
    BY <2>1, <2>2, <2>3, <2>4, QuietMove DEF Steps, DecideSteps
<1>4. QED
  BY <1>2, <1>3

LEMMA AcceptCheckIncidentKeeps ==
  ASSUME IInv, NEW c \in Conn, AcceptCheckIncident(c)
  PROVE  IInv'
<1>1. /\ tx[c].at = "check" /\ tx[c].op \in Op /\ ~tx[c].wrote /\ tx[c].by = NoConn
      /\ late[tx[c].op] = "pending"
  BY DEF AcceptCheckIncident, At, IInv, WellFormed, RunSteps, DecideSteps, ReadsStayTrue
<1>2. CASE closed
  BY <1>1, <1>2, QuietEnd DEF AcceptCheckIncident
<1>3. CASE ~closed
  <2>1. GoTo(c, "nest") /\ UNCHANGED <<rows, mayContribute, told>>
    BY <1>3 DEF AcceptCheckIncident, GoTo, IInv, TypeOK
  <2>2. Moved(c, "nest", tx[c].wrote) /\ tx[c].wrote \in BOOLEAN
    BY <2>1, GoToMoves DEF Steps, DecideSteps
  <2>3. WellFormed' /\ LocksExclude'
    BY <1>1, <2>2, MovedKeeps, MovedLocks DEF Steps, RunSteps, DecideSteps
  <2>4. Reads(tx'[c], closed, fieldOps, late)
    BY <1>1, <2>2 DEF Moved, Reads
  <2>5. QED
    BY <2>1, <2>2, <2>3, <2>4, QuietMove DEF Steps, DecideSteps
<1>4. QED
  BY <1>2, <1>3

LEMMA AcceptRunsAsSenderKeeps ==
  ASSUME IInv, NEW c \in Conn, NEW inner \in Conn, AcceptRunsAsSender(c, inner)
  PROVE  IInv'
<1>1. /\ tx[c].at = "nest" /\ tx[c].op \in Op /\ ~tx[c].wrote /\ tx[c].by = NoConn
      /\ late[tx[c].op] = "pending" /\ tx[inner].at = "idle" /\ c # inner
      /\ tx[inner].by = NoConn
  BY DEF AcceptRunsAsSender, At, Free, IInv, WellFormed, RunSteps, DecideSteps, ReadsStayTrue
<1>2. /\ tx' \in [Conn -> Transaction]
      /\ tx'[c].at = "inner" /\ tx'[c].op = tx[c].op
      /\ tx'[c].by = tx[c].by /\ tx'[c].wrote = tx[c].wrote
      /\ tx'[inner].at = "prior" /\ tx'[inner].op = tx[c].op
      /\ tx'[inner].by = c /\ ~tx'[inner].wrote
      /\ \A d \in Conn \ {c, inner} : tx'[d] = tx[d]
  <2>1. TypeOK
    BY DEF IInv
  <2>2. tx' = [tx EXCEPT ![c].at = "inner", ![inner] = Begin("prior", tx[c].op, c)]
    BY DEF AcceptRunsAsSender
  <2>3. QED
    BY <1>1, <2>1, <2>2, NestFields
<1>3. UNCHANGED <<rows, mayContribute>> /\ told' = told
  BY DEF AcceptRunsAsSender
<1>4. closed' = closed /\ fieldOps' = fieldOps /\ late' = late
  BY <1>3 DEF rows
<1>5. \A d \in Conn : tx[d].by # NoConn => /\ tx[d].by \in Conn
                                          /\ tx[d].by # c /\ tx[d].by # inner
  BY <1>1 DEF IInv, WellFormed, TypeOK, Transaction
<1>6. WellFormed'
  BY <1>1, <1>2, <1>5, ConnAssumption DEF IInv, WellFormed, RunSteps, DecideSteps
<1>7. LocksExclude'
  BY <1>1, <1>2 DEF IInv, LocksExclude, HoldsIncident, HoldsLateRow, InsertingReceipt,
     InsertingLate
<1>8. ReadsStayTrue'
  <2>1. \A d \in Conn : Reads(tx[d], closed', fieldOps', late')
    BY <1>3, RowsKeep
  <2>2. Reads(tx'[c], closed', fieldOps', late') /\ Reads(tx'[inner], closed', fieldOps', late')
    BY <1>1, <1>2, <1>4 DEF Reads
  <2>3. QED
    BY <1>2, <2>1, <2>2, ReadsDef
<1>9. TypeOK'
  BY <1>2, <1>3, RowsKeep DEF TypeOK, IInv
<1>10. AnswersAreTrue'
  BY <1>3, <1>4, UntoldKeeps
<1>11. QED
  BY <1>3, <1>6, <1>7, <1>8, <1>9, <1>10, RowsKeep DEF IInv

\* A decision: the row goes from pending to its status, under a lock no other decider holds.
LEMMA DecisionKeeps ==
  ASSUME IInv, NEW c \in Conn, NEW o \in Op, NEW status \in {"accepted", "refused"},
         tx' = [tx EXCEPT ![c] = Idle], tx[c].at # "inner",
         late[o] = "pending", late' = [late EXCEPT ![o] = status],
         status = "accepted" => o \in fieldOps,
         \A d \in Conn \ {c} : ~HoldsLateRow(d, o),
         UNCHANGED <<closed, effects, fieldOps, mayContribute, told>>
  PROVE  IInv'
<1>1. Ended(c)
  BY EndFields DEF Ended, IInv
<1>2. late' \in [Op -> LateStatus] /\ late'[o] = status
  BY DEF IInv, TypeOK, LateStatus
<1>3. \A p \in Op \ {o} : late'[p] = late[p]
  BY DEF IInv, TypeOK
<1>4. TypeOK'
  BY <1>1, <1>2 DEF Ended, IInv, TypeOK
<1>5. AnswersAreTrue'
  BY <1>2, <1>3, UntoldKeeps
<1>6. ASSUME NEW d \in Conn \ {c}
      PROVE  Reads(tx[d], closed', fieldOps', late')
  <2>1. Reads(tx[d], closed, fieldOps, late)
    BY ReadsDef DEF IInv
  <2>2. tx[d].at \in RunSteps \cup DecideSteps => tx[d].op \in Op
    BY DEF IInv, WellFormed
  <2>3. CASE tx[d].op = o
    BY <2>1, <2>3 DEF Reads, HoldsLateRow
  <2>4. CASE tx[d].op # o
    BY <1>3, <2>1, <2>2, <2>4 DEF Reads, RunSteps, DecideSteps
  <2>5. QED
    BY <2>3, <2>4
<1>7. Reads(tx'[c], closed', fieldOps', late')
  BY <1>1 DEF Ended, Reads
<1>8. ReadsStayTrue'
  BY <1>1, <1>6, <1>7, OthersRead DEF Ended
<1>9. AppliedOnce' /\ AcceptedWasApplied'
  BY <1>2, <1>3 DEF IInv, AppliedOnce, AcceptedWasApplied
<1>10. QED
  BY <1>1, <1>4, <1>5, <1>8, <1>9, EndedKeeps DEF IInv

LEMMA AcceptDecideKeeps ==
  ASSUME IInv, NEW c \in Conn, AcceptDecide(c)
  PROVE  IInv'
<1>1. tx[c].at = "decide" /\ tx[c].op \in Op /\ tx[c].op \in fieldOps
  BY DEF AcceptDecide, At, IInv, WellFormed, DecideSteps, ReadsStayTrue
<1>2. \A d \in Conn \ {c} : ~HoldsLateRow(d, tx[c].op)
  BY <1>1 DEF IInv, LocksExclude, HoldsLateRow
<1>3. QED
  BY <1>1, <1>2, DecisionKeeps DEF AcceptDecide

LEMMA RefuseKeeps ==
  ASSUME IInv, NEW c \in Conn, Refuse(c)
  PROVE  IInv'
<1>1. tx[c].at = "refuse" /\ tx[c].op \in Op
  BY DEF Refuse, At, IInv, WellFormed, DecideSteps
<1>2. CASE late[tx[c].op] = "pending"
  BY <1>1, <1>2, DecisionKeeps DEF Refuse, LateRowFree
<1>3. CASE late[tx[c].op] # "pending"
  BY <1>1, <1>3, QuietEnd DEF Refuse, rows
<1>4. QED
  BY <1>2, <1>3

LEMMA BeginLifecycleKeeps ==
  ASSUME IInv, NEW c \in Conn, BeginClose(c) \/ BeginReopen(c)
  PROVE  IInv'
  BY QuietBegin DEF BeginClose, BeginReopen, Steps

\* The closure waits for every message that shares the row, and the lock kept tasks out.
LEMMA CommitLifecycleKeeps ==
  ASSUME IInv, NEW c \in Conn, CommitClose(c) \/ CommitReopen(c)
  PROVE  IInv'
<1>1. /\ tx[c].at \in {"closing", "reopening"}
      /\ tx' = [tx EXCEPT ![c] = Idle]
      /\ closed' \in BOOLEAN
      /\ UNCHANGED <<effects, fieldOps, late, mayContribute, told>>
      /\ closed' => \A d \in Conn : ~SharesIncidentRow(d)
  BY DEF CommitClose, CommitReopen, At
<1>2. Ended(c)
  BY <1>1, EndFields DEF Ended, IInv
<1>3. TypeOK'
  BY <1>1, <1>2 DEF Ended, IInv, TypeOK
<1>4. AnswersAreTrue'
  BY <1>1, UntoldKeeps
<1>5. ASSUME NEW d \in Conn \ {c}
      PROVE  Reads(tx[d], closed', fieldOps', late')
  <2>1. Reads(tx[d], closed, fieldOps, late)
    BY ReadsDef DEF IInv
  <2>2. ~HoldsIncident(d)
    BY <1>1 DEF IInv, LocksExclude, HoldsIncident
  <2>3. tx[d].wrote => /\ tx[d].at \in {"receipt", "commit"}
                       /\ tx[d].op \in Op
    BY DEF IInv, WellFormed, RunSteps
  <2>4. tx[d].wrote => Kind[tx[d].op] \in MessageKinds
    BY <2>2, <2>3 DEF HoldsIncident
  <2>5. tx[d].wrote /\ Kind[tx[d].op] # "thread_message" => ~closed'
    BY <1>1, <2>3, <2>4 DEF SharesIncidentRow, MessageKinds
  <2>6. QED
    BY <1>1, <2>1, <2>5 DEF Reads
<1>6. Reads(tx'[c], closed', fieldOps', late')
  BY <1>2 DEF Ended, Reads
<1>7. ReadsStayTrue'
  BY <1>2, <1>5, <1>6, OthersRead DEF Ended
<1>8. AppliedOnce' /\ AcceptedWasApplied'
  BY <1>1 DEF IInv, AppliedOnce, AcceptedWasApplied
<1>9. QED
  BY <1>1, <1>2, <1>3, <1>4, <1>7, <1>8, EndedKeeps DEF IInv

LEMMA ChangeAuthorityKeeps ==
  ASSUME IInv, NEW o \in Op, ChangeAuthority(o)
  PROVE  IInv'
<1>1. mayContribute' \in [Op -> BOOLEAN] /\ UNCHANGED <<rows, tx, told>>
  BY DEF ChangeAuthority, IInv, TypeOK
<1>2. UNCHANGED <<closed, effects, fieldOps, late, tx, told>>
  BY <1>1 DEF rows
<1>3. TypeOK'
  BY <1>1, <1>2 DEF IInv, TypeOK
<1>4. WellFormed' /\ LocksExclude'
  BY <1>2 DEF IInv, WellFormed, LocksExclude, HoldsIncident, HoldsLateRow,
     InsertingReceipt, InsertingLate
<1>5. ReadsStayTrue' /\ AppliedOnce' /\ AcceptedWasApplied' /\ AnswersAreTrue'
  BY <1>2 DEF IInv, ReadsStayTrue, AppliedOnce, AcceptedWasApplied, AnswersAreTrue
<1>6. QED
  BY <1>3, <1>4, <1>5 DEF IInv

LEMMA ServerStopsKeeps ==
  ASSUME IInv, ServerStops
  PROVE  IInv'
<1>1. tx' = [c \in Conn |-> Idle] /\ UNCHANGED <<rows, mayContribute, told>>
  BY DEF ServerStops
<1>2. UNCHANGED <<closed, effects, fieldOps, late, mayContribute, told>>
  BY <1>1 DEF rows
<1>3. TypeOK'
  BY <1>1, <1>2, IdleFields DEF IInv, TypeOK
<1>4. \A c \in Conn : tx'[c].at = "idle" /\ tx'[c].by = NoConn /\ ~tx'[c].wrote
  BY <1>1, IdleFields
<1>5. WellFormed' /\ LocksExclude'
  BY <1>4 DEF WellFormed, LocksExclude, RunSteps, DecideSteps, HoldsIncident, HoldsLateRow,
     InsertingReceipt, InsertingLate
<1>6. ReadsStayTrue'
  BY <1>4 DEF ReadsStayTrue
<1>7. AppliedOnce' /\ AcceptedWasApplied' /\ AnswersAreTrue'
  BY <1>2 DEF IInv, AppliedOnce, AcceptedWasApplied, AnswersAreTrue
<1>8. QED
  BY <1>3, <1>5, <1>6, <1>7 DEF IInv

-----------------------------------------------------------------------------
(* The invariant, and what follows from it. *)

LEMMA InitInv == Init => IInv
<1> SUFFICES ASSUME Init PROVE IInv
  OBVIOUS
<1>1. TypeOK
  BY IdleFields DEF Init, TypeOK, LateStatus
<1>2. \A c \in Conn : tx[c].at = "idle" /\ tx[c].by = NoConn /\ ~tx[c].wrote
  BY IdleFields DEF Init
<1>3. WellFormed /\ LocksExclude /\ ReadsStayTrue
  BY <1>2 DEF WellFormed, LocksExclude, ReadsStayTrue, RunSteps, DecideSteps, HoldsIncident,
     HoldsLateRow, InsertingReceipt, InsertingLate
<1>4. AppliedOnce /\ AcceptedWasApplied /\ AnswersAreTrue
  BY DEF Init, AppliedOnce, AcceptedWasApplied, AnswersAreTrue
<1>5. QED
  BY <1>1, <1>3, <1>4 DEF IInv

LEMMA StepInv == IInv /\ [Next]_vars => IInv'
<1> SUFFICES ASSUME IInv, [Next]_vars PROVE IInv'
  OBVIOUS
<1>1. ASSUME NEW c \in Conn, RunStep(c) PROVE IInv'
  BY <1>1, ReadPriorKeeps, ReadKeptKeeps, ReadIncidentKeeps, KeepLateKeeps, CommitKeptKeeps,
     PostMessageKeeps, RunTaskKeeps, WriteReceiptKeeps, CommitRunKeeps DEF RunStep
<1>2. ASSUME NEW c \in Conn, DecisionStep(c) PROVE IInv'
  BY <1>2, AcceptLockKeeps, AcceptCheckIncidentKeeps, AcceptRunsAsSenderKeeps,
     AcceptDecideKeeps, RefuseKeeps DEF DecisionStep
<1>3. ASSUME NEW c \in Conn, LifecycleStep(c) PROVE IInv'
  BY <1>3, BeginLifecycleKeeps, CommitLifecycleKeeps DEF LifecycleStep
<1>4. CASE UNCHANGED vars
  <2>1. UNCHANGED <<closed, mayContribute, effects, fieldOps, late, tx, told>>
    BY <1>4 DEF vars
  <2>2. TypeOK' /\ WellFormed' /\ LocksExclude'
    BY <2>1 DEF IInv, TypeOK, WellFormed, LocksExclude, HoldsIncident, HoldsLateRow,
       InsertingReceipt, InsertingLate
  <2>3. ReadsStayTrue' /\ AppliedOnce' /\ AcceptedWasApplied' /\ AnswersAreTrue'
    BY <2>1 DEF IInv, ReadsStayTrue, AppliedOnce, AcceptedWasApplied, AnswersAreTrue
  <2>4. QED
    BY <2>2, <2>3 DEF IInv
<1>5. QED
  BY <1>1, <1>2, <1>3, <1>4, RequestKeeps, ChangeAuthorityKeeps, ServerStopsKeeps DEF Next

\* Every reachable state satisfies the inductive invariant.
THEOREM Invariant == Spec => []IInv
  BY InitInv, StepInv, PTL DEF Spec

\* The state keeps its types, whatever the operations and the pool.
THEOREM TypeCorrect == Spec => []TypeOK
  BY Invariant, PTL DEF IInv

\* An operation takes effect exactly with its receipt, and once: late.ts "runs exactly once".
THEOREM EffectsOnce == Spec => []AppliedOnce
  BY Invariant, PTL DEF IInv

\* acceptLateSubmission records an acceptance only when the work is in the incident.
THEOREM AcceptedApplied == Spec => []AcceptedWasApplied
  BY Invariant, PTL DEF IInv

\* A device that was answered "applied" or "late" may drop its copy.
THEOREM TrueAnswers == Spec => []AnswersAreTrue
  BY Invariant, PTL DEF IInv

-----------------------------------------------------------------------------
(* Action properties and the refinement: what each kind of step does to the rows. *)

\* Only four steps write a row; the promise has an action for each.
LEMMA RowSteps ==
  ASSUME IInv, [Next]_vars
  PROVE  \/ UNCHANGED rows
         \/ \E c \in Conn : CommitKept(c) \/ CommitRun(c) \/ AcceptDecide(c) \/ Refuse(c)
                            \/ CommitClose(c) \/ CommitReopen(c)
<1>1. ASSUME NEW c \in Conn, RunStep(c), ~CommitKept(c), ~CommitRun(c)
      PROVE  UNCHANGED rows
  BY <1>1 DEF RunStep, ReadPrior, ReadKept, ReadIncident, KeepLate, Fail, PostMessage,
     RunTask, ApplyEffect, WriteReceipt, rows
<1>2. ASSUME NEW c \in Conn, DecisionStep(c), ~AcceptDecide(c), ~Refuse(c)
      PROVE  UNCHANGED rows
  BY <1>2 DEF DecisionStep, AcceptLock, AcceptCheckIncident, AcceptRunsAsSender, rows
<1>3. ASSUME NEW c \in Conn, LifecycleStep(c), ~CommitClose(c), ~CommitReopen(c)
      PROVE  UNCHANGED rows
  BY <1>3 DEF LifecycleStep, BeginClose, BeginReopen, rows
<1>4. ASSUME NEW c \in Conn, NEW o \in Op,
             \/ Request(o, c)
             \/ RequestDecision(o, c, "accept")
             \/ RequestDecision(o, c, "refuse")
      PROVE  UNCHANGED rows
  BY <1>4 DEF Request, RequestDecision, rows
<1>5. ASSUME NEW o \in Op, ChangeAuthority(o)
      PROVE  UNCHANGED rows
  BY <1>5 DEF ChangeAuthority, rows
<1>6. CASE ServerStops \/ UNCHANGED vars
  BY <1>6 DEF ServerStops, rows, vars
<1>7. QED
  BY <1>1, <1>2, <1>3, <1>4, <1>5, <1>6 DEF Next

\* What the invariant says of each step that writes a row.
LEMMA CommitMeans ==
  ASSUME IInv, NEW c \in Conn, CommitRun(c)
  PROVE  /\ tx[c].op \in Op /\ tx[c].op \notin fieldOps
         /\ Kind[tx[c].op] # "thread_message" => ~closed
  BY DEF CommitRun, At, IInv, WellFormed, RunSteps, ReadsStayTrue

LEMMA DecisionMeans ==
  ASSUME IInv, NEW c \in Conn, AcceptDecide(c) \/ Refuse(c)
  PROVE  \/ late' = late
         \/ /\ tx[c].op \in Op /\ late[tx[c].op] = "pending"
            /\ \/ late' = [late EXCEPT ![tx[c].op] = "refused"]
               \/ /\ tx[c].op \in fieldOps
                  /\ late' = [late EXCEPT ![tx[c].op] = "accepted"]
  BY DEF AcceptDecide, Refuse, At, IInv, WellFormed, DecideSteps, ReadsStayTrue

LEMMA KeptMeans ==
  ASSUME IInv, NEW c \in Conn, CommitKept(c)
  PROVE  tx[c].op \in Op /\ late[tx[c].op] = "none"
  BY DEF CommitKept, At, IInv, WellFormed, RunSteps, ReadsStayTrue

\* guard_late_submission and decidable: no order of deciders undoes a decision.
THEOREM DecisionsStand == Spec => DecidedOnce
<1>1. ASSUME IInv, [Next]_vars, NEW o \in Op, late[o] \in {"accepted", "refused"}
      PROVE  late'[o] = late[o]
  <2>1. late \in [Op -> LateStatus]
    BY <1>1 DEF IInv, TypeOK
  <2>2. CASE UNCHANGED rows
    BY <2>2 DEF rows
  <2>3. ASSUME NEW c \in Conn, CommitKept(c) PROVE late'[o] = late[o]
    <3>1. late' = [late EXCEPT ![tx[c].op] = "pending"] /\ tx[c].op # o
      BY <1>1, <2>3, KeptMeans DEF CommitKept
    <3>2. QED
      BY <2>1, <3>1
  <2>4. ASSUME NEW c \in Conn, AcceptDecide(c) \/ Refuse(c) PROVE late'[o] = late[o]
    BY <1>1, <2>1, <2>4, DecisionMeans
  <2>5. ASSUME NEW c \in Conn, CommitRun(c) \/ CommitClose(c) \/ CommitReopen(c)
        PROVE  late'[o] = late[o]
    BY <2>5 DEF CommitRun, CommitClose, CommitReopen
  <2>6. QED
    BY <1>1, <2>2, <2>3, <2>4, <2>5, RowSteps
<1>2. IInv /\ [Next]_vars =>
        \A o \in Op : late[o] \in {"accepted", "refused"} => late'[o] = late[o]
  BY <1>1
<1>3. QED
  BY <1>2, Invariant, PTL DEF Spec, DecidedOnce

\* Messages and tasks never land in a closed incident. A message to a member thread can:
\* its insert does not look at the incident, so the theorem is about the other kinds.
THEOREM ClosedStaysClosed ==
  ASSUME \A o \in Op : Kind[o] # "thread_message"
  PROVE  Spec => NoWorkOnClosedIncident
<1>1. ASSUME IInv, [Next]_vars, effects' # effects
      PROVE  ~closed
  <2>1. \E c \in Conn : CommitRun(c)
    BY <1>1, RowSteps DEF rows, CommitKept, AcceptDecide, Refuse, CommitClose, CommitReopen
  <2>2. QED
    BY <1>1, <2>1, CommitMeans
<1>2. QED
  BY <1>1, Invariant, PTL DEF Spec, NoWorkOnClosedIncident

\* The concurrent transactions implement what the route promises a device.
THEOREM ImplementsExactlyOnce ==
  ASSUME \A o \in Op : Kind[o] # "thread_message"
  PROVE  Spec => KeepsItsPromise
<1>1. Init => Once!OnceInit
  BY DEF Init, Once!OnceInit
<1>2. ASSUME IInv, [Next]_vars
      PROVE  [Once!OnceNext]_(Once!onceVars)
  <2>1. CASE UNCHANGED rows
    BY <2>1 DEF rows, Once!onceVars
  <2>2. ASSUME NEW c \in Conn, CommitKept(c) PROVE Once!OnceKeep(tx[c].op) /\ tx[c].op \in Op
    BY <1>2, <2>2, KeptMeans DEF CommitKept, Once!OnceKeep
  <2>3. ASSUME NEW c \in Conn, CommitRun(c) PROVE Once!OnceApply(tx[c].op) /\ tx[c].op \in Op
    BY <1>2, <2>3, CommitMeans DEF CommitRun, Once!OnceApply
  <2>4. ASSUME NEW c \in Conn, AcceptDecide(c) \/ Refuse(c)
        PROVE  \/ UNCHANGED Once!onceVars
               \/ tx[c].op \in Op /\ (Once!OnceAccept(tx[c].op) \/ Once!OnceRefuse(tx[c].op))
    <3>1. UNCHANGED <<closed, fieldOps>>
      BY <2>4 DEF AcceptDecide, Refuse
    <3>2. QED
      BY <1>2, <2>4, <3>1, DecisionMeans DEF Once!OnceAccept, Once!OnceRefuse, Once!onceVars
  <2>5. ASSUME NEW c \in Conn, CommitClose(c) \/ CommitReopen(c)
        PROVE  Once!OnceCloseOrReopen \/ UNCHANGED Once!onceVars
    BY <1>2, <2>5 DEF CommitClose, CommitReopen, Once!OnceCloseOrReopen, Once!onceVars, IInv,
       TypeOK
  <2>6. QED
    BY <1>2, <2>1, <2>2, <2>3, <2>4, <2>5, RowSteps DEF Once!OnceNext
<1>3. QED
  BY <1>1, <1>2, Invariant, PTL DEF Spec, KeepsItsPromise, Once!OnceSpec

=============================================================================
