-------------------------- MODULE FieldOperations --------------------------
(***************************************************************************)
(* The server side of queued field work: the field operation route, the    *)
(* late submissions it keeps, an administrator's decisions on them, and    *)
(* the incident's closure (server/src/sync/late.ts, incidents/service.ts,  *)
(* incidents/tasks.ts, messaging/service.ts, db/context.ts and migration   *)
(* 0166_field_breadth.sql).                                                *)
(*                                                                         *)
(* One API process serves requests over a pool of PostgreSQL connections.  *)
(* A transaction holds its connection from begin to commit and runs READ   *)
(* COMMITTED: a statement sees what others committed before it, waits for  *)
(* the locks and for the unique keys other open transactions hold, and     *)
(* loses its own writes if the transaction fails or the process stops.     *)
(* Each action below is one statement, or a run of statements that no      *)
(* other transaction can tell from one.                                    *)
(*                                                                         *)
(* Abstracted: what a message or a task says (an operation id carries one  *)
(* payload, both minted by operationStamp), the audit entries and notices  *)
(* written with each change, and who decides (an owner administrator).     *)
(***************************************************************************)
EXTENDS Naturals, FiniteSets

CONSTANTS
  Op,          \* field operations: a sender and an operation id
  Conn,        \* connections of the pool (postgres.js opens 10 by default)
  Kind,        \* each operation's kind
  NoOp,        \* no operation
  NoConn,      \* no connection
  MaxDeciders  \* bound: accept and refuse requests served at the same time

\* "message" goes to a thread of the whole incident, "thread_message" to one with members.
MessageKinds == {"message", "thread_message"}
Kinds == MessageKinds \cup {"task", "task_completion"}

ASSUME OpAssumption == Kind \in [Op -> Kinds] /\ NoOp \notin Op
ASSUME ConnAssumption == NoConn \notin Conn
ASSUME DecidersAssumption == MaxDeciders \in Nat

VARIABLES
  closed,         \* incidents.closed_at is set
  mayContribute,  \* the sender may contribute to the incident now
  effects,        \* messages, tasks or completions committed per operation
  fieldOps,       \* field_operations: operations with a committed receipt
  late,           \* late_submissions: the status of each operation's row
  tx,             \* what each connection's transaction is doing
  told            \* history: the answers each sender was sent

vars == <<closed, mayContribute, effects, fieldOps, late, tx, told>>
rows == <<closed, effects, fieldOps, late>>

LateStatus == {"none", "pending", "accepted", "refused"}
Answers == {"applied", "late", "closed", "denied"}

(***************************************************************************)
(* A transaction: the statement it is at, the operation it is about,       *)
(* the connection of the acceptance it runs for (NoConn for a device's own *)
(* request), and whether it wrote the operation's effect.                  *)
(***************************************************************************)
RunSteps == {"prior", "kept", "incident", "keep", "keeping",
             "apply", "receipt", "commit"}
DecideSteps == {"accept", "check", "nest", "inner", "decide", "refuse"}
Steps == {"idle", "closing", "reopening"} \cup RunSteps \cup DecideSteps

Transaction == [at : Steps, op : Op \cup {NoOp}, by : Conn \cup {NoConn},
                wrote : BOOLEAN]
Idle == [at |-> "idle", op |-> NoOp, by |-> NoConn, wrote |-> FALSE]

Begin(step, o, c) == [at |-> step, op |-> o, by |-> c, wrote |-> FALSE]

Free(c) == tx[c].at = "idle"
At(c, step) == tx[c].at = step

\* lockIncidentMutation: one advisory lock per incident, held to the end of the
\* transaction by tasks and by closing and reopening.
HoldsIncident(c) ==
  \/ tx[c].at \in {"closing", "reopening"}
  \/ tx[c].at \in {"receipt", "commit"} /\ Kind[tx[c].op] \notin MessageKinds

\* post_incident_message reads the incident row FOR SHARE, which an update waits for.
SharesIncidentRow(c) ==
  tx[c].at \in {"receipt", "commit"} /\ Kind[tx[c].op] = "message"

\* decidable selects the late submission FOR UPDATE.
HoldsLateRow(c, o) ==
  tx[c].op = o /\ tx[c].at \in {"check", "nest", "inner", "decide"}

\* Uncommitted rows another insert of the same key waits for.
InsertingEffect(c, o) == tx[c].op = o /\ tx[c].wrote
InsertingReceipt(c, o) == tx[c].op = o /\ tx[c].at = "commit"
InsertingLate(c, o) == tx[c].op = o /\ tx[c].at = "keeping"

IncidentLockFree(c) == \A d \in Conn \ {c} : ~HoldsIncident(d)

TypeOK ==
  /\ closed \in BOOLEAN
  /\ mayContribute \in [Op -> BOOLEAN]
  /\ effects \in [Op -> Nat]
  /\ fieldOps \subseteq Op
  /\ late \in [Op -> LateStatus]
  /\ tx \in [Conn -> Transaction]
  /\ told \in [Op -> SUBSET Answers]

Init ==
  /\ closed = FALSE
  /\ mayContribute = [o \in Op |-> TRUE]
  /\ effects = [o \in Op |-> 0]
  /\ fieldOps = {}
  /\ late = [o \in Op |-> "none"]
  /\ tx = [c \in Conn |-> Idle]
  /\ told = [o \in Op |-> {}]

-----------------------------------------------------------------------------
\* Mutant: an acceptance is not resumed when the run it waits for fails.
FinishUnnoticed(c, committed) ==
  tx' = [d \in Conn |->
           IF d = c THEN Idle
           ELSE IF d = tx[c].by /\ committed THEN [tx[d] EXCEPT !.at = "decide"]
           ELSE tx[d]]

(***************************************************************************)
(* How a run of an operation ends: its connection goes back to the pool,   *)
(* the sender is answered, and an acceptance waiting for it resumes, on to *)
(* its decision if the run committed and rolled back if it failed.         *)
(***************************************************************************)
Finish(c, committed) ==
  LET waiting == tx[c].by
  IN  tx' = [d \in Conn |->
               IF d = c \/ (d = waiting /\ ~committed) THEN Idle
               ELSE IF d = waiting THEN [tx[d] EXCEPT !.at = "decide"]
               ELSE tx[d]]

Tell(c, answers) ==
  told' = IF tx[c].by = NoConn
            THEN [told EXCEPT ![tx[c].op] = @ \cup answers]
            ELSE told

GoTo(c, step) == tx' = [tx EXCEPT ![c].at = step]

\* The transaction throws: nothing it wrote stays. An AuthError is answered with its
\* status; a broken key or policy is a 500, on which a device learns nothing.
Fail(c, answers) ==
  /\ Finish(c, FALSE)
  /\ Tell(c, answers)
  /\ UNCHANGED <<rows, mayContribute>>

-----------------------------------------------------------------------------
(* runFieldOperation *)

\* A device's request, or a retry of it, gets a connection.
Request(o, c) ==
  /\ Free(c)
  /\ tx' = [tx EXCEPT ![c] = Begin("prior", o, NoConn)]
  /\ UNCHANGED <<rows, mayContribute, told>>

\* The receipt of an operation already run answers for it.
ReadPrior(c) ==
  /\ At(c, "prior")
  /\ IF tx[c].op \in fieldOps
       THEN /\ Finish(c, TRUE)
            /\ Tell(c, {"applied"})
       ELSE /\ GoTo(c, IF tx[c].by = NoConn THEN "kept" ELSE "incident")
            /\ UNCHANGED told
  /\ UNCHANGED <<rows, mayContribute>>

\* A submission already kept answers for it, unless it is being accepted.
ReadKept(c) ==
  /\ At(c, "kept")
  /\ IF late[tx[c].op] # "none"
       THEN /\ Finish(c, TRUE)
            /\ Tell(c, {"late"})
       ELSE /\ GoTo(c, "incident")
            /\ UNCHANGED told
  /\ UNCHANGED <<rows, mayContribute>>

ReadIncident(c) ==
  /\ At(c, "incident")
  /\ GoTo(c, IF closed THEN "keep" ELSE "apply")
  /\ UNCHANGED <<rows, mayContribute, told>>

\* Mutant: the sender is told "late" before the row commits.
KeepLateToldEarly(c) ==
  /\ At(c, "keep")
  /\ mayContribute[tx[c].op] /\ closed /\ late[tx[c].op] = "none"
  /\ GoTo(c, "keeping")
  /\ Tell(c, {"late"})
  /\ UNCHANGED <<rows, mayContribute>>

\* Mutant: no unique key on the sender and operation id, so a second row starts over.
KeepLateTwice(c) ==
  /\ At(c, "keep")
  /\ mayContribute[tx[c].op] /\ closed
  /\ GoTo(c, "keeping")
  /\ UNCHANGED <<rows, mayContribute, told>>

\* The sender's authority, then recordLateSubmission. The insert waits for an open insert
\* of the same key; the unique key refuses a second row, and the row policy a row for an
\* incident that is open again.
KeepLate(c) ==
  LET o == tx[c].op
      refused == late[o] # "none" \/ ~closed
  IN  /\ At(c, "keep")
      /\ \A d \in Conn \ {c} : ~InsertingLate(d, o)
      /\ \/ ~mayContribute[o] /\ Fail(c, {"denied"})
         \/ mayContribute[o] /\ refused /\ Fail(c, {})
         \/ /\ mayContribute[o] /\ ~refused
            /\ GoTo(c, "keeping")
            /\ UNCHANGED <<rows, mayContribute, told>>

CommitKept(c) ==
  /\ At(c, "keeping")
  /\ late' = [late EXCEPT ![tx[c].op] = "pending"]
  /\ Finish(c, TRUE)
  /\ Tell(c, {"late"})
  /\ UNCHANGED <<closed, effects, fieldOps, mayContribute>>

\* Why the incident's own write refuses the operation. A message to one of the incident's
\* member threads is inserted without looking at the incident.
Refusal(o) ==
  IF closed /\ Kind[o] # "thread_message" THEN {"closed"}
  ELSE IF ~mayContribute[o] THEN {"denied"} ELSE {}

\* Work already recorded under its id is returned as it is; else it is refused or written.
ApplyEffect(c, recorded) ==
  LET refusal == Refusal(tx[c].op)
  IN  \/ /\ recorded
         /\ GoTo(c, "receipt")
         /\ UNCHANGED <<rows, mayContribute, told>>
      \/ ~recorded /\ refusal # {} /\ Fail(c, refusal)
      \/ /\ ~recorded /\ refusal = {}
         /\ tx' = [tx EXCEPT ![c].at = "receipt", ![c].wrote = TRUE]
         /\ UNCHANGED <<rows, mayContribute, told>>

\* postMessage and post_incident_message: messages_client_dedupe holds one message per id.
PostMessage(c) ==
  LET o == tx[c].op
  IN  /\ At(c, "apply")
      /\ Kind[o] \in MessageKinds
      /\ \A d \in Conn \ {c} : ~InsertingEffect(d, o)
      /\ ApplyEffect(c, effects[o] > 0)

\* Mutant: a task is written without the incident's lock.
RunTaskUnlocked(c) ==
  LET o == tx[c].op
  IN  /\ At(c, "apply")
      /\ Kind[o] \notin MessageKinds
      /\ ApplyEffect(c, Kind[o] = "task_completion" /\ effects[o] > 0)

\* createIncidentTask and completeIncidentTask, under the incident's lock. A completion
\* already recorded under this id returns its receipt; a new task has no such check.
RunTask(c) ==
  LET o == tx[c].op
  IN  /\ At(c, "apply")
      /\ Kind[o] \notin MessageKinds
      /\ IncidentLockFree(c)
      /\ ApplyEffect(c, Kind[o] = "task_completion" /\ effects[o] > 0)

\* Mutant: field_operations has no primary key.
WriteReceiptUnkeyed(c) ==
  /\ At(c, "receipt")
  /\ GoTo(c, "commit")
  /\ UNCHANGED <<rows, mayContribute, told>>

\* The insert into field_operations, whose primary key is the sender and operation id.
WriteReceipt(c) ==
  LET o == tx[c].op
  IN  /\ At(c, "receipt")
      /\ \A d \in Conn \ {c} : ~InsertingReceipt(d, o)
      /\ IF o \in fieldOps
           THEN Fail(c, {})
           ELSE /\ GoTo(c, "commit")
                /\ UNCHANGED <<rows, mayContribute, told>>

CommitRun(c) ==
  LET o == tx[c].op
  IN  /\ At(c, "commit")
      /\ fieldOps' = fieldOps \cup {o}
      /\ effects' = IF tx[c].wrote THEN [effects EXCEPT ![o] = @ + 1] ELSE effects
      /\ Finish(c, TRUE)
      /\ Tell(c, {"applied"})
      /\ UNCHANGED <<closed, late, mayContribute>>

-----------------------------------------------------------------------------
(* Decisions on late submissions *)

Deciding == {c \in Conn : tx[c].at \in DecideSteps}

RequestDecision(o, c, step) ==
  /\ Free(c)
  /\ late[o] # "none"
  /\ Cardinality(Deciding) < MaxDeciders
  /\ tx' = [tx EXCEPT ![c] = Begin(step, o, NoConn)]
  /\ UNCHANGED <<rows, mayContribute, told>>

LateRowFree(c) == \A d \in Conn \ {c} : ~HoldsLateRow(d, tx[c].op)

\* Mutant: the decision is recorded before the work is applied.
AcceptLockAndDecide(c) ==
  /\ At(c, "accept")
  /\ LateRowFree(c)
  /\ late[tx[c].op] = "pending"
  /\ GoTo(c, "decide")
  /\ UNCHANGED <<rows, mayContribute, told>>

\* decidable: locks the row, then refuses one already decided.
AcceptLock(c) ==
  /\ At(c, "accept")
  /\ LateRowFree(c)
  /\ IF late[tx[c].op] = "pending"
       THEN GoTo(c, "check")
       ELSE tx' = [tx EXCEPT ![c] = Idle]
  /\ UNCHANGED <<rows, mayContribute, told>>

AcceptCheckIncident(c) ==
  /\ At(c, "check")
  /\ tx' = [tx EXCEPT ![c] = IF closed THEN Idle ELSE [@ EXCEPT !.at = "nest"]]
  /\ UNCHANGED <<rows, mayContribute, told>>

\* sender and the inner withPerson: a second connection, while the first stays open.
AcceptRunsAsSender(c, inner) ==
  /\ At(c, "nest")
  /\ Free(inner)
  /\ tx' = [tx EXCEPT ![c].at = "inner", ![inner] = Begin("prior", tx[c].op, c)]
  /\ UNCHANGED <<rows, mayContribute, told>>

AcceptDecide(c) ==
  /\ At(c, "decide")
  /\ late[tx[c].op] = "pending"
  /\ late' = [late EXCEPT ![tx[c].op] = "accepted"]
  /\ tx' = [tx EXCEPT ![c] = Idle]
  /\ UNCHANGED <<closed, effects, fieldOps, mayContribute, told>>

\* Mutant: the refusal does not look at the status it found.
RefuseUnchecked(c) ==
  /\ At(c, "refuse")
  /\ LateRowFree(c)
  /\ late' = [late EXCEPT ![tx[c].op] = "refused"]
  /\ tx' = [tx EXCEPT ![c] = Idle]
  /\ UNCHANGED <<closed, effects, fieldOps, mayContribute, told>>

\* The refuse route: decidable, decide and commit.
Refuse(c) ==
  LET o == tx[c].op
  IN  /\ At(c, "refuse")
      /\ LateRowFree(c)
      /\ late' = IF late[o] = "pending" THEN [late EXCEPT ![o] = "refused"] ELSE late
      /\ tx' = [tx EXCEPT ![c] = Idle]
      /\ UNCHANGED <<closed, effects, fieldOps, mayContribute, told>>

-----------------------------------------------------------------------------
(* The incident, the sender's authority, and the process *)

\* closeIncident and reopenIncident take the incident's lock, then update its row.
BeginClose(c) ==
  /\ Free(c)
  /\ IncidentLockFree(c)
  /\ ~closed
  /\ tx' = [tx EXCEPT ![c] = Begin("closing", NoOp, NoConn)]
  /\ UNCHANGED <<rows, mayContribute, told>>

CommitClose(c) ==
  /\ At(c, "closing")
  /\ \A d \in Conn : ~SharesIncidentRow(d)
  /\ closed' = TRUE
  /\ tx' = [tx EXCEPT ![c] = Idle]
  /\ UNCHANGED <<effects, fieldOps, late, mayContribute, told>>

BeginReopen(c) ==
  /\ Free(c)
  /\ IncidentLockFree(c)
  /\ closed
  /\ tx' = [tx EXCEPT ![c] = Begin("reopening", NoOp, NoConn)]
  /\ UNCHANGED <<rows, mayContribute, told>>

CommitReopen(c) ==
  /\ At(c, "reopening")
  /\ closed' = FALSE
  /\ tx' = [tx EXCEPT ![c] = Idle]
  /\ UNCHANGED <<effects, fieldOps, late, mayContribute, told>>

\* A membership or participation is granted, or ends.
ChangeAuthority(o) ==
  /\ mayContribute' = [mayContribute EXCEPT ![o] = ~@]
  /\ UNCHANGED <<rows, tx, told>>

\* The API process stops: every open transaction rolls back, no one is answered.
ServerStops ==
  /\ \E c \in Conn : ~Free(c)
  /\ tx' = [c \in Conn |-> Idle]
  /\ UNCHANGED <<rows, mayContribute, told>>

-----------------------------------------------------------------------------
RunStep(c) ==
  \/ ReadPrior(c) \/ ReadKept(c) \/ ReadIncident(c)
  \/ KeepLate(c) \/ CommitKept(c)
  \/ PostMessage(c) \/ RunTask(c) \/ WriteReceipt(c) \/ CommitRun(c)

DecisionStep(c) ==
  \/ AcceptLock(c) \/ AcceptCheckIncident(c)
  \/ \E inner \in Conn : AcceptRunsAsSender(c, inner)
  \/ AcceptDecide(c) \/ Refuse(c)

LifecycleStep(c) ==
  BeginClose(c) \/ CommitClose(c) \/ BeginReopen(c) \/ CommitReopen(c)

Next ==
  \/ \E c \in Conn : RunStep(c) \/ DecisionStep(c) \/ LifecycleStep(c)
  \/ \E o \in Op, c \in Conn :
       \/ Request(o, c)
       \/ RequestDecision(o, c, "accept")
       \/ RequestDecision(o, c, "refuse")
  \/ \E o \in Op : ChangeAuthority(o)
  \/ ServerStops

Spec == Init /\ [][Next]_vars

(***************************************************************************)
(* A transaction that began goes on: PostgreSQL serves a lock or a key,    *)
(* and postgres.js a connection, in the order they were asked for, so a    *)
(* step that can run again and again is run (strong fairness). Requests,   *)
(* decisions, closures and stops need not happen.                          *)
(***************************************************************************)
Progress(c) ==
  RunStep(c) \/ DecisionStep(c) \/ CommitClose(c) \/ CommitReopen(c)

Fairness == \A c \in Conn : SF_vars(Progress(c))

FairSpec == Spec /\ Fairness

-----------------------------------------------------------------------------
(***************************************************************************)
(* Properties                                                              *)
(***************************************************************************)

(* An operation takes effect exactly when it has a receipt, and once, whatever   *)
(* duplicates, stops and acceptances cross (late.ts: "runs exactly once").       *)
AppliedOnce ==
  \A o \in Op : effects[o] = (IF o \in fieldOps THEN 1 ELSE 0)

(* An accepted late submission's work is in its incident: the decision is only   *)
(* recorded after the inner transaction committed (acceptLateSubmission).        *)
AcceptedWasApplied ==
  \A o \in Op : late[o] = "accepted" => o \in fieldOps

(* What a device is told stays true, so it may drop its copy: "applied" only with *)
(* a committed receipt, "late" only with a committed late submission.             *)
AnswersAreTrue ==
  \A o \in Op :
    /\ "applied" \in told[o] => o \in fieldOps
    /\ "late" \in told[o] => late[o] # "none"

(* No work lands in a closed incident: a closure that was read before an        *)
(* operation took the lock, or that commits while it runs, never precedes it.   *)
NoWorkOnClosedIncident ==
  [][effects' # effects => ~closed]_vars

(* A late submission is decided once, and never leaves (guard_late_submission). *)
DecidedOnce ==
  [][\A o \in Op : late[o] \in {"accepted", "refused"} => late'[o] = late[o]]_vars

(* Every transaction ends, so its connection serves the next request.           *)
EveryTransactionEnds ==
  \A c \in Conn : ~Free(c) ~> Free(c)

(* The route implements the promise a device relies on (module ExactlyOnce).    *)
Once == INSTANCE ExactlyOnce WITH applied <- fieldOps
KeepsItsPromise == Once!OnceSpec

(* late.ts:22-25: a late submission is applied by accepting it, refusing one    *)
(* keeps it with the reason; so what was refused is not in the incident.        *)
RefusedIsNotApplied ==
  \A o \in Op : late[o] = "refused" => o \notin fieldOps

-----------------------------------------------------------------------------
(***************************************************************************)
(* The inductive invariant behind the safety properties: what the locks    *)
(* and the open transactions guarantee between one statement and the next. *)
(***************************************************************************)

\* A run serves a device or one waiting acceptance, whose operation it runs.
WellFormed ==
  /\ \A c \in Conn :
       /\ tx[c].at \in RunSteps \cup DecideSteps => tx[c].op \in Op
       /\ tx[c].wrote => tx[c].at \in {"receipt", "commit"}
       /\ tx[c].by # NoConn =>
            /\ tx[c].at \in RunSteps \ {"kept", "keeping"}
            /\ tx[tx[c].by].at = "inner"
            /\ tx[tx[c].by].op = tx[c].op
  /\ \A c, d \in Conn : c # d /\ tx[c].by # NoConn => tx[c].by # tx[d].by

\* No two transactions hold one lock, or an uncommitted row under one key.
LocksExclude ==
  \A c, d \in Conn : c # d =>
    /\ ~(HoldsIncident(c) /\ HoldsIncident(d))
    /\ \A o \in Op :
         /\ ~(HoldsLateRow(c, o) /\ HoldsLateRow(d, o))
         /\ ~(InsertingReceipt(c, o) /\ InsertingReceipt(d, o))
         /\ ~(InsertingLate(c, o) /\ InsertingLate(d, o))

\* What a transaction read under a lock still holds while it keeps the lock.
ReadsStayTrue ==
  \A c \in Conn :
    /\ tx[c].at \in {"check", "nest", "inner", "decide"} => late[tx[c].op] = "pending"
    /\ tx[c].at = "keeping" => late[tx[c].op] = "none"
    /\ tx[c].at = "decide" => tx[c].op \in fieldOps
    /\ tx[c].at = "receipt" /\ ~tx[c].wrote => tx[c].op \in fieldOps
    /\ tx[c].at = "commit" => tx[c].wrote /\ tx[c].op \notin fieldOps
    /\ tx[c].wrote /\ Kind[tx[c].op] # "thread_message" => ~closed

IInv ==
  /\ TypeOK
  /\ WellFormed
  /\ LocksExclude
  /\ ReadsStayTrue
  /\ AppliedOnce
  /\ AcceptedWasApplied
  /\ AnswersAreTrue
=============================================================================
