-------------------------- MODULE AuditForwarding --------------------------
(***************************************************************************)
(* Forwarding the audit trail to a syslog collector (audit/syslog.ts and   *)
(* the two functions of migration 0110). Transactions are given ids in the *)
(* order they begin and commit in any order; each writes audit events. The *)
(* scheduler's syslog job reads events in order of (xact, seq) below the   *)
(* oldest transaction still running, sends them, and moves a mark. Leaders *)
(* overlap (Scheduler), so several forwarders share the mark.              *)
(***************************************************************************)
EXTENDS Naturals, FiniteSets

CONSTANTS
  Forwarder,  \* runs of the syslog job, of overlapping leaders
  Xacts,      \* bound: transactions
  Events,     \* bound: events a transaction writes
  Batch,      \* rows read at once
  MaxFailures \* bound: runs that fail or stop

ASSUME ForwardingAssumption ==
  Xacts \in Nat /\ Events \in Nat /\ Batch \in Nat \ {0} /\ MaxFailures \in Nat

Xact == 1..Xacts
Event == Xact \X (1..Events)
Mark == (1..Xacts + 1) \X (0..Events)

\* The order of (xact, seq).
Before(d, e) == d[1] < e[1] \/ (d[1] = e[1] /\ d[2] < e[2])

ForwardStage == {"idle", "reading", "sending"}
Horizon == 0..Xacts + 1

VARIABLES
  begun,      \* transactions begun: their ids are 1..begun
  running,    \* those that have not ended
  events,     \* events of committed transactions
  marked,     \* the mark has been set
  mark,       \* the last event taken as forwarded
  start,      \* where forwarding started (for properties)
  stage,      \* what each forwarder is doing
  horizon,    \* the oldest running transaction it has seen
  batch,      \* the events it has read, and not sent yet
  last,       \* the last event it read
  sent,       \* events the collector has been sent (for properties)
  failures    \* failures so far

trail == <<begun, running, events>>
forwardVars == <<begun, running, events, marked, mark, start, stage, horizon, batch,
                 last, sent, failures>>

ForwardTypeOK ==
  /\ begun \in 0..Xacts /\ running \subseteq 1..begun
  /\ events \subseteq Event
  /\ marked \in BOOLEAN /\ mark \in Mark /\ start \in Mark
  /\ stage \in [Forwarder -> ForwardStage]
  /\ horizon \in [Forwarder -> Horizon]
  /\ batch \in [Forwarder -> SUBSET events]
  /\ last \in [Forwarder -> Mark]
  /\ sent \subseteq events
  /\ failures \in 0..MaxFailures

ForwardInit ==
  /\ begun = 0 /\ running = {} /\ events = {}
  /\ marked = FALSE /\ mark = <<1, 0>> /\ start = <<1, 0>>
  /\ stage = [f \in Forwarder |-> "idle"]
  /\ horizon = [f \in Forwarder |-> 0]
  /\ batch = [f \in Forwarder |-> {}]
  /\ last = [f \in Forwarder |-> <<1, 0>>]
  /\ sent = {} /\ failures = 0

-----------------------------------------------------------------------------
(* Transactions of the rest of the system *)

Begin ==
  /\ begun < Xacts
  /\ begun' = begun + 1
  /\ running' = running \cup {begun + 1}
  /\ UNCHANGED <<events, marked, mark, start, stage, horizon, batch, last, sent, failures>>

\* A transaction commits with the events it wrote, or none, or aborts.
End(x) ==
  /\ x \in running
  /\ running' = running \ {x}
  /\ \E k \in 0..Events : events' = events \cup ({x} \X (1..k))
  /\ UNCHANGED <<begun, marked, mark, start, stage, horizon, batch, last, sent, failures>>

-----------------------------------------------------------------------------
(* A run of the job *)

\* Mutant: the newest id, not the oldest running one.
NewestXact == begun + 1

\* pg_snapshot_xmin: the oldest transaction still running, or the next one.
OldestRunning ==
  IF running = {} THEN begun + 1 ELSE CHOOSE x \in running : \A y \in running : x <= y

\* A batch is read in two statements, the horizon first. The first call of
\* all sets the mark at the horizon and reads nothing.
ReadHorizon(f) ==
  /\ stage[f] = "idle"
  /\ horizon' = [horizon EXCEPT ![f] = OldestRunning]
  /\ stage' = [stage EXCEPT ![f] = "reading"]
  /\ UNCHANGED <<trail, marked, mark, start, batch, last, sent, failures>>

SetMark(f) ==
  /\ stage[f] = "reading" /\ ~marked
  /\ marked' = TRUE
  /\ mark' = <<horizon[f], 0>> /\ start' = <<horizon[f], 0>>
  /\ stage' = [stage EXCEPT ![f] = "idle"]
  /\ UNCHANGED <<trail, horizon, batch, last, sent, failures>>

\* The rows after the mark and below the horizon.
Forwardable(f) == {e \in events : Before(mark, e) /\ e[1] < horizon[f]}

\* rows are the first of todo, as many as a batch holds, and end at e.
FirstUpTo(todo, rows, e) ==
  /\ rows \subseteq todo /\ e \in rows
  /\ Cardinality(rows) <= Batch
  /\ Cardinality(rows) < Batch => rows = todo
  /\ \A d \in todo : d \in rows <=> ~Before(e, d)

ReadEvents(f) ==
  /\ stage[f] = "reading" /\ marked
  /\ \/ /\ Forwardable(f) = {}
        /\ stage' = [stage EXCEPT ![f] = "idle"]
        /\ UNCHANGED <<batch, last>>
     \/ \E rows \in SUBSET Forwardable(f), e \in Forwardable(f) :
        /\ FirstUpTo(Forwardable(f), rows, e)
        /\ batch' = [batch EXCEPT ![f] = rows]
        /\ last' = [last EXCEPT ![f] = e]
        /\ stage' = [stage EXCEPT ![f] = "sending"]
  /\ UNCHANGED <<trail, marked, mark, start, horizon, sent, failures>>

\* Over UDP one message at a time; over TCP a connection may break after any.
Send(f) ==
  /\ stage[f] = "sending"
  /\ \E e \in batch[f] :
       /\ \A d \in batch[f] : ~Before(d, e)
       /\ sent' = sent \cup {e}
       /\ batch' = [batch EXCEPT ![f] = @ \ {e}]
  /\ UNCHANGED <<trail, marked, mark, start, stage, horizon, last, failures>>

\* Mutant: moves the mark before the batch has been sent.
AdvanceEarly(f) ==
  /\ stage[f] = "sending"
  /\ mark' = IF Before(mark, last[f]) THEN last[f] ELSE mark
  /\ stage' = [stage EXCEPT ![f] = IF batch[f] = {} THEN "idle" ELSE @]
  /\ UNCHANGED <<trail, marked, start, horizon, batch, last, sent, failures>>

\* The mark is moved on to the last row, and never back; the run reads on.
Advance(f) ==
  /\ stage[f] = "sending" /\ batch[f] = {}
  /\ mark' = IF Before(mark, last[f]) THEN last[f] ELSE mark
  /\ stage' = [stage EXCEPT ![f] = "idle"]
  /\ UNCHANGED <<trail, marked, start, horizon, batch, last, sent, failures>>

\* The collector cannot be reached, a query fails, or the process stops.
Fail(f) ==
  /\ failures < MaxFailures /\ stage[f] # "idle"
  /\ failures' = failures + 1
  /\ stage' = [stage EXCEPT ![f] = "idle"]
  /\ batch' = [batch EXCEPT ![f] = {}]
  /\ UNCHANGED <<trail, marked, mark, start, horizon, last, sent>>

Step(f) == ReadHorizon(f) \/ SetMark(f) \/ ReadEvents(f) \/ Send(f) \/ Advance(f)

-----------------------------------------------------------------------------

ForwardNext ==
  \/ Begin
  \/ \E x \in running : End(x)
  \/ \E f \in Forwarder : Step(f) \/ Fail(f)

ForwardSpec == ForwardInit /\ [][ForwardNext]_forwardVars

\* The job runs on a timer and its calls end, as transactions do.
ForwardFairness ==
  /\ \A x \in Xact : WF_forwardVars(End(x))
  /\ \A f \in Forwarder : WF_forwardVars(Step(f))

ForwardFairSpec == ForwardSpec /\ ForwardFairness

-----------------------------------------------------------------------------
(* Properties *)

\* Nothing at or before the mark is unsent, now or ever: "it never passes an
\* event whose transaction commits late", and no failure moves it too far.
MarkPassesNothing ==
  marked => \A x \in 1..begun, k \in 1..Events :
    Before(start, <<x, k>>) /\ ~Before(mark, <<x, k>>) =>
      x \notin running /\ (<<x, k>> \in events => <<x, k>> \in sent)

\* What the collector has heard is the trail up to some event, at every
\* moment: it hears of events in order and no gap is filled later, whatever
\* commits when and however many leaders send.
HeardInOrder ==
  \A e \in sent : \A d \in events : Before(start, d) /\ Before(d, e) => d \in sent

\* Two leaders, one of them slow, never move the mark back.
MarkNeverMovesBack ==
  [][marked => ~Before(mark', mark)]_forwardVars

\* Every event written since forwarding started reaches the collector.
EveryEventForwarded ==
  \A e \in Event : marked /\ e \in events /\ Before(start, e) ~> e \in sent
=============================================================================
