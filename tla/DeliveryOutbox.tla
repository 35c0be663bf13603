--------------------------- MODULE DeliveryOutbox ---------------------------
(***************************************************************************)
(* The outbound delivery queue and the workers that drain it: rows of      *)
(* delivery_outbox claimed under a lease, tried, and settled as delivered, *)
(* dead, expired, or waiting; the notification each row answers for; a     *)
(* resend by an administrator; and the withdrawal of a mass notification's *)
(* fallback once its recipient acknowledges.                               *)
(*                                                                         *)
(* Workers are the schedulers' "outbox" jobs. Leaders may overlap, so      *)
(* several drain at once. Time is kept as what the code compares: whether  *)
(* a row has fallen due, its lease has lapsed, its hold has run out. A     *)
(* lease may lapse at any moment after the claim: an attempt has an idle   *)
(* timeout for each exchange with its relay and none for the whole.        *)
(*                                                                         *)
(* All rows here go to one relay, so each worker has one circuit.          *)
(***************************************************************************)
EXTENDS Naturals, FiniteSets, Sequences

CONSTANTS
  Note,       \* notifications that have an outbound delivery
  Fallback,   \* those queued as a later fallback of a mass notification
  Copies,     \* bound: deliveries a notification may have, resends included
  Worker,     \* processes that drain the queue
  Admin,      \* administrators who may resend
  Batch,      \* rows claimed at once
  Threshold,  \* failures that open a circuit
  MaxFaults,  \* bound: stops of a worker and failed or lost settlements
  NoRow       \* no row read

ASSUME NoteAssumption ==
  /\ Fallback \subseteq Note
  /\ Copies \in [Note -> Nat \ {0}]
  /\ Batch \in Nat \ {0} /\ Threshold \in Nat \ {0} /\ MaxFaults \in Nat

\* The k-th delivery of a notification; those after the first are resends.
Row == UNION {{n} \X (1..Copies[n]) : n \in Note}

ASSUME NoRowAssumption == NoRow \notin Row

Final == {"delivered", "dead", "expired"}
Stage == {"claimed", "sending", "accepted"}
Attempt == [worker : Worker, row : Row, stage : Stage, current : BOOLEAN]

VARIABLES
  status,     \* a row's status; "none" before it is queued, "withdrawn" once deleted
  due,        \* pending rows whose next attempt has come, the earliest first
  scheduled,  \* fallbacks whose first time has not come
  leased,     \* pending rows under a lease that has not lapsed
  held,       \* pending rows whose hold has not run out
  spent,      \* pending rows some attempt was spent on: attempts counts it for good
  note,       \* a notification's status
  acked,      \* notifications whose recipient has acknowledged
  inflight,   \* attempts a worker is making
  circuit,    \* each worker's circuit for the relay
  reading,    \* the row an administrator's resend has read as the latest
  sent,       \* how often the relay took a row, up to two (for properties)
  excused,    \* rows a second sending of which has a known cause (for properties)
  faults      \* faults so far

rowVars == <<status, due, scheduled, leased, held, spent>>
history == <<sent, excused>>
vars == <<status, due, scheduled, leased, held, spent, note, acked,
          inflight, circuit, reading, sent, excused, faults>>

TypeOK ==
  /\ status \in [Row -> Final \cup {"none", "pending", "withdrawn"}]
  /\ due \in Seq(Row) /\ scheduled \subseteq Row
  /\ leased \subseteq Row /\ held \subseteq Row /\ spent \subseteq Row
  /\ note \in [Note -> {"none", "pending", "delivered", "failed", "withdrawn"}]
  /\ acked \subseteq Note
  /\ inflight \subseteq Attempt
  /\ circuit \in [Worker -> [failures : 0..Threshold, open : BOOLEAN]]
  /\ reading \in [Admin -> Row \cup {NoRow}]
  /\ sent \in [Row -> 0..2] /\ excused \subseteq Row
  /\ faults \in 0..MaxFaults

Closed == [failures |-> 0, open |-> FALSE]

Init ==
  /\ status = [d \in Row |-> "none"]
  /\ due = <<>> /\ scheduled = {} /\ leased = {} /\ held = {} /\ spent = {}
  /\ note = [n \in Note |-> "none"] /\ acked = {}
  /\ inflight = {} /\ circuit = [w \in Worker |-> Closed]
  /\ reading = [a \in Admin |-> NoRow]
  /\ sent = [d \in Row |-> 0] /\ excused = {} /\ faults = 0

-----------------------------------------------------------------------------
(* Helpers *)

InDue(d) == \E i \in 1..Len(due) : due[i] = d

Without(queue, rows) == SelectSeq(queue, LAMBDA d : d \notin rows)

\* How many rows of a notification have ever been inserted.
Inserted(n) == Cardinality({k \in 1..Copies[n] : status[<<n, k>>] # "none"})

Stored(n) == {k \in 1..Copies[n] : status[<<n, k>>] \notin {"none", "withdrawn"}}

IsLatest(n, k) == k \in Stored(n) /\ \A j \in Stored(n) : j <= k

Pending(rows) == {d \in rows : status[d] = "pending"}

\* Mutant: an attempt counts only once it is settled.
UntriedUntilSettled(d) == d \notin spent

\* attempts = 0: no claim of the row is under way and none was spent on it.
Untried(d) == d \notin spent /\ \A a \in inflight : a.row # d

\* A worker's run of the job has not ended.
Draining(w) == \E a \in inflight : a.worker = w /\ a.current

Restaged(a, stage) == (inflight \ {a}) \cup {[a EXCEPT !.stage = stage]}

CircuitFails(w) ==
  LET failures == IF circuit[w].failures < Threshold
                  THEN circuit[w].failures + 1 ELSE Threshold
  IN [circuit EXCEPT ![w] =
        [failures |-> failures, open |-> circuit[w].open \/ failures = Threshold]]

Took(d) == [sent EXCEPT ![d] = IF @ < 2 THEN @ + 1 ELSE 2]

-----------------------------------------------------------------------------
(* Queueing, resending, withdrawing *)

\* A rule, a report or a mass notification writes a notification and its row.
\* A fallback is queued to go later and held from then.
QueueDelivery(n) ==
  /\ note[n] = "none"
  /\ note' = [note EXCEPT ![n] = "pending"]
  /\ status' = [status EXCEPT ![<<n, 1>>] = "pending"]
  /\ held' = held \cup {<<n, 1>>}
  /\ IF n \in Fallback
     THEN scheduled' = scheduled \cup {<<n, 1>>} /\ UNCHANGED due
     ELSE due' = Append(due, <<n, 1>>) /\ UNCHANGED scheduled
  /\ UNCHANGED <<leased, spent, acked, inflight, circuit, reading, history, faults>>

\* A resend reads the notification's latest row, under no lock ...
ReadLatest(a, n) ==
  /\ reading[a] = NoRow
  /\ \E k \in Stored(n) :
       /\ IsLatest(n, k)
       /\ status[<<n, k>>] \in {"dead", "expired"}
       /\ reading' = [reading EXCEPT ![a] = <<n, k>>]
  /\ UNCHANGED <<rowVars, note, acked, inflight, circuit, history, faults>>

\* ... and queues another with a fresh hold; the notification waits again.
InsertResend(a) ==
  /\ reading[a] # NoRow
  /\ LET n == reading[a][1]
         fresh == <<n, Inserted(n) + 1>>
     IN IF fresh \in Row
        THEN /\ status' = [status EXCEPT ![fresh] = "pending"]
             /\ due' = Append(due, fresh)
             /\ held' = held \cup {fresh}
             /\ note' = [note EXCEPT ![n] = "pending"]
        ELSE UNCHANGED <<status, due, held, note>>
  /\ reading' = [reading EXCEPT ![a] = NoRow]
  /\ UNCHANGED <<scheduled, leased, spent, acked, inflight, circuit, history, faults>>

\* The recipient acknowledges: fallbacks no attempt was made on are deleted,
\* and the notification with them unless another row of its own remains.
Acknowledge(n) ==
  /\ n \in Fallback /\ note[n] # "none" /\ n \notin acked
  /\ acked' = acked \cup {n}
  /\ LET gone == {<<n, k>> : k \in {j \in Stored(n) :
                    status[<<n, j>>] = "pending" /\ Untried(<<n, j>>)}}
     IN /\ status' = [d \in Row |-> IF d \in gone THEN "withdrawn" ELSE status[d]]
        /\ due' = Without(due, gone)
        /\ scheduled' = scheduled \ gone /\ held' = held \ gone
        /\ note' = IF gone # {} /\ {<<n, k>> : k \in Stored(n)} \subseteq gone
                   THEN [note EXCEPT ![n] = "withdrawn"] ELSE note
  /\ UNCHANGED <<leased, spent, inflight, circuit, reading, history, faults>>

-----------------------------------------------------------------------------
(* Time *)

\* A row's next attempt falls due, the first of a fallback's or a retry's.
FallDue(d) ==
  /\ status[d] = "pending" /\ ~InDue(d)
  /\ due' = Append(due, d)
  /\ scheduled' = scheduled \ {d}
  /\ UNCHANGED <<status, leased, held, spent, note, acked, inflight, circuit,
                 reading, history, faults>>

\* The hold runs out. A wait was capped at it, so the row is due now too; a
\* fallback's hold is counted from when it first falls due.
HoldEnds(d) ==
  /\ status[d] = "pending" /\ d \in held /\ d \notin scheduled
  /\ held' = held \ {d}
  /\ due' = IF InDue(d) THEN due ELSE Append(due, d)
  /\ UNCHANGED <<status, scheduled, leased, spent, note, acked, inflight, circuit,
                 reading, history, faults>>

\* The lease lapses. If an attempt on the row is still under way, it has
\* outlived the lease: another may now start beside it.
LeaseLapses(d) ==
  /\ d \in leased
  /\ leased' = leased \ {d}
  /\ excused' = IF \E a \in inflight : a.row = d THEN excused \cup {d} ELSE excused
  /\ UNCHANGED <<status, due, scheduled, held, spent, note, acked, inflight,
                 circuit, reading, sent, faults>>

\* The circuit's cooldown passes; its failures stay until a delivery succeeds.
CircuitCools(w) ==
  /\ circuit[w].open
  /\ circuit' = [circuit EXCEPT ![w].open = FALSE]
  /\ UNCHANGED <<rowVars, note, acked, inflight, reading, history, faults>>

-----------------------------------------------------------------------------
(* A worker's pass *)

Claimable == {d \in Row : status[d] = "pending" /\ InDue(d) /\ d \notin leased}

\* The rows a claim takes: the earliest due, up to a batch.
FirstDue(rows) ==
  /\ rows \subseteq Claimable /\ rows # {}
  /\ Cardinality(rows) <= Batch
  /\ Cardinality(rows) < Batch => rows = Claimable
  /\ \A i, j \in 1..Len(due) :
       due[i] \in rows /\ due[j] \in Claimable \ rows => i < j

\* Mutant: claims without taking the lease.
ClaimWithoutLease(w, rows) ==
  /\ ~Draining(w)
  /\ inflight' = inflight \cup
       {[worker |-> w, row |-> d, stage |-> "claimed", current |-> TRUE] : d \in rows}
  /\ UNCHANGED <<rowVars, note, acked, circuit, reading, history, faults>>

\* claim_deliveries: attempts goes up and a lease is taken, in one statement.
ClaimUnleased(w, rows) ==
  /\ ~Draining(w)
  /\ leased' = leased \cup rows
  /\ inflight' = inflight \cup
       {[worker |-> w, row |-> d, stage |-> "claimed", current |-> TRUE] : d \in rows}
  /\ UNCHANGED <<status, due, scheduled, held, spent, note, acked, circuit,
                 reading, history, faults>>

Claim(w) == \E rows \in SUBSET Claimable : FirstDue(rows) /\ ClaimUnleased(w, rows)

-----------------------------------------------------------------------------
(* One attempt, and its settlement *)

\* Mutant: settles a row whatever its status.
SettleRowAnyway(d, outcome) ==
  /\ status' = [status EXCEPT ![d] = IF outcome \in Final THEN outcome ELSE "pending"]
  /\ due' = Without(due, {d}) /\ leased' = leased \ {d}
  /\ note' = [note EXCEPT ![d[1]] =
       CASE outcome = "delivered" -> "delivered"
         [] outcome \in {"dead", "expired"} -> "failed"
         [] OTHER -> @]
  /\ UNCHANGED <<scheduled, held, spent>>

\* Mutant: marks the notification although the row was settled before.
SettleRowAndNote(d, outcome) ==
  /\ note' = [note EXCEPT ![d[1]] =
       CASE outcome = "delivered" -> "delivered"
         [] outcome \in {"dead", "expired"} -> "failed"
         [] OTHER -> @]
  /\ IF status[d] = "pending"
     THEN /\ status' = [status EXCEPT ![d] = IF outcome \in Final THEN outcome ELSE "pending"]
          /\ due' = Without(due, {d}) /\ leased' = leased \ {d}
          /\ held' = IF outcome \in Final THEN held \ {d} ELSE held
          /\ spent' = IF outcome = "retry" THEN spent \cup {d} ELSE spent \ {d}
          /\ UNCHANGED scheduled
     ELSE UNCHANGED rowVars

\* settle_delivery: only a pending row is settled; its lease is cleared,
\* whoever holds it. A row that waits has a later attempt.
SettleRow(d, outcome) ==
  IF status[d] = "pending"
  THEN /\ status' = [status EXCEPT ![d] = IF outcome \in Final THEN outcome ELSE "pending"]
       /\ due' = Without(due, {d})
       /\ leased' = leased \ {d}
       /\ held' = IF outcome \in Final THEN held \ {d} ELSE held
       /\ spent' = CASE outcome \in Final -> spent \ {d}
                     [] outcome = "retry" -> spent \cup {d}
                     [] OTHER -> spent
       /\ note' = [note EXCEPT ![d[1]] =
            CASE outcome = "delivered" -> "delivered"
              [] outcome \in {"dead", "expired"} -> "failed"
              [] OTHER -> @]
       /\ UNCHANGED scheduled
  ELSE UNCHANGED <<rowVars, note>>

\* The attempt ends with its settlement. If the settlement itself fails, the
\* job's run ends at once and the run's other attempts go on with nobody
\* waiting for them; the settlement may have been written all the same.
EndsWith(a, outcome) ==
  \/ /\ SettleRow(a.row, outcome)
     /\ inflight' = inflight \ {a}
     /\ UNCHANGED faults
  \/ /\ faults < MaxFaults /\ faults' = faults + 1
     /\ \/ SettleRow(a.row, outcome)
        \/ /\ spent' = spent \cup Pending({a.row})
           /\ UNCHANGED <<status, due, scheduled, leased, held, note>>
     /\ inflight' = {IF b.worker = a.worker THEN [b EXCEPT !.current = FALSE] ELSE b :
                       b \in inflight \ {a}}

\* A failed sending waits for its next attempt while the hold lasts.
AfterFailure(d) == IF d \in held THEN "retry" ELSE "expired"

\* The destination is checked before anything is sent: it may be off the
\* allowlist, or its channel not configured.
Refuse(a) ==
  /\ a.stage = "claimed"
  /\ EndsWith(a, "dead")
  /\ UNCHANGED <<acked, circuit, reading, history>>

\* Mutant: defers again although the hold has run out.
DeferAlways(a) ==
  /\ a.stage = "claimed" /\ circuit[a.worker].open
  /\ EndsWith(a, "deferred")
  /\ UNCHANGED <<acked, circuit, reading, history>>

\* With the relay's circuit open nothing is sent.
Defer(a) ==
  /\ a.stage = "claimed" /\ circuit[a.worker].open
  /\ EndsWith(a, IF a.row \in held THEN "deferred" ELSE "expired")
  /\ UNCHANGED <<acked, circuit, reading, history>>

Send(a) ==
  /\ a.stage = "claimed" /\ ~circuit[a.worker].open
  /\ inflight' = Restaged(a, "sending")
  /\ UNCHANGED <<rowVars, note, acked, circuit, reading, history, faults>>

\* The relay takes the message and says so; the circuit closes.
RelayAccepts(a) ==
  /\ a.stage = "sending"
  /\ inflight' = Restaged(a, "accepted")
  /\ circuit' = [circuit EXCEPT ![a.worker] = Closed]
  /\ sent' = Took(a.row)
  /\ UNCHANGED <<rowVars, note, acked, reading, excused, faults>>

\* The relay refuses this message or recipient: it is working.
RelayRefuses(a) ==
  /\ a.stage = "sending"
  /\ EndsWith(a, "dead")
  /\ UNCHANGED <<acked, circuit, reading, history>>

\* No answer in time, a connection lost or an error status; the relay may
\* have taken the message all the same.
SendFails(a) ==
  /\ a.stage = "sending"
  /\ circuit' = CircuitFails(a.worker)
  /\ \E taken \in BOOLEAN :
       /\ sent' = IF taken THEN Took(a.row) ELSE sent
       /\ excused' = IF taken THEN excused \cup {a.row} ELSE excused
  /\ EndsWith(a, AfterFailure(a.row))
  /\ UNCHANGED <<acked, reading>>

Delivered(a) ==
  /\ a.stage = "accepted"
  /\ SettleRow(a.row, "delivered")
  /\ inflight' = inflight \ {a}
  /\ UNCHANGED <<acked, circuit, reading, history, faults>>

\* The settlement of an accepted message fails, or is written and its answer
\* lost: the same catch takes it for a failed sending and settles it as one.
DeliveredNotSettled(a) ==
  /\ faults < MaxFaults /\ a.stage = "accepted"
  /\ faults' = faults + 1
  /\ \/ SettleRow(a.row, "delivered") /\ UNCHANGED excused
     \/ SettleRow(a.row, AfterFailure(a.row)) /\ excused' = excused \cup {a.row}
  /\ inflight' = inflight \ {a}
  /\ circuit' = CircuitFails(a.worker)
  /\ UNCHANGED <<acked, reading, sent>>

\* The process stops: its attempts and its circuit are gone, its leases stay.
Stop(w) ==
  /\ faults < MaxFaults
  /\ \E a \in inflight : a.worker = w
  /\ faults' = faults + 1
  /\ inflight' = {a \in inflight : a.worker # w}
  /\ spent' = spent \cup Pending({a.row : a \in {b \in inflight : b.worker = w}})
  /\ excused' = excused \cup
       {a.row : a \in {b \in inflight : b.worker = w /\ b.stage = "accepted"}}
  /\ circuit' = [circuit EXCEPT ![w] = Closed]
  /\ UNCHANGED <<status, due, scheduled, leased, held, note, acked, reading, sent>>

-----------------------------------------------------------------------------

Proceed(a) ==
  \/ Refuse(a) \/ Defer(a) \/ Send(a)
  \/ RelayAccepts(a) \/ RelayRefuses(a) \/ SendFails(a) \/ Delivered(a)

Next ==
  \/ \E n \in Note : QueueDelivery(n) \/ Acknowledge(n)
  \/ \E n \in Note, a \in Admin : ReadLatest(a, n)
  \/ \E a \in Admin : InsertResend(a)
  \/ \E d \in Row : FallDue(d) \/ HoldEnds(d) \/ LeaseLapses(d)
  \/ \E w \in Worker : CircuitCools(w) \/ Claim(w) \/ Stop(w)
  \/ \E a \in inflight : Proceed(a) \/ DeliveredNotSettled(a)

Spec == Init /\ [][Next]_vars

\* Some leader's outbox job runs every few seconds, each exchange with a relay
\* has a timeout, and time passes. Nobody need resend or acknowledge, and
\* circuits need not cool; faults are finitely many.
Fairness ==
  /\ WF_vars(\E w \in Worker : Claim(w))
  /\ \A w \in Worker, d \in Row :
       WF_vars(\E a \in inflight : a.worker = w /\ a.row = d /\ Proceed(a))
  /\ \A d \in Row : WF_vars(FallDue(d)) /\ WF_vars(HoldEnds(d)) /\ WF_vars(LeaseLapses(d))

FairSpec == Spec /\ Fairness

-----------------------------------------------------------------------------
(* Properties *)

\* The relay takes a message twice only for one of those causes: no retry, no
\* overlapping leader and no restart of the job sends a delivery again.
SentOnce == \A d \in Row : sent[d] > 1 => d \in excused

\* A notification reads as its latest delivery does: failed and delivered
\* when that is, pending while it waits; whichever worker settled last. A
\* withdrawal after a resend breaks this (PendingIsQueued), so it is claimed
\* until the recipient acknowledges.
NoteTellsLatest ==
  \A n \in Note \ acked : \A k \in Stored(n) : IsLatest(n, k) =>
    note[n] = CASE status[<<n, k>>] = "pending" -> "pending"
                [] status[<<n, k>>] = "delivered" -> "delivered"
                [] OTHER -> "failed"

\* A notification that waits has a delivery that waits. "Their queued
\* deliveries and their notifications are removed", the migration says of a
\* withdrawal; a resent fallback's notification is not, and waits for ever.
PendingIsQueued ==
  \A n \in Note : note[n] = "pending" =>
    \E k \in Stored(n) : status[<<n, k>>] = "pending"

\* A withdrawn fallback was never sent, and is not sent later: an attempt
\* deferred by a circuit gives its count back, one under way does not.
WithdrawnIsUnsent ==
  \A d \in Row : status[d] = "withdrawn" =>
    sent[d] = 0 /\ \A a \in inflight : a.row # d

\* A settled delivery stays as it was settled: a slow attempt's retry or
\* failure never undoes what another worker's attempt reported.
SettledStays ==
  [][\A d \in Row : status[d] \in Final => status'[d] = status[d]]_vars

\* Every queued delivery is settled in the end: no stop, lost settlement,
\* lapsed lease or open circuit leaves a row waiting beyond its hold.
EveryDeliverySettles ==
  \A d \in Row : status[d] = "pending" ~> status[d] # "pending"
=============================================================================
