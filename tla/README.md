# Open Source EOC: verification project

TLA+ specifications of the parts of Open Source EOC where order, failure and
concurrency decide whether field work is lost, doubled or shown stale; TLC
configurations that check them on small instances; and TLAPS proofs of what
matters most for every size.

The program is a TypeScript server (`server/`) over PostgreSQL, a browser
client (`web/`) that goes on working without a connection, and shared schemas
(`shared/`). `PROJECT.json` lists every component, run, mutant, mapped line,
finding, hazard and theorem.

| Module | What it is | Code |
| --- | --- | --- |
| `ExactlyOnce` | abstract: what the field operation route promises | `sync/late.ts` |
| `FieldOperations` | the route, late submissions, decisions, closure, as PostgreSQL transactions | `sync/late.ts`, `incidents/`, `messaging/`, `db/context.ts`, migration 0166 |
| `FieldOutbox` | the device's outbox and completion queue; `ExactlyOnce` is its server | `web/src/offline/outbox.ts`, `task-completions.ts`, `task-continuity.ts` |
| `SyncHub` | one board's live document, log, snapshot, followers | `sync/hub.ts`, `sync/routes.ts`, `boards/record-sync.ts` |
| `DeliveryOutbox` | the outbound delivery queue, its workers, resends and withdrawals | `notify/outbox.ts`, `notify/routes.ts`, `notify/mass.ts`, migrations 0103, 0143, 0151 |
| `Scheduler` | the leader's lock and three ways a job claims its work | `scheduler/scheduler.ts`, `reports/job.ts`, `plans/service.ts`, `meetings/service.ts` |
| `AuditForwarding` | audit events sent to a syslog collector behind a mark | `audit/syslog.ts`, migration 0110 |
| `TwoPersonSend` | abstract: the two-person rule for public alerts | `docs/IPAWS-ENABLEMENT.md`, `ipaws/service.ts` |
| `IpawsSend` | requests, confirmation, the call and its record | `ipaws/service.ts`, `ipaws/connector.ts`, migration 0112 |
| `FederationExchange` | one board shared with one peer, pushed and carried in files | `federation/service.ts`, `notify/outbox.ts`, migrations 0142, 0144 |
| `ResourceRequests` | moves, assignment, delivery, escalation, peers' reports | `resource/service.ts`, `shared/src/resource/lifecycle.ts`, migrations 0130, 0138, 0141 |
| `*Proofs` | theorems about `FieldOperations`, `FieldOutbox`, `SyncHub`, `DeliveryOutbox`, `IpawsSend`, `FederationExchange`, `ResourceRequests`; `JobsProofs`, about `Scheduler` and `AuditForwarding` | |
| `MC*` | small instances of each for TLC | |

## 1. Inventory

### Modelled

**Field operations (server).** State: the incident's `closed_at`, each
operation's effect (a message, a task, a completion), `field_operations`
receipts, `late_submissions` and their status, and the open transactions with
the locks and uncommitted keys they hold. Operations: the field operation
route (`runFieldOperation`), keeping a submission that finds its incident
closed, accepting and refusing one, closing and reopening the incident,
changes of a sender's authority, and the process stopping. Hard: duplicates and
retries of one request in flight together; the closure racing a write; a
decision racing a retry; an acceptance that runs a second transaction inside
its own; a stop between any two commits. Correct when an operation has one
effect exactly when it has a receipt, nothing lands in a closed incident, a
decision stands and says what happened, and every transaction ends.

**Device queues (browser).** State: two IndexedDB lists, the promise chain of
each object over them, the passes in progress, requests in flight. Operations:
entering work with or without a connection, the pass over the queue, receipts,
late receipts, refusals, discard, a page closing. Hard: reads and writes of the
list are separate IndexedDB transactions; passes overlap; answers are lost; the
page goes at any moment. Correct when work leaves the device only on the
server's receipt or its person's discard, and what waits is settled in the end.

**Sync hub (server).** State: the log `sync_updates`, the snapshot, the template
version; in memory the entry of each open scope with its document, subscribers,
count of applies and idle timer. Operations: opening (`entry()` with its
transaction, the cached or hydrated document, compaction), subscribing and
leaving, applying, REST writes folded in, template upgrades, eviction, restart.
Hard: everything `entry()` read may have changed after its await; a commit is
heard in a later turn than it happened; entries are replaced while others hold
them. Correct when a snapshot never claims an update it lacks, a subscriber
hears everything announced, the served document holds what is committed, and an
unused entry is dropped.

**Delivery outbox (server).** State: `delivery_outbox` rows with their lease,
attempts, next attempt and hold, the notification each answers for, and in
memory each worker's circuit per relay. Operations: queueing, claiming a batch,
one attempt, settlement, a resend by an administrator, withdrawing a fallback
once its recipient acknowledges. Hard: an attempt may outlive its lease; a
settlement does not ask whose claim it settles; a stop, or a settlement that
fails, between the relay's answer and the row's. Correct when the relay takes a
message twice only for one of those causes, a settled row stays settled, a
notification tells what became of its latest delivery, a withdrawn fallback was
never sent, and everything queued is settled.

**Scheduler (server).** State: PostgreSQL's advisory lock and who thinks it
leads, timers, runs under way, and each job's claim of its work. Operations:
contending, checking, stepping down, stopping, a job's run. Hard: a lock
session is lost unnoticed, so leaders overlap. Correct when overlapping leaders
come down to one, a job never overlaps itself on a node, what is claimed under
a lock or by moving it on is done once, and what falls due is claimed.

**Audit forwarding (server).** State: the mark in the audit settings and each
run's horizon and batch. Hard: transactions commit in another order than their
ids, two leaders forward at once, and a run fails between sending and
advancing. Correct when the mark passes nothing, the collector hears in order,
and every event reaches it.

**IPAWS sends (server).** State: send requests, submissions, the COG's
configuration. Hard: the call is made between two transactions, while others
confirm, cancel and reconfigure. Correct when what airs was asked by one person
and agreed by another, once, and the record says what happened.

**Federation (server).** State: agreements, the queue for the peer, batches in
flight, files, what the peer has applied and imported. Hard: no lease on a
batch, answers lost, one batch by two ways, part of a batch applied, revocation
and a new agreement at any moment. Correct when every edit is at the peer or
waits for it, deletions reach it, nothing is marked delivered that was not
applied, and entries keep their order.

**Resource requests (server).** State: requests, the resources given to them,
deliveries, escalations. Hard: a state read before its lock and moved after; a
count of what a request has; a delivery to the peer between two transactions.
Correct when quantities hold, people follow the table, and a request is
escalated once.

The parts interact as follows. A device's queue posts to the field operation
route; the route runs the same service functions as the online routes; late
board edits go through the hub instead. Record writes over REST append to the
same log the hub replays and are handed to it after their commit
(`afterCommit`, `db/context.ts`).
The scheduler's `outbox` job is `DeliveryOutbox`'s worker and
`FederationExchange`'s, and its `syslog` job `AuditForwarding`'s: those three
take from `Scheduler` that several workers may run at once, as leaders overlap.
A mass notification's and a report's messages, and an escalation's notices, are
rows of the delivery outbox.

### Not modelled, and why

Two kinds of code make up nearly all of the 126,000 lines, and neither has
states for a model to find. The React surfaces, launchers, basemap and load
tools, and the API client are interface, packaging and pass-through. Plans,
reports, ICS forms and action plans, damage assessment, facilities, maps,
dashboards, contacts, CAP, EDXL, CoT, ESF, feeds, data packs, exports and
after-action review change their own rows in one transaction each, or convert
formats: the database serializes what could interleave. So the map covers a
small share of the lines, of the code where order, failure and concurrency
decide, and a larger share would be lines no definition stands for. Password,
TOTP, envelope and signature arithmetic is library code. `PROJECT.json` gives
a reason for each component.

These have behaviour worth a model, and none yet:

| Component | What reading it showed |
| --- | --- |
| Device store and PIN vault | Two tabs of one person: a PIN set in one leaves the other writing to the clear store, and the next move drops the clear copy of a key the sealed store already holds (`store.ts:240-262`); the clear database is deleted after what was left in it was counted (`store.ts:265`) |
| Board field client | Exact operations replayed to the hub by id; `SyncHub` has the server's side |
| Sign-in and positions | Two reassignments of one position that cross leave two holders (`auth/service.ts:314`); the principal cache's load races a forget |
| Files | Bytes are staged before the transaction that takes the quota's lock |
| Retention purge | A notification's purge lists those that wait for no delivery, then deletes all their rows by id: a resend that commits between the two loses its row and its notification, which "still waiting on a delivery is kept" (`0146_outage_retention.sql:49-61`) |
| Board workflow | Transitions under the incident's and the board's locks |

Within the modelled components: rules, rosters, call-down stages and relay
protocols (`DeliveryOutbox`); what each job computes (`Scheduler`); message
format (`AuditForwarding`); the memorandum, certificate expiry, XML
and signatures (`IpawsSend`); keys, several boards in one batch and its byte
budget (`FederationExchange`); costs, kinds and imports (`ResourceRequests`).

## 2. FieldOperations

One process, a pool of connections `Conn`. `tx[c]` is the statement connection
`c` is at, the operation it is about, whether it has written its effect, and
(`by`) the acceptance it runs for. A transaction is READ COMMITTED: an action
is one statement, or statements no other transaction can tell from one; what it
writes is visible to others at the commit action only, and locks and keys are
functions of `tx`:

| In the code | In the module |
| --- | --- |
| `lockIncidentMutation` | `HoldsIncident`, waited for in `RunTask`, `BeginClose`, `BeginReopen` |
| `select ... for share` in `post_incident_message` | `SharesIncidentRow`, waited for in `CommitClose` |
| `decidable ... for update` | `HoldsLateRow`, waited for in `AcceptLock`, `Refuse` |
| an open insert under a unique key | `InsertingEffect`, `InsertingReceipt`, `InsertingLate` |
| `runFieldOperation` | `Request`, `ReadPrior`, `ReadKept`, `ReadIncident`, then `KeepLate`, `CommitKept` or `PostMessage`/`RunTask`, `WriteReceipt`, `CommitRun` |
| `acceptLateSubmission` | `AcceptLock`, `AcceptCheckIncident`, `AcceptRunsAsSender`, (a run), `AcceptDecide` |
| the refuse route | `Refuse` |
| `closeIncident`, `reopenIncident` | `BeginClose`, `CommitClose`, `BeginReopen`, `CommitReopen` |
| an error answered with its status; a rollback | `Fail` |

The four kinds of operation take different guards in the code and in `Kind`: a
message to a thread of the whole incident shares the incident's row, one to a
thread with members looks at the incident not at all, a completion has its own
receipt, and a new task's only guard is the key of `field_operations`. So the
run with one task is the sharpest for duplicates. `told` is a history variable:
the answers each device was sent, on which it drops its copy.

| Run | Checks | Instance |
| --- | --- | --- |
| `field_task` | `AppliedOnce`, `AcceptedWasApplied`, `AnswersAreTrue`, `DecidedOnce`, the refinement `KeepsItsPromise`, and under fairness `EveryTransactionEnds` | one task, three connections, two decisions at a time |
| `field_two` | `NoWorkOnClosedIncident`, `KeepsItsPromise` | a completion and an incident-wide message, two connections |

Bounds. Three connections let an acceptance, the run inside it and a device's
retry be open together, which is every pair of actors that touch one operation;
the closure takes any of them. Nothing else is bounded: requests, retries,
decisions, closures, reopenings and stops happen any number of times.
Operations share only the incident and the pool; `field_two` has two for that.
`MaxDeciders` is the one bound on load; with it at the size of the pool the
server starves (section 13).

Fairness. PostgreSQL serves a lock and a key, and postgres.js a connection, in
the order they were asked for, so a step of a transaction that can run again
and again does (strong fairness of each connection's steps). Nothing is assumed
of requests, decisions, closures or stops.

## 3. FieldOutbox

`stored` is the list under the IndexedDB key, `chain[b]` the changes queued in
one object's promise chain, `read[b]` what its first change has read; `call`
is each pass and each operation sent when entered. One module stands for both
queues, and `Init` chooses: with `keeps` it is `FieldOutbox`, which marks a
refusal and goes on; without, `TaskCompletionQueue`, where a refusal ends the
pass. The server is `ExactlyOnce` with the route's reads and its run as separate
steps, so requests cross. `FieldOperations` implements `ExactlyOnce` (section
11), so what the device relies on is what the server keeps.

| Run | Checks | Instance |
| --- | --- | --- |
| `queues` | `SentIsStored`, `LeavesOnReceipt`, and under fairness `QueueDrains` | two operations; one pass over the outbox or two over the completions, one page close |
| `outbox_boxes` | finds `LeavesOnReceipt` violated | two outbox objects over one key |

Bounds. Two operations let a change of one cross a change of the other, and put
one behind the other in the queue. Two passes are the `online` event and the
panel. One page close can fall at any step, and what it interrupts is begun
again. `SentIsStored` is asked of completions only, since the outbox
sends what is entered with a connection before it stores it; `QueueDrains` of
the outbox only, since a refused completion stops those behind it (section 13).

Fairness. The page runs what it has started (weak). A request that can be served
again and again is served past each of its steps (strong): the device comes
online again and the API does not fail for ever. Pages close finitely often.

## 4. SyncHub

A document is the set of the updates in it, since Yjs updates commute and
repeat harmlessly. `heap` holds every entry ever made, because callers keep
references to entries the map has dropped; `current` is the map's. `subs[r]` is
a subscribers Set made with entry `r`: a rebuilt entry takes over its
predecessor's Set (`room`). `call[c]` is where an open or an apply is, and the
image it carries across its awaits. `unheard` are commits whose `afterCommit`
has not run. What runs between two awaits is one action: `Load` is `entry()`'s
transaction; `Reload`, `Adopt`, `Install` and `Compact` what it does after it;
`Commit`, `HearApply` and `Save` the transaction, the listener and the snapshot
of `applyLocked`. `Evict` is the idle timer.

| Run | Checks | Instance |
| --- | --- | --- |
| `hub` | `SnapshotWhole` | a member, a guest, two applies, a triggered write, one upgrade, commits heard in any order |
| `hub_applies` | `SubscribersHearAll`, `DocumentHoldsApplies`, and under fairness `IdleIsDropped` | two sockets, two applies, a REST write, a triggered write, one restart, one template version |

Bounds. Two of each caller make every race over one entry: a third would join
one of the two sides. A threshold of 2 makes a snapshot come both from an apply
and from a long replay, and leaves updates after it. One upgrade and one restart
each fall anywhere.

Assumptions. The idle timer outlasts a transaction that was open when it was
set (`before`): the grace period is 60 s by default and one hydration takes
milliseconds to seconds. `InOrder`, in `hub_applies` only, says the process hears commits in the
order they happened, which one connection per transaction does not promise;
`hub` and the proof of `SnapshotIsWhole` do without it. Fairness is weak: transactions end, what was
registered after a commit runs, timers fire. Nobody has to open, write or
leave.

Left out: record deletions, the checkpoint's conflicts per field, incident
documents with their projection per reader, exact replays by operation id, and
federation's queueing.

## 5. DeliveryOutbox

Time is what the code compares: `due` is the pending rows whose
`next_attempt_at` has come, in that order; `leased` the rows under a lease that
has not lapsed; `held` those whose hold has not run out. An attempt is a record
of `inflight` with the stage it has reached; `current` says the worker's drain
still waits for it, so that a drain that a failed settlement ended may begin
again beside what it left.

| In the code | In the module |
| --- | --- |
| `claim_deliveries` | `Claim`: `FirstDue` rows of `Claimable`, in one statement with their lease |
| `deliverOne` | `Refuse`, `Defer`, `Send`, `RelayAccepts`, `RelayRefuses`, `SendFails`, `Delivered` |
| `settle`, `settle_delivery` | `EndsWith`, `SettleRow`; `DeliveredNotSettled` is the catch that takes a failed settlement for a failed send |
| `notifyRecipient` | `QueueDelivery` |
| the resend route, `resend_delivery` | `ReadLatest`, `InsertResend` |
| `withdraw_mass_fallbacks` | `Acknowledge` |
| `circuits`, `recordFailure` | `circuit`, `CircuitFails`, `CircuitCools` |
| the clock | `FallDue`, `HoldEnds`, `LeaseLapses` |

`sent` counts, up to two, how often the relay took a row; `excused` are rows
for which a cause of a second sending is known: an attempt outlived its lease,
the relay's answer was lost, or its settlement was, or the process stopped
between them. `SentOnce` says there is no other cause.

| Run | Checks | Instance |
| --- | --- | --- |
| `delivery` | `SentOnce`, `NoteTellsLatest`, `WithdrawnIsUnsent`, `SettledStays`, and under fairness `EveryDeliverySettles` | a fallback that may be resent once, two workers, a circuit that opens at one failure, one fault; or two notifications in batches of two and one worker |

Bounds. Two workers on one row are the overlap a lapsed lease allows; a third
would repeat one of them. A fallback with one resend meets every operation. One
fault falls at any step, including between an answer and its settlement. A
second notification puts two attempts in one drain, for the settlement that
fails and leaves the other going; to keep the states in hand it is queued only
where the constraint `OneWorkerForTwo` says: one worker, nothing resent or
acknowledged, at most one row excused.

Fairness (weak). Some leader's job runs every few seconds (`Scheduler`'s
`DueIsClaimed`), each exchange has a timeout, time passes. Nobody need resend
or acknowledge, and a circuit need not cool: a row that is only ever deferred
expires with its hold.

## 6. Scheduler

`leader` are the nodes that take themselves for the leader, `elected` those
whose lock session is still the one that was elected, and `holder` whose
session PostgreSQL says has the lock (`Orphan`: one whose client is gone).
`armed` is the timers, `runs` the runs under way with how far their claim is. A
leader that lost its session goes on until its next check, and its runs go on
after it. A job claims its work in one of three ways:

| Kind | Code | Steps |
| --- | --- | --- |
| `report` | `reports/job.ts` | `ClaimReport` moves `next_run_at` on in a transaction of its own, then `RunReport`, `RecordReport` |
| `row` | releases, reviews, rules, call-downs | `LockRow`, `CommitRow`: locked, done and marked in one transaction |
| `briefing` | `meetings/service.ts` | `ReadBriefing`, `CommitBriefing`: read with no lock, stamped whatever it now says |

| Run | Checks | Instance |
| --- | --- | --- |
| `scheduler` | `NeverOverlapsItself`, `OncePerOccasion`, and under fairness `OverlapEnds`, `DueIsClaimed` | two nodes, a job of each kind, each falling due once, two faults |

Bounds. Two nodes are a leader and its successor. Two faults let a session be
lost and, in the overlap, a run fail or a node stop. Each kind has one piece of
work, since jobs share no state but the lock.

Fairness (weak). The election and the jobs run on timers, a run's queries end,
and the server ends a session whose client is gone. A stopped node need not
start again, so `DueIsClaimed` allows that no node is up.

## 7. AuditForwarding

Transactions have ids in the order they begin and end in any order, writing
their events when they commit. A forwarder's run is `ReadHorizon` (the oldest
transaction still running), `SetMark` (the first time), `ReadEvents` (a batch
after the mark and below the horizon), `Send`, `Advance`. `sent` is what the
collector has been sent. `Send` hands over one event, since a datagram is
one and a connection may break after any. Over TCP the code waits for the
socket's `finish`, which is the operating system's word and not the collector's;
the model takes it for delivery. The audit trail is never purged, so no event
goes away before it is sent.

| Run | Checks | Instance |
| --- | --- | --- |
| `syslog` | `MarkPassesNothing`, `HeardInOrder`, and under fairness `EveryEventForwarded` | three transactions of up to two events, two forwarders, batches of two, one failure |

Bounds. With three transactions one can end before, one inside and one after
the horizon. Batches of two cut a transaction's events from the next one's. Two
forwarders are two leaders, one slow.

Fairness (weak). The job runs on a timer, its calls end, and so do
transactions.

## 8. IpawsSend, TwoPersonSend

A certificate is the COG id its CN contains. `calls` are confirmations in
progress: `CheckConfirm` locks the request and checks it, its requester and the
configuration, `ClaimConfirm` commits the claim, then IPAWS-OPEN is called with
no transaction open (`CallRefused`, `CallUnanswered`, `CallAccepted`,
`CallRejected`), and `RecordSubmission` writes what came of it. A rejection is
every answer but a clean acceptance (`connector.ts:287-345`), a SOAP fault or a
body that cannot be read among them, so the alert may have aired or not, as
after no answer; `RecordTellsTruth` speaks of the other two outcomes. `CutOff` is the process stopping, or
the second transaction failing, anywhere in between. `WriteConfig` and
`SetEnabled` run between any of these, under no lock.

`TwoPersonSend` has four actions: `Ask`, `Agree` (someone else), `Withdraw`,
`Air`. `IpawsSend` implements it with `asked`, `agreed` and `over` read off the
request's row (`Rule`).

| Run | Checks | Instance |
| --- | --- | --- |
| `ipaws` | `RecordTellsTruth`, `HandshakeStaysInTest`, the refinement `KeepsTwoPersonRule`, and under fairness `ConfirmedIsRecorded` | one request, three administrators, two COGs, three edits, one fault |

Bounds. One asks and two confirm at once, or one confirms and one cancels.
Requests share only the configuration. Three edits let it be set, pointed
elsewhere and switched off around one confirmation.

Fairness (weak). The call has a timeout and the transactions end. Nobody need
confirm.

As the code has it: a confirmation that read the configuration goes on though
it is disabled before the claim commits; one alert may have two requests; a
lapsed request can still be cancelled.

## 9. FederationExchange

One board and one peer. A record is its edits, numbered; `queue` is
`federation_outbox` in order, `delivered` and `dropped` what became of its
entries. `pushing[w]` is the batch a worker claimed, `requests` the batches the
peer has in hand, from a worker, a file, or a worker that gave up waiting;
`left` is what the peer has yet to apply of a batch, a set: its updates first and
then its deletions, each in queue order (`Before`). `copy` and `buried` are the
peer's document and its tombstones.

The code sorts the queue by `created_at`, the moment an entry is queued
(`0144_federation_batches.sql:14`), and here entries follow one another as their
writes commit: the same order, since a write holds its record from before it
queues to its end. The parts of a backfill are queued in the order their records
were created; the module does not keep that order, and allows every one.

| In the code | In the module |
| --- | --- |
| a record write, its deletion | `BeginWrite`, `CommitWrite` (the agreement is read at the start) |
| sharing, its backfill | `BeginShare`, `CommitShare` |
| revocation | `Revoke`: what waits is dropped |
| claim, push, mark | `Push`, `MarkDelivered`, `GiveUp` |
| the peer's receipt of a batch | `Check` or `Refuse`, `Apply` for each update, `Fail`, `Done` |
| files and receipts | `ExportFile`, `ImportFile`, `ImportReceipt` |

| Run | Checks | Instance |
| --- | --- | --- |
| `federation` | `TypeOK`, `NothingLost`, `DeletionsReach`, `DeliveredIsApplied`, `DeliveredInOrder`, and under fairness `EditsArrive` | one record edited twice, one worker, two agreements, one file, batches of two, one fault |

Bounds. One record has every order of edit and deletion. A worker that gave up
and pushed again has two batches at the peer, which is what two workers would
do, and a file is a third way for the same entries; a second worker or record
takes TLC beyond its time. Two agreements put a revocation between them.
`Overlaps = FALSE` keeps writes out of the transaction that shares the board;
section 13 says what happens without.

Fairness (weak). Transactions end, the worker runs, the peer handles what
reaches it. Nobody need share, write, revoke, carry a file or repair a refusal.

## 10. ResourceRequests

Each operation is one READ COMMITTED transaction, split where it reads without
a lock what it relies on later; `tx[a]` is what actor `a` has read.

| In the code | In the module |
| --- | --- |
| moving a request | `BeginMove`, `EndMove` (the update asks for the state read) |
| assignment | `Assign`, under the row's lock |
| the assigned participant's delivery steps | `BeginDelivery` (the step is checked on the state read), `RecordDelivery` (and again on the locked row) |
| escalation | `Claim`, then `Deliver`, `GiveUp` or `TakenLate`, then `RecordEscalation`; a stopped process's claim lapses (`Lapse`) |
| a peer's report, on any request of the organization, escalated or not | `BeginReport`, `EndReport` (the update asks for no state) |
| giving a resource | `BeginTake`, `Count` (the request's lock is held from here), `EndTake` |
| the pool | `MoveResource` |

| Run | Checks | Instance |
| --- | --- | --- |
| `resources` | `QuantityHolds`, `EscalatedOnce`, `PeopleFollowTable` | two requests of one resource each, two resources, two actors, three moves, one fault |

Bounds. Two actors make every race over one request or resource. Requests start
sourcing, where resources are given, or deployed, where a person may move one to
either of two states and the participant to one of them; three moves
take them to deployed, or from there to their end. The states before have the
same moves and races, and the theorems cover them. A count has room for one, where the race is. Nothing
must eventually happen: people move requests or do not.

## 11. What is proved

For every value of the constants, by TLAPS.

**FieldOperationsProofs.** The inductive invariant is `IInv`
(`FieldOperations`). The safety properties alone are not inductive: that a run
at its commit will be the first depends on what it read earlier and on what
nobody else can have done since. `IInv` adds `WellFormed` (a run serves a
device or one waiting acceptance, of the same operation), `LocksExclude` (no
two transactions hold one lock or one uncommitted key) and `ReadsStayTrue` (what
was read under a lock still holds: a row locked for decision is pending, a run
that wrote a receipt finds none committed, an effect other than a member
thread's was written to an open incident). From it:

| Theorem | Property |
| --- | --- |
| `Invariant` | `IInv` |
| `TypeCorrect` | `TypeOK` |
| `EffectsOnce` | `AppliedOnce` |
| `AcceptedApplied` | `AcceptedWasApplied` |
| `TrueAnswers` | `AnswersAreTrue` |
| `DecisionsStand` | `DecidedOnce` |
| `ClosedStaysClosed` | `NoWorkOnClosedIncident`, if no operation is for a member thread |
| `ImplementsExactlyOnce` | `KeepsItsPromise`, if no operation is for a member thread |

The condition on the last two is the code's own: `messaging/service.ts:109`
posts to a thread with members without looking at the incident. Assumptions:
`OpAssumption`, `ConnAssumption`, `DecidersAssumption`. The proof has one
lemma per action; `Finish` and `Fail`, which end a run and wake the acceptance
that waits for it, have their own.

**FieldOutboxProofs.** Where one object changes the list (`OneObject`: two break
it, section 12). `IInv` says that a caller has one request, for its current
operation (`Requested`), or one change in the promise chain (`Chained`); that
what a change has read is still what is stored (`ReadStands`), which the chain
is for; and that what a pass over the completions has yet to send is stored or
settled (`PassHolds`), which is what crossing passes need, each with its own
snapshot of the list. `LeavesOnReceipt` is not inductive without the chain: a
drop is asked for when the receipt is heard and written several changes later,
so `Chained` carries it that a drop's operation is settled, and what is settled
stays so (`Grows`). Nothing depends on how many operations, passes, refusals and
page closes there are, or on which answers are lost.

| Theorem | Property |
| --- | --- |
| `SentStored` | `SentIsStored` |
| `LeavesWhenSettled` | `LeavesOnReceipt` |
| `HeldOnce` | the list holds an operation once (no run) |

`HeldOnce` is also why `Without`, which takes out one item, is the code's
`filter`.

**SyncHubProofs.** `HubInv` says that whatever may become a snapshot is sound:
it holds every update of the log up to the number that would go with it. That
is the stored snapshot, every entry's document and every image a caller carries
across an await. `SnapshotWhole` alone is not inductive, because a snapshot is
written from an image taken several steps and perhaps one template version
before. Updates only enter a document and the log only grows, so an image that
was sound stays sound, however late, out of order or from a replaced entry it is
written. No assumption on the order of commits, the number of versions,
restarts or guests.

`AllHear` is about a board that keeps its template version (`MaxVersion = 1`;
an upgrade breaks it, section 13). `LiveInv` says that whoever uses an entry has
the one in the map (`Follows`), that its count of open applies is exact and a
running timer waits for everyone who may still install or save (`Kept`), so that
no entry in use is evicted, and that a joined session is in the map's Set and
holds what it is owed (`Heard`). Both halves are needed: a session that had another entry
would miss what is announced to the map's, and only the timer's assumption keeps
an entry in the map while someone who holds an image may install it.

`HoldsApplies` assumes besides that commits are heard in order and that no
guest opens a board with updates that wrote no row; section 13 has a
counterexample for each. `DocInv` says that what the document lacks is in a
commit still to be heard, that the image of a committed apply lacks only what
later unheard commits bring or what its own actions wrote, and that an image
about to be installed in an empty map lacks nothing. So the install that an
apply's commit brings, which replaces the document, loses nothing that is not
still to come.

| Theorem | Property |
| --- | --- |
| `SnapshotIsWhole` | `SnapshotWhole` |
| `ThroughHolds` | `ThroughIsTrue` (no run) |
| `AllHear` | `SubscribersHearAll`, for one template version |
| `HoldsApplies` | `DocumentHoldsApplies`, for one template version, commits heard in order, and no guest or no update without a row |

**DeliveryOutboxProofs.** `IInv` says of each row that an attempt on it means it
was queued and not withdrawn (`SendsCounted`), and of each row with no known
cause to be doubled that it has one attempt at most, under its lease, and was
sent only by that one (`OneAttempt`). Deliveries of a notification are numbered
without a gap (`Numbered`), so a resend never reuses a row. `SentOnce` is not
inductive without the lease: what forbids a second claim is that the first
attempt's row is leased until the attempt ends, or is excused. The order of due
rows plays no part.

| Theorem | Property |
| --- | --- |
| `SendsOnce` | `SentOnce` |
| `WithdrawnUnsent` | `WithdrawnIsUnsent` |
| `Settles` | `SettledStays` |
| `NotesTellTruth` | `NoteTellsLatest`, for one administrator |

`NotesTellTruth` has an invariant of its own, `NotesSound`: of an unacknowledged
notification's deliveries only the newest is pending, its notification is pending while it is
and tells its end once it ended, and what an administrator is about to resend is
the newest and has ended. A worker that settles late finds its row settled and
changes nothing. Two administrators who read one delivery as the newest break
it (section 13), hence the condition.

**JobsProofs, of Scheduler.** A job whose timer is set is not running, which a timer's
setting and a run's end keep up however often a node is elected; and what was
done, is in hand and is due of a report or a row never exceeds what fell due,
since taking in hand is the claim's own transaction.

| Theorem | Property |
| --- | --- |
| `RunsAlone` | `NeverOverlapsItself` |
| `OnceEach` | `OncePerOccasion` |
| `LeaderHolds` | `LeaderHoldsLock` (no run: only a lost session lets leaders overlap) |

**JobsProofs, of AuditForwarding.** Every horizon read is behind every transaction still
running, now and later, since ids are given in order; and a batch holds all that
is unsent from the mark it began at to its last event. So whoever advances
the mark last, everything up to it was sent.

| Theorem | Property |
| --- | --- |
| `MarkHolds` | `MarkPassesNothing` |
| `HeardOrdered` | `HeardInOrder` |
| `MarkStays` | `MarkNeverMovesBack` (no run) |

**IpawsSendProofs.** A request has one confirmation under way at most, and while
there is one the request is pending and locked, or confirmed by that caller and
without a record. What aired was claimed, so each step of `IpawsSend` is one of
`TwoPersonSend` or leaves it alone.

| Theorem | Property |
| --- | --- |
| `RecordTrue` | `RecordTellsTruth` |
| `HandshakeInTest` | `HandshakeStaysInTest` |
| `ImplementsTwoPersonRule` | `KeepsTwoPersonRule` |

**FederationExchangeProofs.** Two invariants. `QueueInv` is about the order: of
every batch, claimed, at the peer, in a file or named by a receipt, what is older
than one of its entries is in it or had stopped waiting when it was made
(`Leading`), so marking a whole batch leaves nothing older behind. `ShareInv` is
about what the peer has: while the board is shared every edit is in an entry no
revocation dropped (`Covered`); what a batch has applied stays applied, or its
record is buried (`Applied`); and a batch that deletes a record also creates it,
or follows a delivery that did (`Carries`, `CreatedBefore`), so the peer has the
record to bury and an older batch that arrives late finds the tombstone.

| Theorem | Property |
| --- | --- |
| `TypeCorrect` | `TypeOK` |
| `InOrder` | `DeliveredInOrder` |
| `NoneLost` | `NothingLost`, if no write overlaps a sharing |
| `MarkedIsApplied` | `DeliveredIsApplied`, under the same condition |
| `DeletionsArrive` | `DeletionsReach`, under the same condition |

The condition is `~Overlaps`: the code reads the records without the board's
lock, and section 13 shows what a write in between loses. `TypeCorrect` and
`InOrder` do without it. Assumptions: `FederationAssumption`; the numbers of
records, workers, files, shares and faults and the size of a batch are any.

**ResourceRequestsProofs.** The count a transaction made of a request's
resources stays true to its end, because giving the request another takes the
lock it holds; an escalation has its claim to itself until it releases it.

| Theorem | Property |
| --- | --- |
| `WithinQuantity` | `QuantityHolds` |
| `EscalatesOnce` | `EscalatedOnce` |
| `FollowsTable` | `PeopleFollowTable` |
| `OneDelivery` | `OneAtATime` (no run) |
| `FreedBetween` | `ChangesHandsFreed` (no run) |

`OneDelivery` rests on `Lapse`, which takes a claim's minute to outlast a
delivery and its record.

Each of these modules also has `Invariant` and, but for `DeliveryOutboxProofs`
and `SyncHubProofs`, `TypeCorrect` (`ForwardInvariant` and `ForwardTypeCorrect`
for `AuditForwarding`). Assumptions are the named ones on each module's constants.

### Only model-checked

- Liveness (`EveryTransactionEnds`, `QueueDrains`, `IdleIsDropped`,
  `EveryDeliverySettles`, `OverlapEnds`, `DueIsClaimed`, `EveryEventForwarded`,
  `ConfirmedIsRecorded`, `EditsArrive`): the prover does not reason about
  fairness and `ENABLED`.
- `TypeOK` of `SyncHub` and `DeliveryOutbox` in full: the invariants have the
  parts they need, and the rest is of variables no theorem is about. The queue of
  due rows is filtered with `SelectSeq`, which the provers do not expand.

Every property of a passing run has a mutant: an operator beside the definition
it changes, marked `Mutant:`, with the change a plausible bug would make. TLC
finds the property violated with it in place.

## 12. Finding

`outbox_boxes` shows it. `outbox.ts:107`: the promise chain that keeps a read of
the list and its write together is per object, and each surface makes an object;
two of them overwrite each other's list, and an operation that was kept is gone
unsent, where `outbox.ts:14-16` says it "leaves only on the server's receipt".

## 13. Disagreements without a run

Each is in the modules as the code does it. Where a setting is given, the named
property, with the run's other constants unchanged, shows it.

| Where | What | Shown by |
| --- | --- | --- |
| `late.ts:344`, `db/context.ts:32` | an acceptance opens a transaction inside its own: as many decisions at a time as connections stop the server | `field_task`, `MaxDeciders = 3`: `EveryTransactionEnds` |
| `late.ts:346`, `late.ts:24` | work commits before its decision: a submission that is refused may have been applied | `field_task`: `RefusedIsNotApplied` |
| `hub.ts:776`, `hub.ts:50-52` | a first open hydrates without the board's lock and enters the map later; a REST write heard in between is in no document | `hub_applies`: `DocumentWhole` |
| `hub.ts:279`, `hub.ts:283` | after a template upgrade a follower releases the entry it captured, so the one in the map has no timer | `hub_applies`, `MaxVersion = 2`, one apply, one write, no restart: `IdleIsDropped` |
| `hub.ts:743-746` | after an upgrade, an apply whose cached entry was evicted meanwhile is handed the dead one, and members of the new one do not hear it | `hub_applies`, `MaxVersion = 2`: `SubscribersHearAll` |
| `hub.ts` | an upgrade while an apply is open leaves the rebuilt entry without it | the same: `DocumentHoldsApplies` |
| `hub.ts` | a guest's first open hydrates without the log, which row-level security hides, and members adopt that document | `hub_applies`, `Guest = {s1}`, `Partial = {a2}`: `DocumentHoldsApplies` |
| `hub.ts` | commits heard out of order install the older document until the next apply | `hub_applies`, `InOrder = FALSE`: `DocumentHoldsApplies` |
| `0151_reach.sql:13-15` | a withdrawal after a resend leaves the notification pending with no delivery | `delivery`: `PendingIsQueued` |
| `notify/routes.ts:604-606`, `0143:168` | two administrators resend one delivery, each reading it as the latest with no lock | `delivery`, two `Admin`s, three `Copies`: `NoteTellsLatest` |
| `meetings/service.ts:256-259` | "fires once": two overlapping leaders both notify | `scheduler`, `Job = {briefing}`, `Kind <- OneBriefing`: `BriefingFiresOnce` |
| `ipaws/service.ts:103-107` | two reconfigurations that cross store a COG id and a certificate neither checked | `ipaws`: `StoredPairWasChecked` |
| `federation/service.ts:142-148` | a board's records are read for a new agreement without its lock; a write that saw no agreement and commits after is never sent | `federation`, `Overlaps = TRUE`: `NothingLost` |
| `task-completions.ts:73`, `:61` | a refusal stops each pass, so completions behind it are never sent | `queues`, `Kinds = {FALSE}`: `QueueDrains` without its condition `keeps` |

Seen in the code and in the modules' actions, with no property:

- A closure that commits while a task's request is running turns it away with a
  409 (`tasks.ts:264`) rather than keeping it (`late.ts:22`).
- A message to a thread with members is inserted without looking at the incident
  (`messaging/service.ts:109`), so it lands in one that closed since the route
  read it.
- A retry that read before its first try committed may be refused, or be answered
  500 by the unique key, though the work is applied (`late.ts:19`).
- What is entered with a connection is sent before it is stored
  (`outbox.ts:200`, against `outbox.ts:14`), so a page that closes loses it.
- Late receipts are read and written outside the chain, so two at once keep one
  (`outbox.ts:49`, against `outbox.ts:43`).
- A delivery the relay took, whose settlement was lost, may end as "Expired, not
  sent" (`notify/outbox.ts:341`).
- A plan's release reads that the incident is open without its lock, and may
  commit into one that closed (`plans/service.ts:369-397`).
- A batch claimed before a revocation is pushed after it
  (`federation/service.ts:439-445`); a record deleted while its board was not
  shared is never deleted at the peer; an entry the peer refuses holds up those
  behind it.
- A report from the tier above overwrites a move it did not see, against
  `resource/service.ts:33-36`; a resource's type is changed while it is being
  assigned (`resource/service.ts:691-725`); a request cancelled between the
  check and the lock still takes a resource (`resource/service.ts:780`).
