----------------------------- MODULE Scheduler -----------------------------
(***************************************************************************)
(* The in-process scheduler (server/src/scheduler/scheduler.ts). Every     *)
(* node runs one; the node whose lock session holds PostgreSQL's advisory  *)
(* lock leads and runs the jobs. A session may be lost without its node    *)
(* noticing until its next check, and without the server noticing that the *)
(* client is gone; so leaders may overlap, and what keeps a job's work     *)
(* from being done twice is how each job claims it:                        *)
(*   report    next_run_at is moved in a transaction of its own, then the  *)
(*             report runs (reports/job.ts);                               *)
(*   row       the due row is locked, done and marked in one transaction   *)
(*             (rules, plan releases and reviews, call-downs);             *)
(*   briefing  due briefings are read, notified and stamped in one         *)
(*             transaction that locks nothing first (meetings/service.ts). *)
(*                                                                         *)
(* Each job here has one piece of work. Time is kept as whether the work   *)
(* has fallen due.                                                         *)
(***************************************************************************)
EXTENDS Naturals, FiniteSets

CONSTANTS
  Node,       \* processes with a scheduler
  Job,        \* jobs, each with one piece of work
  Kind,       \* each job's kind
  Occasions,  \* bound: how often a piece of work falls due
  MaxFaults,  \* bound: lost sessions, failed checks and stops
  Free,       \* the lock is free
  Orphan      \* the lock is held by a session whose client is gone

ASSUME SchedulerAssumption ==
  /\ Kind \in [Job -> {"report", "row", "briefing"}]
  /\ Occasions \in Nat \ {0} /\ MaxFaults \in Nat
  /\ Free # Orphan /\ Free \notin Node /\ Orphan \notin Node

Stage == {"listed", "claimed", "queued", "locked", "read"}
Run == [node : Node, job : Job, stage : Stage]

VARIABLES
  up,         \* nodes whose scheduler has started
  leader,     \* nodes that take themselves for the leader: leaderPid is set
  elected,    \* nodes whose lock session is still the one that was elected
  holder,     \* whose session holds the advisory lock
  armed,      \* jobs of a node that will run when their timer fires
  runs,       \* runs of jobs in progress
  due,        \* work that is due and not claimed
  fallen,     \* how often each piece of work has fallen due
  done,       \* how often each piece of work took effect
  recorded,   \* how often a report's run was recorded
  faults      \* faults so far

lockVars == <<up, leader, elected, holder>>
runVars == <<armed, runs>>
workVars == <<due, fallen, done, recorded>>
vars == <<up, leader, elected, holder, armed, runs, due, fallen, done, recorded, faults>>

TypeOK ==
  /\ up \subseteq Node /\ leader \subseteq up /\ elected \subseteq Node
  /\ holder \in Node \cup {Free, Orphan}
  /\ armed \subseteq leader \X Job /\ runs \subseteq Run
  /\ due \subseteq Job
  /\ fallen \in [Job -> 0..Occasions]
  /\ done \in [Job -> Nat] /\ recorded \in [Job -> Nat]
  /\ faults \in 0..MaxFaults

Init ==
  /\ up = {} /\ leader = {} /\ elected = {} /\ holder = Free
  /\ armed = {} /\ runs = {} /\ due = {}
  /\ fallen = [j \in Job |-> 0]
  /\ done = [j \in Job |-> 0] /\ recorded = [j \in Job |-> 0]
  /\ faults = 0

RunsOf(n) == {r \in runs : r.node = n}

TimersOf(n) == {n} \X Job

-----------------------------------------------------------------------------
(* The lock *)

\* A process starts once the one before it on its node has ended.
Start(n) ==
  /\ n \notin up /\ RunsOf(n) = {} /\ holder # n
  /\ up' = up \cup {n}
  /\ UNCHANGED <<leader, elected, holder, runVars, workVars, faults>>

\* Mutant: does not wait for the runs it started while it led before.
ContendAtOnce(n) ==
  /\ n \in up \ leader
  /\ holder \in {Free, n}
  /\ holder' = n
  /\ leader' = leader \cup {n} /\ elected' = elected \cup {n}
  /\ armed' = armed \cup TimersOf(n)
  /\ UNCHANGED <<up, runs, workVars, faults>>

\* A node that does not lead tries the lock; a session that already holds it
\* gets it again. Stepping down waited for its runs in progress first.
Contend(n) ==
  /\ n \in up \ leader /\ RunsOf(n) = {}
  /\ holder \in {Free, n}
  /\ holder' = n
  /\ leader' = leader \cup {n} /\ elected' = elected \cup {n}
  /\ armed' = armed \cup TimersOf(n)
  /\ UNCHANGED <<up, runs, workVars, faults>>

\* Mutant: the check asks only that the connection answers.
CheckAnswers(n) ==
  /\ n \in leader \ elected
  /\ elected' = elected \cup {n}
  /\ UNCHANGED <<up, leader, holder, runVars, workVars, faults>>

\* Its timers are cleared; the runs in progress go on, and are waited for.
StepDown(n) ==
  /\ leader' = leader \ {n}
  /\ armed' = armed \ TimersOf(n)

\* The leader's check finds another session than the one elected.
Check(n) ==
  /\ n \in leader \ elected
  /\ StepDown(n)
  /\ UNCHANGED <<up, elected, holder, runs, workVars, faults>>

\* The check itself fails: the leader steps down, its session perhaps alive.
CheckFails(n) ==
  /\ faults < MaxFaults /\ n \in leader
  /\ faults' = faults + 1
  /\ StepDown(n)
  /\ UNCHANGED <<up, elected, holder, runs, workVars>>

\* A session that held the lock has lost its client: the server ends it, or
\* goes on holding the lock until it notices.
SessionGone(n) ==
  IF holder = n THEN holder' \in {Free, Orphan} ELSE UNCHANGED holder

LoseSession(n) ==
  /\ faults < MaxFaults /\ n \in up
  /\ faults' = faults + 1
  /\ elected' = elected \ {n}
  /\ SessionGone(n)
  /\ UNCHANGED <<up, leader, runVars, workVars>>

EndOrphan ==
  /\ holder = Orphan
  /\ holder' = Free
  /\ UNCHANGED <<up, leader, elected, runVars, workVars, faults>>

\* The process stops with its runs wherever they are.
Crash(n) ==
  /\ faults < MaxFaults /\ n \in up
  /\ faults' = faults + 1
  /\ up' = up \ {n} /\ elected' = elected \ {n}
  /\ StepDown(n) /\ SessionGone(n)
  /\ runs' = runs \ RunsOf(n)
  /\ UNCHANGED workVars

\* A stop steps down at once, waits for the runs in progress, and ends the session.
StopJobs(n) ==
  /\ faults < MaxFaults /\ n \in up
  /\ faults' = faults + 1
  /\ up' = up \ {n} /\ StepDown(n)
  /\ UNCHANGED <<elected, holder, runs, workVars>>

EndSession(n) ==
  /\ n \notin up /\ RunsOf(n) = {} /\ holder = n
  /\ holder' = Free
  /\ elected' = elected \ {n}
  /\ UNCHANGED <<up, leader, runVars, workVars, faults>>

-----------------------------------------------------------------------------
(* Runs of jobs *)

FallDue(j) ==
  /\ j \notin due
  /\ fallen[j] < (IF Kind[j] = "briefing" THEN 1 ELSE Occasions)
  /\ fallen' = [fallen EXCEPT ![j] = @ + 1]
  /\ due' = due \cup {j}
  /\ UNCHANGED <<lockVars, runVars, done, recorded, faults>>

\* The job's timer fires. The run lists the work that is due, which another
\* may claim in the meantime; with none it ends and its timer is set again.
Tick(n, j) ==
  /\ <<n, j>> \in armed
  /\ j \in due
  /\ armed' = armed \ {<<n, j>>}
  /\ runs' = runs \cup {[node |-> n, job |-> j, stage |-> "listed"]}
  /\ UNCHANGED <<lockVars, workVars, faults>>

Goes(r, stage) ==
  /\ runs' = (runs \ {r}) \cup {[r EXCEPT !.stage = stage]}
  /\ UNCHANGED armed

\* A run that ends, however it ends, sets its timer while its node leads.
Ends(r) ==
  /\ runs' = runs \ {r}
  /\ armed' = IF r.node \in leader THEN armed \cup {<<r.node, r.job>>} ELSE armed

Does(j) == done' = [done EXCEPT ![j] = @ + 1]

\* The next run is moved on if the report is still due; otherwise another
\* leader has this one.
ClaimReport(r) ==
  /\ Kind[r.job] = "report" /\ r.stage = "listed"
  /\ IF r.job \in due
     THEN due' = due \ {r.job} /\ Goes(r, "claimed")
     ELSE Ends(r) /\ UNCHANGED due
  /\ UNCHANGED <<lockVars, fallen, done, recorded, faults>>

\* The report is built and its emails queued, or it fails ...
RunReport(r) ==
  /\ r.stage = "claimed"
  /\ Goes(r, "queued")
  /\ Does(r.job) \/ UNCHANGED done
  /\ UNCHANGED <<lockVars, due, fallen, recorded, faults>>

\* ... and either way the run is recorded.
RecordReport(r) ==
  /\ r.stage = "queued"
  /\ Ends(r)
  /\ recorded' = [recorded EXCEPT ![r.job] = @ + 1]
  /\ UNCHANGED <<lockVars, due, fallen, done, faults>>

RowLocked(j) == \E r \in runs : r.job = j /\ r.stage = "locked"

\* Mutant: reads the due row without locking it.
LockRowUnlocked(r) ==
  /\ Kind[r.job] = "row" /\ r.stage = "listed"
  /\ IF r.job \in due THEN Goes(r, "locked") ELSE Ends(r)
  /\ UNCHANGED <<lockVars, workVars, faults>>

\* The row is locked and read again; a row another run has locked is skipped
\* (a rule's update waits for it, and then finds it no longer due).
LockRow(r) ==
  /\ Kind[r.job] = "row" /\ r.stage = "listed"
  /\ IF r.job \in due /\ ~RowLocked(r.job) THEN Goes(r, "locked") ELSE Ends(r)
  /\ UNCHANGED <<lockVars, workVars, faults>>

\* The work and its mark commit together.
CommitRow(r) ==
  /\ r.stage = "locked"
  /\ Ends(r) /\ Does(r.job)
  /\ due' = due \ {r.job}
  /\ UNCHANGED <<lockVars, fallen, recorded, faults>>

\* A briefing not yet stamped is read, under no lock ...
ReadBriefing(r) ==
  /\ Kind[r.job] = "briefing" /\ r.stage = "listed"
  /\ IF r.job \in due THEN Goes(r, "read") ELSE Ends(r)
  /\ UNCHANGED <<lockVars, workVars, faults>>

\* ... and its holders are notified and it is stamped, whatever it says now.
CommitBriefing(r) ==
  /\ r.stage = "read"
  /\ Ends(r) /\ Does(r.job)
  /\ due' = due \ {r.job}
  /\ UNCHANGED <<lockVars, fallen, recorded, faults>>

\* Mutant: a run that fails does not set its timer.
FailRunUnarmed(r) ==
  /\ faults < MaxFaults /\ r.stage \in {"listed", "locked", "read", "queued"}
  /\ faults' = faults + 1
  /\ runs' = runs \ {r}
  /\ UNCHANGED <<lockVars, armed, workVars>>

\* A transaction of the run fails and the failure is logged. What it claimed it
\* has not marked, and the work is found due again; but a report was claimed
\* before, and one whose record fails stays unrecorded.
FailRun(r) ==
  /\ faults < MaxFaults /\ r.stage \in {"listed", "locked", "read", "queued"}
  /\ faults' = faults + 1
  /\ Ends(r)
  /\ UNCHANGED <<lockVars, workVars>>

Proceed(r) ==
  \/ ClaimReport(r) \/ RunReport(r) \/ RecordReport(r)
  \/ LockRow(r) \/ CommitRow(r)
  \/ ReadBriefing(r) \/ CommitBriefing(r)

-----------------------------------------------------------------------------

Next ==
  \/ \E n \in Node : \/ Start(n) \/ Contend(n) \/ Check(n) \/ CheckFails(n)
                     \/ LoseSession(n) \/ Crash(n) \/ StopJobs(n) \/ EndSession(n)
  \/ EndOrphan
  \/ \E j \in Job : FallDue(j)
  \/ \E n \in Node, j \in Job : Tick(n, j)
  \/ \E r \in runs : Proceed(r) \/ FailRun(r)

Spec == Init /\ [][Next]_vars

\* The election and the jobs run on timers, a run's queries end, and the
\* server ends a session whose client is gone. A node need not start again.
Fairness ==
  /\ \A n \in Node : WF_vars(Contend(n)) /\ WF_vars(Check(n)) /\ WF_vars(EndSession(n))
  /\ WF_vars(EndOrphan)
  /\ \A n \in Node, j \in Job :
       /\ WF_vars(Tick(n, j))
       /\ WF_vars(\E r \in runs : r.node = n /\ r.job = j /\ Proceed(r))

FairSpec == Spec /\ Fairness

-----------------------------------------------------------------------------
(* Properties *)

\* A leader whose session is the one it was elected in holds the lock, so two
\* leaders overlap only while one of them has a lost session to notice.
LeaderHoldsLock == \A n \in leader \cap elected : holder = n

\* A node never has two runs of one job: "a run never overlaps itself", also
\* when it loses the lock, steps down and is elected again while a run goes on.
NeverOverlapsItself ==
  \A r, s \in runs : r.node = s.node /\ r.job = s.job => r = s

\* A report or a row falls due and its work is done, and a report's run is
\* recorded, once at most, whatever leaders overlap and wherever they stop.
OncePerOccasion ==
  \A j \in Job :
    Kind[j] # "briefing" => done[j] <= fallen[j] /\ recorded[j] <= fallen[j]

\* "Stamp the briefing so it fires once": two overlapping leaders both fire it.
BriefingFiresOnce ==
  \A j \in Job : Kind[j] = "briefing" => done[j] <= fallen[j]

\* Leaders that overlap come down to one.
OverlapEnds == Cardinality(leader) > 1 ~> Cardinality(leader) <= 1

\* Work that is due is claimed, by whoever leads.
DueIsClaimed == \A j \in Job : j \in due ~> j \notin due \/ up = {}
=============================================================================
