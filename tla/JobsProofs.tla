---------------------------- MODULE JobsProofs ----------------------------
(***************************************************************************)
(* Theorems about the scheduler and the one of its jobs with a module of   *)
(* its own.                                                                *)
(*                                                                         *)
(* Scheduler: for any number of nodes, jobs and occasions, and any number  *)
(* of lost sessions, failures and stops. AuditForwarding: for any number   *)
(* of forwarders, transactions, events and failures, and any batch size.   *)
(***************************************************************************)
EXTENDS Scheduler, AuditForwarding, Integers, FiniteSetTheorems, WellFoundedInduction, TLAPS

-----------------------------------------------------------------------------
(* The scheduler *)

\* A run's stage goes with its job's kind, and a locked row is still due.
StageSound(r) ==
  /\ r.stage \in {"claimed", "queued"} => Kind[r.job] = "report"
  /\ r.stage = "locked" => Kind[r.job] = "row" /\ r.job \in due
  /\ r.stage = "read" => Kind[r.job] = "briefing"

\* Work in hand: a claimed report may yet take effect, and a claimed or built
\* one will be recorded.
Claimed(j) == {r \in runs : r.job = j /\ r.stage = "claimed"}
Pending(j) == {r \in runs : r.job = j /\ r.stage \in {"claimed", "queued"}}
Owed(j) == IF j \in due THEN 1 ELSE 0

\* What was done, what is in hand and what is due never exceed what fell due.
CountSound(j) ==
  Kind[j] # "briefing" =>
    /\ done[j] + Cardinality(Claimed(j)) + Owed(j) <= fallen[j]
    /\ recorded[j] + Cardinality(Pending(j)) + Owed(j) <= fallen[j]

\* The inductive invariant. A job whose timer is set is not running: that is
\* what keeps a run from overlapping itself.
IInv ==
  /\ TypeOK /\ IsFiniteSet(runs)
  /\ LeaderHoldsLock /\ NeverOverlapsItself
  /\ \A r \in runs : <<r.node, r.job>> \notin armed
  /\ \A r \in runs : StageSound(r)
  /\ \A r, s \in runs : r.stage = "locked" /\ s.stage = "locked" /\ r.job = s.job => r = s
  /\ \A j \in Job : CountSound(j)

-----------------------------------------------------------------------------
(* Counting *)

LEMMA LessInHand ==
  ASSUME NEW a \in Nat, NEW b \in Nat, NEW c \in Nat, NEW o \in {0, 1}, NEW p \in {0, 1},
         NEW f \in Nat, a + b + o <= f, c <= b, p <= o
  PROVE  a + c + p <= f
  OBVIOUS

LEMMA OneMore ==
  ASSUME NEW S, NEW x, IsFiniteSet(S)
  PROVE  Cardinality(S \cup {x}) \in Nat /\ Cardinality(S \cup {x}) <= Cardinality(S) + 1
<1>1. Cardinality(S) \in Nat /\ IsFiniteSet(S \cup {x})
  BY FS_AddElement, FS_CardinalityType
<1>2. Cardinality(S \cup {x}) = IF x \in S THEN Cardinality(S) ELSE Cardinality(S) + 1
  BY FS_AddElement
<1>3. QED
  BY <1>1, <1>2

LEMMA Counts ==
  ASSUME IInv, NEW j \in Job
  PROVE  /\ IsFiniteSet(Claimed(j)) /\ Cardinality(Claimed(j)) \in Nat
         /\ IsFiniteSet(Pending(j)) /\ Cardinality(Pending(j)) \in Nat
         /\ done[j] \in Nat /\ recorded[j] \in Nat /\ fallen[j] \in Nat /\ Owed(j) \in {0, 1}
<1>1. Claimed(j) \in SUBSET runs /\ Pending(j) \in SUBSET runs /\ IsFiniteSet(runs)
  BY DEF IInv, Claimed, Pending
<1>2. IsFiniteSet(Claimed(j)) /\ IsFiniteSet(Pending(j))
  BY <1>1, FS_Subset
<1>3. Cardinality(Claimed(j)) \in Nat /\ Cardinality(Pending(j)) \in Nat
  BY <1>2, FS_CardinalityType
<1>4. done[j] \in Nat /\ recorded[j] \in Nat /\ fallen[j] \in Nat
  BY SchedulerAssumption DEF IInv, TypeOK
<1>5. QED
  BY <1>2, <1>3, <1>4 DEF Owed

\* A job of which no more is in hand or due keeps its count.
LEMMA SameCount ==
  ASSUME IInv, NEW j \in Job, done'[j] = done[j], recorded'[j] = recorded[j],
         fallen'[j] = fallen[j], j \in due' => j \in due,
         Claimed(j)' \subseteq Claimed(j), Pending(j)' \subseteq Pending(j)
  PROVE  CountSound(j)'
<1>1. CountSound(j)
  BY DEF IInv
<1>2. /\ IsFiniteSet(Claimed(j)') /\ Cardinality(Claimed(j)') <= Cardinality(Claimed(j))
      /\ IsFiniteSet(Pending(j)') /\ Cardinality(Pending(j)') <= Cardinality(Pending(j))
  BY Counts, FS_Subset
<1>3. Cardinality(Claimed(j)') \in Nat /\ Cardinality(Pending(j)') \in Nat
  BY <1>2, FS_CardinalityType
<1>4. Owed(j)' \in {0, 1} /\ Owed(j)' <= Owed(j)
  BY DEF Owed
<1>5. ASSUME Kind[j] # "briefing"
      PROVE  /\ done[j] + Cardinality(Claimed(j)') + Owed(j)' <= fallen[j]
             /\ recorded[j] + Cardinality(Pending(j)') + Owed(j)' <= fallen[j]
  <2>1. /\ done[j] + Cardinality(Claimed(j)) + Owed(j) <= fallen[j]
        /\ recorded[j] + Cardinality(Pending(j)) + Owed(j) <= fallen[j]
    BY <1>1, <1>5 DEF CountSound
  <2>2. QED
    BY <1>2, <1>3, <1>4, <2>1, Counts, LessInHand
<1>6. QED
  BY <1>5 DEF CountSound

-----------------------------------------------------------------------------
(* What steps of a run do to the runs. *)

\* A run that goes on is the only one of its job on its node.
LEMMA GoesRuns ==
  ASSUME IInv, NEW r \in runs, NEW to \in Stage, Goes(r, to)
  PROVE  \E new \in Run :
           /\ new.node = r.node /\ new.job = r.job /\ new.stage = to
           /\ runs' = (runs \ {r}) \cup {new}
           /\ IsFiniteSet(runs') /\ runs' \subseteq Run /\ armed' = armed
<1> DEFINE new == [r EXCEPT !.stage = to]
<1>1. r \in Run /\ runs \subseteq Run /\ IsFiniteSet(runs)
  BY DEF IInv, TypeOK
<1>2. new \in Run /\ new.node = r.node /\ new.job = r.job /\ new.stage = to
  BY <1>1 DEF Run
<1>3. runs' = (runs \ {r}) \cup {new} /\ armed' = armed
  BY DEF Goes
<1>4. IsFiniteSet(runs')
  BY <1>1, <1>3, FS_RemoveElement, FS_AddElement
<1> HIDE DEF new
<1>5. QED
  BY <1>1, <1>2, <1>3, <1>4

\* Runs that stay one to a node and job, and off the timers.
LEMMA GoesAlone ==
  ASSUME IInv, NEW r \in runs, NEW new, new.node = r.node, new.job = r.job,
         runs' = (runs \ {r}) \cup {new}, armed' = armed
  PROVE  NeverOverlapsItself' /\ \A s \in runs' : <<s.node, s.job>> \notin armed'
<1>1. \A s \in runs \ {r} : ~(s.node = r.node /\ s.job = r.job)
  BY DEF IInv, NeverOverlapsItself
<1>2. NeverOverlapsItself'
  BY <1>1 DEF IInv, NeverOverlapsItself
<1>3. \A s \in runs' : <<s.node, s.job>> \notin armed'
  BY DEF IInv
<1>4. QED
  BY <1>2, <1>3

\* A run that ends leaves its timer to fire again, or not.
LEMMA EndsAlone ==
  ASSUME IInv, NEW r \in runs, Ends(r)
  PROVE  /\ runs' = runs \ {r} /\ IsFiniteSet(runs') /\ runs' \subseteq Run
         /\ armed' \subseteq armed \cup {<<r.node, r.job>>}
         /\ NeverOverlapsItself' /\ \A s \in runs' : <<s.node, s.job>> \notin armed'
         /\ leader' = leader => armed' \subseteq leader' \X Job
<1>1. runs' = runs \ {r} /\ armed' \subseteq armed \cup {<<r.node, r.job>>}
  BY DEF Ends
<1>2. IsFiniteSet(runs') /\ runs' \subseteq Run
  BY <1>1, FS_RemoveElement DEF IInv, TypeOK
<1>3. NeverOverlapsItself'
  BY <1>1 DEF IInv, NeverOverlapsItself
<1>4. ASSUME NEW s \in runs' PROVE <<s.node, s.job>> \notin armed'
  <2>1. s \in runs /\ s # r /\ ~(s.node = r.node /\ s.job = r.job)
    BY <1>1 DEF IInv, NeverOverlapsItself
  <2>2. QED
    BY <1>1, <2>1 DEF IInv
<1>5. ASSUME leader' = leader PROVE armed' \subseteq leader' \X Job
  <2>1. armed \subseteq leader \X Job /\ r \in Run
    BY DEF IInv, TypeOK
  <2>2. r.job \in Job
    BY <2>1 DEF Run
  <2>3. QED
    BY <1>5, <2>1, <2>2 DEF Ends
<1>6. QED
  BY <1>1, <1>2, <1>3, <1>4, <1>5

-----------------------------------------------------------------------------
(* The lock, and who runs. *)

\* What no step of the election touches.
LEMMA WorkKeeps ==
  ASSUME IInv, TypeOK', LeaderHoldsLock', UNCHANGED workVars, runs' \subseteq runs,
         \A r \in runs' : <<r.node, r.job>> \notin armed'
  PROVE  IInv'
<1>1. IsFiniteSet(runs')
  BY FS_Subset DEF IInv
<1>2. NeverOverlapsItself'
  BY DEF IInv, NeverOverlapsItself
<1>3. \A r \in runs' : StageSound(r)'
  BY DEF IInv, StageSound, workVars
<1>4. \A r, s \in runs' : r.stage = "locked" /\ s.stage = "locked" /\ r.job = s.job => r = s
  BY DEF IInv
<1>5. ASSUME NEW j \in Job PROVE CountSound(j)'
  <2>1. Claimed(j)' \subseteq Claimed(j) /\ Pending(j)' \subseteq Pending(j)
    BY DEF Claimed, Pending
  <2>2. QED
    BY <2>1, SameCount DEF workVars
<1>6. QED
  BY <1>1, <1>2, <1>3, <1>4, <1>5 DEF IInv

LEMMA ElectionKeeps ==
  ASSUME IInv, NEW n \in Node,
         \/ Start(n) \/ Contend(n) \/ Check(n) \/ CheckFails(n)
         \/ LoseSession(n) \/ StopJobs(n) \/ EndSession(n)
  PROVE  IInv'
<1>1. TypeOK /\ LeaderHoldsLock /\ Free \notin Node /\ Orphan \notin Node
      /\ MaxFaults \in Nat
  BY SchedulerAssumption DEF IInv
<1>2. runs' = runs /\ UNCHANGED workVars
  BY DEF Start, Contend, Check, CheckFails, LoseSession, StopJobs, EndSession, StepDown,
     runVars
<1>3. TypeOK'
  <2>1. CASE Start(n) \/ EndSession(n)
    BY <1>1, <2>1 DEF TypeOK, Start, EndSession, runVars, workVars
  <2>2. CASE Contend(n)
    BY <1>1, <2>2 DEF TypeOK, Contend, TimersOf, workVars
  <2>3. CASE Check(n)
    BY <1>1, <2>3 DEF TypeOK, Check, StepDown, TimersOf, workVars
  <2>4. CASE CheckFails(n)
    BY <1>1, <2>4 DEF TypeOK, CheckFails, StepDown, TimersOf, workVars
  <2>5. CASE StopJobs(n)
    BY <1>1, <2>5 DEF TypeOK, StopJobs, StepDown, TimersOf, workVars
  <2>6. CASE LoseSession(n)
    BY <1>1, <2>6 DEF TypeOK, LoseSession, SessionGone, runVars, workVars
  <2>7. QED
    BY <2>1, <2>2, <2>3, <2>4, <2>5, <2>6
<1>4. LeaderHoldsLock'
  <2>1. leader \subseteq up
    BY <1>1 DEF TypeOK
  <2>2. CASE Start(n) \/ EndSession(n) \/ LoseSession(n)
    BY <1>1, <2>1, <2>2
    DEF LeaderHoldsLock, Start, EndSession, LoseSession, SessionGone
  <2>3. CASE Contend(n)
    BY <1>1, <2>1, <2>3 DEF LeaderHoldsLock, Contend, TypeOK
  <2>4. CASE Check(n) \/ CheckFails(n) \/ StopJobs(n)
    BY <1>1, <2>4 DEF LeaderHoldsLock, Check, CheckFails, StopJobs, StepDown
  <2>5. QED
    BY <2>2, <2>3, <2>4
<1>5. \A r \in runs' : <<r.node, r.job>> \notin armed'
  <2>1. CASE armed' \subseteq armed
    BY <1>2, <2>1 DEF IInv
  <2>2. CASE Contend(n)
    BY <1>2, <2>2 DEF IInv, Contend, RunsOf, TimersOf
  <2>3. QED
    BY <2>1, <2>2 DEF Start, Check, CheckFails, LoseSession, StopJobs, EndSession, StepDown,
       runVars
<1>6. QED
  BY <1>2, <1>3, <1>4, <1>5, WorkKeeps

LEMMA CrashKeeps ==
  ASSUME IInv, NEW n \in Node, Crash(n)
  PROVE  IInv'
<1>1. TypeOK /\ Free \notin Node /\ Orphan \notin Node /\ MaxFaults \in Nat
  BY SchedulerAssumption DEF IInv
<1>2. TypeOK'
  BY <1>1 DEF TypeOK, Crash, StepDown, SessionGone, TimersOf, RunsOf, workVars
<1>3. LeaderHoldsLock'
  BY <1>1 DEF IInv, LeaderHoldsLock, Crash, StepDown, SessionGone
<1>4. runs' \subseteq runs /\ armed' \subseteq armed /\ UNCHANGED workVars
  BY DEF Crash, StepDown
<1>5. \A r \in runs' : <<r.node, r.job>> \notin armed'
  BY <1>4 DEF IInv
<1>6. QED
  BY <1>2, <1>3, <1>4, <1>5, WorkKeeps

LEMMA EndOrphanKeeps ==
  ASSUME IInv, EndOrphan
  PROVE  IInv'
<1>1. TypeOK' /\ LeaderHoldsLock'
  BY SchedulerAssumption DEF IInv, TypeOK, LeaderHoldsLock, EndOrphan, runVars, workVars
<1>2. UNCHANGED <<runs, armed>> /\ UNCHANGED workVars
  BY DEF EndOrphan, runVars
<1>3. \A r \in runs' : <<r.node, r.job>> \notin armed'
  BY <1>2 DEF IInv
<1>4. QED
  BY <1>1, <1>2, <1>3, WorkKeeps

-----------------------------------------------------------------------------
(* Runs of jobs *)

LEMMA FallDueKeeps ==
  ASSUME IInv, NEW j \in Job, FallDue(j)
  PROVE  IInv'
<1>1. /\ j \notin due /\ due' = due \cup {j}
      /\ fallen' = [fallen EXCEPT ![j] = fallen[j] + 1]
      /\ UNCHANGED <<lockVars, runVars, done, recorded, faults>>
  BY DEF FallDue
<1>2. fallen \in [Job -> 0..Occasions] /\ Occasions \in Nat \ {0}
      /\ fallen[j] < Occasions
  BY SchedulerAssumption DEF IInv, TypeOK, FallDue
<1>3. TypeOK'
  BY <1>1, <1>2 DEF IInv, TypeOK, lockVars, runVars
<1>4. LeaderHoldsLock' /\ NeverOverlapsItself' /\ IsFiniteSet(runs')
      /\ \A r \in runs' : <<r.node, r.job>> \notin armed'
  BY <1>1 DEF IInv, LeaderHoldsLock, NeverOverlapsItself, lockVars, runVars
<1>5. \A r \in runs' : StageSound(r)'
  BY <1>1 DEF IInv, StageSound, runVars
<1>6. ASSUME NEW k \in Job PROVE CountSound(k)'
  <2>1. Claimed(k)' = Claimed(k) /\ Pending(k)' = Pending(k)
    BY <1>1 DEF Claimed, Pending, runVars
  <2>2. CASE k # j
    BY <1>1, <1>2, <2>1, <2>2, SameCount
  <2>3. CASE k = j
    <3>1. CountSound(j) /\ Owed(j) = 0 /\ Owed(j)' = 1 /\ fallen'[j] = fallen[j] + 1
      BY <1>1, <1>2 DEF IInv, Owed
    <3>2. QED
      BY <1>1, <2>1, <2>3, <3>1, Counts DEF CountSound
  <2>4. QED
    BY <2>2, <2>3
<1>7. QED
  BY <1>1, <1>3, <1>4, <1>5, <1>6 DEF IInv, runVars

LEMMA TickKeeps ==
  ASSUME IInv, NEW n \in Node, NEW j \in Job, Tick(n, j)
  PROVE  IInv'
<1> DEFINE new == [node |-> n, job |-> j, stage |-> "listed"]
<1>1. /\ <<n, j>> \in armed /\ armed' = armed \ {<<n, j>>} /\ runs' = runs \cup {new}
      /\ UNCHANGED <<lockVars, workVars, faults>>
  BY DEF Tick
<1>2. new \in Run /\ new.node = n /\ new.job = j /\ new.stage = "listed"
  BY DEF Run, Stage
<1> HIDE DEF new
<1>3. TypeOK'
  BY <1>1, <1>2 DEF IInv, TypeOK, lockVars, workVars
<1>4. IsFiniteSet(runs')
  BY <1>1, FS_AddElement DEF IInv
<1>5. LeaderHoldsLock'
  BY <1>1 DEF IInv, LeaderHoldsLock, lockVars
<1>6. \A r \in runs : ~(r.node = n /\ r.job = j)
  BY <1>1 DEF IInv
<1>7. NeverOverlapsItself' /\ \A r \in runs' : <<r.node, r.job>> \notin armed'
  BY <1>1, <1>2, <1>6 DEF IInv, NeverOverlapsItself
<1>8. ASSUME NEW r \in runs' PROVE StageSound(r)'
  <2>1. CASE r = new
    BY <1>2, <2>1 DEF StageSound
  <2>2. CASE r \in runs
    BY <1>1, <2>2 DEF IInv, StageSound, workVars
  <2>3. QED
    BY <1>1, <2>1, <2>2
<1>9. \A r, s \in runs' : r.stage = "locked" /\ s.stage = "locked" /\ r.job = s.job => r = s
  BY <1>1, <1>2 DEF IInv
<1>10. ASSUME NEW k \in Job PROVE CountSound(k)'
  <2>1. Claimed(k)' \subseteq Claimed(k) /\ Pending(k)' \subseteq Pending(k)
    BY <1>1, <1>2 DEF Claimed, Pending
  <2>2. QED
    BY <1>1, <2>1, SameCount DEF workVars
<1>11. QED
  BY <1>3, <1>4, <1>5, <1>7, <1>8, <1>9, <1>10 DEF IInv

\* A run that ends or fails and writes nothing.
LEMMA EndsKeeps ==
  ASSUME IInv, NEW r \in runs, Ends(r),
         UNCHANGED <<lockVars, workVars>>, faults' \in 0..MaxFaults
  PROVE  IInv'
<1>1. /\ runs' = runs \ {r} /\ runs' \subseteq Run
      /\ \A s \in runs' : <<s.node, s.job>> \notin armed'
      /\ leader' = leader => armed' \subseteq leader' \X Job
  BY EndsAlone
<1>2. TypeOK' /\ LeaderHoldsLock'
  BY <1>1 DEF IInv, TypeOK, LeaderHoldsLock, lockVars, workVars
<1>3. QED
  BY <1>1, <1>2, WorkKeeps

\* A run that goes on with nothing claimed: the row's lock, or the briefing's read.
LEMMA GoesKeeps ==
  ASSUME IInv, NEW r \in runs, NEW to \in {"locked", "read"}, Goes(r, to),
         r.stage = "listed", r.job \in due, UNCHANGED <<lockVars, workVars, faults>>,
         to = "locked" => Kind[r.job] = "row" /\ ~RowLocked(r.job),
         to = "read" => Kind[r.job] = "briefing"
  PROVE  IInv'
<1>1. PICK new \in Run :
        /\ new.node = r.node /\ new.job = r.job /\ new.stage = to
        /\ runs' = (runs \ {r}) \cup {new}
        /\ IsFiniteSet(runs') /\ runs' \subseteq Run /\ armed' = armed
  <2>1. to \in Stage
    BY DEF Stage
  <2>2. QED
    BY <2>1, GoesRuns
<1>2. NeverOverlapsItself' /\ \A s \in runs' : <<s.node, s.job>> \notin armed'
  BY <1>1, GoesAlone
<1>3. TypeOK' /\ LeaderHoldsLock'
  BY <1>1 DEF IInv, TypeOK, LeaderHoldsLock, lockVars, workVars
<1>4. ASSUME NEW s \in runs' PROVE StageSound(s)'
  <2>1. CASE s = new
    BY <1>1, <2>1 DEF StageSound, workVars
  <2>2. CASE s \in runs
    BY <2>2 DEF IInv, StageSound, workVars
  <2>3. QED
    BY <1>1, <2>1, <2>2
<1>5. \A s, t \in runs' : s.stage = "locked" /\ t.stage = "locked" /\ s.job = t.job => s = t
  BY <1>1 DEF IInv, RowLocked
<1>6. ASSUME NEW k \in Job PROVE CountSound(k)'
  <2>1. Claimed(k)' \subseteq Claimed(k) /\ Pending(k)' \subseteq Pending(k)
    BY <1>1 DEF Claimed, Pending
  <2>2. QED
    BY <2>1, SameCount DEF workVars
<1>7. QED
  BY <1>1, <1>2, <1>3, <1>4, <1>5, <1>6 DEF IInv

\* A claim takes what is due into hand.
LEMMA ClaimReportKeeps ==
  ASSUME IInv, NEW r \in runs, ClaimReport(r)
  PROVE  IInv'
<1> DEFINE j == r.job
<1>1. Kind[j] = "report" /\ r.stage = "listed"
      /\ UNCHANGED <<lockVars, fallen, done, recorded, faults>>
  BY DEF ClaimReport
<1>2. r \in Run /\ j \in Job
  BY DEF IInv, TypeOK, Run
<1>3. CASE j \notin due
  <2>1. Ends(r) /\ UNCHANGED <<lockVars, workVars>> /\ faults' \in 0..MaxFaults
    BY <1>1, <1>3 DEF ClaimReport, workVars, IInv, TypeOK
  <2>2. QED
    BY <1>1, <2>1, EndsKeeps
<1>4. CASE j \in due
  <2>1. due' = due \ {j} /\ Goes(r, "claimed")
    BY <1>4 DEF ClaimReport
  <2>2. PICK new \in Run :
          /\ new.node = r.node /\ new.job = r.job /\ new.stage = "claimed"
          /\ runs' = (runs \ {r}) \cup {new}
          /\ IsFiniteSet(runs') /\ runs' \subseteq Run /\ armed' = armed
    <3>1. "claimed" \in Stage
      BY DEF Stage
    <3>2. QED
      BY <2>1, <3>1, GoesRuns
  <2>3. NeverOverlapsItself' /\ \A s \in runs' : <<s.node, s.job>> \notin armed'
    BY <2>2, GoesAlone
  <2>4. TypeOK' /\ LeaderHoldsLock'
    BY <1>1, <2>1, <2>2 DEF IInv, TypeOK, LeaderHoldsLock, lockVars
  <2>5. ASSUME NEW s \in runs' PROVE StageSound(s)'
    <3>1. CASE s = new
      BY <1>1, <2>2, <3>1 DEF StageSound
    <3>2. CASE s \in runs
      BY <1>1, <2>1, <3>2 DEF IInv, StageSound
    <3>3. QED
      BY <2>2, <3>1, <3>2
  <2>6. \A s, t \in runs' : s.stage = "locked" /\ t.stage = "locked" /\ s.job = t.job => s = t
    BY <2>2 DEF IInv
  <2>7. ASSUME NEW k \in Job PROVE CountSound(k)'
    <3>1. CASE k # j
      <4>1. Claimed(k)' \subseteq Claimed(k) /\ Pending(k)' \subseteq Pending(k)
        BY <2>2, <3>1 DEF Claimed, Pending
      <4>2. QED
        BY <1>1, <2>1, <4>1, SameCount
    <3>2. CASE k = j
      <4>1. /\ Claimed(j)' = Claimed(j) \cup {new} /\ Pending(j)' = Pending(j) \cup {new}
        BY <1>1, <2>2 DEF Claimed, Pending
      <4>2. /\ Cardinality(Claimed(j)') \in Nat /\ Cardinality(Pending(j)') \in Nat
            /\ Cardinality(Claimed(j)') <= Cardinality(Claimed(j)) + 1
            /\ Cardinality(Pending(j)') <= Cardinality(Pending(j)) + 1
        BY <1>2, <4>1, Counts, OneMore
      <4>3. CountSound(j) /\ Owed(j) = 1 /\ Owed(j)' = 0
        BY <1>2, <1>4, <2>1 DEF IInv, Owed
      <4>4. QED
        BY <1>1, <1>2, <3>2, <4>2, <4>3, Counts DEF CountSound
    <3>3. QED
      BY <3>1, <3>2
  <2>8. QED
    BY <2>2, <2>3, <2>4, <2>5, <2>6, <2>7 DEF IInv
<1>5. QED
  BY <1>3, <1>4

LEMMA RunReportKeeps ==
  ASSUME IInv, NEW r \in runs, RunReport(r)
  PROVE  IInv'
<1> DEFINE j == r.job
<1>1. r.stage = "claimed" /\ Goes(r, "queued") /\ (Does(j) \/ UNCHANGED done)
      /\ UNCHANGED <<lockVars, due, fallen, recorded, faults>>
  BY DEF RunReport
<1>2. r \in Run /\ j \in Job /\ Kind[j] = "report" /\ done \in [Job -> Nat]
  BY <1>1 DEF IInv, TypeOK, Run, StageSound
<1>3. PICK new \in Run :
        /\ new.node = r.node /\ new.job = r.job /\ new.stage = "queued"
        /\ runs' = (runs \ {r}) \cup {new}
        /\ IsFiniteSet(runs') /\ runs' \subseteq Run /\ armed' = armed
  <2>1. "queued" \in Stage
    BY DEF Stage
  <2>2. QED
    BY <1>1, <2>1, GoesRuns
<1>4. NeverOverlapsItself' /\ \A s \in runs' : <<s.node, s.job>> \notin armed'
  BY <1>3, GoesAlone
<1>5. /\ done' \in [Job -> Nat] /\ done'[j] \in Nat /\ done'[j] <= done[j] + 1
      /\ \A k \in Job \ {j} : done'[k] = done[k]
  <2>1. CASE UNCHANGED done
    BY <1>2, <2>1
  <2>2. CASE Does(j)
    BY <1>2, <2>2 DEF Does
  <2>3. QED
    BY <1>1, <2>1, <2>2
<1>6. TypeOK' /\ LeaderHoldsLock'
  BY <1>1, <1>3, <1>5 DEF IInv, TypeOK, LeaderHoldsLock, lockVars
<1>7. ASSUME NEW s \in runs' PROVE StageSound(s)'
  <2>1. CASE s = new
    BY <1>2, <1>3, <2>1 DEF StageSound
  <2>2. CASE s \in runs
    BY <1>1, <2>2 DEF IInv, StageSound
  <2>3. QED
    BY <1>3, <2>1, <2>2
<1>8. \A s, t \in runs' : s.stage = "locked" /\ t.stage = "locked" /\ s.job = t.job => s = t
  BY <1>3 DEF IInv
<1>9. ASSUME NEW k \in Job PROVE CountSound(k)'
  <2>1. CASE k # j
    <3>1. Claimed(k)' \subseteq Claimed(k) /\ Pending(k)' \subseteq Pending(k)
      BY <1>3, <2>1 DEF Claimed, Pending
    <3>2. QED
      BY <1>1, <1>5, <2>1, <3>1, SameCount
  <2>2. CASE k = j
    <3>1. /\ Claimed(j)' = Claimed(j) \ {r} /\ r \in Claimed(j) /\ r \in Pending(j)
          /\ Pending(j)' = (Pending(j) \ {r}) \cup {new}
      BY <1>1, <1>3 DEF Claimed, Pending
    <3>2. /\ IsFiniteSet(Pending(j) \ {r})
          /\ Cardinality(Pending(j) \ {r}) = Cardinality(Pending(j)) - 1
          /\ Cardinality(Claimed(j)') = Cardinality(Claimed(j)) - 1
          /\ Cardinality(Claimed(j)') \in Nat
      BY <1>2, <3>1, Counts, FS_RemoveElement, FS_CardinalityType
    <3>3. Cardinality(Pending(j)') \in Nat /\ Cardinality(Pending(j)') <= Cardinality(Pending(j))
      <4>1. /\ Cardinality(Pending(j)') \in Nat
            /\ Cardinality(Pending(j)') <= Cardinality(Pending(j) \ {r}) + 1
        BY <3>1, <3>2, OneMore
      <4>2. Cardinality(Pending(j)) \in Nat
        BY <1>2, Counts
      <4>3. QED
        BY <3>2, <4>1, <4>2
    <3>4. CountSound(j) /\ Owed(j)' = Owed(j)
      BY <1>1, <1>2 DEF IInv, Owed
    <3>5. QED
      BY <1>1, <1>2, <1>5, <2>2, <3>2, <3>3, <3>4, Counts DEF CountSound
  <2>3. QED
    BY <2>1, <2>2
<1>10. QED
  BY <1>3, <1>4, <1>6, <1>7, <1>8, <1>9 DEF IInv

LEMMA RecordReportKeeps ==
  ASSUME IInv, NEW r \in runs, RecordReport(r)
  PROVE  IInv'
<1> DEFINE j == r.job
<1>1. r.stage = "queued" /\ Ends(r) /\ recorded' = [recorded EXCEPT ![j] = recorded[j] + 1]
      /\ UNCHANGED <<lockVars, due, fallen, done, faults>>
  BY DEF RecordReport
<1>2. r \in Run /\ j \in Job /\ recorded \in [Job -> Nat]
  BY DEF IInv, TypeOK, Run
<1>3. /\ runs' = runs \ {r} /\ IsFiniteSet(runs') /\ runs' \subseteq Run
      /\ NeverOverlapsItself' /\ \A s \in runs' : <<s.node, s.job>> \notin armed'
      /\ leader' = leader => armed' \subseteq leader' \X Job
  BY <1>1, EndsAlone
<1>4. TypeOK' /\ LeaderHoldsLock'
  BY <1>1, <1>2, <1>3 DEF IInv, TypeOK, LeaderHoldsLock, lockVars
<1>5. \A s \in runs' : StageSound(s)'
  BY <1>1, <1>3 DEF IInv, StageSound
<1>6. \A s, t \in runs' : s.stage = "locked" /\ t.stage = "locked" /\ s.job = t.job => s = t
  BY <1>3 DEF IInv
<1>7. ASSUME NEW k \in Job PROVE CountSound(k)'
  <2>1. CASE k # j
    <3>1. Claimed(k)' \subseteq Claimed(k) /\ Pending(k)' \subseteq Pending(k)
      BY <1>3 DEF Claimed, Pending
    <3>2. QED
      BY <1>1, <1>2, <2>1, <3>1, SameCount
  <2>2. CASE k = j
    <3>1. Claimed(j)' = Claimed(j) /\ Pending(j)' = Pending(j) \ {r} /\ r \in Pending(j)
      BY <1>1, <1>3 DEF Claimed, Pending
    <3>2. /\ Cardinality(Pending(j)') = Cardinality(Pending(j)) - 1
          /\ Cardinality(Pending(j)') \in Nat
      BY <1>2, <3>1, Counts, FS_RemoveElement, FS_CardinalityType
    <3>3. CountSound(j) /\ Owed(j)' = Owed(j) /\ recorded'[j] = recorded[j] + 1
      BY <1>1, <1>2 DEF IInv, Owed
    <3>4. QED
      BY <1>1, <1>2, <2>2, <3>1, <3>2, <3>3, Counts DEF CountSound
  <2>3. QED
    BY <2>1, <2>2
<1>8. QED
  BY <1>3, <1>4, <1>5, <1>6, <1>7 DEF IInv

\* What commits with its mark was due, and no other run had the row.
LEMMA CommitKeeps ==
  ASSUME IInv, NEW r \in runs, CommitRow(r) \/ CommitBriefing(r)
  PROVE  IInv'
<1> DEFINE j == r.job
<1>1. r.stage \in {"locked", "read"} /\ Ends(r) /\ Does(j) /\ due' = due \ {j}
      /\ UNCHANGED <<lockVars, fallen, recorded, faults>>
  BY DEF CommitRow, CommitBriefing
<1>2. r \in Run /\ j \in Job /\ done \in [Job -> Nat] /\ StageSound(r)
      /\ done' = [done EXCEPT ![j] = done[j] + 1]
  BY <1>1 DEF IInv, TypeOK, Run, Does
<1>3. /\ runs' = runs \ {r} /\ IsFiniteSet(runs') /\ runs' \subseteq Run
      /\ NeverOverlapsItself' /\ \A s \in runs' : <<s.node, s.job>> \notin armed'
      /\ leader' = leader => armed' \subseteq leader' \X Job
  BY <1>1, EndsAlone
<1>4. TypeOK' /\ LeaderHoldsLock'
  BY <1>1, <1>2, <1>3 DEF IInv, TypeOK, LeaderHoldsLock, lockVars
<1>5. ASSUME NEW s \in runs' PROVE StageSound(s)'
  <2>1. StageSound(s) /\ s \in runs /\ s # r
    BY <1>3 DEF IInv
  <2>2. s.stage = "locked" => s.job # j
    <3>1. SUFFICES ASSUME s.stage = "locked", s.job = j PROVE FALSE
      OBVIOUS
    <3>2. r.stage = "locked"
      BY <1>1, <1>2, <2>1, <3>1 DEF StageSound
    <3>3. QED
      BY <2>1, <3>1, <3>2 DEF IInv
  <2>3. QED
    BY <1>1, <2>1, <2>2 DEF StageSound
<1>6. \A s, t \in runs' : s.stage = "locked" /\ t.stage = "locked" /\ s.job = t.job => s = t
  BY <1>3 DEF IInv
<1>7. ASSUME NEW k \in Job PROVE CountSound(k)'
  <2>1. Claimed(k)' = Claimed(k) /\ Pending(k)' = Pending(k)
    BY <1>1, <1>3 DEF Claimed, Pending
  <2>2. CASE k # j
    BY <1>1, <1>2, <2>1, <2>2, SameCount
  <2>3. CASE k = j
    <3>1. CASE r.stage = "read"
      BY <1>2, <2>3, <3>1 DEF StageSound, CountSound
    <3>2. CASE r.stage = "locked"
      <4>1. CountSound(j) /\ Owed(j) = 1 /\ Owed(j)' = 0 /\ done'[j] = done[j] + 1
        BY <1>1, <1>2, <3>2 DEF IInv, Owed, StageSound
      <4>2. QED
        BY <1>1, <1>2, <2>1, <2>3, <4>1, Counts DEF CountSound
    <3>3. QED
      BY <1>1, <3>1, <3>2
  <2>4. QED
    BY <2>2, <2>3
<1>8. QED
  BY <1>3, <1>4, <1>5, <1>6, <1>7 DEF IInv

-----------------------------------------------------------------------------
(* The invariant, and what follows from it. *)

LEMMA InitInv == Init => IInv
<1> SUFFICES ASSUME Init PROVE IInv
  OBVIOUS
<1>1. TypeOK /\ runs = {} /\ LeaderHoldsLock /\ NeverOverlapsItself
  BY SchedulerAssumption DEF Init, TypeOK, LeaderHoldsLock, NeverOverlapsItself
<1>2. IsFiniteSet(runs)
  BY <1>1, FS_EmptySet
<1>3. ASSUME NEW j \in Job PROVE CountSound(j)
  <2>1. Claimed(j) = {} /\ Pending(j) = {} /\ Owed(j) = 0
    BY <1>1 DEF Init, Claimed, Pending, Owed
  <2>2. Cardinality(Claimed(j)) = 0 /\ Cardinality(Pending(j)) = 0
    BY <2>1, FS_EmptySet
  <2>3. QED
    BY <2>1, <2>2 DEF Init, CountSound
<1>4. QED
  BY <1>1, <1>2, <1>3 DEF IInv

LEMMA StepInv == IInv /\ [Next]_vars => IInv'
<1> SUFFICES ASSUME IInv, [Next]_vars PROVE IInv'
  OBVIOUS
<1>1. ASSUME NEW r \in runs, LockRow(r) \/ ReadBriefing(r) PROVE IInv'
  <2>1. r.stage = "listed" /\ UNCHANGED <<lockVars, workVars, faults>> /\ faults \in 0..MaxFaults
    BY <1>1 DEF LockRow, ReadBriefing, IInv, TypeOK
  <2>2. CASE Ends(r)
    BY <2>1, <2>2, EndsKeeps
  <2>3. CASE LockRow(r) /\ ~Ends(r)
    BY <2>1, <2>3, GoesKeeps DEF LockRow
  <2>4. CASE ReadBriefing(r) /\ ~Ends(r)
    BY <2>1, <2>4, GoesKeeps DEF ReadBriefing
  <2>5. QED
    BY <1>1, <2>2, <2>3, <2>4
<1>2. ASSUME NEW r \in runs, FailRun(r) PROVE IInv'
  <2>1. faults' \in 0..MaxFaults
    BY <1>2, SchedulerAssumption DEF FailRun, IInv, TypeOK
  <2>2. QED
    BY <1>2, <2>1, EndsKeeps DEF FailRun
<1>3. CASE UNCHANGED vars
  <2>1. TypeOK' /\ LeaderHoldsLock' /\ UNCHANGED <<runs, armed>> /\ UNCHANGED workVars
    BY <1>3 DEF IInv, TypeOK, LeaderHoldsLock, vars, workVars
  <2>2. \A r \in runs' : <<r.node, r.job>> \notin armed'
    BY <2>1 DEF IInv
  <2>3. QED
    BY <2>1, <2>2, WorkKeeps
<1>4. QED
  BY <1>1, <1>2, <1>3, ElectionKeeps, CrashKeeps, EndOrphanKeeps, FallDueKeeps, TickKeeps,
     ClaimReportKeeps, RunReportKeeps, RecordReportKeeps, CommitKeeps DEF Next, Proceed

\* Every reachable state satisfies the inductive invariant.
THEOREM Invariant == Spec => []IInv
  BY InitInv, StepInv, PTL DEF Spec

\* The state keeps its types.
THEOREM TypeCorrect == Spec => []TypeOK
  BY Invariant, PTL DEF IInv

\* A leader that has not lost its session holds the lock: leaders overlap only
\* while one of them has a lost session to notice.
THEOREM LeaderHolds == Spec => []LeaderHoldsLock
  BY Invariant, PTL DEF IInv

\* "A run never overlaps itself", through every election and stop.
THEOREM RunsAlone == Spec => []NeverOverlapsItself
  BY Invariant, PTL DEF IInv

\* The claims of reports and rows hold however leaders overlap and stop.
THEOREM OnceEach == Spec => []OncePerOccasion
<1>1. IInv => OncePerOccasion
  <2>1. SUFFICES ASSUME IInv, NEW j \in Job, Kind[j] # "briefing"
                 PROVE  done[j] <= fallen[j] /\ recorded[j] <= fallen[j]
    BY DEF OncePerOccasion
  <2>2. CountSound(j)
    BY <2>1 DEF IInv
  <2>3. QED
    BY <2>1, <2>2, Counts DEF CountSound
<1>2. QED
  BY <1>1, Invariant, PTL

-----------------------------------------------------------------------------
(* Audit forwarding: the order of (xact, seq), and the least of the running *)
(* transactions.                                                            *)

Pair == Nat \X Nat

LEMMA BeforeOrders ==
  /\ \A d \in Pair : ~Before(d, d)
  /\ \A d, e \in Pair : Before(d, e) => ~Before(e, d)
  /\ \A d, e \in Pair : ~Before(d, e) /\ ~Before(e, d) => d = e
  /\ \A d, e, g \in Pair : ~Before(e, d) /\ Before(e, g) => Before(d, g)
  /\ \A d, e, g \in Pair : Before(d, e) /\ ~Before(g, e) => Before(d, g)
  /\ \A d, e, g \in Pair : ~Before(e, d) /\ ~Before(g, e) => ~Before(g, d)
  /\ \A d, e \in Pair : ~Before(e, d) => d[1] <= e[1]
  BY DEF Before, Pair

LEMMA Least ==
  ASSUME NEW S \in SUBSET Nat, S # {}
  PROVE  \E x \in S : \A y \in S : x <= y
<1>1. \E x \in S : \A y \in S : ~(<<y, x>> \in OpToRel(<, Nat))
  BY NatLessThanWellFounded, WFMin
<1>2. \A x, y \in S : <<y, x>> \in OpToRel(<, Nat) <=> y < x
  BY DEF OpToRel
<1>3. PICK x \in S : \A y \in S : ~(<<y, x>> \in OpToRel(<, Nat))
  BY <1>1
<1>4. \A y \in S : ~(y < x)
  BY <1>2, <1>3, Zenon
<1>5. \A y \in S : x <= y
  BY <1>4
<1>6. QED
  BY <1>5

-----------------------------------------------------------------------------
(* The inductive invariant. *)

\* e was written since forwarding started, and is at or before m.
Passed(m, e) == Before(start, e) /\ ~Before(m, e)

\* Events are of transactions that have ended.
TrailSound == \A e \in events : e[1] <= begun /\ e[1] \notin running

\* What a run saw running stays the oldest: new transactions have higher ids.
SnapshotSound(f) ==
  stage[f] # "idle" =>
    horizon[f] \in 1..begun + 1 /\ \A x \in running : horizon[f] <= x

\* A run that sends has in its batch whatever is not sent up to its last row.
BatchSound(f) ==
  stage[f] = "sending" =>
    /\ marked /\ last[f][1] < horizon[f] /\ ~Before(last[f], start)
    /\ \A e \in events : Passed(last[f], e) => e \in sent \/ e \in batch[f]
    /\ \A e \in batch[f] : ~Before(last[f], e)

\* The mark passes nothing that runs or is unsent, and nothing yet to begin.
MarkSound ==
  /\ ~marked => sent = {}
  /\ marked => ~Before(mark, start) /\ Before(mark, <<begun + 1, 1>>)
  /\ marked => \A e \in Event : e[1] <= begun /\ Passed(mark, e) =>
                 e[1] \notin running /\ (e \in events => e \in sent)

\* What was sent is older than all that runs.
SentSound == \A e \in sent, x \in running : e[1] < x

ForwardInv ==
  /\ ForwardTypeOK /\ TrailSound /\ MarkSound /\ SentSound /\ HeardInOrder
  /\ \A f \in Forwarder : SnapshotSound(f) /\ BatchSound(f)

\* Marks and events are pairs.
LEMMA Pairs ==
  ASSUME ForwardInv
  PROVE  /\ mark \in Pair /\ start \in Pair /\ events \subseteq Pair /\ sent \subseteq events
         /\ Event \subseteq Pair /\ events \subseteq Event
         /\ \A f \in Forwarder : last[f] \in Pair /\ batch[f] \subseteq events
         /\ begun \in Nat /\ running \subseteq Nat
  BY ForwardingAssumption DEF ForwardInv, ForwardTypeOK, Pair, Mark, Event, Xact

\* The oldest running transaction, or the next to begin, is what its name says.
LEMMA OldestIsOldest ==
  ASSUME ForwardInv
  PROVE  /\ OldestRunning \in 1..begun + 1
         /\ \A x \in running : OldestRunning <= x
<1>1. begun \in Nat /\ running \subseteq 1..begun
  BY ForwardingAssumption DEF ForwardInv, ForwardTypeOK
<1>2. CASE running = {}
  BY <1>1, <1>2 DEF OldestRunning
<1>3. CASE running # {}
  <2>1. \E x \in running : \A y \in running : x <= y
    BY <1>1, <1>3, Least
  <2>2. OldestRunning \in running /\ \A y \in running : OldestRunning <= y
    BY <1>3, <2>1 DEF OldestRunning
  <2>3. QED
    BY <1>1, <2>2
<1>4. QED
  BY <1>2, <1>3

-----------------------------------------------------------------------------
(* Each action keeps the invariant. *)

\* A new transaction is younger than all a run or the mark has passed.
LEMMA BeginKeeps ==
  ASSUME ForwardInv, Begin
  PROVE  ForwardInv'
<1>1. begun \in Nat /\ begun' = begun + 1 /\ running' = running \cup {begun + 1}
      /\ running \subseteq 1..begun
      /\ UNCHANGED <<events, marked, mark, start, stage, horizon, batch, last, sent, failures>>
  BY ForwardingAssumption DEF ForwardInv, ForwardTypeOK, Begin
<1>2. ForwardTypeOK'
  BY <1>1, ForwardingAssumption DEF ForwardInv, ForwardTypeOK, Begin
<1>3. TrailSound' /\ SentSound' /\ HeardInOrder'
  BY <1>1, Pairs DEF ForwardInv, TrailSound, SentSound, HeardInOrder, Pair
<1>4. MarkSound'
  <2>1. Before(mark, <<begun + 1, 1>>) => Before(mark, <<begun + 2, 1>>)
    BY <1>1, Pairs DEF Before, Pair
  <2>2. ASSUME marked, NEW e \in Event, e[1] <= begun + 1, Passed(mark, e)
        PROVE  e[1] <= begun
    <3>1. SUFFICES ASSUME e[1] = begun + 1 PROVE FALSE
      BY <1>1, <2>2, Pairs DEF Pair
    <3>2. Before(mark, <<begun + 1, 1>>) /\ e[2] >= 1 /\ mark \in Pair /\ e[2] \in Nat
      BY <2>2, Pairs DEF ForwardInv, MarkSound, Event
    <3>3. QED
      BY <1>1, <2>2, <3>1, <3>2 DEF Passed, Before, Pair
  <2>3. ASSUME marked, NEW e \in Event, e[1] <= begun + 1, Passed(mark, e)
        PROVE  e[1] \notin running \cup {begun + 1} /\ (e \in events => e \in sent)
    BY <1>1, <2>2, <2>3 DEF ForwardInv, MarkSound
  <2>4. begun + 1 + 1 = begun + 2
    BY <1>1
  <2>5. QED
    BY <1>1, <2>1, <2>3, <2>4 DEF ForwardInv, MarkSound, Passed
<1>5. ASSUME NEW f \in Forwarder PROVE SnapshotSound(f)' /\ BatchSound(f)'
  BY <1>1 DEF ForwardInv, SnapshotSound, BatchSound, Passed
<1>6. QED
  BY <1>2, <1>3, <1>4, <1>5 DEF ForwardInv

\* The transaction that ends was passed by no mark and no run.
LEMMA EndKeeps ==
  ASSUME ForwardInv, NEW x \in running, End(x)
  PROVE  ForwardInv'
<1>1. PICK k \in 0..Events : events' = events \cup ({x} \X (1..k))
  BY DEF End
<1>2. running' = running \ {x}
      /\ UNCHANGED <<begun, marked, mark, start, stage, horizon, batch, last, sent, failures>>
  BY DEF End
<1>3. x \in 1..begun /\ x \in Xact /\ begun \in Nat /\ Events \in Nat
  BY ForwardingAssumption DEF ForwardInv, ForwardTypeOK, Xact
<1>4. \A e \in events' : e \in events \/ (e \in Event /\ e[1] = x)
  <2>1. \A e \in {x} \X (1..k) : e \in {x} \X (1..Events) /\ e[1] = x
    BY <1>1, <1>3
  <2>2. {x} \X (1..Events) \subseteq Event
    BY <1>3 DEF Event
  <2>3. \A e \in events' : e \in events \/ e \in {x} \X (1..k)
    BY <1>1
  <2>4. QED
    BY <2>1, <2>2, <2>3
<1>5. ForwardTypeOK'
  <2>1. events \subseteq events' /\ events' \subseteq Event
    BY <1>1, <1>4 DEF ForwardInv, ForwardTypeOK
  <2>2. QED
    BY <1>2, <2>1 DEF ForwardInv, ForwardTypeOK
<1>6. TrailSound'
  BY <1>2, <1>3, <1>4 DEF ForwardInv, TrailSound
<1>7. MarkSound'
  BY <1>2, <1>3, <1>4 DEF ForwardInv, MarkSound, Passed
<1>8. SentSound'
  BY <1>2 DEF ForwardInv, SentSound
<1>9. HeardInOrder'
  <2>1. ASSUME NEW e \in sent, NEW d \in events', Before(start, d), Before(d, e)
        PROVE  d \in sent
    <3>1. CASE d \in events
      BY <2>1, <3>1 DEF ForwardInv, HeardInOrder
    <3>2. CASE d \in Event /\ d[1] = x
      <4>1. e[1] < x /\ e \in Pair /\ d \in Pair
        BY <3>2, Pairs DEF ForwardInv, SentSound
      <4>2. d[1] <= e[1]
        BY <2>1, <4>1, BeforeOrders
      <4>3. QED
        BY <1>3, <3>2, <4>1, <4>2 DEF Pair
    <3>3. QED
      BY <1>4, <3>1, <3>2
  <2>2. QED
    BY <1>2, <2>1 DEF HeardInOrder
<1>10. ASSUME NEW f \in Forwarder PROVE SnapshotSound(f)'
  BY <1>2 DEF ForwardInv, SnapshotSound
<1>11. ASSUME NEW f \in Forwarder PROVE BatchSound(f)'
  <2>1. ASSUME stage[f] = "sending", NEW e \in events', Passed(last[f], e)
        PROVE  e \in sent \/ e \in batch[f]
    <3>1. CASE e \in events
      BY <2>1, <3>1 DEF ForwardInv, BatchSound
    <3>2. CASE e \in Event /\ e[1] = x
      <4>1. last[f][1] < horizon[f] /\ horizon[f] <= x /\ horizon[f] \in 1..begun + 1
        BY <2>1 DEF ForwardInv, BatchSound, SnapshotSound
      <4>2. e \in Pair /\ last[f] \in Pair
        BY <3>2, Pairs
      <4>3. e[1] <= last[f][1]
        BY <2>1, <4>2, BeforeOrders DEF Passed
      <4>4. QED
        BY <1>3, <3>2, <4>1, <4>2, <4>3 DEF Pair
    <3>3. QED
      BY <1>4, <2>1, <3>1, <3>2
  <2>2. QED
    BY <1>2, <2>1 DEF ForwardInv, BatchSound, Passed
<1>12. QED
  BY <1>5, <1>6, <1>7, <1>8, <1>9, <1>10, <1>11 DEF ForwardInv

\* What a step of one forwarder leaves alone.
LEMMA OthersSound ==
  ASSUME ForwardInv, NEW f \in Forwarder, NEW g \in Forwarder \ {f},
         UNCHANGED <<trail, start>>, marked => marked', sent \subseteq sent',
         stage'[g] = stage[g], horizon'[g] = horizon[g], batch'[g] = batch[g], last'[g] = last[g]
  PROVE  SnapshotSound(g)' /\ BatchSound(g)'
<1>1. SnapshotSound(g) /\ BatchSound(g)
  BY DEF ForwardInv
<1>2. SnapshotSound(g)'
  BY <1>1 DEF SnapshotSound, trail
<1>3. BatchSound(g)'
  BY <1>1 DEF BatchSound, Passed, trail
<1>4. QED
  BY <1>2, <1>3

LEMMA ReadHorizonKeeps ==
  ASSUME ForwardInv, NEW f \in Forwarder, ReadHorizon(f)
  PROVE  ForwardInv'
<1>1. /\ horizon' = [horizon EXCEPT ![f] = OldestRunning]
      /\ stage' = [stage EXCEPT ![f] = "reading"]
      /\ UNCHANGED <<trail, marked, mark, start, batch, last, sent, failures>>
  BY DEF ReadHorizon
<1>2. /\ begun \in 0..Xacts /\ horizon \in [Forwarder -> Horizon]
      /\ stage \in [Forwarder -> ForwardStage]
  BY DEF ForwardInv, ForwardTypeOK
<1>3. OldestRunning \in Horizon
  BY <1>2, OldestIsOldest, ForwardingAssumption DEF Horizon
<1>4. ForwardTypeOK'
  BY <1>1, <1>2, <1>3 DEF ForwardInv, ForwardTypeOK, ForwardStage, trail
<1>5. TrailSound' /\ MarkSound' /\ SentSound' /\ HeardInOrder'
  BY <1>1 DEF ForwardInv, TrailSound, MarkSound, SentSound, HeardInOrder, Passed, trail
<1>6. SnapshotSound(f)' /\ BatchSound(f)'
  BY <1>1, <1>2, OldestIsOldest DEF SnapshotSound, BatchSound, trail
<1>7. \A g \in Forwarder \ {f} : SnapshotSound(g)' /\ BatchSound(g)'
  BY <1>1, <1>2, OthersSound
<1>8. QED
  BY <1>4, <1>5, <1>6, <1>7 DEF ForwardInv

\* The first mark passes nothing: forwarding starts there.
LEMMA SetMarkKeeps ==
  ASSUME ForwardInv, NEW f \in Forwarder, SetMark(f)
  PROVE  ForwardInv'
<1>1. /\ stage[f] = "reading" /\ ~marked /\ marked'
      /\ mark' = <<horizon[f], 0>> /\ start' = <<horizon[f], 0>>
      /\ stage' = [stage EXCEPT ![f] = "idle"]
      /\ UNCHANGED <<trail, horizon, batch, last, sent, failures>>
  BY DEF SetMark
<1>2. /\ horizon[f] \in 1..begun + 1 /\ begun \in 0..Xacts
      /\ stage \in [Forwarder -> ForwardStage] /\ sent = {}
  BY <1>1 DEF ForwardInv, ForwardTypeOK, SnapshotSound, MarkSound
<1>3. mark' \in Mark /\ start' \in Mark /\ mark' \in Pair /\ start' = mark'
  BY <1>1, <1>2, ForwardingAssumption DEF Mark, Pair
<1>4. ForwardTypeOK'
  BY <1>1, <1>2, <1>3 DEF ForwardInv, ForwardTypeOK, ForwardStage, trail
<1>5. TrailSound' /\ SentSound' /\ HeardInOrder'
  BY <1>1, <1>2 DEF ForwardInv, TrailSound, SentSound, HeardInOrder, trail
<1>6. MarkSound'
  <2>1. ~Before(mark', start') /\ \A e : ~(Before(start', e) /\ ~Before(mark', e))
    BY <1>3, BeforeOrders
  <2>2. Before(mark', <<begun + 1, 1>>)
    BY <1>1, <1>2, ForwardingAssumption DEF Before
  <2>3. QED
    BY <1>1, <2>1, <2>2 DEF MarkSound, Passed, trail
<1>7. ASSUME NEW g \in Forwarder PROVE SnapshotSound(g)' /\ BatchSound(g)'
  <2>1. stage[g] # "sending"
    BY <1>1 DEF ForwardInv, BatchSound
  <2>2. stage'[g] # "sending" /\ (stage'[g] # "idle" => stage[g] # "idle")
    BY <1>1, <1>2, <2>1
  <2>3. QED
    BY <1>1, <2>2 DEF ForwardInv, SnapshotSound, BatchSound, trail
<1>8. QED
  BY <1>4, <1>5, <1>6, <1>7 DEF ForwardInv

\* The rows read are all that is unsent up to the last of them.
LEMMA ReadEventsKeeps ==
  ASSUME ForwardInv, NEW f \in Forwarder, ReadEvents(f)
  PROVE  ForwardInv'
<1>1. /\ stage[f] = "reading" /\ marked
      /\ UNCHANGED <<trail, marked, mark, start, horizon, sent, failures>>
  BY DEF ReadEvents
<1>2. /\ stage \in [Forwarder -> ForwardStage] /\ batch \in [Forwarder -> SUBSET events]
      /\ last \in [Forwarder -> Mark] /\ horizon[f] \in 1..begun + 1 /\ begun \in 0..Xacts
      /\ events \subseteq Event
  BY <1>1 DEF ForwardInv, ForwardTypeOK, SnapshotSound
<1>3. TrailSound' /\ MarkSound' /\ SentSound' /\ HeardInOrder'
  BY <1>1 DEF ForwardInv, TrailSound, MarkSound, SentSound, HeardInOrder, Passed, trail
<1>4. CASE stage' = [stage EXCEPT ![f] = "idle"] /\ UNCHANGED <<batch, last>>
  <2>1. ForwardTypeOK'
    BY <1>1, <1>2, <1>4 DEF ForwardInv, ForwardTypeOK, ForwardStage, trail
  <2>2. SnapshotSound(f)' /\ BatchSound(f)'
    BY <1>2, <1>4 DEF SnapshotSound, BatchSound
  <2>3. \A g \in Forwarder \ {f} : SnapshotSound(g)' /\ BatchSound(g)'
    BY <1>1, <1>2, <1>4, OthersSound
  <2>4. QED
    BY <1>3, <2>1, <2>2, <2>3 DEF ForwardInv
<1>5. ASSUME NEW rows \in SUBSET Forwardable(f), NEW e \in Forwardable(f),
             FirstUpTo(Forwardable(f), rows, e),
             batch' = [batch EXCEPT ![f] = rows], last' = [last EXCEPT ![f] = e],
             stage' = [stage EXCEPT ![f] = "sending"]
      PROVE  ForwardInv'
  <2>1. rows \subseteq events /\ e \in events /\ Before(mark, e) /\ e[1] < horizon[f]
    BY DEF Forwardable
  <2>2. e \in Mark
    BY <1>2, <2>1, ForwardingAssumption DEF Event, Xact, Mark
  <2>3. ForwardTypeOK'
    BY <1>1, <1>2, <1>5, <2>1, <2>2 DEF ForwardInv, ForwardTypeOK, ForwardStage, trail
  <2>4. stage'[f] = "sending" /\ batch'[f] = rows /\ last'[f] = e
    BY <1>2, <1>5
  <2>5. SnapshotSound(f)'
    BY <1>1 DEF ForwardInv, SnapshotSound, trail
  <2>6. ~Before(e, start)
    <3>1. ~Before(mark, start) /\ mark \in Pair /\ start \in Pair /\ e \in Pair
      BY <1>1, <2>1, Pairs DEF ForwardInv, MarkSound
    <3>2. QED
      BY <2>1, <3>1, BeforeOrders
  <2>7. ASSUME NEW d \in events, Passed(e, d) PROVE d \in sent \/ d \in rows
    <3>1. d \in Pair /\ e \in Pair /\ mark \in Pair /\ d \in Event /\ d[1] <= begun
      BY <2>1, Pairs DEF ForwardInv, TrailSound
    <3>2. CASE ~Before(mark, d)
      BY <1>1, <2>7, <3>1, <3>2 DEF ForwardInv, MarkSound, Passed
    <3>3. CASE Before(mark, d)
      <4>1. d[1] <= e[1]
        BY <2>7, <3>1, BeforeOrders DEF Passed
      <4>2. d[1] < horizon[f]
        BY <1>2, <2>1, <3>1, <4>1 DEF Pair
      <4>3. d \in Forwardable(f) /\ ~Before(e, d)
        BY <2>7, <3>3, <4>2 DEF Forwardable, Passed
      <4>4. QED
        BY <1>5, <4>3 DEF FirstUpTo
    <3>4. QED
      BY <3>2, <3>3
  <2>8. \A d \in rows : ~Before(e, d)
    BY <1>5 DEF FirstUpTo
  <2>9. BatchSound(f)'
    BY <1>1, <2>1, <2>4, <2>6, <2>7, <2>8 DEF BatchSound, Passed, trail
  <2>10. \A g \in Forwarder \ {f} : SnapshotSound(g)' /\ BatchSound(g)'
    BY <1>1, <1>2, <1>5, OthersSound
  <2>11. QED
    BY <1>3, <2>3, <2>5, <2>9, <2>10 DEF ForwardInv
<1>6. QED
  BY <1>4, <1>5 DEF ReadEvents

\* The event sent is the first that its run has not sent.
LEMMA SendKeeps ==
  ASSUME ForwardInv, NEW f \in Forwarder, Send(f)
  PROVE  ForwardInv'
<1>1. PICK e \in batch[f] : /\ \A d \in batch[f] : ~Before(d, e)
                            /\ sent' = sent \cup {e}
                            /\ batch' = [batch EXCEPT ![f] = @ \ {e}]
  BY DEF Send
<1>2. stage[f] = "sending"
      /\ UNCHANGED <<trail, marked, mark, start, stage, horizon, last, failures>>
  BY DEF Send
<1>3. /\ batch \in [Forwarder -> SUBSET events] /\ e \in events /\ e \in Pair
      /\ last[f] \in Pair /\ begun \in Nat /\ marked
  BY <1>2, Pairs DEF ForwardInv, ForwardTypeOK, BatchSound
<1>4. ForwardTypeOK'
  BY <1>1, <1>2, <1>3 DEF ForwardInv, ForwardTypeOK, trail
<1>5. TrailSound' /\ MarkSound'
  BY <1>1, <1>2, <1>3 DEF ForwardInv, TrailSound, MarkSound, Passed, trail
<1>6. ~Before(last[f], e) /\ e[1] <= last[f][1]
  BY <1>2, <1>3, BeforeOrders DEF ForwardInv, BatchSound
<1>7. SentSound'
  <2>1. ASSUME NEW x \in running PROVE e[1] < x
    <3>1. last[f][1] < horizon[f] /\ horizon[f] <= x /\ horizon[f] \in 1..begun + 1
          /\ x \in Nat
      BY <1>2, Pairs DEF ForwardInv, BatchSound, SnapshotSound
    <3>2. QED
      BY <1>3, <1>6, <3>1 DEF Pair
  <2>2. QED
    BY <1>1, <1>2, <2>1 DEF ForwardInv, SentSound, trail
<1>8. HeardInOrder'
  <2>1. ASSUME NEW d \in events, Before(start, d), Before(d, e) PROVE d \in sent
    <3>1. d \in Pair
      BY Pairs
    <3>2. Passed(last[f], d)
      BY <1>3, <1>6, <2>1, <3>1, BeforeOrders DEF Passed
    <3>3. d \in sent \/ d \in batch[f]
      BY <1>2, <3>2 DEF ForwardInv, BatchSound
    <3>4. QED
      BY <1>1, <2>1, <3>3
  <2>2. QED
    BY <1>1, <1>2, <2>1 DEF ForwardInv, HeardInOrder, trail
<1>9. SnapshotSound(f)' /\ BatchSound(f)'
  <2>1. batch'[f] = batch[f] \ {e}
    BY <1>1, <1>3
  <2>2. QED
    BY <1>1, <1>2, <2>1 DEF ForwardInv, SnapshotSound, BatchSound, Passed, trail
<1>10. \A g \in Forwarder \ {f} : SnapshotSound(g)' /\ BatchSound(g)'
  BY <1>1, <1>2, <1>3, OthersSound
<1>11. QED
  BY <1>4, <1>5, <1>7, <1>8, <1>9, <1>10 DEF ForwardInv

\* A batch that is sent is passed by the mark, and nothing else is.
LEMMA AdvanceKeeps ==
  ASSUME ForwardInv, NEW f \in Forwarder, Advance(f)
  PROVE  ForwardInv'
<1>1. /\ stage[f] = "sending" /\ batch[f] = {}
      /\ mark' = IF Before(mark, last[f]) THEN last[f] ELSE mark
      /\ stage' = [stage EXCEPT ![f] = "idle"]
      /\ UNCHANGED <<trail, marked, start, horizon, batch, last, sent, failures>>
  BY DEF Advance
<1>2. /\ stage \in [Forwarder -> ForwardStage] /\ last \in [Forwarder -> Mark] /\ marked
      /\ last[f] \in Pair /\ begun \in Nat
      /\ last[f][1] < horizon[f] /\ horizon[f] \in 1..begun + 1
      /\ \A x \in running : horizon[f] <= x
  BY <1>1, Pairs DEF ForwardInv, ForwardTypeOK, BatchSound, SnapshotSound
<1>3. ForwardTypeOK'
  BY <1>1, <1>2 DEF ForwardInv, ForwardTypeOK, ForwardStage, trail
<1>4. TrailSound' /\ SentSound' /\ HeardInOrder'
  BY <1>1 DEF ForwardInv, TrailSound, SentSound, HeardInOrder, trail
<1>5. MarkSound'
  <2>1. CASE mark' = mark
    BY <1>1, <2>1 DEF ForwardInv, MarkSound, Passed, trail
  <2>2. CASE mark' = last[f]
    <3>1. ~Before(last[f], start) /\ Before(last[f], <<begun + 1, 1>>)
      BY <1>1, <1>2 DEF ForwardInv, BatchSound, Before, Pair
    <3>2. ASSUME NEW e \in Event, e[1] <= begun, Passed(last[f], e)
          PROVE  e[1] \notin running /\ (e \in events => e \in sent)
      <4>1. e \in Pair /\ running \subseteq Nat
        BY Pairs
      <4>2. e[1] <= last[f][1]
        BY <1>2, <3>2, <4>1, BeforeOrders DEF Passed
      <4>3. e[1] \notin running
        BY <1>2, <4>1, <4>2 DEF Pair
      <4>4. e \in events => e \in sent
        BY <1>1, <3>2 DEF ForwardInv, BatchSound
      <4>5. QED
        BY <4>3, <4>4
    <3>3. QED
      BY <1>1, <1>2, <2>2, <3>1, <3>2 DEF MarkSound, Passed, trail
  <2>3. QED
    BY <1>1, <2>1, <2>2
<1>6. SnapshotSound(f)' /\ BatchSound(f)'
  BY <1>1, <1>2 DEF SnapshotSound, BatchSound
<1>7. \A g \in Forwarder \ {f} : SnapshotSound(g)' /\ BatchSound(g)'
  BY <1>1, <1>2, OthersSound
<1>8. QED
  BY <1>3, <1>4, <1>5, <1>6, <1>7 DEF ForwardInv

LEMMA FailKeeps ==
  ASSUME ForwardInv, NEW f \in Forwarder, Fail(f)
  PROVE  ForwardInv'
<1>1. /\ stage' = [stage EXCEPT ![f] = "idle"] /\ batch' = [batch EXCEPT ![f] = {}]
      /\ UNCHANGED <<trail, marked, mark, start, horizon, last, sent>>
  BY DEF Fail
<1>2. stage \in [Forwarder -> ForwardStage] /\ batch \in [Forwarder -> SUBSET events]
  BY DEF ForwardInv, ForwardTypeOK
<1>3. ForwardTypeOK'
  <2>1. failures' \in 0..MaxFailures
    BY ForwardingAssumption DEF ForwardInv, ForwardTypeOK, Fail
  <2>2. QED
    BY <1>1, <1>2, <2>1 DEF ForwardInv, ForwardTypeOK, ForwardStage, trail
<1>4. TrailSound' /\ MarkSound' /\ SentSound' /\ HeardInOrder'
  BY <1>1 DEF ForwardInv, TrailSound, MarkSound, SentSound, HeardInOrder, Passed, trail
<1>5. SnapshotSound(f)' /\ BatchSound(f)'
  BY <1>1, <1>2 DEF SnapshotSound, BatchSound
<1>6. \A g \in Forwarder \ {f} : SnapshotSound(g)' /\ BatchSound(g)'
  BY <1>1, <1>2, OthersSound
<1>7. QED
  BY <1>3, <1>4, <1>5, <1>6 DEF ForwardInv

-----------------------------------------------------------------------------
(* The invariant, and what follows from it. *)

LEMMA ForwardInitInv == ForwardInit => ForwardInv
<1> SUFFICES ASSUME ForwardInit PROVE ForwardInv
  OBVIOUS
<1>1. ForwardTypeOK
  <2>1. <<1, 0>> \in Mark
    BY ForwardingAssumption DEF Mark
  <2>2. /\ begun \in 0..Xacts /\ running \subseteq 1..begun /\ failures \in 0..MaxFailures
        /\ horizon \in [Forwarder -> Horizon]
    BY ForwardingAssumption DEF ForwardInit, Horizon
  <2>3. QED
    BY <2>1, <2>2 DEF ForwardInit, ForwardTypeOK, ForwardStage
<1>2. TrailSound /\ MarkSound /\ SentSound /\ HeardInOrder
  BY DEF ForwardInit, TrailSound, MarkSound, SentSound, HeardInOrder
<1>3. \A f \in Forwarder : SnapshotSound(f) /\ BatchSound(f)
  BY DEF ForwardInit, SnapshotSound, BatchSound
<1>4. QED
  BY <1>1, <1>2, <1>3 DEF ForwardInv

LEMMA ForwardStepInv == ForwardInv /\ [ForwardNext]_forwardVars => ForwardInv'
<1> SUFFICES ASSUME ForwardInv, [ForwardNext]_forwardVars PROVE ForwardInv'
  OBVIOUS
<1>1. CASE UNCHANGED forwardVars
  <2>1. ForwardTypeOK' /\ TrailSound' /\ MarkSound' /\ SentSound' /\ HeardInOrder'
    BY <1>1 DEF ForwardInv, ForwardTypeOK, TrailSound, MarkSound, SentSound, HeardInOrder, Passed,
       forwardVars
  <2>2. \A f \in Forwarder : SnapshotSound(f)' /\ BatchSound(f)'
    BY <1>1 DEF ForwardInv, SnapshotSound, BatchSound, Passed, forwardVars
  <2>3. QED
    BY <2>1, <2>2 DEF ForwardInv
<1>2. QED
  BY <1>1, BeginKeeps, EndKeeps, ReadHorizonKeeps, SetMarkKeeps, ReadEventsKeeps, SendKeeps,
     AdvanceKeeps, FailKeeps DEF ForwardNext, Step

\* Every reachable state satisfies the inductive invariant.
THEOREM ForwardInvariant == ForwardSpec => []ForwardInv
  BY ForwardInitInv, ForwardStepInv, PTL DEF ForwardSpec

\* The state keeps its types.
THEOREM ForwardTypeCorrect == ForwardSpec => []ForwardTypeOK
  BY ForwardInvariant, PTL DEF ForwardInv

\* "It never passes an event whose transaction commits late": whatever commits
\* when, however many leaders forward, and whatever fails.
THEOREM MarkHolds == ForwardSpec => []MarkPassesNothing
<1>1. ForwardInv => MarkPassesNothing
  <2>1. SUFFICES ASSUME ForwardInv, marked, NEW x \in 1..begun, NEW k \in 1..Events,
                        Before(start, <<x, k>>), ~Before(mark, <<x, k>>)
                 PROVE  x \notin running /\ (<<x, k>> \in events => <<x, k>> \in sent)
    BY DEF MarkPassesNothing
  <2>2. <<x, k>> \in Event /\ <<x, k>>[1] = x /\ x <= begun
    BY <2>1, ForwardingAssumption DEF Event, Xact, ForwardInv, ForwardTypeOK
  <2>3. QED
    BY <2>1, <2>2 DEF ForwardInv, MarkSound, Passed
<1>2. QED
  BY <1>1, ForwardInvariant, PTL

\* The collector hears the trail in order, without a gap that is filled later.
THEOREM HeardOrdered == ForwardSpec => []HeardInOrder
  BY ForwardInvariant, PTL DEF ForwardInv

\* The mark is moved on, never back, however slow one of two leaders is.
THEOREM MarkStays == ForwardSpec => MarkNeverMovesBack
<1>1. ASSUME ForwardInv, [ForwardNext]_forwardVars, marked PROVE ~Before(mark', mark)
  <2>1. mark \in Pair /\ \A f \in Forwarder : last[f] \in Pair
    BY <1>1, Pairs
  <2>2. mark' = mark \/ \E f \in Forwarder : Before(mark, last[f]) /\ mark' = last[f]
    BY <1>1 DEF ForwardNext, Step, Begin, End, ReadHorizon, SetMark, ReadEvents, Send, Advance,
       Fail, forwardVars
  <2>3. QED
    BY <2>1, <2>2, BeforeOrders
<1>2. QED
  BY <1>1, ForwardInvariant, PTL DEF ForwardSpec, MarkNeverMovesBack
=============================================================================
