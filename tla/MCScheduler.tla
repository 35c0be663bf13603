---------------------------- MODULE MCScheduler ----------------------------
(* Small instances of Scheduler for TLC. *)
EXTENDS Scheduler, TLC

CONSTANTS a, b, report, row, briefing

\* One piece of work of each kind.
ReportRowAndBriefing ==
  (report :> "report") @@ (row :> "row") @@ (briefing :> "briefing")

\* A briefing alone, the instance that shows BriefingFiresOnce does not hold.
OneBriefing == briefing :> "briefing"
=============================================================================
