----------------------------- MODULE MCServices ------------------------------
(* Three parts of the dashboard for TLC that share no state: approvals,       *)
(* background tasks and the process lock.  A behaviour is that of one of      *)
(* them: "part" says which, and the others stay as they begin.                *)
EXTENDS Approvals, BackgroundTasks, ProcessLock

VARIABLE part
parts == <<apVars, bgVars, plVars, part>>

MCInit ==
  /\ part \in {"approvals", "tasks", "lock"}
  /\ APInit /\ BGInit /\ PLInit

OfApprovals(A) == part = "approvals" /\ A /\ UNCHANGED <<bgVars, plVars, part>>
OfTasks(A) == part = "tasks" /\ A /\ UNCHANGED <<apVars, plVars, part>>
OfLock(A) == part = "lock" /\ A /\ UNCHANGED <<apVars, bgVars, part>>

MCNext == OfApprovals(APNext) \/ OfTasks(BGNext) \/ OfLock(PLNext)

\* the fairness of APFairSpec, BGFairSpec and PLFairSpec
MCFairness ==
  /\ WF_parts(OfApprovals(APTick)) /\ WF_parts(OfApprovals(SweepApprovals))
  /\ WF_parts(OfApprovals(APRestart)) /\ \A r \in Request : WF_parts(OfApprovals(Notify(r)))
  /\ WF_parts(OfTasks(Handler)) /\ WF_parts(OfTasks(BGRestart))
  /\ \A t \in Task : SF_parts(OfTasks(Expire(t)))
  /\ \A p \in Pid : WF_parts(OfLock(StepOf(p)))

MCSpec == MCInit /\ [][MCNext]_parts /\ MCFairness
=============================================================================
