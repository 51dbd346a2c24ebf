------------------------------- MODULE MCSweeps -------------------------------
(* Two parts for TLC that share no state, each the loop of a timer: the       *)
(* schedule runner with a broadcast, and the context guard and restart gate   *)
(* of one agent.  "part" says whose behaviour it is; the other stays as it    *)
(* begins.                                                                    *)
(*                                                                            *)
(* The main agent has the proactive tiers; a sub-agent the net above the flow *)
(* that is off, with the idle flush or with the gate.                         *)
EXTENDS MCScheduleRunner, ContextGuard

Tiers(enabled, flush, gated) == [enabled |-> enabled, net |-> TRUE, flush |-> flush, gate |-> gated]
AllOff == [enabled |-> FALSE, net |-> FALSE, flush |-> FALSE, gate |-> FALSE]
MCSettings == {Tiers(TRUE, FALSE, FALSE), Tiers(FALSE, TRUE, FALSE), Tiers(FALSE, FALSE, TRUE)}
MCEdits == {Tiers(FALSE, FALSE, FALSE), AllOff}

VARIABLE part
parts == <<vars, cgVars, part>>

\* one initial state of a part will do while the other moves
MCInit ==
  /\ part \in {"schedule", "guard"} /\ Init /\ CGInit /\ (isMain <=> cfg.enabled)
  /\ part = "schedule" => isMain
  /\ part = "guard" => \A a \in Agents : sess[a] = "ready"

OfSchedule(A) == part = "schedule" /\ A /\ UNCHANGED <<cgVars, part>>
OfGuard(A) == part = "guard" /\ A /\ UNCHANGED <<vars, part>>

\* the fairness of FairSpec and CGFairSpec
MCFairness ==
  /\ WF_parts(OfSchedule(Tick)) /\ WF_parts(OfSchedule(TickLoop)) /\ WF_parts(OfSchedule(Restart))
  /\ \A x \in Actors : WF_parts(OfSchedule(Attempt(x)))
  /\ WF_parts(OfGuard(Loop)) /\ WF_parts(OfGuard(Time)) /\ WF_parts(OfGuard(Gate))
  /\ SF_parts(OfGuard(GateClears /\ pane \in {"idle", "busy"}))

MCSpec == MCInit /\ [][OfSchedule(Next) \/ OfGuard(CGNext)]_parts /\ MCFairness
=============================================================================
