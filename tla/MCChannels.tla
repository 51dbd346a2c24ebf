----------------------------- MODULE MCChannels ------------------------------
(* Two parts for TLC that share no state: the lane into an agent's pane, and  *)
(* the coordinator that stands in for the main agent's channel plugin.  A     *)
(* behaviour is that of one of them: "part" says which, and the other stays   *)
(* as it begins.                                                              *)
(*                                                                            *)
(* Four senders, so that three can wait, and a healer.  Two updates and three *)
(* events (flips of the plugin, wrong probes, failures, crashes): enough for  *)
(* an outage with a crash in each of the two windows of a handoff, or one     *)
(* that ends while a batch is handed off.                                     *)
EXTENDS SessionSendLock, ChannelCoordinator

CONSTANTS s1, s2, s3, s4, h1

VARIABLE part
parts == <<vars, ccVars, part>>

MCInit == part \in {"lane", "coordinator"} /\ Init /\ CCInit

OfLane(A) == part = "lane" /\ A /\ UNCHANGED <<ccVars, part>>
OfCoordinator(A) == part = "coordinator" /\ A /\ UNCHANGED <<vars, part>>

\* the fairness of FairSpec and CCFairSpec
MCFairness ==
  /\ \A c \in Sender :
       WF_parts(OfLane(BudgetElapses(c))) /\ WF_parts(OfLane(FailOpen(c))) /\ WF_parts(OfLane(Granted(c)))
  /\ WF_parts(OfCoordinator(Round)) /\ WF_parts(OfCoordinator(MainReads))
  /\ WF_parts(OfCoordinator(CooldownEnds)) /\ WF_parts(OfCoordinator(Restart))
  /\ WF_parts(OfCoordinator(NativeDelivers))

MCSpec == MCInit /\ [][OfLane(Next) \/ OfCoordinator(CCNext)]_parts /\ MCFairness
=============================================================================
