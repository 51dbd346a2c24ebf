------------------------ MODULE AgentLifecycleProofs ------------------------
(* Theorems about AgentLifecycle, for any caps and any number of orders and   *)
(* troubles.                                                                  *)
EXTENDS AgentLifecycle, TLAPS

(***************************************************************************)
(* A restart is counted when it has come to its end, or is about to, or was *)
(* cut short; and none begins once the cap is reached.                      *)
(***************************************************************************)
Counted ==
  /\ failures \in Nat /\ kills \in Nat /\ cut \in Nat
  /\ kills <= failures + cut + (IF sweep = "gap" THEN 1 ELSE 0)
  /\ kills <= MaxAttempts + cut

LEMMA InitCounted == ALInit => Counted
  BY AgentLifecycleAssumption DEF ALInit, Counted

LEMMA NextCounted ==
    ASSUME Counted, [ALNext]_alVars
    PROVE  Counted'
  <1>1. ASSUME StartOrder PROVE Counted'
    BY <1>1 DEF Counted, StartOrder, StartAgent, Ordered, Order, Call, Fault, Wanted, LeaveSession, Up, alWatch, alGaps, alWord, alHistory, alBounds
  <1>2. ASSUME ScheduledStart PROVE Counted'
    BY <1>2 DEF Counted, ScheduledStart, StartAgent, Ordered, Order, Call, Fault, Wanted, LeaveSession, Up, alWatch, alGaps, alWord, alHistory, alBounds
  <1>3. ASSUME RestartOrder PROVE Counted'
    BY <1>3 DEF Counted, RestartOrder, StartAgent, KillSession, Ordered, Order, Call, Fault, Wanted, LeaveSession, Up, alWatch, alGaps, alWord, alHistory, alBounds
  <1>4. ASSUME CreateAgain PROVE Counted'
    BY <1>4 DEF Counted, CreateAgain, Ordered, Order, Call, Fault, Wanted, LeaveSession, Up, alWatch, alGaps, alWord, alHistory, alBounds
  <1>5. ASSUME NEW which \in {"stop", "delete"}, StopOrder(which) PROVE Counted'
    BY <1>5 DEF Counted, StopOrder, Withdraw, KillSession, UnderWay, Ordered, Order, Call, Fault, Wanted, LeaveSession, Up, alWatch, alGaps, alWord, alHistory, alBounds
  <1>6. ASSUME SessionDies PROVE Counted'
    BY <1>6 DEF Counted, SessionDies, Trouble, Fault, KillSession, Up, alWatch, alGaps, alWord, alHistory, alBounds
  <1>7. ASSUME PluginDies PROVE Counted'
    BY <1>7 DEF Counted, PluginDies, Trouble, Fault, Up, alWatch, alGaps, alWord, alHistory, alBounds
  <1>8. ASSUME DashboardRestarts PROVE Counted'
    BY <1>8, AgentLifecycleAssumption DEF Counted, DashboardRestarts, Trouble, Fault, FailuresOnDisk, Up, alWatch, alGaps, alWord, alHistory, alBounds
  <1>9. ASSUME WatchdogThrows PROVE Counted'
    BY <1>9, AgentLifecycleAssumption DEF Counted, WatchdogThrows, Trouble, Fault, LeaveSession, Up, alWatch, alGaps, alWord, alHistory, alBounds
  <1>10. ASSUME StopReaps PROVE Counted'
    BY <1>10 DEF Counted, StopReaps, Reap, LeaveSession, Up, alWatch, alGaps, alWord, alHistory, alBounds
  <1>11. ASSUME DeleteEnds PROVE Counted'
    BY <1>11 DEF Counted, DeleteEnds, Reap, LeaveSession, Up, alWatch, alGaps, alWord, alHistory, alBounds
  <1>12. ASSUME RestartStarts PROVE Counted'
    BY <1>12 DEF Counted, RestartStarts, Reap, LeaveSession, StartAgent, Up, alWatch, alGaps, alWord, alHistory, alBounds
  <1>13. ASSUME UnlockProbe PROVE Counted'
    BY <1>13 DEF Counted, UnlockProbe, Up, alWatch, alGaps, alWord, alHistory, alBounds
  <1>14. ASSUME SweepBegins PROVE Counted'
    BY <1>14 DEF Counted, SweepBegins, Up, alWatch, alGaps, alWord, alHistory, alBounds
  <1>15. ASSUME LookAway PROVE Counted'
    BY <1>15 DEF Counted, LookAway, LooksAt, LeaveSession, Up, alWatch, alGaps, alWord, alHistory, alBounds
  <1>16. ASSUME SeesAlive PROVE Counted'
    BY <1>16, AgentLifecycleAssumption DEF Counted, SeesAlive, LooksAt, LeaveSession, Up, alWatch, alGaps, alWord, alHistory, alBounds
  <1>17. ASSUME LooksDown PROVE Counted'
    BY <1>17 DEF Counted, LooksDown, SeesDown, LooksAt, LeaveSession, Up, alWatch, alGaps, alWord, alHistory, alBounds
  <1>18. ASSUME GiveUp PROVE Counted'
    BY <1>18 DEF Counted, GiveUp, SeesDown, LooksAt, LeaveSession, Up, alWatch, alGaps, alWord, alHistory, alBounds
  <1>19. ASSUME AlertBusy PROVE Counted'
    BY <1>19 DEF Counted, AlertBusy, SeesDown, LooksAt, LeaveSession, Up, alWatch, alGaps, alWord, alHistory, alBounds
  <1>20. ASSUME WatchdogStops PROVE Counted'
    BY <1>20, AgentLifecycleAssumption DEF Counted, WatchdogStops, SeesDown, LooksAt, KillSession, Up, alWatch, alGaps, alWord, alHistory, alBounds, MayAct, Budget
  <1>21. ASSUME WatchdogStarts PROVE Counted'
    BY <1>21 DEF Counted, WatchdogStarts, LooksAt, Reap, LeaveSession, StartAgent, Up, alWatch, alGaps, alWord, alHistory, alBounds
  <1>22. ASSUME SweepLists PROVE Counted'
    BY <1>22 DEF Counted, SweepLists, Missing, Up, alWatch, alGaps, alWord, alHistory, alBounds
  <1>23. ASSUME SweepEnds PROVE Counted'
    BY <1>23 DEF Counted, SweepEnds, Up, alWatch, alGaps, alWord, alHistory, alBounds
  <1>24. ASSUME BurstPasses PROVE Counted'
    BY <1>24 DEF Counted, BurstPasses, LeaveSession, Up, alWatch, alGaps, alWord, alHistory, alBounds
  <1>25. ASSUME BurstStarts PROVE Counted'
    BY <1>25 DEF Counted, BurstStarts, StartAgent, Up, alWatch, alGaps, alWord, alHistory, alBounds
  <1>26. ASSUME Ages PROVE Counted'
    BY <1>26 DEF Counted, Ages, VerdictExpires, Up, alWatch, alGaps, alWord, alHistory, alBounds
  <1>27. ASSUME WatchdogStopFails PROVE Counted'
    BY <1>27, AgentLifecycleAssumption DEF Counted, WatchdogStopFails, Trouble, Fault, SeesDown, LeaveSession, Up, alWatch, alGaps, alWord, alHistory, alBounds
  <1>28. CASE UNCHANGED alVars
    BY <1>28 DEF Counted, Up, alVars, alWatch, alGaps, alWord, alHistory
  <1> QED
    BY <1>1, <1>2, <1>3, <1>4, <1>5, <1>6, <1>7, <1>8, <1>9, <1>10, <1>11, <1>12, <1>13, <1>14,
       <1>15, <1>16, <1>17, <1>18, <1>19, <1>20, <1>21, <1>22, <1>23, <1>24, <1>25, <1>26, <1>28, <1>27
    DEF ALNext, Orders, Troubles, Handlers, Sweeping, Looks, Burst

\* The watchdog's count of failures, written late, lost and cut short, still
\* bounds how often it ends the session of an agent it cannot help.
THEOREM NoEndlessRestarts == ALSpec => []RestartsBounded
  <1>1. Counted => RestartsBounded
    BY DEF Counted, RestartsBounded
  <1> QED
    BY <1>1, InitCounted, NextCounted, PTL DEF ALSpec

(***************************************************************************)
(* After a stop that worked, with nothing under way, nothing is left that  *)
(* would start the agent: no wish, no list, no gap.                        *)
(***************************************************************************)
AtRest ==
  /\ stopped \in BOOLEAN /\ raced \in BOOLEAN /\ failed \in BOOLEAN /\ desired \in BOOLEAN
  /\ burst \in BOOLEAN /\ restarting \in BOOLEAN
  /\ stopped /\ ~raced /\ ~failed => session = "down" /\ ~desired /\ sweep \notin {"gap", "held"} /\ ~burst /\ ~restarting

LEMMA InitAtRest == ALInit => AtRest
  BY DEF ALInit, AtRest

LEMMA NextAtRest ==
    ASSUME AtRest, [ALNext]_alVars
    PROVE  AtRest'
  <1>1. ASSUME StartOrder PROVE AtRest'
    BY <1>1 DEF AtRest, StartOrder, StartAgent, Ordered, Order, Call, Fault, Wanted, LeaveSession, Up, alWatch, alGaps, alWord, alHistory, alBounds
  <1>2. ASSUME ScheduledStart PROVE AtRest'
    BY <1>2 DEF AtRest, ScheduledStart, StartAgent, Ordered, Order, Call, Fault, Wanted, LeaveSession, Up, alWatch, alGaps, alWord, alHistory, alBounds
  <1>3. ASSUME RestartOrder PROVE AtRest'
    BY <1>3 DEF AtRest, RestartOrder, StartAgent, KillSession, Ordered, Order, Call, Fault, Wanted, LeaveSession, Up, alWatch, alGaps, alWord, alHistory, alBounds
  <1>4. ASSUME CreateAgain PROVE AtRest'
    BY <1>4 DEF AtRest, CreateAgain, Ordered, Order, Call, Fault, Wanted, LeaveSession, Up, alWatch, alGaps, alWord, alHistory, alBounds
  <1>5. ASSUME NEW which \in {"stop", "delete"}, StopOrder(which) PROVE AtRest'
    BY <1>5 DEF AtRest, StopOrder, Withdraw, KillSession, UnderWay, Ordered, Order, Call, Fault, Wanted, LeaveSession, Up, alWatch, alGaps, alWord, alHistory, alBounds
  <1>6. ASSUME SessionDies PROVE AtRest'
    BY <1>6 DEF AtRest, SessionDies, Trouble, Fault, KillSession, Up, alWatch, alGaps, alWord, alHistory, alBounds
  <1>7. ASSUME PluginDies PROVE AtRest'
    BY <1>7 DEF AtRest, PluginDies, Trouble, Fault, Up, alWatch, alGaps, alWord, alHistory, alBounds
  <1>8. ASSUME DashboardRestarts PROVE AtRest'
    BY <1>8 DEF AtRest, DashboardRestarts, Trouble, Fault, FailuresOnDisk, Up, alWatch, alGaps, alWord, alHistory, alBounds
  <1>9. ASSUME WatchdogThrows PROVE AtRest'
    BY <1>9 DEF AtRest, WatchdogThrows, Trouble, Fault, LeaveSession, Up, alWatch, alGaps, alWord, alHistory, alBounds
  <1>10. ASSUME StopReaps PROVE AtRest'
    BY <1>10 DEF AtRest, StopReaps, Reap, LeaveSession, Up, alWatch, alGaps, alWord, alHistory, alBounds
  <1>11. ASSUME DeleteEnds PROVE AtRest'
    BY <1>11 DEF AtRest, DeleteEnds, Reap, LeaveSession, Up, alWatch, alGaps, alWord, alHistory, alBounds
  <1>12. ASSUME RestartStarts PROVE AtRest'
    BY <1>12 DEF AtRest, RestartStarts, Reap, LeaveSession, StartAgent, Up, alWatch, alGaps, alWord, alHistory, alBounds
  <1>13. ASSUME UnlockProbe PROVE AtRest'
    BY <1>13 DEF AtRest, UnlockProbe, Up, alWatch, alGaps, alWord, alHistory, alBounds
  <1>14. ASSUME SweepBegins PROVE AtRest'
    BY <1>14 DEF AtRest, SweepBegins, Up, alWatch, alGaps, alWord, alHistory, alBounds
  <1>15. ASSUME LookAway PROVE AtRest'
    BY <1>15 DEF AtRest, LookAway, LooksAt, LeaveSession, Up, alWatch, alGaps, alWord, alHistory, alBounds
  <1>16. ASSUME SeesAlive PROVE AtRest'
    BY <1>16 DEF AtRest, SeesAlive, LooksAt, LeaveSession, Up, alWatch, alGaps, alWord, alHistory, alBounds
  <1>17. ASSUME LooksDown PROVE AtRest'
    BY <1>17 DEF AtRest, LooksDown, SeesDown, LooksAt, LeaveSession, Up, alWatch, alGaps, alWord, alHistory, alBounds
  <1>18. ASSUME GiveUp PROVE AtRest'
    BY <1>18 DEF AtRest, GiveUp, SeesDown, LooksAt, LeaveSession, Up, alWatch, alGaps, alWord, alHistory, alBounds
  <1>19. ASSUME AlertBusy PROVE AtRest'
    BY <1>19 DEF AtRest, AlertBusy, SeesDown, LooksAt, LeaveSession, Up, alWatch, alGaps, alWord, alHistory, alBounds
  <1>20. ASSUME WatchdogStops PROVE AtRest'
    BY <1>20 DEF AtRest, WatchdogStops, SeesDown, LooksAt, KillSession, Up, alWatch, alGaps, alWord, alHistory, alBounds
  <1>21. ASSUME WatchdogStarts PROVE AtRest'
    BY <1>21 DEF AtRest, WatchdogStarts, LooksAt, Reap, LeaveSession, StartAgent, Up, alWatch, alGaps, alWord, alHistory, alBounds
  <1>22. ASSUME SweepLists PROVE AtRest'
    BY <1>22 DEF AtRest, SweepLists, Missing, Up, alWatch, alGaps, alWord, alHistory, alBounds
  <1>23. ASSUME SweepEnds PROVE AtRest'
    BY <1>23 DEF AtRest, SweepEnds, Up, alWatch, alGaps, alWord, alHistory, alBounds
  <1>24. ASSUME BurstPasses PROVE AtRest'
    BY <1>24 DEF AtRest, BurstPasses, LeaveSession, Up, alWatch, alGaps, alWord, alHistory, alBounds
  <1>25. ASSUME BurstStarts PROVE AtRest'
    BY <1>25 DEF AtRest, BurstStarts, StartAgent, Up, alWatch, alGaps, alWord, alHistory, alBounds
  <1>26. ASSUME Ages PROVE AtRest'
    BY <1>26 DEF AtRest, Ages, VerdictExpires, Up, alWatch, alGaps, alWord, alHistory, alBounds
  <1>27. ASSUME WatchdogStopFails PROVE AtRest'
    BY <1>27, AgentLifecycleAssumption DEF AtRest, WatchdogStopFails, Trouble, Fault, SeesDown, LeaveSession, Up, alWatch, alGaps, alWord, alHistory, alBounds
  <1>28. CASE UNCHANGED alVars
    BY <1>28 DEF AtRest, Up, alVars, alWatch, alGaps, alWord, alHistory
  <1> QED
    BY <1>1, <1>2, <1>3, <1>4, <1>5, <1>6, <1>7, <1>8, <1>9, <1>10, <1>11, <1>12, <1>13, <1>14,
       <1>15, <1>16, <1>17, <1>18, <1>19, <1>20, <1>21, <1>22, <1>23, <1>24, <1>25, <1>26, <1>28, <1>27
    DEF ALNext, Orders, Troubles, Handlers, Sweeping, Looks, Burst

\* Stop and delete take the wish back before they yield: if their calls work,
\* no sweep during the seconds they take, and no reap, brings the agent back.
THEOREM NoGhostReturns == ALSpec => []NoGhost
  <1>1. AtRest => NoGhost
    BY DEF AtRest, NoGhost, Up
  <1> QED
    BY <1>1, InitAtRest, NextAtRest, PTL DEF ALSpec
=============================================================================
