---------------------------- MODULE AgentLifecycle ----------------------------
(* One sub-agent: its tmux session, the wish of the operator that it runs     *)
(* (agent-desired-state.ts), the handlers that start, stop, restart and       *)
(* delete it (routes/agents.ts over agent-process.ts), and the watchdog that  *)
(* restarts it when its channel plugin is down and starts it when its session *)
(* is gone (channel-monitor.ts, agent-restart-policy.ts,                      *)
(* channel-plugin-unlock.ts).                                                 *)
(*                                                                            *)
(* A handler runs to its next await.  Between the end of a session and the    *)
(* start of the next the watchdog waits ten seconds and a restart two, a stop *)
(* reaps two seconds after it has killed: "sweep", "restarting" and "reaping" *)
(* are these gaps.  Starting is one step, because the call that would make it *)
(* wait fails when there is no session to kill.  The watchdog's windows of    *)
(* time are bits that time clears; the rest of the fleet shows only in what   *)
(* the stagger, the memory gate and the burst let through.                    *)
EXTENDS Integers

CONSTANTS
  MaxAttempts,     \* AGENT_MAX_RESTART_ATTEMPTS
  AbsentAttempts,  \* PLUGIN_ABSENT_MAX_RESTART_ATTEMPTS
  MaxOrders,       \* bound on what the operator, the scheduler and the other runners ask for
  MaxTroubles      \* bound on what dies by itself and on calls that fail
ASSUME AgentLifecycleAssumption ==
  /\ MaxAttempts \in Nat \ {0} /\ AbsentAttempts \in 1..MaxAttempts
  /\ MaxOrders \in Nat /\ MaxTroubles \in Nat

VARIABLES
  exists,      \* the agent's directory
  desired,     \* its name is in agents-desired.json
  session,     \* "down", or "up" with a channel plugin that is "alive" or "dead"
  young,       \* the session is within AGENT_STARTUP_GRACE_MS
  failures,    \* agentRestartFailures, and the file that keeps it
  downSince,   \* age of the down-spell: "none", "fresh", "confirmed", "long"
  justStarted, \* agentLastRestart is within AGENT_RESTART_GRACE_MS
  absent,      \* pluginAbsentAt is within PLUGIN_ABSENT_TTL_MS
  probeDue,    \* an unlock probe is scheduled
  told,        \* agentBusyDeferAlerted
  sweep,       \* check(): "idle"; "with" the agent as a target or "without"; "gap", or
               \* "held" if the kill before it failed; "over"
  burst,       \* reconcileDesiredAgents has the agent on its list
  restarting,  \* a restart by a handler or a runner is between stop and start
  reaping,     \* handlers between the kill and the reap of a "stop" or a "delete"
  orders, troubles,
  (* history *)
  kills,       \* restarts of the watchdog since it last saw the plugin alive
  cut,         \* how many of them did not come to their end
  reported,    \* the operator has been alerted since then
  stopped,     \* the operator's last word was stop or delete
  raced,       \* an automatic start was under way at that moment
  failed       \* the kill or the write of the wish failed then

alWatch == <<failures, downSince, justStarted, absent, told>>
alHistory == <<kills, cut, reported>>
alWord == <<stopped, raced, failed>>
alBounds == <<orders, troubles>>
alGaps == <<sweep, burst, restarting, reaping>>
alVars == <<exists, desired, session, young, probeDue, alWatch, alGaps, alBounds, alHistory, alWord>>

Up == session # "down"
Sweeps == {"idle", "with", "without", "gap", "held", "over"}

ALInit ==
  /\ exists = TRUE /\ desired = FALSE /\ session = "down" /\ young = FALSE /\ failures = 0
  /\ downSince = "none" /\ justStarted = FALSE /\ absent = FALSE /\ probeDue = FALSE /\ told = FALSE
  /\ sweep = "idle" /\ burst = FALSE /\ restarting = FALSE /\ reaping = {}
  /\ orders = 0 /\ troubles = 0
  /\ kills = 0 /\ cut = 0 /\ reported = FALSE /\ stopped = FALSE /\ raced = FALSE /\ failed = FALSE

Order == orders < MaxOrders /\ orders' = orders + 1
Fault == troubles < MaxTroubles /\ troubles' = troubles + 1
Ordered == Order /\ UNCHANGED troubles
Trouble == Fault /\ UNCHANGED orders
\* a call that works or fails
Call(ok) == IF ok THEN UNCHANGED troubles ELSE Fault
\* the operator's last word is that the agent runs
Wanted == stopped' = FALSE /\ raced' = FALSE /\ failed' = FALSE

(* startAgentProcess: nothing without a directory or beside a running session; *)
(* otherwise a session whose plugin attaches or does not, and an unlock probe  *)
StartAgent ==
  IF exists /\ ~Up
  THEN session' \in {"alive", "dead"} /\ young' = TRUE /\ probeDue' = TRUE
  ELSE UNCHANGED <<session, young, probeDue>>

\* stopAgentProcess as far as its await
KillSession == session' = "down" /\ young' = FALSE /\ UNCHANGED probeDue
LeaveSession == UNCHANGED <<session, young, probeDue>>

\* reapChannelOrphans asks for the agent's state directory, not for a dead parent:
\* it takes the poller of a session that was started meanwhile, if that is up
Reap == IF session = "alive" THEN session' \in {"alive", "dead"} /\ UNCHANGED <<young, probeDue>>
                             ELSE LeaveSession

(* POST /start; an agents-desired.json that cannot be written is only logged *)
StartOrder ==
  /\ Order /\ exists /\ StartAgent /\ Wanted
  /\ \E written \in BOOLEAN : Call(written) /\ desired' = (written \/ desired)
  /\ UNCHANGED <<exists, alWatch, alGaps, alHistory>>

\* starts by the scheduler, which finds no session for a task that is due
ScheduledStart ==
  /\ Ordered /\ exists /\ ~Up /\ StartAgent /\ Wanted
  /\ UNCHANGED <<exists, desired, alWatch, alGaps, alHistory>>

\* what is under way and will start the agent, whatever is desired then
UnderWay == sweep \in {"gap", "held"} \/ burst \/ restarting

\* Mutant: the wish is taken back after the stop has settled.
Withdraw_late == UNCHANGED desired

Withdraw == desired' = FALSE

(* POST /stop and DELETE: the wish first, then the session, if there is one.  *)
(* A wish that cannot be written stays, and a kill that fails leaves the      *)
(* session; DELETE goes on all the same.                                      *)
StopOrder(which) ==
  /\ Order /\ exists /\ which \notin reaping
  /\ \E written, killed \in BOOLEAN :
       /\ Call(written /\ killed) /\ failed' = ~(written /\ killed)
       /\ IF written THEN Withdraw ELSE UNCHANGED desired
       /\ IF killed
          THEN KillSession /\ reaping' = (IF Up THEN reaping \cup {which} ELSE reaping) /\ exists' = (Up \/ which = "stop")
          ELSE Up /\ LeaveSession /\ UNCHANGED reaping /\ exists' = (which = "stop")
  /\ stopped' = TRUE /\ raced' = UnderWay
  /\ UNCHANGED <<alWatch, sweep, burst, restarting, alHistory>>

\* two seconds later
StopReaps ==
  /\ "stop" \in reaping /\ reaping' = reaping \ {"stop"} /\ Reap
  /\ UNCHANGED <<exists, desired, alWatch, sweep, burst, restarting, alBounds, alHistory, alWord>>

DeleteEnds ==
  /\ "delete" \in reaping /\ reaping' = reaping \ {"delete"} /\ Reap /\ exists' = FALSE
  /\ UNCHANGED <<desired, alWatch, sweep, burst, restarting, alBounds, alHistory, alWord>>

\* an agent of the same name; what the watchdog remembers goes by the name
CreateAgain ==
  /\ Ordered /\ ~exists /\ reaping = {} /\ exists' = TRUE
  /\ UNCHANGED <<desired, session, young, probeDue, alWatch, alGaps, alHistory, alWord>>

(* restartAgentProcess: POST /restart, a new channel configuration, the       *)
(* automatic restarts, the model fallback, the context guard                  *)
RestartOrder ==
  /\ Order /\ exists /\ ~restarting /\ Wanted
  /\ \/ Up /\ KillSession /\ restarting' = TRUE /\ UNCHANGED troubles
     \/ Up /\ LeaveSession /\ UNCHANGED restarting /\ Fault   \* the kill fails, and with it the restart
     \/ ~Up /\ StartAgent /\ UNCHANGED <<restarting, troubles>>
  /\ UNCHANGED <<exists, desired, alWatch, sweep, burst, reaping, alHistory>>

\* after the reap, which a start by somebody else may have preceded
RestartStarts ==
  /\ restarting /\ restarting' = FALSE
  /\ IF Up THEN Reap ELSE StartAgent
  /\ UNCHANGED <<exists, desired, alWatch, sweep, burst, reaping, alBounds, alHistory, alWord>>

(* What happens by itself *)
SessionDies ==
  /\ Trouble /\ Up /\ KillSession
  /\ UNCHANGED <<exists, desired, alWatch, alGaps, alHistory, alWord>>

PluginDies ==
  /\ Trouble /\ session = "alive" /\ session' = "dead"
  /\ UNCHANGED <<exists, desired, young, probeDue, alWatch, alGaps, alHistory, alWord>>

\* Mutant: the count of failures is kept in memory only.
FailuresOnDisk_none == 0

FailuresOnDisk == failures

\* the dashboard dies, and with it every handler and timer; the next one starts
DashboardRestarts ==
  /\ Trouble /\ cut' = cut + (IF sweep = "gap" THEN 1 ELSE 0)
  /\ failures' = FailuresOnDisk /\ downSince' = "none" /\ justStarted' = FALSE /\ absent' = FALSE
  /\ told' = FALSE /\ probeDue' = FALSE
  /\ sweep' = "idle" /\ burst' = FALSE /\ restarting' = FALSE /\ reaping' = {}
  /\ UNCHANGED <<exists, desired, session, young, kills, reported, alWord>>

(* runUnlockProbe: retires the verdict, gives it, presses the keys that may    *)
(* revive the plugin, or gives up on a session that is busy or gone            *)
UnlockProbe ==
  /\ probeDue /\ probeDue' = FALSE
  /\ CASE session = "alive" -> absent' = FALSE /\ UNCHANGED session
       [] session = "dead"  -> \/ absent' = TRUE /\ UNCHANGED session
                               \/ UNCHANGED absent /\ session' \in {"alive", "dead"}
       [] OTHER             -> UNCHANGED <<absent, session>>
  /\ UNCHANGED <<exists, desired, young, failures, downSince, justStarted, told, alGaps, alBounds,
                 alHistory, alWord>>

(* check() *)
SweepBegins ==
  /\ sweep = "idle" /\ sweep' = IF exists /\ Up THEN "with" ELSE "without"
  /\ UNCHANGED <<exists, desired, session, young, probeDue, alWatch, burst, restarting, reaping,
                 alBounds, alHistory, alWord>>

LooksAt(next) ==
  /\ sweep' = next
  /\ UNCHANGED <<exists, desired, alWord, burst, restarting, reaping, alBounds>>

\* not a target, no claude process any more, or a probe that failed
LookAway ==
  /\ sweep \in {"with", "without"} /\ LooksAt("over") /\ LeaveSession
  /\ UNCHANGED <<alWatch, alHistory>>

SeesAlive ==
  /\ sweep = "with" /\ session = "alive" /\ LooksAt("over") /\ LeaveSession
  /\ failures' = 0 /\ downSince' = "none" /\ absent' = FALSE /\ told' = FALSE
  /\ kills' = 0 /\ cut' = 0 /\ reported' = FALSE
  /\ UNCHANGED justStarted

\* the probe can take a poller that respawns for dead
SeesDown == sweep = "with" /\ Up
Age == IF downSince = "none" THEN "fresh" ELSE downSince

\* Mutant: an agent that was given up on is tried again.
Budget_noCap == failures + 1

\* maxRestartAttempts
Budget == IF absent THEN AbsentAttempts ELSE MaxAttempts

\* decideDownAgentAction under the cap, with the spell confirmed and the graces over
MayAct == failures < Budget /\ Age \in {"confirmed", "long"} /\ ~young /\ ~justStarted

(* skip: given up, unconfirmed, within a grace or the back-off of repeated    *)
(* failures, at work, without a token, or another agent's turn                *)
LooksDown ==
  /\ SeesDown /\ LooksAt("over") /\ LeaveSession /\ downSince' = Age
  /\ failures # Budget
  /\ UNCHANGED <<failures, justStarted, absent, told, alHistory>>

GiveUp ==
  /\ SeesDown /\ failures = Budget /\ LooksAt("over") /\ LeaveSession
  /\ failures' = failures + 1 /\ downSince' = "none" /\ told' = FALSE /\ reported' = TRUE
  /\ UNCHANGED <<justStarted, absent, kills, cut>>

\* at work for longer than AGENT_BUSY_DEFER_MAX_MS
AlertBusy ==
  /\ SeesDown /\ MayAct /\ Age = "long" /\ ~told /\ LooksAt("over") /\ LeaveSession
  /\ downSince' = Age /\ told' = TRUE /\ reported' = TRUE
  /\ UNCHANGED <<failures, justStarted, absent, kills, cut>>

WatchdogStops ==
  /\ SeesDown /\ MayAct /\ LooksAt("gap") /\ KillSession
  /\ downSince' = Age /\ kills' = kills + 1
  /\ UNCHANGED <<failures, justStarted, absent, told, cut, reported>>

\* the result of the stop is not looked at
WatchdogStopFails ==
  /\ Trouble /\ SeesDown /\ MayAct /\ sweep' = "held" /\ LeaveSession /\ downSince' = Age
  /\ UNCHANGED <<exists, desired, failures, justStarted, absent, told, burst, restarting, reaping,
                 alHistory, alWord>>

\* the count is that of before the gap: nothing else writes it meanwhile
WatchdogStarts ==
  /\ sweep \in {"gap", "held"} /\ LooksAt("over")
  /\ IF ~Up THEN StartAgent ELSE IF sweep = "gap" THEN Reap ELSE LeaveSession
  /\ failures' = failures + 1 /\ downSince' = "none" /\ justStarted' = TRUE /\ told' = FALSE
  /\ UNCHANGED <<absent, alHistory>>

\* an exception in the gap: stopped, neither counted nor started
WatchdogThrows ==
  /\ Trouble /\ sweep \in {"gap", "held"}
  /\ sweep' = "over" /\ LeaveSession /\ cut' = cut + (IF sweep = "gap" THEN 1 ELSE 0)
  /\ UNCHANGED <<exists, desired, alWatch, burst, restarting, reaping, kills, reported, alWord>>

\* Mutant: only agents whose session still exists.
Missing_deadOnly == desired /\ session = "dead"

Missing == desired /\ ~Up

\* reconcileDesiredAgents: the list is made once, and not while an earlier one
\* is worked off
SweepLists ==
  /\ sweep = "over" /\ sweep' = "idle" /\ Missing /\ burst' = TRUE
  /\ UNCHANGED <<exists, desired, session, young, probeDue, alWatch, restarting, reaping, alBounds,
                 alHistory, alWord>>

SweepEnds ==
  /\ sweep = "over" /\ sweep' = "idle"
  /\ UNCHANGED <<exists, desired, session, young, probeDue, alWatch, burst, restarting, reaping, alBounds,
                 alHistory, alWord>>

\* the agent's turn in the burst: it runs, was started just now, or there is no memory
BurstPasses ==
  /\ burst /\ burst' = FALSE /\ LeaveSession
  /\ UNCHANGED <<exists, desired, alWatch, sweep, restarting, reaping, alBounds, alHistory, alWord>>

BurstStarts ==
  /\ burst /\ burst' = FALSE /\ ~Up /\ ~justStarted /\ StartAgent /\ justStarted' = TRUE
  /\ UNCHANGED <<exists, desired, failures, downSince, absent, told, sweep, restarting, reaping,
                 alBounds, alHistory, alWord>>

(* Time *)
\* Mutant: the verdict on an absent plugin is never forgotten.
VerdictExpires_never == FALSE /\ UNCHANGED absent

\* wasPluginConfirmedAbsent
VerdictExpires == absent /\ absent' = FALSE

Ages ==
  /\ \/ young /\ young' = FALSE /\ UNCHANGED <<downSince, justStarted, absent>>
     \/ justStarted /\ justStarted' = FALSE /\ UNCHANGED <<young, downSince, absent>>
     \/ VerdictExpires /\ UNCHANGED <<young, downSince, justStarted>>
     \/ downSince = "fresh" /\ downSince' = "confirmed" /\ UNCHANGED <<young, justStarted, absent>>
     \/ downSince = "confirmed" /\ downSince' = "long" /\ UNCHANGED <<young, justStarted, absent>>
  /\ UNCHANGED <<exists, desired, session, probeDue, failures, told, alGaps, alBounds, alHistory, alWord>>

Orders == StartOrder \/ ScheduledStart \/ RestartOrder \/ CreateAgain \/ \E w \in {"stop", "delete"} : StopOrder(w)
Troubles == SessionDies \/ PluginDies \/ DashboardRestarts \/ WatchdogStopFails \/ WatchdogThrows
Handlers == StopReaps \/ DeleteEnds \/ RestartStarts
Looks == LookAway \/ SeesAlive \/ LooksDown \/ GiveUp \/ AlertBusy \/ WatchdogStops
Sweeping == SweepBegins \/ Looks \/ WatchdogStarts \/ SweepLists \/ SweepEnds
Burst == BurstPasses \/ BurstStarts

ALNext == Orders \/ Troubles \/ Handlers \/ UnlockProbe \/ Sweeping \/ Burst \/ Ages
ALSpec == ALInit /\ [][ALNext]_alVars

(* Timers fire, handlers go on and time passes; a probe does not fail for     *)
(* ever, an agent that works for ever is reported, a burst for others does not *)
(* stand in the way at every sweep, and memory is free again some day.        *)
ALFairness ==
  /\ WF_alVars(Handlers) /\ WF_alVars(UnlockProbe) /\ WF_alVars(Sweeping) /\ WF_alVars(Ages)
  /\ SF_alVars(SeesAlive) /\ SF_alVars(GiveUp) /\ SF_alVars(LooksDown)
  /\ SF_alVars(AlertBusy \/ WatchdogStops)
  /\ SF_alVars(SweepLists) /\ WF_alVars(Burst) /\ SF_alVars(BurstStarts)
ALFairSpec == ALSpec /\ ALFairness

-----------------------------------------------------------------------------
ALTypeOK ==
  /\ exists \in BOOLEAN /\ desired \in BOOLEAN /\ session \in {"down", "alive", "dead"}
  /\ young \in BOOLEAN /\ failures \in 0..(MaxAttempts + 1)
  /\ downSince \in {"none", "fresh", "confirmed", "long"}
  /\ justStarted \in BOOLEAN /\ absent \in BOOLEAN /\ probeDue \in BOOLEAN /\ told \in BOOLEAN
  /\ sweep \in Sweeps /\ burst \in BOOLEAN /\ restarting \in BOOLEAN /\ reaping \subseteq {"stop", "delete"}
  /\ orders \in 0..MaxOrders /\ troubles \in 0..MaxTroubles
  /\ kills \in Nat /\ cut \in 0..MaxTroubles /\ reported \in BOOLEAN
  /\ stopped \in BOOLEAN /\ raced \in BOOLEAN /\ failed \in BOOLEAN

\* "After this many consecutive failed attempts the watchdog stops": between
\* two sightings of a live plugin it ends the agent's session at most as often
\* as the cap allows, but for restarts cut short before they were counted.
RestartsBounded == kills <= MaxAttempts + cut

\* An agent that was stopped or deleted runs only if somebody was already
\* about to start it at that moment, or the kill or the write of the wish
\* failed: "a failed stop still clears intent", and leaves the session.
NoGhost == stopped /\ Up => raced \/ failed

\* "so a deliberately stopped agent is not resurrected", when the stop itself
\* has worked
StoppedStaysStopped == stopped /\ ~failed => ~Up

\* A wanted agent gets its channel back, or its operator is told: whether its
\* plugin died or its session, through crashes and restarts that do not help.
ServedOrReported ==
  desired /\ exists /\ session # "alive" ~> session = "alive" \/ reported \/ ~desired \/ ~exists
=============================================================================
