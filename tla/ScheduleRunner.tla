--------------------------- MODULE ScheduleRunner ---------------------------
(* The cron scheduler of the dashboard (src/src/web/schedule-runner.ts with   *)
(* its tables in src/src/db.ts and its routes in src/src/web/routes).         *)
(*                                                                            *)
(* One tick at a time scans the window since the previous tick, retries the   *)
(* queued rows and fires the due tasks, one prompt after the other; every     *)
(* prompt awaits its session, so that the operator's requests (run now,       *)
(* cancel, toggle, delete), a second attempt and a crash of the process fall  *)
(* between any two of its steps.  Time is a small counter; an instant stands  *)
(* for the milliseconds of the code, the order of the instants is all that    *)
(* is kept.                                                                   *)
EXTENDS Integers, FiniteSets, FiniteSetsExt, Functions

CONSTANTS
  Task,          \* [name -> [agent, all, forceSend, skipIfBusy, heartbeat, command, gated, output, mcp, maxAge, due]]
  Agents, Main,
  MaxTime,       \* bound on the clock
  Late,          \* LATE_CATCHUP_THRESHOLD_MS
  CatchUpCap,    \* SCHEDULE_MAX_CATCHUP_MS
  ColdStart,     \* SCHEDULE_COLD_START_CATCHUP_MS
  PersistEvery,  \* TICK_STATE_PERSIST_INTERVAL_MS
  Grace,         \* TASK_FIRE_GRACE_MS
  MaxEvents      \* bound on the requests, faults and pane changes of a behaviour
ASSUME ScheduleAssumption ==
  /\ Main \in Agents /\ {MaxTime, Late, CatchUpCap, ColdStart, PersistEvery, Grace, MaxEvents} \subseteq Nat
  /\ \A t \in DOMAIN Task :
       /\ Task[t] \in [agent : Agents, all : BOOLEAN, forceSend : BOOLEAN, skipIfBusy : BOOLEAN, heartbeat : BOOLEAN,
                       command : BOOLEAN, gated : BOOLEAN, output : BOOLEAN, mcp : BOOLEAN, maxAge : Nat, due : SUBSET Nat]
       /\ IsFiniteSet(Task[t].due)

Tasks == DOMAIN Task
Keys == Tasks \X Agents            \* `${task.name}@${agentName}`
Actors == {"tick", "runNow"}
Sessions == {"absent", "ready", "busy", "firstRun", "saturated"}
Idle == [pc |-> "idle"]
NoScan == [from |-> 0, occ |-> 0, targets |-> {}, suppressed |-> FALSE]

VARIABLES
  clock, up, sess,
  defs,       \* the schedule directory: "on", "off" or "gone"
  lastRun,    \* schedule-last-run.json: scheduleLastRun, saved at every change (0: none)
  stamp,      \* schedule-tick-state.json: lastTickMs (0: none)
  retry,      \* table pending_task_retries: the keys that have a row
  oblig,      \* table task_output_obligations: injected_at (0: none)
  inflight,   \* taskInflightMap: injectedAt (0: none)
  lastCheck, lastPersist,   \* lastCheckMs, lastPersistedTickMs
  tick,       \* the running tick: its snapshots and what it has left
  att,        \* the attempt each actor is making
  events,     \* how many events of the environment have happened
  trace,      \* history: when a key last got an outcome record or was withdrawn by the operator
  scan,       \* history: the last window in which a task was due
  excess      \* history: prompts typed minus what besides an occurrence entitles to one

durable == <<defs, lastRun, stamp, retry, oblig>>
memory  == <<inflight, lastCheck, lastPersist, tick, att>>
history == <<trace, scan, excess>>
vars == <<clock, up, sess, durable, memory, events, history>>

-----------------------------------------------------------------------------
(* Pure helpers *)

\* computeCatchUpStart
CatchUpStart(persisted, now) ==
  IF persisted = 0 \/ persisted > now THEN now - ColdStart ELSE Max({persisted, now - CatchUpCap})

\* cronPrevOccurrence: only the last occurrence of the window counts
Occurrences(t, from, to) == {o \in Task[t].due : from < o /\ o <= to}

\* decideCatchUp
CatchUp(t, age) == IF age <= Late THEN "on-time" ELSE IF age <= Task[t].maxAge THEN "catch-up" ELSE "stale"

\* taskInjectionRank
Rank(t) == IF Task[t].forceSend THEN 0 ELSE IF Task[t].heartbeat THEN 2 ELSE 1

\* the targets of a run: "all" is the main agent and every agent with a session
Targets(t) == IF Task[t].all THEN {Main} \cup {a \in Agents : sess[a] # "absent"} ELSE {Task[t].agent}

Event == events < MaxEvents /\ events' = events + 1

-----------------------------------------------------------------------------
Init ==
  /\ clock = ColdStart + 1 /\ up = TRUE
  /\ sess \in [Agents -> {"ready", "absent"}]
  /\ defs = [t \in Tasks |-> "on"]
  /\ lastRun = [t \in Tasks |-> 0] /\ stamp = 0
  /\ retry = {} /\ oblig = [k \in Keys |-> 0]
  /\ inflight = [k \in Keys |-> 0]
  /\ lastCheck = CatchUpStart(0, ColdStart + 1) /\ lastPersist = 0 - PersistEvery
  /\ tick = Idle /\ att = [x \in Actors |-> Idle]
  /\ events = 0
  /\ trace = [k \in Keys |-> 0]
  /\ scan = [t \in Tasks |-> NoScan] /\ excess = [k \in Keys |-> 0]

(* The environment: time, and the panes of the agents *)
Advance ==
  /\ clock < MaxTime /\ clock' = clock + 1
  /\ UNCHANGED <<up, sess, durable, memory, events, history>>

Flip(a, s) ==
  /\ s # sess[a] /\ Event
  /\ sess' = [sess EXCEPT ![a] = s]
  /\ UNCHANGED <<clock, up, durable, memory, history>>

\* a pane may come back: the turn ends, the agent boots, a dialog is answered, the context is cleared
Frees(a) ==
  /\ sess[a] \notin {"ready", "absent"}
  /\ sess' = [sess EXCEPT ![a] = "ready"]
  /\ UNCHANGED <<clock, up, durable, memory, events, history>>

(* runCheck: the tick.  Its first step has no await in it: the snapshot of    *)
(* the tasks, the watchdog's sweep and the snapshot of the retry table.       *)
LostNow(k, now) == inflight[k] # 0 /\ now - inflight[k] >= Grace /\ sess[k[2]] = "ready"

TickBegin(lost, done, stale) ==
  LET requeued == lost \cup stale
      settled  == lost \cup done
  IN
  /\ stale \subseteq {k \in done : Task[k[1]].output}
  /\ events + Cardinality(requeued) <= MaxEvents
  /\ events' = events + Cardinality(requeued)
  /\ lastRun' = [t \in Tasks |-> IF \E k \in lost : k[1] = t /\ inflight[k] = lastRun[t] THEN 0 ELSE lastRun[t]]
  /\ retry' = retry \cup requeued
  /\ oblig' = [k \in Keys |-> IF k \in settled /\ oblig[k] = inflight[k] THEN 0 ELSE oblig[k]]
  /\ inflight' = [k \in Keys |-> IF k \in settled THEN 0 ELSE inflight[k]]
  /\ tick' = [pc |-> "rows", now |-> clock, from |-> lastCheck, defs |-> defs, keys |-> {}, task |-> {},
              rows |-> retry',
              todo |-> {t \in Tasks : defs[t] = "on" /\ Occurrences(t, lastCheck, clock) # {}}]
  /\ trace' = [k \in Keys |-> IF k \in requeued THEN 0 ELSE trace[k]]
  /\ excess' = [k \in Keys |-> IF k \in requeued THEN excess[k] - 1 ELSE excess[k]]
  /\ UNCHANGED <<clock, up, sess, defs, stamp, lastCheck, lastPersist, att, scan>>

(* The retry loop *)
NextRow(k) == up /\ tick.pc = "rows" /\ att["tick"] = Idle /\ k \in tick.rows

\* the task was deleted or disabled when the tick began
RowDropped(k) ==
  /\ NextRow(k) /\ tick.defs[k[1]] # "on"
  /\ retry' = retry \ {k}
  /\ trace' = [trace EXCEPT ![k] = clock]
  /\ tick' = [tick EXCEPT !.rows = @ \ {k}]
  /\ UNCHANGED <<clock, up, sess, defs, lastRun, stamp, oblig, inflight, lastCheck, lastPersist, att, events, scan, excess>>

\* runPreCheck says there is nothing to do
RowSkipped(k) ==
  /\ NextRow(k) /\ tick.defs[k[1]] = "on" /\ Task[k[1]].gated
  /\ retry' = retry \ {k}
  /\ tick' = [tick EXCEPT !.rows = @ \ {k}, !.keys = @ \cup {k}]
  /\ trace' = [trace EXCEPT ![k] = clock]
  /\ UNCHANGED <<clock, up, sess, defs, lastRun, stamp, oblig, inflight, lastCheck, lastPersist, att, events,
                 scan, excess>>

RowTried(k) ==
  /\ NextRow(k) /\ tick.defs[k[1]] = "on"
  /\ tick' = [tick EXCEPT !.keys = @ \cup {k}]
  /\ att' = [att EXCEPT !["tick"] = [pc |-> "try", task |-> k[1], agent |-> k[2], left |-> {}, whole |-> {}, at |-> 0]]
  /\ UNCHANGED <<clock, up, sess, durable, inflight, lastCheck, lastPersist, events, history>>

RowsDone ==
  /\ up /\ tick.pc = "rows" /\ tick.rows = {} /\ att["tick"] = Idle
  /\ tick' = [tick EXCEPT !.pc = "cron"]
  /\ UNCHANGED <<clock, up, sess, durable, inflight, lastCheck, lastPersist, att, events, history>>

(* The cron loop, one due task after the other in taskInjectionRank order *)
NextDue(t) ==
  /\ up /\ tick.pc = "cron" /\ tick.task = {} /\ t \in tick.todo
  /\ \A u \in tick.todo : Rank(t) <= Rank(u)

Occurrence(t) == Max(Occurrences(t, tick.from, tick.now))
Age(t) == CatchUp(t, tick.now - Occurrence(t))
Scanned(t, targets, suppressed) ==
  [scan EXCEPT ![t] = [from |-> tick.from, occ |-> Occurrence(t), targets |-> targets, suppressed |-> suppressed]]
Logged(t, targets) == [k \in Keys |-> IF k[1] = t /\ k[2] \in targets THEN clock ELSE trace[k]]

\* lastRun >= fromMs: the task is taken to have run in this window
DueSuppressed(t) ==
  /\ NextDue(t) /\ lastRun[t] >= tick.from
  /\ tick' = [tick EXCEPT !.todo = @ \ {t}]
  /\ scan' = Scanned(t, Targets(t), TRUE)
  /\ UNCHANGED <<clock, up, sess, durable, inflight, lastCheck, lastPersist, att, events, trace, excess>>

\* too old to be worth running: a 'missed' record for every target
DueStale(t) ==
  /\ NextDue(t) /\ lastRun[t] < tick.from /\ Age(t) = "stale"
  /\ tick' = [tick EXCEPT !.todo = @ \ {t}]
  /\ trace' = Logged(t, Targets(t)) /\ scan' = Scanned(t, Targets(t), FALSE)
  /\ UNCHANGED <<clock, up, sess, durable, inflight, lastCheck, lastPersist, att, events, excess>>

\* a command task runs at once, or the quota gate or the pre-check holds the task back
DueSettled(t) ==
  /\ NextDue(t) /\ lastRun[t] < tick.from /\ Age(t) # "stale"
  /\ Task[t].command \/ Task[t].gated \/ Task[t].heartbeat
  /\ tick' = [tick EXCEPT !.todo = @ \ {t}]
  /\ lastRun' = [lastRun EXCEPT ![t] = tick.now]
  /\ trace' = Logged(t, Targets(t)) /\ scan' = Scanned(t, Targets(t), FALSE)
  /\ UNCHANGED <<clock, up, sess, defs, stamp, retry, oblig, inflight, lastCheck, lastPersist, att, events, excess>>

DueFires(t) ==
  /\ NextDue(t) /\ lastRun[t] < tick.from /\ Age(t) # "stale" /\ ~Task[t].command
  /\ tick' = [tick EXCEPT !.task = {t}, !.todo = @ \ {t}]
  /\ att' = [att EXCEPT !["tick"] = [pc |-> "loop", task |-> t, agent |-> Main, left |-> Targets(t), whole |-> Targets(t), at |-> 0]]
  /\ UNCHANGED <<clock, up, sess, durable, inflight, lastCheck, lastPersist, events, history>>

\* a key the retry loop has handled in this tick is not fired a second time
KeyHandled(a) ==
  /\ up /\ att["tick"].pc = "loop" /\ a \in att["tick"].left /\ <<att["tick"].task, a>> \in tick.keys
  /\ att' = [att EXCEPT !["tick"] = [att["tick"] EXCEPT !.left = @ \ {a}]]
  /\ UNCHANGED <<clock, up, sess, durable, inflight, lastCheck, lastPersist, tick, events, history>>

DueDone ==
  /\ up /\ att["tick"].pc = "loop" /\ att["tick"].left = {}
  /\ att' = [att EXCEPT !["tick"] = Idle]
  /\ tick' = [tick EXCEPT !.task = {}]
  /\ scan' = Scanned(att["tick"].task, att["tick"].whole, FALSE)
  /\ UNCHANGED <<clock, up, sess, durable, inflight, lastCheck, lastPersist, events, trace, excess>>

TickEnd ==
  /\ up /\ tick.pc = "cron" /\ tick.task = {} /\ tick.todo = {}
  /\ tick' = Idle /\ lastCheck' = tick.now
  /\ IF tick.now - lastPersist >= PersistEvery
       THEN stamp' = tick.now /\ lastPersist' = tick.now
       ELSE UNCHANGED <<stamp, lastPersist>>
  /\ UNCHANGED <<clock, up, sess, defs, lastRun, retry, oblig, inflight, att, events, history>>

(* attemptFireTask, made by the tick (a row or a due target) or by run-now *)
Key(x) == <<att[x].task, att[x].agent>>
ForRow(x) == x = "tick" /\ tick.pc = "rows"
Pane(x) == sess[att[x].agent]
Traits(x) == Task[att[x].task]

Target(x, a) ==
  /\ up /\ att[x].pc = "loop" /\ a \in att[x].left
  /\ x = "tick" => <<att[x].task, a>> \notin tick.keys
  /\ att' = [att EXCEPT ![x] = [@ EXCEPT !.pc = "try", !.agent = a]]
  /\ UNCHANGED <<clock, up, sess, durable, inflight, lastCheck, lastPersist, tick, events, history>>

\* the caller goes on: with the next row, with the next target, or not at all
Returned(x) ==
  LET left == att[x].left \ {att[x].agent}
  IN  /\ att' = [att EXCEPT ![x] = IF ForRow(x) \/ (x = "runNow" /\ left = {}) THEN Idle
                                   ELSE [@ EXCEPT !.pc = "loop", !.left = left]]
      /\ tick' = IF ForRow(x) THEN [tick EXCEPT !.rows = @ \ {Key(x)}] ELSE tick

Deferred_rowDropped(x, busy, rows) ==
  /\ retry' = IF ForRow(x) /\ ~busy THEN rows \ {Key(x)} ELSE rows \cup {Key(x)}
  /\ UNCHANGED trace /\ Returned(x)

\* what the caller does with a verdict that is not 'fired', the table being rows by then
Deferred(x, busy, rows) ==
  /\ IF x = "tick" /\ busy /\ tick.pc = "cron" /\ Traits(x).skipIfBusy /\ ~Traits(x).forceSend
       THEN retry' = rows /\ trace' = [trace EXCEPT ![Key(x)] = clock]
       ELSE /\ retry' = IF ForRow(x) THEN rows ELSE rows \cup {Key(x)}
            /\ UNCHANGED trace
  /\ Returned(x)

\* busy, parked on a first-run dialog, or saturated
NotReady(x) ==
  /\ up /\ att[x].pc = "try"
  /\ Pane(x) \in IF Traits(x).forceSend THEN {"firstRun", "saturated"} ELSE {"busy", "firstRun", "saturated"}
  /\ Deferred(x, Pane(x) # "firstRun", retry)
  /\ UNCHANGED <<clock, up, sess, defs, lastRun, stamp, oblig, inflight, lastCheck, lastPersist, events,
                 scan, excess>>

\* no session: the agent is started, and boots ('starting')
Starting(x) ==
  /\ up /\ att[x].pc = "try" /\ Pane(x) = "absent"
  /\ sess' = [sess EXCEPT ![att[x].agent] = "busy"]
  /\ Deferred(x, FALSE, retry)
  /\ UNCHANGED <<clock, up, defs, lastRun, stamp, oblig, inflight, lastCheck, lastPersist, events,
                 scan, excess>>

\* the start fails ('missing'), or a required MCP server is dead ('mcp-missing')
Unavailable(x) ==
  /\ up /\ att[x].pc = "try"
  /\ Pane(x) = "absent" \/ (Pane(x) = "ready" /\ Traits(x).mcp /\ ~Traits(x).forceSend)
  /\ Event
  /\ Deferred(x, FALSE, retry)
  /\ UNCHANGED <<clock, up, sess, defs, lastRun, stamp, oblig, inflight, lastCheck, lastPersist,
                 scan, excess>>

\* the pre-send guard: a saturated pane (wedge-skip) or a send lane in use (presend-skip)
PreSendSkip(x) ==
  /\ up /\ att[x].pc = "try" /\ ~Traits(x).forceSend
  /\ \/ Pane(x) = "saturated" /\ UNCHANGED events
     \/ Pane(x) = "ready" /\ Event
  /\ Deferred(x, TRUE, retry \cup {Key(x)})
  /\ UNCHANGED <<clock, up, sess, defs, lastRun, stamp, oblig, inflight, lastCheck, lastPersist,
                 scan, excess>>

\* the obligation is written before the first byte; then the send waits for the pane's lane
SendBegin(x) ==
  /\ up /\ att[x].pc = "try"
  /\ Pane(x) \in IF Traits(x).forceSend THEN {"ready", "busy"} ELSE {"ready"}
  /\ att' = [att EXCEPT ![x] = [@ EXCEPT !.pc = "sending", !.at = clock]]
  /\ oblig' = IF Traits(x).output THEN [oblig EXCEPT ![Key(x)] = clock] ELSE oblig
  /\ UNCHANGED <<clock, up, sess, defs, lastRun, stamp, retry, inflight, lastCheck, lastPersist, tick, events, history>>

LaneIsOurs_strict(x) ==
  \A y \in Actors \ {x} : att[y].pc \in {"sending", "typed"} /\ att[y].agent = att[x].agent
                            => att[y].pc = "sending" /\ att[x].at < att[y].at

\* the pane's lane is first in, first out (SessionSendLock)
LaneIsOurs(x) ==
  \A y \in Actors \ {x} : att[y].pc \in {"sending", "typed"} /\ att[y].agent = att[x].agent
                            => att[y].pc = "sending" /\ att[x].at <= att[y].at

\* the text is in the pane; the turn begins, or the closing Enter is swallowed
Typed(x, pane) ==
  /\ up /\ att[x].pc = "sending" /\ LaneIsOurs(x)
  /\ att' = [att EXCEPT ![x] = [@ EXCEPT !.pc = "typed"]]
  /\ sess' = [sess EXCEPT ![att[x].agent] = pane]
  /\ excess' = [excess EXCEPT ![Key(x)] = @ + 1]
  /\ UNCHANGED <<clock, up, durable, inflight, lastCheck, lastPersist, tick, events, trace, scan>>

\* the run record, scheduleLastRun, the watchdog's entry; the row of a retry is deleted
Fired(x) ==
  /\ up /\ att[x].pc = "typed"
  /\ trace' = [trace EXCEPT ![Key(x)] = clock]
  /\ lastRun' = [lastRun EXCEPT ![att[x].task] = att[x].at]
  /\ inflight' = [inflight EXCEPT ![Key(x)] = att[x].at]
  /\ retry' = IF ForRow(x) THEN retry \ {Key(x)} ELSE retry
  /\ Returned(x)
  /\ UNCHANGED <<clock, up, sess, defs, stamp, oblig, lastCheck, lastPersist, events, scan, excess>>

\* the send throws: the obligation of this injection is deleted, the caller queues a row
SendFails(x) ==
  /\ up /\ att[x].pc = "sending" /\ Event
  /\ oblig' = IF oblig[Key(x)] = att[x].at THEN [oblig EXCEPT ![Key(x)] = 0] ELSE oblig
  /\ Deferred(x, FALSE, retry)
  /\ UNCHANGED <<clock, up, sess, defs, lastRun, stamp, inflight, lastCheck, lastPersist, scan, excess>>

\* the resubmit chain gives up on a prompt that stays parked ('giveup', 'lane-busy')
GiveUp(k) ==
  /\ up /\ inflight[k] # 0 /\ Event
  /\ retry' = retry \cup {k}
  /\ trace' = [trace EXCEPT ![k] = 0] /\ excess' = [excess EXCEPT ![k] = @ - 1]
  /\ UNCHANGED <<clock, up, sess, defs, lastRun, stamp, oblig, memory, scan>>

(* The operator: runScheduledTaskNow and the routes of schedules.ts *)
RunNow(t) ==
  /\ up /\ defs[t] = "on" /\ att["runNow"] = Idle /\ Event
  /\ IF Task[t].command
       THEN /\ lastRun' = [lastRun EXCEPT ![t] = clock] /\ trace' = Logged(t, Targets(t))
            /\ UNCHANGED <<att, excess>>
       ELSE /\ att' = [att EXCEPT !["runNow"] = [pc |-> "loop", task |-> t, agent |-> Main, left |-> Targets(t),
                                                whole |-> Targets(t), at |-> 0]]
            /\ excess' = [k \in Keys |-> IF k[1] = t /\ k[2] \in Targets(t) THEN excess[k] - 1 ELSE excess[k]]
            /\ UNCHANGED <<lastRun, trace>>
  /\ UNCHANGED <<clock, up, sess, defs, stamp, retry, oblig, inflight, lastCheck, lastPersist, tick, scan>>

CancelRetry(k) ==
  /\ up /\ k \in retry /\ Event
  /\ retry' = retry \ {k} /\ trace' = [trace EXCEPT ![k] = clock]
  /\ UNCHANGED <<clock, up, sess, defs, lastRun, stamp, oblig, memory, scan, excess>>

\* toggle, or DELETE of the schedule: its rows stay until a tick sees them
SetDef(t, d) ==
  /\ up /\ defs[t] # "gone" /\ d # defs[t] /\ Event
  /\ defs' = [defs EXCEPT ![t] = d]
  /\ UNCHANGED <<clock, up, sess, lastRun, stamp, retry, oblig, memory, history>>

(* The process dies between two steps; a prompt already typed is not recorded *)
Crash ==
  /\ up /\ Event
  /\ up' = FALSE /\ tick' = Idle /\ att' = [x \in Actors |-> Idle]
  /\ inflight' = [k \in Keys |-> 0] /\ lastCheck' = 0 /\ lastPersist' = 0
  /\ excess' = [k \in Keys |-> excess[k] - Cardinality({x \in Actors : att[x].pc = "typed" /\ Key(x) = k})]
  /\ UNCHANGED <<clock, sess, durable, trace, scan>>

Restart_noRecovery ==
  /\ ~up /\ up' = TRUE
  /\ lastCheck' = CatchUpStart(stamp, clock) /\ lastPersist' = 0 - PersistEvery
  /\ UNCHANGED <<clock, sess, durable, inflight, tick, att, events, history>>

Restart_lastRunLost ==
  /\ ~up /\ up' = TRUE
  /\ lastCheck' = CatchUpStart(stamp, clock) /\ lastPersist' = 0 - PersistEvery
  /\ inflight' = oblig /\ lastRun' = [t \in Tasks |-> 0]
  /\ UNCHANGED <<clock, sess, defs, stamp, retry, oblig, tick, att, events, history>>

\* startScheduleRunner: the stores are read back, the first window is the downtime
Restart ==
  /\ ~up /\ up' = TRUE
  /\ lastCheck' = CatchUpStart(stamp, clock) /\ lastPersist' = 0 - PersistEvery
  /\ inflight' = oblig
  /\ UNCHANGED <<clock, sess, durable, tick, att, events, history>>

-----------------------------------------------------------------------------
TickLoop ==
  \/ \E k \in Keys : RowDropped(k) \/ RowSkipped(k) \/ RowTried(k)
  \/ RowsDone \/ DueDone \/ TickEnd
  \/ \E t \in Tasks : DueSuppressed(t) \/ DueStale(t) \/ DueSettled(t) \/ DueFires(t)
  \/ \E a \in Agents : KeyHandled(a)

Attempt(x) ==
  \/ \E a \in Agents : Target(x, a)
  \/ NotReady(x) \/ Starting(x) \/ Unavailable(x) \/ PreSendSkip(x)
  \/ SendBegin(x) \/ Fired(x) \/ SendFails(x)
  \/ \E pane \in {"ready", "busy"} : Typed(x, pane)

Tick ==
  /\ up /\ tick = Idle
  /\ \E settled \in SUBSET {k \in Keys : LostNow(k, clock)} :
       \E lost \in SUBSET settled : \E stale \in SUBSET (settled \ lost) : TickBegin(lost, settled \ lost, stale)

Operator ==
  \/ \E t \in Tasks : RunNow(t) \/ \E d \in {"on", "off", "gone"} : SetDef(t, d)
  \/ \E k \in Keys : CancelRetry(k)

Next ==
  \/ Tick \/ TickLoop \/ \E x \in Actors : Attempt(x)
  \/ \E k \in Keys : GiveUp(k)
  \/ Operator \/ Crash \/ Restart \/ Advance
  \/ \E a \in Agents : Frees(a) \/ \E s \in Sessions : Flip(a, s)

Spec == Init /\ [][Next]_vars

\* setInterval fires, every await returns, the process is restarted; no pane need come back
FairSpec ==
  /\ Spec /\ WF_vars(Tick) /\ WF_vars(TickLoop) /\ WF_vars(Restart)
  /\ \A x \in Actors : WF_vars(Attempt(x))

-----------------------------------------------------------------------------
TypeOK ==
  /\ clock \in Nat /\ up \in BOOLEAN /\ sess \in [Agents -> Sessions]
  /\ defs \in [Tasks -> {"on", "off", "gone"}]
  /\ lastRun \in [Tasks -> 0..clock] /\ stamp \in 0..clock
  /\ retry \subseteq Keys /\ oblig \in [Keys -> 0..clock] /\ inflight \in [Keys -> 0..clock]
  /\ trace \in [Keys -> 0..clock] /\ excess \in [Keys -> Int]
  /\ \A x \in Actors : att[x].pc \in {"idle", "loop", "try", "sending", "typed"}
  /\ tick.pc \in {"idle", "rows", "cron"}

Accounted(k, since) == trace[k] >= since \/ k \in retry

\* An occurrence the tick went through never vanishes: every target of the task
\* has an outcome record no older than the scanned window, waits in the retry
\* table, or was withdrawn by the operator - across crashes, lost prompts, failed
\* sends and cancelled rows.  A task passed over because it "already ran" in
\* the window has such a trace for at least one target.
NothingVanishes ==
  \A t \in Tasks : scan[t] # NoScan =>
    IF scan[t].suppressed THEN \E a \in Agents : Accounted(<<t, a>>, scan[t].from)
                          ELSE \A a \in scan[t].targets : Accounted(<<t, a>>, scan[t].from)

\* No prompt is typed twice for one occurrence of a task for one agent: whatever
\* restarts, re-scans and retries do, the agent has received at most one prompt
\* for each occurrence that came due, beyond those the operator asked for, those
\* redelivered after a lost verdict and those a crash cut off before they were
\* recorded.  (A broadcast has one last run for all its targets: the lost verdict
\* of one of them deletes it, and after a restart the others are prompted again.)
NoDoubleFire ==
  \A k \in {j \in Keys : ~Task[j[1]].all} :
    excess[k] <= Cardinality({o \in Task[k[1]].due : o <= clock})

\* While the process runs, every durable output obligation is watched (or is
\* still being sent): none is orphaned by a restart or by a second injection.
ObligationsWatched ==
  up => \A k \in Keys : oblig[k] # 0 =>
          \/ inflight[k] >= oblig[k]
          \/ \E x \in Actors : att[x].pc \in {"sending", "typed"} /\ Key(x) = k

\* Rows are never abandoned ("the operator can cancel from the UI if a retry has
\* become obsolete"), so a target that is never free when the tick looks keeps its
\* row.  Nothing else does: a row does not stay for ever while its target, from
\* some moment on, sits at its prompt or is down - whatever the other targets,
\* which may never come free, and the sends to them do to the tick.
RowsDrain ==
  \A k \in {j \in Keys : ~Task[j[1]].command} :
    []<>(k \notin retry \/ sess[k[2]] \notin {"ready", "absent"})

\* The words of the source: "a missed occurrence either runs or gets named, never
\* both and never neither" - a record at or after the occurrence itself.
RunsOrNamed ==
  \A t \in Tasks : scan[t] # NoScan =>
    \A a \in scan[t].targets : Accounted(<<t, a>>, scan[t].occ)
=============================================================================
