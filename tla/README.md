# Marveen: a formal model

TLA+ modules, TLC configurations and TLAPS proofs for Marveen, a Node.js
process that runs a fleet of Claude Code agents, each in a tmux session, behind
a dashboard and an HTTP API. Line numbers refer to `src/` at the commit the
project was written against; `PROJECT.json` maps every definition that models
code to its lines.

## 1. The system

One Node process (`src/src/index.ts`, `src/src/web.ts`) serves the API and runs
interval timers. It holds a SQLite database (`src/src/db.ts`), JSON files under
`store/`, and talks to the agents by typing into their tmux panes. Agents talk
back over the HTTP API. Node runs one handler at a time, so a race needs an
`await`; SQL statements are atomic, pairs of statements are not; a restart
(systemd, an update, a crash) may come anywhere.

| Component | State | Operations | What is hard | What makes it correct |
|---|---|---|---|---|
| Message delivery (`web/message-router.ts`, `routes/messages.ts`, drain-inbox in `routes/agents.ts`) | table `agent_messages`; in memory: retry counts, absent set, stuck timers, wakeup cooldown | router tick every 5 s, POST, PUT, drain, reconnect batching, wakeup | the tick works on a snapshot across awaits; sessions come and go; tmux calls time out after the text landed; restarts between two statements | nothing vanishes silently, nothing is delivered twice, completions are reported, queues drain |
| Send lock (`web/session-send-lock.ts`) | per pane: busy flag, queue of resolvers | deliver (fail open), recover (fail closed), try-acquire | budget timer against hand-off, stuck holders | one owner, no lost waiter, first come first served, no starvation |
| Federation (`deliverFederatedBatch`, `web/federation/bridge.ts`, `routes/federation.ts`) | federated rows of `agent_messages`, per-peer backoff, in-memory set of seen references | batch send, inbox, purges | lost answers, duplicates after a restart, backoff, retention | at most once per reference and process life; a row is sent, failed or retried until it expires |
| Schedule runner (`web/schedule-runner.ts`, `pending-retries.ts`, `routes/schedules.ts`) | last-run file, liveness stamp, `pending_task_retries`, output obligations, in-flight set | tick, catch-up, fire, retry, manual run, cancel, recovery | restarts between injection and stamp, windows across slow ticks, cancelled retries | every occurrence runs or is named, none runs twice, every obligation is watched, the queue drains |
| Agent processes (`web/agent-process.ts`, `agent-desired-state.ts`, `routes/agents.ts`) | tmux sessions, the set of desired agents | start, stop, restart, delete | gaps of seconds between kill, reap and start | a stopped agent stays stopped |
| Channel monitor and reconnect (`channel-monitor.ts`, `agent-restart-policy.ts`, `channel-plugin-unlock.ts`) | down counters, windows, failures on disk | sweep, restart, unlock probe, reconciliation with the desired set | lists made once and worked off over minutes; several watchers acting on one session | bounded restarts, a wanted agent is served or reported |
| Channel coordinator (`channel-coordinator.ts`, `channel-coordinator/*`) | poll offset, event rows, liveness of the plugin | poll, ingest, hand-off, reconcile | restart between hand-off and mark; insert failures against the offset | nothing confirmed is forgotten, every update arrives, no doubles without a crash |
| Process lock (`process-lock.ts`, `index.ts`, `web.ts`) | pidfile, port | look, take over, claim, bind, release | stale pids, several starters | at most one live owner |
| Context guard and restart gate (`context-guard.ts`, `context-restart-gate.ts`, their runners) | a phase per agent in memory; the gate's streak on disk | ask for a handoff, restart, resume; clear, alert | deferred restarts, a file that falls behind, sweeps five minutes apart | no conversation is told that it begins anew by mistake; a full session is ended |
| Kanban (`db.ts`, `kanban-*.ts`, `routes/kanban.ts`) | cards, lanes, limits | move, edit, archive, restore, import, dispatch | a lane's limit has many doors; message and stamp are two statements | the limit holds, an assignee is woken once |
| Idea box (`routes/ideas.ts`) | ideas, their cards | promote, take back | two tables, no transaction | a promoted idea has its card |
| Approvals (`db.ts`, `routes/approvals.ts`) | approval rows | request, notify, decide, expire | decision against expiry, notices that fail | one final decision, somebody knows, every request ends |
| Background tasks (`db.ts`, `routes/background-tasks.ts`) | task rows, tmux sessions, marker files | spawn, poll, time out, cancel, recover | orphans after a restart, a result racing the timer | no task runs for ever, no result is lost, the limit counts what runs |
| Automatic restart, model fallback, quota gate | small per-agent files and counters | decide, act | timed decisions on stale data | no restart loops |
| Watchers (stuck input, stuck tool call, inbox nudge, re-authentication) | episode bookkeeping | probe, act | act on a pane somebody else types into | covered by the send lock |

How they interact: the scheduler, the channel coordinator, the federation inbox
and the HTTP API create rows in `agent_messages`; the router types them with
`sendPromptToSession`, which every writer to a pane uses and which takes the
send lock; the watchers and healers take the same lock in recover mode. The
watchdog, the context guard and the operator start and end sessions past one
another; what tells them apart is the desired set, a stamp of the last respawn of
the main session, and the guard's phase, which the restart gate reads.
`PROJECT.json` lists all components with their status, and under `hazards` the
lines at which this code is exposed.

## 2. Modules

### `Handoff` and `MessageDelivery`

`Handoff` is what the message system promises: a ledger of accepted messages,
each with an outcome (open, shown, accounted, withdrawn, cut, parked); "shown"
and "cut" are final, the others may give way to a later one but never go back to
open (a text parked in an input box may be submitted after all); a message becomes "accounted" only in a step that accepts the message
that accounts for it.

`MessageDelivery` is the code. One action per piece of code between two awaits:

| Code | Actions |
|---|---|
| `POST /api/messages` | `Post` |
| `PUT /api/messages/:id` | `Put`, and `PutThenCrash` for a restart between its two statements |
| drain-inbox | `Drain`; `MainTurn` starts a turn whose hook will call it |
| tick: snapshot, receiver lookup, reconnect check | `BeginTick` |
| `batchDeliverBacklog` | `batchDeliverBacklog`, `CrashInBatch` |
| loop: batched row, row for the main agent | `SkipBatched`, `SkipMain`, `Wakeup` |
| loop: target without a session | `Abandon`, `SkipAbsent`, `CrashInAbandon` |
| loop: session not ready, sender not framable, exception | `NotReady`, `Reject`, `ProcessingThrows` |
| `sendPromptToSession` and after | `BeginSend`, `Land`, `Parks`, `markMessageDelivered`, `InjectThrows`, `CrashInGiveUp` |
| the text in an input box afterwards | `Submits` (stuck-input recovery, the Enter of the next prompt), `clearStaleParkedInput`, `SessionFlips` |
| end of the tick | `EndTick` |

`msgs` is the table (the row's id is its position); `present` the tmux sessions;
`work`, `seen`, `toBatch`, `batched` the locals of a tick; `wasAbsent`,
`stuckSince`, `cooled` and a row's `inject` the maps the module keeps between
ticks, all lost on restart. A row's `box` says that its text was typed and not
submitted: it is still in the input box (`holds`) or was wiped from it (`lost`).
`sendPromptToSession` reports success in both cases (`Parks`), and the row is
marked delivered like any other. Two counters of each row are history: `shown`
(how often the text reached the recipient) and `cut` (how often a fault
separated two effects that belong together).

Abstractions. Contents are not modelled; a row carries what the code
distinguishes (recipient, sender, the kind of a row the code writes itself and
the rows it speaks of). Ages are compared in units of time in which the windows
are small; a tick is short against a unit, so the clock moves only between
ticks. Rows of the same second are ordered by id. `agentBatchedThisReconnect`
is left out: the flag is never true while `agentWasAbsent` holds the agent, so
it decides nothing. Trace stamping, speech-to-text and the log janitor do not
touch the columns modelled. `isSessionReadyForPrompt` is an arbitrary answer.

### `SendLane` and `SessionSendLock`

`SendLane` is a lane with one holder, a line served in order, and the right to
leave the line and write outside. `SessionSendLock` is the code for one pane:
`Deliver`, `BudgetElapses`, `FailOpen`, `Granted`, `Emitted` for deliver mode,
`Recover` and `Healed` for recover mode and the synchronous try-acquire,
`SendPrompt`, `ModalsDismissed`, `AbortBusy` for the part of
`sendPromptToSession` before the emission. A grant, the firing of the timer and
the continuation after the race are separate steps, because Node runs other
code between them. Callers of different panes share nothing, so one lane is
the general case. No caller of the try-acquire releases twice, so the
idempotence of the release closure is not modelled. A skipped recovery changes
nothing and is no action.

### `FederationBridge`, `FederationInbox` and `Federation`

`FederationBridge` is the outbound half:

| Code | Actions |
|---|---|
| `POST`, `PUT` of `/api/messages` for a federated row | `Post`, `Put` |
| `deliverFederatedBatch`: snapshot, end | `TickBegins`, `TickEnds` |
| budgets and backoff leave the row | `PassOver` |
| row over its peer's window | `Abandon`, `CutAbandon` |
| `sendFederatedMessage` before the network | `Refuse`, `CutRefuse` |
| the POST leaves, and what comes back | `Fetch`; `Accepted`, `Rejected`, `Unanswered`, `CutAccepted`, `CutRejected` |
| `PUT` of the configuration, of a peer, removals | `Enable`, `Disable`, `AddPeer`, `PatchToken`, `RemovePeer`, `RemoveAll` |

Between the rows of a batch nothing is awaited unless a POST is sent, so other
handlers run only where `Awake` holds; a restart may come anywhere, also between
an update that closes a row and the notice or result after it (the `Cut`
actions). `told`, `tries`, `cut` and `misses` are history. A `PUT` of the whole
configuration document is a composition of these edits. The abandon window is
that of the peer, read per row; its change at run time is left out.

`FederationInbox` is the inbound half as one peer sees it. `Admit` is the gate
with the token comparison, after which the body is awaited (`reading`);
`Replay`, `Insert` and `TurnDown` are what the handler does then, without
another await. `rememberRef` evicts the oldest entry of the in-memory filter,
which is shared by all peers (`Stranger`), and a removal takes out this peer's
entries alone (`OthersKept`). `era` counts how often the filter
has forgotten something.

`Federation` extends both with the network of one pair: `wire` holds POSTs that
have left, an `answer` reaches only a bridge that still waits for that very
attempt, and `Unanswered` may come whatever has become of the POST, so loss,
lateness and repetition are all included. `LoseStore` is a sender whose
database and configuration begin anew; `Paste` is the owner copying the token
the receiver shows. `ReAdd` and `QuietRemoval` are disciplines of the operator:
the first removes and adds a sender that has lost its store, the second removes
a peer only while no request of his is being read. Once a store has been lost, an
acknowledged message can be missing without either; while none is lost neither is
needed (section 5). `PUT` occurs in
the bridge alone.

Left out: database errors while a notice is written, a 2xx whose body is not
JSON (the row is marked delivered with an unknown id), ping and directory.

### `ScheduleRunner`

One tick at a time: `Tick` opens the window since the previous tick (or the
catch-up window after a restart) and `TickLoop` works it off, retry rows first,
then the due tasks, target by target. `Attempt` is one attempt to fire, step by
step up to and after each await: the output obligation, the prompt, the stamps,
the deferral into a row, giving up. `RunNow`, `CancelRetry` and `SetDef` are the
operator's requests, `Crash` and `Restart` the process, with the durable part
(last-run map and stamp as last written, rows, obligations) surviving. A pane may
change at any time, and need never come free. The same
key may be attempted by the tick and by a manual run at once. An occurrence is
a (task, target) pair and an instant; `trace`, `scan` and `excess` are history.

### `ChannelCoordinator`

The poller that stands in for the main agent's Telegram plugin, one database
statement a step: probing and debounce, the seed of the offset, the long poll,
the batch, `ingest` row by row, the hand-off (message, then link), the
reconciliation, the confirmation, the cool-down after a 409. The rows go to the
main agent, for which the router types nothing: `Drain` is a drain-inbox of its,
which claims rows before the reply is read, `DrainLost` one whose reply is lost,
`PutDone` and `PutFailed` are PUTs of such a row. `read` holds the updates whose text
a drain has brought to the main agent, `lost` those whose row was closed without.
Telegram and the plugin are external and act between any two steps; a kill loses
everything in memory.

### `ProcessLock`

Dashboards that start at will: look at the pidfile and the process list, signal
and wait, kill, claim the file, bind the port, release. Processes interleave
between any two system calls; a look-up may miss a living process
(`MaxMisses`), which the property counts as an excuse; the first look of a
starter that finds no holder at all (`lsof` failed) makes it leave.

### `Kanban`, `IdeaBox`

`Kanban` is the table of cards with the operations of `db.ts`, each a
transaction: create, move (with the workflow graph, the gate and the trigger),
edit, archive, archive by age, restore, delete, import. `DispatchMessage` and
`DispatchStamp` are the two statements that wake an assignee; a restart between
them loses the second, and an exception in it is caught (`StampFails`). A move to
the state a card is in dispatches as well (`MoveWithin`). `IdeaBox` is the
promotion of ideas to cards and the way back, statement by statement, with the PUT
of an idea, which takes any status and any link (`UpdateIdea`), and the ways a
card goes into the archive without its idea: by age, and by a PUT of the card
(`PutAside`). The two share the board in the code; `IdeaBox` keeps of a card only
whether it exists and is archived.

### `Approvals`, `BackgroundTasks`

`Approvals`: a request, its notices (Telegram may be off or fail, and so may the
row of the message in band: `unsaid`), verdicts, the sweep, which may fail, outages
of the dashboard. `BackgroundTasks`: the tasks of one agent with their row, their
session, their result marker and the handler at work (`doing`), against sessions
that end, timers that fire, cancels, failed tmux calls and crashes. Reading the
output file and writing the row are two steps wherever the code captures the pane
or kills the session in between (`Expire` and `ExpireFinish`, `Cancel` to
`CancelFinish`, `SweepReads` and `OrphanFinish`); `missed` holds the tasks whose
result came too late for the handler that ends them.

### `AgentLifecycle`

One sub-agent. `StartOrder`, `StopOrder`, `StopReaps`, `RestartOrder`,
`RestartStarts`, `DeleteEnds`, `ScheduledStart` are the handlers and their gaps;
`SweepBegins`, `SeesAlive`, `SeesDown`, `LooksDown`, `GiveUp`, `AlertBusy`,
`WatchdogStops`, `WatchdogStarts`, `WatchdogThrows` the watchdog's half of
`startChannelPluginMonitor`; `SweepLists`, `BurstPasses`, `BurstStarts` the
reconciliation with the desired set; `UnlockProbe` the probe of an absent
plugin. A kill of the session may fail, and so may the write of the wish: an order
then leaves the session as it is (`failed`), and the watchdog goes on to its start
all the same (`WatchdogStopFails`). Windows of time are bits that time clears
(`Ages`). Back-off beyond the base grace, stagger, memory gate and "busy" are
nondeterministic.

### `ContextGuard`

One agent whose context fills. `SwitchedOff` to `GivesUp` are the branches of
`checkAgent` and `decideGuard`, one an action: the saturation net with its
confirming sweep (`SeesSaturation`), the hard tier (`SeesHard`), the request for
a handoff, by share or by the idle flush (`AsksHandoff`), what comes of it
(`HandoffWritten`, `HandoffOverdue`, `TipsOver`, `StandsDown`) and the wait for
the new session (`SeesReady`, `GivesUp`). A decision to restart is `Defers`
within the main session's grace and `Restarts` otherwise; `acting` is the await
that follows (`Asked`, `Resumed`, `StartsAgain`). `GateBelow` to `GateClears`
are the restart gate, with the window between its look at the pane and the
typing of `/clear`. The session works, writes HANDOFF.md, stalls, dies and is
started by others; it may show a banner above its footer, or a modal in the place
of it, which hides from the net that it is full (`Full`). Sizes of a context are
ordered by the thresholds they pass,
and what the newest transcript shows (`reading`) is kept apart from what is in the
context (`load`), because after a restart the two differ.

### Modules that put parts together for TLC

`MCChannels` (lane and coordinator), `MCServices` (approvals, background tasks,
process lock), `MCWork` (schedule, board, ideas) and `MCSweeps` (schedule with a
broadcast, context guard) put modules that share no state side by side: `part`
says whose behaviour it is, and the others keep their initial state. That is
not a composition, only one run for several questions; components that do
interact are composed in `Federation`, and by `INSTANCE` in `Handoff` and
`SendLane`, which the detailed modules are shown to implement.

## 3. Runs

| Run | Question | Bounds |
|---|---|---|
| `messages_faults` | Is a row lost, doubled, reported twice or not reported, whatever fails? | one posted row to a sub-agent and the rows it causes, two faults (throws, lost replies, texts that stay in the box), one restart, one PUT, one session change |
| `messages_queues` | Do reconnect batching and the main agent's inbox keep the promise of `Handoff`? | two rows for a session that leaves and returns or for the main agent, one per drain, a restart, one fault (throw, lost reply, text that stays in the box), a sender that cannot be framed, age windows 0 and 1 |
| `messages_progress` | Does every row leave the queue? | two rows, each to the sub-agent, the main agent or a name without a session, and the notices they cause; one row in the slice of a tick |
| `channels` | Has the lane one owner, does it implement `SendLane`, does every delivery run? Is an update forgotten, doubled or left behind? | four senders (three wait at once), one healer; two updates, three events (flips of the plugin, wrong probes, failures, lost replies, PUTs, crashes), a debounce of two |
| `bridge` | Are notices exact and closings final while the operator edits; what does a peer that is down cost; is every row settled? | three rows, one peer, two POSTs per tick, any two of: two edits, a PUT, a restart (`MaxTroubles`) |
| `federation` | Is what is marked delivered there, once per life of the filter? | two databases of one row, a filter of one entry; any two of two edits and a restart at the sender, any three of two edits, a restart and a message of somebody else at the receiver, besides the loss of the store |
| `work` | Does an occurrence vanish or fire twice, an obligation go unwatched; does a lane overfill, an assignee wake twice; does a promoted idea lose its card? | three tasks (a forced briefing with output, a heartbeat behind an MCP server, a command), three instants, two events; two cards, two lanes of limit 0 or 1, five kinds of imported row, three requests, one restart or failed stamp; two ideas and two cards, edits and crashes without bound |
| `sweeps` | Does a row of a broadcast outstay a target that is free? Is a resume prompt honest, and does nobody stay full? | two agents, one gated task, one event; one agent with each of three settings and two edits of them, four sizes of context, one trouble (death, failed call, restart of the dashboard, edit) |
| `services` | Does somebody know of each approval, does it end, is none approved late? Is a task's result kept, does it end, is what runs counted? Is there one owner, and does a take-over end? | two requests, one outage or failed sweep; two tasks, a limit of one, three faults; three processes, two attempts, a crash, a missed look-up |
| `agents` | How often is a hopeless agent restarted, does a stopped one come back, is a wanted one served or reported? | a cap of two restarts (one for an absent plugin), two orders, one trouble (death, restart of the dashboard, failed kill or write) |
| `schedule_skipped`, `agents_resurrected` | findings, section 6 | the smallest that show them |

Why the bounds suffice: the windows and thresholds are small constants, each
with a value on either side in reach; two rows, cards, tasks or updates are the
least that can be ordered, batched together or stand in each other's way; a
restart or a fault acts on one of them at a time, and a second one only after
recovery returns to a state of the same kind. The windows and back-offs of
federation are one or two units, so each row can be fresh, overdue or behind a
back-off within the clock's bound; a filter of one entry evicts as soon as two
references meet. One trouble in `sweeps` and `agents` is enough because sessions
fill, stall and recover without bound; what is bounded is only what the code
does not cause. The instants of the schedule are those that matter to a window:
before, at and after an occurrence.

The bounded events run out, and an idle system then has nothing to do: except
for messages and channels, the runs do not check deadlock.

Every property of a passing run has a mutant in `PROJECT.json`: a plausible
bug (a dropped notice, a missing mark, a wrong guard) that the run detects.

## 4. Fairness

`MessageDelivery`: weak fairness of the router (an interval timer; every await
inside the tick returns, tmux, ssh and speech-to-text calls have timeouts);
strong fairness of the main agent's drain (every turn runs the hook), of time
and of the wakeup cooldown; and, for responsive sessions only, strong fairness
of being found ready. Nothing forces a session to be ready.

`SessionSendLock`: timers fire and continuations run. Nothing is assumed of
holders: `DeliveryRuns` holds although every holder may be stuck for ever.

`FederationBridge`: weak fairness of the tick (the same timer), of the loop and
of the POST's return (`AbortSignal.timeout` bounds the await), and of time.
Nothing is assumed of peers or of the operator. The run posts only while
the clock can still pass the row's window.

`ScheduleRunner`: the tick's timer, the continuation of every attempt, the
restart by the service manager. Nothing is assumed of panes: rows are never given
up (`schedule-runner.ts:1608`), so a row waits as long as its target is never free
when the tick looks, and `RowsDrain` says that nothing else keeps it. (Starts and
MCP servers that fail are bounded events: one that fails for ever keeps its row as
well.) `ChannelCoordinator`: its loop, the turns of the main agent with their
drain, the end of a cool-down, the restart, and the plugin while it is up.
`Approvals`, `BackgroundTasks`, `ProcessLock`: timers, handlers and restarts; for
a task strong fairness of its half hour being over, for a process of its next
system call.

`AgentLifecycle`: the handlers, the sweeps and time; strong fairness of the
branches a sweep reaches only in some states (`SeesAlive`, `GiveUp`,
`LooksDown`, the busy alert or the restart, the reconciliation), because a sweep
comes again and again and the conditions of one branch recur; it says that
stagger and memory gate do not refuse an agent for ever.

`ContextGuard`: the guard's timer with its awaits, time, the gate's timer, and
strong fairness of a typed `/clear` while the pane takes it. Nothing is assumed
of the session: it may stay in one turn, under a banner or behind a modal for
ever. `NobodyStaysFull` asks of each state what the code can see in it: the net a
full session whose footer shows, the hard tier a full transcript behind whatever
covers the pane, the gate a heavy one. With the net alone a full session behind a
modal is ended by nobody (the monitor's Escape, not modelled, may free it).

## 5. Proofs

All theorems hold for every value of the constants that satisfies the module's
assumption.

`MessageDeliveryProofs`:

- `TypeCorrect`: `Spec => []TypeOK`. Each action's table is well-typed and keeps
  the rows it had (`TableGrows`), the rest follows variable by variable.
- `NothingVanishes`: `Spec => []NoSilentLoss`. `NoSilentLoss` is not inductive:
  `markMessageDelivered` closes a row because its text has landed, or because the
  send that left it in the box said so, and giving up
  writes a notice only if the recipient is not the main agent. `LossInv` adds
  `InFlightOK`, which says so of the row being sent; that a row was `parked` is an
  excuse (section 6). The step is proved through
  `TableStep`: an existing row keeps its address, kind and subject, its counters
  do not fall, and if a step closes it without an excuse a row accounts for it.
- `ClosedForGood`: `Spec => NeverReopened`, from the same invariant.
- `DeliveredOnce`, `ReportedOnce`, `AlarmsAreTrue` (`NoDuplicateDelivery`,
  `AccountedOnce`, `NoFalseAlarm`). A row is `Live` while it may still be handed
  over or accounted for: it is pending, or the tick has yet to process it,
  whatever has been done to it meanwhile. `FateInv` says that a live row that is
  not in flight has been shown, or waits in a box, only as often as it was cut, and
  that notices and summaries speak of dead rows. `RowFate` is what a step may do to a row.
- `DelegatorsHear` (`ReportFollows`): only a PUT gives a row its result, and
  unless it is cut short the same step writes the report.
- `PromiseKept`: `Spec => KeepsPromise`, the refinement of `Handoff`. The outcome of
  a row is read off its columns (`Settled`), and `RowFate` and `NoSilentLoss` leave
  it only the moves the ledger allows.

`SessionSendLockProofs`, for any sets of senders and healers:

- `MutualExclusion`, `NoPhantom`, `NoLostWaiter` from the invariant `LockInv`
  (types, one owner, busy exactly when there is an owner, a queue exactly of
  those who wait, no queue at a free lane). `EveryLockStep` reduces each action to
  one of five ways of changing owners and queue.
- `LockImplementsLane`: `Spec => KeepsLane`, the refinement of `SendLane`, by the
  same reduction.

`FederationProofs`, for any set of peers, budgets, windows and backoff. The
bridge by itself:

- `NoticesAreExact`, `FirstCloserStands`, `OffMeansOff`
  (`ToldOnce`, `CloserWins`, `NoOrphans`). `EveryBridgeStep` reduces each
  action to `RowsStep`: a fresh row is appended, or every row undergoes one
  `Change`. `ToldOnce` needs the strengthening that a pending row has no result
  yet (`NoticeOK`); `NoOrphans` needs `PendingBefore` and `NothingLeft`.
- `BridgeTypeCorrect` and `DeadPeerCostsOnePost` (`OneMissPerTick`). The
  invariant `MissInv` says that a peer that has missed in this tick is behind
  its backoff and that the peer of the POST on the wire has not missed. It
  rests on `DelayPositive`: the delay after a failure is never zero.

The composed system:

- `SystemTypes`: `TypeOK` of bridge, wire and inbox together.
- `OneCopyEach` (`OneCopyPerEra`). `CopyInv` adds that the reference of a
  request is the number of the row it carries, and that what was accepted in
  this life of the filter is still in it; evicting an entry begins a new life.
- `DeliveredArrived`: `Careful => (Spec => []DeliveredIsThere)`. `Careful` is the
  discipline of section 6, stated for the constants: the sender keeps its store
  (`MaxResets = 0`; removals may then come at any moment), or it is removed with
  no request in hand and paired anew (`ReAdd`, `QuietRemoval`; what the run assumes). `ThereInv`
  follows a text from the row over the wire to the entry: which of them were
  written by the present database (`WireOK`, `ReadingOK`, told apart by token
  once the receiver has minted a new one), that the filter points at entries of
  that text (`FilterOK`), and that a 2xx about to be read is about its row
  (`AnswerOK`).

`ChannelCoordinatorProofs`, for any number of updates, faults and any debounce:

- `TypeCorrect` and `NothingIsForgotten`. What Telegram has been told to forget
  is kept only because the loop moves the offset over a batch when all of it is
  stored or still to do; the invariant `IInv` says that of every place of the
  loop, the reconciliation and a dropped batch included.
- `OnceHandedOff` (`HandedOffOnce`). `OnceInv` counts the live messages of an
  update: as many as crashes cut off between message and link while the update
  still needs one, and one more otherwise. A row that a PUT closes as failed makes
  its update need one again.

`SweepsProofs`, about the two timers that type into a session.

- `SchedulerTypes`: types, with what they rest on: no stamp or watch lies ahead
  of the clock, a process that is down has nothing under way.
- `DebtsWatched` (`ObligationsWatched`) from `ObligInv`. Two attempts may be at
  the same key; what saves the obligation is that the lane of a session orders
  them (`LaneOrder`), so that the newest writes the watch last (`HeldOrSent`,
  `LatestCounts`).
- `NothingLost` (`NothingVanishes`) from `VanishInv`: whatever the last run, the
  rows of the snapshot and the keys worked off claim has a trace or a row.
- `FiredOnce` (`NoDoubleFire`). The number of prompts beyond the excuses is
  compared with the occurrences up to a horizon: `Balanced` says that for every
  task and its target some instant exists up to which the prompts, with those
  that a row, the due list or the operator still owe, are no more than the
  occurrences, and that either the last run covers that instant, or the
  occurrence is on its way, or one is still to spare. A window that reaches back
  behind the last run lets the task go, one that starts after it has at least
  one new occurrence; both keep the balance with the same or a later horizon.
- `GuardTypes`, and `ResumesHonestly` (`HonestResume`) from `Resumable`: the file
  is known to the last conversation that ended (`FileKnown`), the session that
  is waited for is new and has been told nothing (`NewlyBegun`), and a prompt
  under way says what held when the last one ended (`SaysTrue`). Most steps are
  quiet (`QuietStep`) or leave the phases of which it speaks (`LeavingStep`).

`BoardProofs`, for any cards, lanes, limits and imports:

- `LimitsHold` (`WipHolds`), an action property. Every request is a row
  written (`Put`), through the gate or without making the lane fuller; a lemma
  about the cardinality of a lane does the rest.
- `BoardTypes` and `ToldOnce` (`WokenOnce`). `Woken` adds that the
  assignee of a card without a stamp has been told no more often than there were
  restarts and failed stamps, but for the card whose stamp is about to be written.
- `IdeasHaveCards` (`PromotedHasCard`, with the idea box's types), from `Boxed`:
  of a card that no edit of an idea has claimed there is at most one promoted idea,
  so that taking one back takes back all. Putting a card aside leaves it there.

`ServicesProofs`:

- `AtMostOneOwner` (`OneOwner`). Two owners would both have scanned; whoever
  scanned last has signalled the other, who leaves before it claims anything.
  The invariant follows a signal from the scan to the exit and says that a
  process which was missed is the only excuse.
- `AlwaysKnown` (`SomebodyKnows`, with the types) and `NeverStale`
  (`NoStaleApproval`). `Told` adds that sends which have begun are for
  a request of the main agent itself, one in its queue, or one the queue could not
  take (`unsaid`); for the second, `Clock` and `SweptFresh` tie the age of a request that is
  still pending to the time since the last sweep.
- `WorkCounted` (`WorkIsCounted`): a session at work belongs to a running row,
  because a handler about to make or end a session has the row running
  (`Promised`). `ResultsKept` (`ResultKept`) needs that a task whose session is
  not made yet has no marker (`Unmade`), and that a handler which is to write
  another verdict than "done" has found no marker or its task is in `missed`; `TasksLimited` is the types with the
  limit.

`AgentLifecycleProofs`: `NoEndlessRestarts` from `Counted` (a restart is in the
counter, about to be, or was cut short), `NoGhostReturns` from `AtRest` (when
nothing was about to start an agent that is not wanted, and its session was
ended, nothing becomes so). A kill or a write that failed is an excuse by name.

Every safety invariant and action property that a passing run checks is thereby
also a theorem, and so are both refinements. Model-checked only is liveness
(`EveryRowSettles`, `DeliveryRuns`, `EveryUpdateArrives`, `Settles`, `StartupsEnd`, `RowsDrain`, `NobodyStaysFull`, `EveryRequestEnds`,
`TaskEnds`, `ServedOrReported`): fairness and ENABLED are beyond the proof
system.

The assumptions are those of the modules, which TLC evaluates: that constants
are numbers, sets or records of the kind the code has, that federation's
back-off and the limits that divide work are positive, and that a task of the
schedule has finitely many due instants (`ScheduleAssumption`; within a bounded
clock a cron expression has no more).

## 6. Findings and limits

Two runs contradict what the source says of itself:

- `schedule_skipped`: a tick skips a due task if it last ran after the beginning
  of the tick's window, not after the occurrence. A late delivery of one
  occurrence swallows the next, which "either runs or gets named, never both and
  never neither".
- `agents_resurrected`: a stop while an automatic start is under way is undone by
  that start, which does not look at the desired set again.

Where the models show less than a comment promises, or rest on a discipline, and
no run contests it:

- Messages. "A handoff failure is never silent" (`message-router.ts:50-58`) does not
  hold of a text that was typed and not submitted. `sendPromptToSession` returns
  'sent' when its loop gives up with the text in the input box and when the
  clear-and-resend has emptied the box and its replay throws
  (`agent-process.ts:1943-1961`); the row is marked delivered. The stuck-input
  recovery may submit the text later; if the session ends, or a janitor clears the
  box, it is lost and nobody is told. `NoSilentLoss` and `Handoff` name that outcome.
  The tick takes the oldest 25 local rows, those of sessions that are
  not ready and of the main agent included, so younger rows can starve
  (`message-router.ts:434`, `:444`). A row to a name that is no file name throws in
  the pre-pass and blocks local delivery (`:460`, `:505`). One tick without a
  session abandons a row older than the window, however briefly the session was
  away (`:212`, `:226`).
- Send lock. A delivery that failed open is unknown to the lane; a recovery may
  start in the middle of it (`session-send-lock.ts:98`, `:146`).
- Federation. A row that the switch has just failed is still sent when the switch
  goes on again during the POST before it (`message-router.ts:300`). A request
  being read while its peer is removed writes its entry after the purge
  (`routes/federation.ts:353`): `DeliveredIsThere` is checked with
  `QuietRemoval = TRUE`, removals while no request of the peer is being read. A
  sender with a new database that keeps its pairing has its first messages
  acknowledged and dropped, so the run has `ReAdd = TRUE`, pairing anew. Rows
  failed by the off switch or a removal send no notice. A sender whose answers
  were all lost is told of a failure although the message arrived.
- Channel coordinator. The seed of the offset makes Telegram forget the backlog
  of that moment; `NothingForgotten` names it (`skipped`). A drain marks its rows
  delivered before the main agent has the reply (`agents.ts:1835`, `db.ts:2825`), and
  the coordinator does not hand off again what is marked delivered: a lost reply, or
  a PUT with 'done', loses the updates; `EveryUpdateArrives` names them (`lost`). A PUT
  with 'done' of a row that has failed is not modelled.
- Process lock. Taking over is "not a double-acquire" (`index.ts:267`) unless a
  process look-up misses a living dashboard; `OneOwner` excepts that.
- Schedule runner. A row whose target is never free when the tick looks waits for
  ever, by design; `RowsDrain` is about targets that are free. All targets of a broadcast share one last run. A verdict that
  the prompt of one of them was lost deletes it (`schedule-runner.ts:1594`), and if
  the process ends before that target has run again, the window after the restart
  covers the occurrence once more and prompts the others a second time, which the
  last run is there to prevent (`:1460`, `:1707`). `NoDoubleFire` is about tasks with
  one target.
- Approvals. The message in band may fail as well and is then only logged
  (`approvals.ts:78-92`, `:133-146`): with Telegram off or failing, such a request is
  visible on the dashboard alone. `SomebodyKnows` names it (`unsaid`). A sweep that
  fails is only logged, and a request may be approved until the next has run.
- Ideas. Promoting twice before the first promotion has linked its card makes a
  second card. A PUT of an idea may point it, as promoted, at a card of another idea
  or at none (`ideas.ts:83-117`); deleting the card takes one of the two back, so
  `PromotedHasCard` excepts cards that an edit has claimed. A card that goes into
  the archive by age or by a PUT with `archived_at` leaves its idea promoted
  (`kanban.ts:358-401`, `db.ts:1943`, `:2240`); the property counts it as there.
- Cards. A stamp that throws after its message, like a crash there, lets the next
  move wake the assignee again (`routes/kanban.ts:136`).
- Background tasks. A handler reads the output file, then captures the pane for up
  to 5 s or kills the session, then writes the row (`background-tasks.ts:175-185`,
  `:194-204` and the cancel): a marker written in between is lost, as is one in a
  file that could not be read. `ResultKept` excepts these (`missed`); each restart of the dashboard gives a task a fresh half hour; a session
  that a failed tmux call made the dashboard lose sight of is not counted.
- Agents. A stop withdraws the wish before it ends the session and keeps it
  withdrawn when the kill fails (`agent-process.ts:1458`, `agents.ts:1811`): the agent
  runs on, unwanted, and the watchdog even restarts it when its plugin dies. A
  deletion does not look at the failure and removes the directory under the living
  session. A write of the wish that fails is only logged. `NoGhost` excepts the
  orders that failed so. A kill that reports a failure although it worked, and
  look-ups of a session that fail, are not told apart from a kill that failed. A
  failed write of the failures' file is swallowed (`channel-monitor.ts:126-132`), so
  that the count begins anew after the next restart of the dashboard: it is not
  modelled, nor is an alert that fails.
  Failures are kept by name and survive a deletion and the operator's
  restarts, so a later spell of the same name may get neither restart nor
  alert until the plugin is seen alive. The alert may come again in a spell
  when the absent cap was reached and its window of 15 minutes passes
  (`agent-restart-policy.ts:114` says exactly once). A start within two seconds of
  a deletion has its directory removed under it; `ServedOrReported` is about
  agents that exist. Telegram agents with a legacy token are targets that the sweep
  silently skips. A start of an existing agent without a session is assumed to
  succeed.
- Context guard. A dashboard restart while the new session is awaited means it
  never gets its resume prompt, and while the newest transcript is still the old
  one the guard can restart the fresh session (`context-guard-runner.ts:49` says
  the worst case is a repeated request). A sub-agent's restart that fails without
  throwing is reported and resumed as if it had happened: `HonestResume` excepts
  failed restarts and sessions started by others meanwhile (`spoilt`). The net reads
  the last lines of the screen, which a modal covers (`pane-state.ts:464`, `:1880`):
  with the net alone a full session behind one is not ended. The gate
  looks before it waits for the lane, so `/clear` may end a turn that began in
  between; a `/clear` that fails again and again is never reported. The gate's
  timer ends when the gate is switched off and returns only with the process, and
  agents created later have none: `NobodyStaysFull` is about gates that have one.

## 7. Plan

Done, in this order: the message path, because every other component uses it;
the lock under it and federation on top; the schedule, the coordinator, the
process lock, board and ideas, approvals, background tasks, one agent's life and
its watchdog, the context guard. Next:

1. Proofs: every safety property of a passing run has one. What can be stated
   beyond them are safety properties the runs do not check, such as a bound on
   the prompts of a broadcast that counts its lost verdicts.
2. The main session's down-cascade of the channel monitor, composed with the
   guard's restart through the respawn stamp.
3. The worker's job queue, automatic restarts and model fallback, the quota gate.
4. The watchers and the re-authentication healer over the send lock.

## 8. Not modelled

The map covers a small share of the repository's lines, and most of the rest has
no state machine to model: the browser's code and its translations, terminal
parsing (`pane-state.ts`: its verdicts are inputs here, because they depend on
the wording of a third-party program), clients of third-party services, the
provisioning of configuration files, scaffolding, encryption, metrics, and the
several hundred single-statement queries of `db.ts` behind read-only endpoints. Of
modelled components the launch command of an agent, media, alert texts and
remote agents over ssh are left out. `PROJECT.json` gives the reason for each
component.
