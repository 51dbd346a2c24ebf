------------------------- MODULE ChannelCoordinator -------------------------
(* The backfill poller of the Telegram channel: src/src/channel-coordinator.ts *)
(* with its tables in src/src/channel-coordinator/ingest.ts, a process of its  *)
(* own.  Telegram holds the updates until a poll confirms them; the native     *)
(* plugin of the main agent polls while it is up; the coordinator polls while  *)
(* it takes the plugin to be down, stores what it gets and hands it to the     *)
(* main agent through the table agent_messages: the router types nothing for   *)
(* the main agent, which pulls its rows with drain-inbox.                      *)
(*                                                                             *)
(* Telegram and the plugin are external: they are modelled from what the       *)
(* coordinator's code expects of them.  The coordinator is one thread, but a   *)
(* kill, the dashboard and the plugin act between any two of its database      *)
(* statements, so each statement is a step.                                    *)
EXTENDS Integers, Sequences, FiniteSets

CONSTANTS
  MaxUpdate,     \* updates are numbered 1..MaxUpdate
  DownDebounce,  \* DOWN_DEBOUNCE
  MaxEvents      \* bound on crashes, outages, wrong probes and failures
ASSUME CoordinatorAssumption == MaxUpdate \in Nat /\ DownDebounce \in Nat \ {0} /\ MaxEvents \in Nat

Updates == 1..MaxUpdate
Oldest(S) == CHOOSE u \in S : \A v \in S : u <= v

VARIABLES
  last,        \* external: the last update a user has sent
  confirmed,   \* external: Telegram has forgotten everything up to here
  native,      \* external: is the plugin polling?
  seen,        \* external: the updates the plugin has delivered
  up, at,      \* the coordinator's process, and where its loop is
  state, downStreak, cooldown,  \* state, downStreak, inNative409Cooldown
  batch, high, \* the updates of the last poll still to be processed, and maxUpdateId
  todo,        \* the updates reconcilePending has still to hand off
  offset,      \* table poll_offset
  stored,      \* table incoming_events: the updates that have a row
  link,        \* its column agent_message_id (0: NULL)
  msgs,        \* the coordinator's rows of agent_messages: [update, status]
  events,
  skipped,     \* history: updates a seeded offset has jumped over
  dropped,     \* history: updates whose insert failed
  cut,         \* history: handoffs a crash or an error left without their link
  read,        \* history: updates the main agent has got from a drain
  lost         \* history: updates whose row was closed and whose text nobody got

external == <<last, confirmed, native, seen>>
loop == <<up, at, state, downStreak, cooldown, batch, high, todo>>
tables == <<offset, stored, link, msgs>>
inbox == <<read, lost>>
history == <<skipped, dropped, cut, inbox>>
ccVars == <<external, loop, tables, events, history>>

Event == events < MaxEvents /\ events' = events + 1

CCInit ==
  /\ last = 0 /\ confirmed = 0 /\ native = TRUE /\ seen = {}
  /\ up = TRUE /\ at = "top" /\ state = "idle" /\ downStreak = 0 /\ cooldown = FALSE
  /\ batch = {} /\ high = 0 /\ todo = {}
  /\ offset = 0 /\ stored = {} /\ link = [u \in Updates |-> 0] /\ msgs = <<>>
  /\ events = 0 /\ skipped = {} /\ dropped = {} /\ cut = 0 /\ read = {} /\ lost = {}

-----------------------------------------------------------------------------
(* External: users, Telegram, the plugin *)
UserSends ==
  /\ last < MaxUpdate /\ last' = last + 1
  /\ UNCHANGED <<confirmed, native, seen, loop, tables, events, history>>

NativeFlips ==
  /\ Event /\ native' = ~native
  /\ UNCHANGED <<last, confirmed, seen, loop, tables, history>>

\* the plugin gets the oldest update it has not had; its next poll confirms it
NativeDelivers ==
  /\ native
  /\ LET waiting == (confirmed + 1)..last \ seen
     IN  waiting # {} /\ seen' = seen \cup {Oldest(waiting)}
  /\ UNCHANGED <<last, confirmed, native, loop, tables, events, history>>

NativeConfirms ==
  /\ native /\ confirmed + 1 \in seen /\ confirmed' = confirmed + 1
  /\ UNCHANGED <<last, native, seen, loop, tables, events, history>>

-----------------------------------------------------------------------------
(* The dashboard.  The drain of the main agent claims its oldest rows before   *)
(* it replies.  "delivered" is also the status 'done': the coordinator does    *)
(* not tell the two apart.                                                     *)
Waiting(n) == {i \in 1..n : msgs[i].status = "pending"}

\* claimPendingForAgent: the rows up to n, as many as the cap and other senders leave room for
Claim(n) ==
  /\ n \in Waiting(n)
  /\ msgs' = [i \in DOMAIN msgs |-> IF i \in Waiting(n) THEN [msgs[i] EXCEPT !.status = "delivered"] ELSE msgs[i]]
  /\ UNCHANGED <<external, loop, offset, stored, link, skipped, dropped, cut>>

Drain(n) ==
  /\ Claim(n)
  /\ read' = read \cup {msgs[i].update : i \in Waiting(n)}
  /\ UNCHANGED <<events, lost>>

\* the reply does not reach the hook: a dropped connection, a restart of the dashboard
DrainLost(n) ==
  /\ Claim(n) /\ Event
  /\ lost' = lost \cup {msgs[i].update : i \in Waiting(n)}
  /\ UNCHANGED read

\* PUT /api/messages/:id with 'done' for a row nobody has read, with 'failed' for any
PutDone(i) ==
  /\ msgs[i].status = "pending" /\ Event
  /\ msgs' = [msgs EXCEPT ![i].status = "delivered"] /\ lost' = lost \cup {msgs[i].update}
  /\ UNCHANGED <<external, loop, offset, stored, link, skipped, dropped, cut, read>>

PutFailed(i) ==
  /\ msgs[i].status # "failed" /\ Event
  /\ msgs' = [msgs EXCEPT ![i].status = "failed"]
  /\ UNCHANGED <<external, loop, offset, stored, link, history>>

-----------------------------------------------------------------------------
(* reconcilePending, at the top of every round *)
At(here) == up /\ at = here

\* Mutant: a message that waits for the drain counts as stranded.
NeedsHandoff_pendingToo == {u \in stored : link[u] = 0 \/ msgs[link[u]].status # "delivered"}

\* getEventsNeedingHandoff: no row of agent_messages is ever deleted, so a link always finds one
NeedsHandoff == {u \in stored : link[u] = 0 \/ msgs[link[u]].status = "failed"}

\* Mutant: the replay runs only while the coordinator backfills.
Reconcile_backfillOnly ==
  /\ At("top") /\ todo' = (IF state = "idle" THEN {} ELSE NeedsHandoff) /\ at' = "replay"
  /\ UNCHANGED <<external, up, state, downStreak, cooldown, batch, high, tables, events, history>>

Reconcile ==
  /\ At("top") /\ todo' = NeedsHandoff /\ at' = "replay"
  /\ UNCHANGED <<external, up, state, downStreak, cooldown, batch, high, tables, events, history>>

\* createHandoffMessage; markEventDelivered is the next statement
HandOff(u) ==
  /\ msgs' = Append(msgs, [update |-> u, status |-> "pending"])
  /\ UNCHANGED <<offset, stored, link>>

Mark(u) ==
  /\ link' = [link EXCEPT ![u] = Len(msgs)]
  /\ UNCHANGED <<offset, stored, msgs>>

ReplayHandsOff ==
  /\ At("replay") /\ todo # {} /\ at' = "replayMark" /\ HandOff(Oldest(todo))
  /\ UNCHANGED <<external, up, state, downStreak, cooldown, batch, high, todo, events, history>>

ReplayMarks ==
  /\ At("replayMark") /\ at' = "replay" /\ todo' = todo \ {Oldest(todo)} /\ Mark(Oldest(todo))
  /\ UNCHANGED <<external, up, state, downStreak, cooldown, batch, high, events, history>>

ReplayDone ==
  /\ At("replay") /\ todo = {} /\ at' = state
  /\ UNCHANGED <<external, up, state, downStreak, cooldown, batch, high, todo, tables, events, history>>

-----------------------------------------------------------------------------
(* runLoop, idle: the probe may be wrong *)
Probe(verdict) == IF verdict = ~native THEN UNCHANGED events ELSE Event

IdleTick(down) ==
  /\ At("idle") /\ Probe(down)
  /\ downStreak' = IF down /\ ~cooldown THEN (IF downStreak < DownDebounce THEN downStreak + 1 ELSE downStreak) ELSE 0
  /\ at' = IF downStreak' >= DownDebounce THEN "seed" ELSE "top"
  /\ UNCHANGED <<external, up, state, cooldown, batch, high, todo, tables, history>>

\* probeHighWater and setOffset; an empty queue leaves the offset alone
Seed ==
  /\ At("seed") /\ ~native
  /\ offset' = IF confirmed < last THEN last ELSE offset
  /\ skipped' = skipped \cup ((confirmed + 1)..last \ stored)
  /\ state' = "backfilling" /\ at' = "top"
  /\ UNCHANGED <<external, up, downStreak, cooldown, batch, high, todo, stored, link, msgs, events, dropped, cut, inbox>>

\* 409: the plugin is polling
SeedConflict ==
  /\ At("seed") /\ native
  /\ cooldown' = TRUE /\ downStreak' = 0 /\ at' = "top"
  /\ UNCHANGED <<external, up, state, batch, high, todo, tables, events, history>>

CooldownEnds ==
  /\ cooldown /\ cooldown' = FALSE
  /\ UNCHANGED <<external, up, at, state, downStreak, batch, high, todo, tables, events, history>>

(* backfilling: probe, long poll, probe again, process, advance the offset *)
Yield == state' = "idle" /\ downStreak' = 0 /\ at' = "top" /\ batch' = {}

ProbeBeforePoll(down) ==
  /\ At("backfilling") /\ Probe(down)
  /\ IF down THEN at' = "poll" /\ UNCHANGED <<state, downStreak, batch>> ELSE Yield
  /\ UNCHANGED <<external, up, cooldown, high, todo, tables, history>>

\* getUpdates(offset + 1) confirms everything up to the offset
Poll ==
  /\ At("poll") /\ ~native
  /\ confirmed' = IF confirmed < offset THEN offset ELSE confirmed
  /\ batch' = (confirmed' + 1)..last /\ high' = last
  /\ at' = IF batch' = {} THEN "top" ELSE "reply"
  /\ UNCHANGED <<last, native, seen, up, state, downStreak, cooldown, todo, tables, events, history>>

PollConflict ==
  /\ At("poll") /\ native /\ Yield /\ cooldown' = TRUE
  /\ UNCHANGED <<external, up, high, todo, tables, events, history>>

\* a rate limit, a network error: the offset and the state stay as they are
CallFails ==
  /\ At("poll") \/ At("seed")
  /\ Event /\ at' = "top"
  /\ UNCHANGED <<external, up, state, downStreak, cooldown, batch, high, todo, tables, history>>

ProbeBeforeHandOff(down) ==
  /\ At("reply") /\ Probe(down)
  /\ IF down THEN at' = "store" /\ UNCHANGED <<state, downStreak, batch>> ELSE Yield
  /\ UNCHANGED <<external, up, cooldown, high, todo, tables, history>>

(* processBatch, one update after the other *)
Current == Oldest(batch)

\* insertIncomingEvent: a row that is there already is not handed off again
Store ==
  /\ At("store") /\ batch # {}
  /\ stored' = stored \cup {Current}
  /\ IF Current \in stored THEN batch' = batch \ {Current} /\ at' = "store"
                           ELSE batch' = batch /\ at' = "handOff"
  /\ UNCHANGED <<external, up, state, downStreak, cooldown, high, todo, offset, link, msgs, events, history>>

StoreFails ==
  /\ At("store") /\ batch # {} /\ Current \notin stored /\ Event
  /\ batch' = batch \ {Current} /\ dropped' = dropped \cup {Current}
  /\ UNCHANGED <<external, up, at, state, downStreak, cooldown, high, todo, tables, skipped, cut, inbox>>

BatchHandsOff ==
  /\ At("handOff") /\ at' = "mark" /\ HandOff(Current)
  /\ UNCHANGED <<external, up, state, downStreak, cooldown, batch, high, todo, events, history>>

BatchMarks ==
  /\ At("mark") /\ at' = "store" /\ batch' = batch \ {Current} /\ Mark(Current)
  /\ UNCHANGED <<external, up, state, downStreak, cooldown, high, todo, events, history>>

\* Mutant: the failure ends the batch, not only the update.
HandOffFails_endsBatch ==
  /\ \/ At("handOff") /\ at' = "store" /\ batch' = {} /\ UNCHANGED todo
     \/ At("replay") /\ todo # {} /\ todo' = {} /\ UNCHANGED <<at, batch>>
  /\ Event
  /\ UNCHANGED <<external, up, state, downStreak, cooldown, high, tables, history>>

\* createHandoffMessage throws: the event stays for the replay
HandOffFails ==
  /\ \/ At("handOff") /\ at' = "store" /\ batch' = batch \ {Current} /\ UNCHANGED todo
     \/ At("replay") /\ todo # {} /\ todo' = todo \ {Oldest(todo)} /\ UNCHANGED <<at, batch>>
  /\ Event
  /\ UNCHANGED <<external, up, state, downStreak, cooldown, high, tables, history>>

\* only now does the offset move
Advance ==
  /\ At("store") /\ batch = {} /\ at' = "top" /\ offset' = high
  /\ UNCHANGED <<external, up, state, downStreak, cooldown, batch, high, todo, stored, link, msgs, events, history>>

\* markEventDelivered throws after the message was created
MarkFails ==
  /\ \/ At("mark") /\ at' = "store" /\ batch' = batch \ {Current} /\ UNCHANGED todo
     \/ At("replayMark") /\ at' = "replay" /\ todo' = todo \ {Oldest(todo)} /\ UNCHANGED batch
  /\ Event /\ cut' = cut + 1
  /\ UNCHANGED <<external, up, state, downStreak, cooldown, high, tables, skipped, dropped, inbox>>

(* The process is killed (or told to stop, which gives it 3 s) and started again *)
Crash ==
  /\ up /\ Event
  /\ up' = FALSE /\ at' = "top" /\ state' = "idle" /\ downStreak' = 0 /\ cooldown' = FALSE
  /\ batch' = {} /\ high' = 0 /\ todo' = {}
  /\ cut' = IF at \in {"mark", "replayMark"} THEN cut + 1 ELSE cut
  /\ UNCHANGED <<external, tables, skipped, dropped, inbox>>

Restart ==
  /\ ~up /\ up' = TRUE
  /\ UNCHANGED <<external, at, state, downStreak, cooldown, batch, high, todo, tables, events, history>>

-----------------------------------------------------------------------------
Round ==
  \/ Reconcile \/ ReplayHandsOff \/ ReplayMarks \/ ReplayDone
  \/ \E down \in BOOLEAN : IdleTick(down) \/ ProbeBeforePoll(down) \/ ProbeBeforeHandOff(down)
  \/ Seed \/ SeedConflict \/ Poll \/ PollConflict \/ Store \/ BatchHandsOff \/ BatchMarks \/ Advance

MainReads == \E n \in DOMAIN msgs : Drain(n)

Faults ==
  \/ StoreFails \/ HandOffFails \/ MarkFails \/ CallFails \/ Crash
  \/ \E i \in DOMAIN msgs : DrainLost(i) \/ PutDone(i) \/ PutFailed(i)

CCNext ==
  \/ UserSends \/ NativeFlips \/ NativeDelivers \/ NativeConfirms
  \/ Round \/ MainReads \/ CooldownEnds \/ Faults \/ Restart

CCSpec == CCInit /\ [][CCNext]_ccVars

\* the loop goes on, launchd restarts it, the plugin does its work, and the main agent has
\* turns, each of which drains its inbox
CCFairSpec ==
  /\ CCSpec /\ WF_ccVars(Round) /\ WF_ccVars(MainReads) /\ WF_ccVars(CooldownEnds) /\ WF_ccVars(Restart)
  /\ WF_ccVars(NativeDelivers)

-----------------------------------------------------------------------------
CCTypeOK ==
  /\ last \in 0..MaxUpdate /\ confirmed \in 0..last /\ native \in BOOLEAN /\ seen \subseteq 1..last
  /\ up \in BOOLEAN /\ state \in {"idle", "backfilling"} /\ downStreak \in 0..DownDebounce /\ cooldown \in BOOLEAN
  /\ at \in {"top", "replay", "replayMark", "idle", "seed", "backfilling", "poll", "reply", "store", "handOff", "mark"}
  /\ batch \subseteq 1..last /\ high \in 0..last /\ todo \subseteq stored
  /\ offset \in 0..last /\ stored \subseteq 1..last /\ link \in [Updates -> 0..Len(msgs)]
  /\ msgs \in Seq([update : stored, status : {"pending", "delivered", "failed"}])
  /\ events \in 0..MaxEvents /\ skipped \subseteq 1..last /\ dropped \subseteq 1..last /\ cut \in Nat
  /\ read \subseteq stored /\ lost \subseteq stored

\* Telegram forgets an update only when the plugin has delivered it or a row of
\* incoming_events keeps it - apart from those a seeded offset jumped over and
\* those whose insert failed.  The order "store, then offset, then next poll"
\* has to hold across every crash, outage and discarded batch.
NothingForgotten == \A u \in 1..confirmed : u \in seen \cup stored \cup skipped \cup dropped

\* A stored update is on its way to the main agent at most once at a time: a second
\* message for it exists only when the first failed, or when a crash or an
\* error fell between the message and its link.
HandedOffOnce ==
  \A u \in stored : Cardinality({i \in DOMAIN msgs : msgs[i].update = u /\ msgs[i].status # "failed"}) <= 1 + cut

Arrived(u) == u \in seen \cup read

\* The main agent gets the text of every update by one way or the other, whether the
\* plugin stays up or stays down, unless it was skipped or dropped, or its row was
\* claimed by a drain whose reply was lost, or closed unread.
EveryUpdateArrives == \A u \in Updates : u <= last ~> (Arrived(u) \/ u \in skipped \cup dropped \cup lost)
=============================================================================
