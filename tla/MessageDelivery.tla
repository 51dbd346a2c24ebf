-------------------------- MODULE MessageDelivery --------------------------
(***************************************************************************)
(* Inter-agent message delivery of one Marveen installation: the           *)
(* agent_messages table (src/db.ts), the message router that types pending *)
(* rows into the sub-agents' tmux panes (src/web/message-router.ts), the   *)
(* drain-inbox endpoint through which the main agent pulls its own rows    *)
(* (src/web/routes/agents.ts) and the POST and PUT handlers of             *)
(* /api/messages (src/web/routes/messages.ts).                             *)
(*                                                                         *)
(* Node runs one handler at a time and switches at an await, so an action  *)
(* is the code between two awaits.  A restart of the process may cut any   *)
(* handler between two SQL statements.  Time is counted in units in which  *)
(* the router's age windows are small numbers.                             *)
(***************************************************************************)
EXTENDS Integers, Sequences, FiniteSets

CONSTANTS
    Sub,                  \* sub-agents: each has a tmux session agent-<name>
    Main,                 \* MAIN_AGENT_ID: drains its own inbox
    Outsider,             \* other names: no agent, never a session (the owner, a typo)
    Unframable,           \* the owner, where his name sanitizes to nothing
    Poison,               \* names whose agentDir() lookup throws: ".."
    System,               \* the sender id of the notices the code writes
    Poster, Addressee,    \* the names POSTs are sent from and to
    MAX_MESSAGES_PER_TICK,
    MAX_INJECT_FAILURES,
    INBOX_DRAIN_CAP,
    RECONNECT_BATCH_THRESHOLD,
    BATCH_AGE,            \* RECONNECT_BATCH_AGE_MS in time units
    ABANDON_WINDOW,       \* MESSAGE_ABANDON_WINDOW_MS
    STUCK_ESCALATE,       \* STUCK_ESCALATE_MS
    BUSY_STUCK_ESCALATE,  \* BUSY_STUCK_ESCALATE_MS
    MaxPosts, MaxPuts, MaxFlips, MaxCrashes, MaxFaults, MaxClock  \* bounds

Agent == Sub \cup {Main}
Name  == Agent \cup {System} \cup Outsider \cup Unframable \cup Poison

ASSUME RouterAssumption ==
    /\ Main \notin Sub /\ System \notin Agent
    /\ (Outsider \cup Unframable \cup Poison) \cap (Agent \cup {System}) = {}
    /\ Poison \cap (Outsider \cup Unframable) = {}
    \* POST checks its sender (an agent or the owner), not its recipient.
    /\ Poster \subseteq Agent \cup Outsider \cup Unframable
    /\ Addressee \subseteq Name
    /\ {MAX_MESSAGES_PER_TICK, MAX_INJECT_FAILURES, INBOX_DRAIN_CAP} \subseteq Nat \ {0}
    /\ {RECONNECT_BATCH_THRESHOLD, BATCH_AGE, ABANDON_WINDOW} \subseteq Nat
    /\ {STUCK_ESCALATE, BUSY_STUCK_ESCALATE} \subseteq Nat
    /\ {MaxPosts, MaxPuts, MaxFlips, MaxCrashes, MaxFaults, MaxClock} \subseteq Nat

Status == {"pending", "delivered", "done", "failed"}
Kind   == {"work", "report", "handoff-failure", "summary", "session-stuck"}
Result == {"none", "put", "abandoned", "inject-failed", "unframable", "errored", "batched"}
Box    == {"none", "holds", "lost"}
Never  == -1              \* agentStuckSince has no entry

VARIABLES
    msgs,        \* agent_messages; the row's id is its position
    clock,       \* wall clock
    present,     \* sub-agents whose tmux session runs
    turn,        \* the main agent has started a turn whose hook will drain
    \* --- memory of the router, lost on restart ---
    pc,          \* where runMessageRouterTick stands
    work,        \* rows of the tick's snapshot not yet processed
    seen,        \* agentSessionCache: receivers found present in the pre-pass
    toBatch,     \* reconnected receivers whose backlog is to be summarized
    batched,     \* batchedMsgIdsThisTick
    wasAbsent,   \* agentWasAbsent
    stuckSince,  \* agentStuckSince
    cooled,      \* the main-agent wakeup cooldown is over
    \* --- how often each bounded event has happened ---
    spent

rows   == <<msgs, clock, present, turn>>
memory == <<pc, work, seen, toBatch, batched, wasAbsent, stuckSince, cooled>>
vars   == <<rows, memory, spent>>

(***************************************************************************)
(* A row: the columns of agent_messages (result is the reason the code     *)
(* writes there, about what a notice, report or summary speaks of), the    *)
(* router's routerInjectFailures entry (memory, read only while the row is *)
(* being tried), where a text that was typed and not submitted is: still   *)
(* in the input box ("holds") or wiped from it ("lost"), and two history   *)
(* counters: shown, how often the text reached the recipient, and cut, how *)
(* often a fault separated two effects on the row that belong together.    *)
(***************************************************************************)
Row == [to : Name, from : Name, kind : Kind, about : SUBSET (Nat \cup Sub),
        created : Nat, status : Status, result : Result,
        inject : Nat, box : Box, shown : Nat, cut : Nat]

Ids          == DOMAIN msgs
Pending(a)   == {m \in Ids : msgs[m].status = "pending" /\ msgs[m].to = a}
LocalPending == {m \in Ids : msgs[m].status = "pending"}
Oldest(S, n) == {m \in S : Cardinality({k \in S : k < m}) < n}
First(S)     == CHOOSE m \in S : \A k \in S : m <= k
Age(m)       == clock - msgs[m].created

\* classifyAgentMessage: a name that sanitizes to nothing (".." does) cannot be framed.
Framable(m)  == msgs[m].from \notin Unframable \cup Poison

createAgentMessage(from, to, kind, about) ==
    [to |-> to, from |-> from, kind |-> kind, about |-> about, created |-> clock,
     status |-> "pending", result |-> "none", inject |-> 0, box |-> "none",
     shown |-> 0, cut |-> 0]

\* The rows after the status of every row of S has been set.
Closed(S, status, result) ==
    [m \in Ids |-> IF m \in S THEN [msgs[m] EXCEPT !.status = status, !.result = result]
                              ELSE msgs[m]]
\* The row whose text has landed, or was left in the box, but which is not yet marked.
InFlight == {m \in work : pc = "sent" /\ m = First(work)}

\* The rows after the process has died; the rows of S had just been closed and still
\* lacked the notice, summary or report that goes with it.
Crashed(S, status, result) ==
    [m \in Ids |-> [msgs[m] EXCEPT
        !.status = IF m \in S THEN status ELSE @,
        !.result = IF m \in S THEN result ELSE @,
        !.cut    = IF m \in S \cup InFlight THEN @ + 1 ELSE @,
        !.inject = 0]]

\* Mutant: a failed handoff is only logged.
notifyOrchestratorOfFailedHandoff_logOnly(rs, m) == rs

\* notifyOrchestratorOfFailedHandoff returns early for a row addressed to the main agent.
notifyOrchestratorOfFailedHandoff(rs, m) ==
    IF msgs[m].to = Main THEN rs
    ELSE Append(rs, createAgentMessage(System, Main, "handoff-failure", {m}))

Init ==
    /\ msgs = <<>> /\ clock = 0 /\ present \in SUBSET Sub /\ turn = FALSE
    /\ pc = "idle" /\ work = {} /\ seen = {} /\ toBatch = {} /\ batched = {}
    /\ wasAbsent = {} /\ stuckSince = [a \in Sub |-> Never] /\ cooled = TRUE
    /\ spent = [posts |-> 0, puts |-> 0, flips |-> 0, crashes |-> 0, faults |-> 0]

Spend(what, max) == /\ spent[what] < max
                    /\ spent' = [spent EXCEPT ![what] = @ + 1]

\* The process restarts: the table and the sessions survive, the router's memory does not.
MemoryLost ==
    /\ pc' = "idle" /\ work' = {} /\ seen' = {} /\ toBatch' = {} /\ batched' = {}
    /\ wasAbsent' = {} /\ stuckSince' = [a \in Sub |-> Never] /\ cooled' = TRUE
    /\ Spend("crashes", MaxCrashes)
    /\ UNCHANGED <<clock, present, turn>>

\* HTTP handlers run only while the router awaits; the pre-pass never does.
Yielding == pc # "prepass"
----------------------------------------------------------------------------
(***************************************************************************)
(* HTTP handlers and the world around the router.                          *)
(***************************************************************************)
\* POST /api/messages
Post(from, to) ==
    /\ Yielding
    /\ Spend("posts", MaxPosts)
    /\ msgs' = Append(msgs, createAgentMessage(from, to, "work", {}))
    /\ UNCHANGED <<clock, present, turn, memory>>

\* Mutant: the delegator is looked up among the sub-agents only.
shouldNotifyDelegator_registry(m) ==
    msgs[m].from # msgs[m].to /\ msgs[m].from \in Sub /\ msgs[m].kind # "report"

shouldNotifyDelegator(m) ==
    /\ msgs[m].from # msgs[m].to
    /\ msgs[m].from \in Agent
    /\ msgs[m].kind # "report"

\* PUT /api/messages/:id -- markMessageDone and markMessageFailed have no status guard.
Put(m, status) ==
    /\ Yielding
    /\ Spend("puts", MaxPuts)
    /\ LET closed == Closed({m}, status, "put")
       IN  msgs' = IF shouldNotifyDelegator(m)
                   THEN Append(closed, createAgentMessage(msgs[m].to, msgs[m].from, "report", {m}))
                   ELSE closed
    /\ UNCHANGED <<clock, present, turn, memory>>

\* The process dies between the PUT's two statements: no report to the delegator.
PutThenCrash(m, status) ==
    /\ Yielding
    /\ shouldNotifyDelegator(m)
    /\ msgs' = Crashed({m}, status, "put")
    /\ MemoryLost

\* What the drain makes of a row it has claimed: an unframable one is failed, the others
\* go out with the reply, which may be lost.
Handed(m, replyArrives) ==
    IF ~Framable(m) THEN [msgs[m] EXCEPT !.status = "failed", !.result = "unframable"]
    ELSE IF replyArrives THEN [msgs[m] EXCEPT !.status = "delivered", !.shown = @ + 1]
    ELSE [msgs[m] EXCEPT !.status = "delivered", !.cut = @ + 1]

\* POST /api/agents/<main>/drain-inbox: claimPendingForAgent is one UPDATE.
Drain(replyArrives) ==
    LET claimed == Oldest(Pending(Main), INBOX_DRAIN_CAP)
    IN  /\ Yielding
        /\ turn
        /\ turn' = FALSE
        /\ msgs' = [m \in Ids |-> IF m \in claimed THEN Handed(m, replyArrives) ELSE msgs[m]]
        /\ IF replyArrives THEN UNCHANGED spent ELSE Spend("faults", MaxFaults)
        /\ UNCHANGED <<clock, present, memory>>

\* A user message or a heartbeat starts a turn of the main agent.
MainTurn ==
    /\ ~turn
    /\ turn' = TRUE
    /\ UNCHANGED <<msgs, clock, present, memory, spent>>

\* A tmux session starts, or goes away with what its input box holds.
SessionFlips(a) ==
    /\ Spend("flips", MaxFlips)
    /\ present' = IF a \in present THEN present \ {a} ELSE present \cup {a}
    /\ msgs' = [m \in Ids |-> IF msgs[m].to = a /\ msgs[m].box = "holds"
                               THEN [msgs[m] EXCEPT !.box = "lost"] ELSE msgs[m]]
    /\ UNCHANGED <<clock, turn, memory>>

\* A text left in the input box: the stuck-input recovery, or the Enter of the next
\* prompt, submits it after all.
Submits(m) ==
    /\ msgs[m].box = "holds"
    /\ msgs' = [msgs EXCEPT ![m].box = "none", ![m].shown = @ + 1]
    /\ UNCHANGED <<clock, present, turn, memory, spent>>

\* The router's janitor, or whoever clears the box next, wipes it.
clearStaleParkedInput(m) ==
    /\ msgs[m].box = "holds"
    /\ msgs' = [msgs EXCEPT ![m].box = "lost"]
    /\ UNCHANGED <<clock, present, turn, memory, spent>>

\* A tick is short against a unit of time, so the clock moves between two ticks.
TimePasses ==
    /\ pc = "idle"
    /\ clock < MaxClock
    /\ clock' = clock + 1
    /\ UNCHANGED <<msgs, present, turn, memory, spent>>

\* The router compares the cooldown with the tick's start, so a new window is
\* noticed between two ticks only.
CooldownElapses ==
    /\ pc = "idle" /\ ~cooled
    /\ cooled' = TRUE
    /\ UNCHANGED <<rows, pc, work, seen, toBatch, batched, wasAbsent, stuckSince, spent>>
----------------------------------------------------------------------------
(***************************************************************************)
(* runMessageRouterTick.                                                   *)
(***************************************************************************)
Snapshot  == Oldest(LocalPending, MAX_MESSAGES_PER_TICK)
Receivers == {msgs[m].to : m \in Snapshot} \ {Main}

\* The rows batchDeliverBacklog closes for a.
OldRows(a) == {m \in Pending(a) : Age(m) > BATCH_AGE}

NeedsBatch(a) ==
    /\ a \in wasAbsent
    /\ Cardinality(Pending(a)) > RECONNECT_BATCH_THRESHOLD
    /\ OldRows(a) # {}

\* Snapshot and pre-pass.  A receiver whose directory lookup throws aborts the whole
\* tick before anything is written: with one in the snapshot no tick takes effect.
\* Receivers that are no agent (the owner, "system") never have a session.
BeginTick ==
    LET here == Receivers \cap present
        gone == Receivers \ present
    IN  /\ pc = "idle"
        /\ Receivers \cap Poison = {}
        /\ work' = Snapshot
        /\ seen' = here
        /\ toBatch' = {a \in here : NeedsBatch(a)}
        /\ batched' = {}
        /\ wasAbsent' = (wasAbsent \cup gone) \ here
        /\ stuckSince' = [a \in Sub |-> IF a \in gone THEN Never ELSE stuckSince[a]]
        /\ pc' = IF toBatch' = {} THEN "loop" ELSE "prepass"
        /\ UNCHANGED <<rows, cooled, spent>>

\* Mutant: the batched rows stay in the tick's work list.
batchDeliverBacklog_unskipped(a) ==
    /\ pc = "prepass" /\ a \in toBatch
    /\ msgs' = Append(Closed(OldRows(a), "done", "batched"),
                      createAgentMessage(System, a, "summary", OldRows(a)))
    /\ toBatch' = toBatch \ {a}
    /\ pc' = IF toBatch' = {} THEN "loop" ELSE "prepass"
    /\ UNCHANGED <<clock, present, turn, work, seen, batched, wasAbsent, stuckSince, cooled, spent>>

\* Mutant: the old rows are closed, no summary is written.
batchDeliverBacklog_noSummary(a) ==
    /\ pc = "prepass" /\ a \in toBatch
    /\ msgs' = Closed(OldRows(a), "done", "batched")
    /\ batched' = batched \cup OldRows(a)
    /\ toBatch' = toBatch \ {a}
    /\ pc' = IF toBatch' = {} THEN "loop" ELSE "prepass"
    /\ UNCHANGED <<clock, present, turn, work, seen, wasAbsent, stuckSince, cooled, spent>>

\* batchDeliverBacklog: close the old rows, create the summary.
batchDeliverBacklog(a) ==
    /\ pc = "prepass" /\ a \in toBatch
    /\ msgs' = Append(Closed(OldRows(a), "done", "batched"),
                      createAgentMessage(System, a, "summary", OldRows(a)))
    /\ batched' = batched \cup OldRows(a)
    /\ toBatch' = toBatch \ {a}
    /\ pc' = IF toBatch' = {} THEN "loop" ELSE "prepass"
    /\ UNCHANGED <<clock, present, turn, work, seen, wasAbsent, stuckSince, cooled, spent>>

\* m is the row the loop has reached.
At(label, m) == pc = label /\ work # {} /\ m = First(work)
Continue(m)  == pc' = "loop" /\ work' = work \ {m}
Loop         == <<seen, toBatch, batched, wasAbsent>>

SkipBatched(m) ==
    /\ At("loop", m) /\ m \in batched
    /\ Continue(m)
    /\ UNCHANGED <<rows, Loop, stuckSince, cooled, spent>>

\* A row for the main agent stays pending; at most one wakeup prompt per cooldown.
SkipMain(m) ==
    /\ At("loop", m) /\ msgs[m].to = Main /\ ~cooled
    /\ Continue(m)
    /\ UNCHANGED <<rows, Loop, stuckSince, cooled, spent>>

Wakeup(m, lands) ==
    /\ At("loop", m) /\ msgs[m].to = Main /\ cooled
    /\ cooled' = FALSE
    /\ turn' = (turn \/ lands)
    /\ Continue(m)
    /\ IF lands THEN UNCHANGED spent ELSE Spend("faults", MaxFaults)
    /\ UNCHANGED <<msgs, clock, present, Loop, stuckSince>>

Forwardable(m) == At("loop", m) /\ m \notin batched /\ msgs[m].to # Main

\* Mutant: only rows of known sub-agents expire.
shouldAbandon_knownOnly(m) ==
    msgs[m].to \in Sub \ seen /\ Age(m) > ABANDON_WINDOW

shouldAbandon(m) == msgs[m].to \notin seen /\ Age(m) > ABANDON_WINDOW

Abandon(m) ==
    /\ Forwardable(m) /\ shouldAbandon(m)
    /\ msgs' = notifyOrchestratorOfFailedHandoff(Closed({m}, "failed", "abandoned"), m)
    /\ Continue(m)
    /\ UNCHANGED <<clock, present, turn, Loop, stuckSince, cooled, spent>>

SkipAbsent(m) ==
    /\ Forwardable(m) /\ msgs[m].to \notin seen /\ ~shouldAbandon(m)
    /\ Continue(m)
    /\ UNCHANGED <<rows, Loop, stuckSince, cooled, spent>>

\* The target is present.  The code awaits isSessionReadyForPrompt here; nothing that it
\* reads before the next await is written by another handler.
Ask(m) == Forwardable(m) /\ msgs[m].to \in seen

shouldEscalateStuckSession(busy, stuck) ==
    stuck > IF busy THEN BUSY_STUCK_ESCALATE ELSE STUCK_ESCALATE

\* isSessionReadyForPrompt is false: start the stuck timer, or alert the main agent.
NotReady(m, busy) ==
    LET a     == msgs[m].to
        stuck == clock - stuckSince[a]
        alert == /\ stuckSince[a] # Never
                 /\ stuck > STUCK_ESCALATE
                 /\ shouldEscalateStuckSession(busy, stuck)
    IN  /\ Ask(m)
        /\ stuckSince' = IF stuckSince[a] = Never \/ alert
                         THEN [stuckSince EXCEPT ![a] = clock] ELSE stuckSince
        /\ msgs' = IF alert THEN Append(msgs, createAgentMessage(System, Main, "session-stuck", {a}))
                            ELSE msgs
        /\ Continue(m)
        /\ UNCHANGED <<clock, present, turn, Loop, cooled, spent>>

\* The session is ready, but the sender cannot be framed: failed, with no notice.
Reject(m) ==
    /\ Ask(m) /\ ~Framable(m)
    /\ stuckSince' = [stuckSince EXCEPT ![msgs[m].to] = Never]
    /\ msgs' = Closed({m}, "failed", "unframable")
    /\ Continue(m)
    /\ UNCHANGED <<clock, present, turn, Loop, cooled, spent>>

\* A helper throws before the send (an SQL error, say): failed, with no notice.
ProcessingThrows(m) ==
    /\ Ask(m)
    /\ Spend("faults", MaxFaults)
    /\ msgs' = Closed({m}, "failed", "errored")
    /\ Continue(m)
    /\ UNCHANGED <<clock, present, turn, Loop, stuckSince, cooled>>

BeginSend(m) ==
    /\ Ask(m) /\ Framable(m)
    /\ stuckSince' = [stuckSince EXCEPT ![msgs[m].to] = Never]
    /\ pc' = "send"
    /\ UNCHANGED <<rows, work, Loop, cooled, spent>>

\* sendPromptToSession types and submits the text; it returns later, after its
\* submit-retry loop.
Land(m) ==
    /\ At("send", m)
    /\ msgs' = [msgs EXCEPT ![m].shown = @ + 1]
    /\ pc' = "sent"
    /\ UNCHANGED <<clock, present, turn, work, Loop, stuckSince, cooled, spent>>

\* The text is typed and not submitted.  Either the loop gives up with the text in the
\* box, or a clear-and-resend has emptied the box and its replay throws.  Both return
\* 'sent' to the router.
Parks(m, where) ==
    /\ At("send", m)
    /\ Spend("faults", MaxFaults)
    /\ msgs' = [msgs EXCEPT ![m].box = where]
    /\ pc' = "sent"
    /\ UNCHANGED <<clock, present, turn, work, Loop, stuckSince, cooled>>

\* Mutant: the row is not marked.
markMessageDelivered_forgotten(m) ==
    /\ At("sent", m)
    /\ msgs' = [msgs EXCEPT ![m].inject = 0]
    /\ Continue(m)
    /\ UNCHANGED <<clock, present, turn, Loop, stuckSince, cooled, spent>>

\* It returned: markMessageDelivered is guarded by status = 'pending'.
markMessageDelivered(m) ==
    /\ At("sent", m)
    /\ msgs' = [msgs EXCEPT ![m].inject = 0,
                            ![m].status = IF @ = "pending" THEN "delivered" ELSE @]
    /\ Continue(m)
    /\ UNCHANGED <<clock, present, turn, Loop, stuckSince, cooled, spent>>

\* It threw, before the text was typed (pc = "send") or after (pc = "sent": a tmux call
\* timed out, with the text submitted or left in the box).  The row is tried again, up
\* to MAX_INJECT_FAILURES throws.
Retried(m) == [msgs EXCEPT ![m].inject = @ + 1,
                           ![m].cut = IF pc = "sent" THEN @ + 1 ELSE @]

\* Mutant: giving up notifies, but leaves the row as it is.
GivenUp_unmarked(m) == [Retried(m) EXCEPT ![m].inject = 0]

\* markMessageFailed has no status guard.
GivenUp(m) == [Retried(m) EXCEPT ![m].inject = 0, ![m].status = "failed",
                                 ![m].result = "inject-failed"]

shouldGiveUpOnInject(m) == msgs[m].inject + 1 >= MAX_INJECT_FAILURES

InjectThrows(m) ==
    /\ At("send", m) \/ At("sent", m)
    /\ Spend("faults", MaxFaults)
    /\ msgs' = IF shouldGiveUpOnInject(m)
               THEN notifyOrchestratorOfFailedHandoff(GivenUp(m), m) ELSE Retried(m)
    /\ Continue(m)
    /\ UNCHANGED <<clock, present, turn, Loop, stuckSince, cooled>>

EndTick ==
    /\ pc = "loop" /\ work = {}
    /\ pc' = "idle"
    /\ seen' = {} /\ batched' = {}
    /\ UNCHANGED <<rows, work, toBatch, wasAbsent, stuckSince, cooled, spent>>
----------------------------------------------------------------------------
(***************************************************************************)
(* A restart of the process, between two handlers or inside one.           *)
(***************************************************************************)
Crash ==
    /\ msgs' = Crashed({}, "pending", "none")
    /\ MemoryLost

\* The process dies between closing a row and creating the notice about it.
CrashInAbandon(m) ==
    /\ Forwardable(m) /\ shouldAbandon(m)
    /\ msgs' = Crashed({m}, "failed", "abandoned")
    /\ MemoryLost

CrashInGiveUp(m) ==
    /\ At("send", m) \/ At("sent", m)
    /\ shouldGiveUpOnInject(m)
    /\ msgs' = Crashed({m}, "failed", "inject-failed")
    /\ MemoryLost

\* The process dies before the summary exists, with some of its rows already done.
CrashInBatch(a, S) ==
    /\ pc = "prepass" /\ a \in toBatch /\ S # {}
    /\ msgs' = Crashed(S, "done", "batched")
    /\ MemoryLost
----------------------------------------------------------------------------
Handlers == \/ \E from \in Poster, to \in Addressee : Post(from, to)
            \/ \E m \in Ids, status \in {"done", "failed"} : Put(m, status)
            \/ \E replyArrives \in BOOLEAN : Drain(replyArrives)

World == \/ MainTurn \/ (\E a \in Sub : SessionFlips(a)) \/ TimePasses \/ CooldownElapses
         \/ (\E m \in Ids : Submits(m) \/ clearStaleParkedInput(m))

RouterStep(m) ==
    \/ SkipBatched(m) \/ SkipMain(m) \/ (\E lands \in BOOLEAN : Wakeup(m, lands))
    \/ Abandon(m) \/ SkipAbsent(m)
    \/ (\E busy \in BOOLEAN : NotReady(m, busy)) \/ Reject(m) \/ ProcessingThrows(m)
    \/ BeginSend(m) \/ Land(m) \/ (\E where \in {"holds", "lost"} : Parks(m, where))
    \/ markMessageDelivered(m) \/ InjectThrows(m)

Router == \/ BeginTick \/ EndTick
          \/ \E a \in Sub : batchDeliverBacklog(a)
          \/ \E m \in work : RouterStep(m)

Restart == \/ Crash
           \/ \E m \in Ids, status \in {"done", "failed"} : PutThenCrash(m, status)
           \/ \E m \in work : CrashInAbandon(m) \/ CrashInGiveUp(m)
           \/ \E a \in Sub : \E S \in SUBSET OldRows(a) : CrashInBatch(a, S)

Next == Handlers \/ World \/ Router \/ Restart

Spec == Init /\ [][Next]_vars
----------------------------------------------------------------------------
(***************************************************************************)
(* Properties.                                                             *)
(***************************************************************************)
TypeOK ==
    /\ msgs \in Seq(Row)
    /\ clock \in Nat
    /\ present \subseteq Sub /\ seen \subseteq Sub /\ toBatch \subseteq Sub
    /\ wasAbsent \subseteq Name
    /\ turn \in BOOLEAN /\ cooled \in BOOLEAN
    /\ pc \in {"idle", "prepass", "loop", "send", "sent"}
    /\ work \subseteq Ids /\ batched \subseteq Ids
    /\ stuckSince \in [Sub -> Nat \cup {Never}]
    /\ spent \in [{"posts", "puts", "flips", "crashes", "faults"} -> Nat]

\* Row n accounts for row m: it is the handoff-failure notice or the summary about m.
Accounts(n, m) == /\ msgs[n].kind \in {"handoff-failure", "summary"}
                  /\ m \in msgs[n].about

\* How often the text of m has reached its recipient, or may yet from the input box.
Copies(m) == msgs[m].shown + IF msgs[m].box = "holds" THEN 1 ELSE 0

\* No message vanishes: a row that left the queue without its text ever reaching the
\* recipient was closed by a PUT, has a sender nobody can frame, made a helper throw, was
\* hit by a restart between two statements, or is accounted for by a notice or a summary
\* row -- which is itself a message this invariant speaks about.  (message-router.ts:50-58,
\* "a handoff failure is never silent".)  The exception the code makes: a send that
\* returned 'sent' with the text left in the input box, or wiped from it, is marked
\* delivered like any other (agent-process.ts:1943-1961).
NoSilentLoss ==
    \A m \in Ids : msgs[m].status # "pending" /\ msgs[m].shown = 0 /\ msgs[m].cut = 0 =>
        \/ msgs[m].result \in {"put", "unframable", "errored"}
        \/ msgs[m].box # "none"
        \/ \E n \in Ids : Accounts(n, m)

\* A row reaches its recipient once, and once more for every fault that came between
\* the text being typed and the row being marked delivered: snapshots, retries, drains
\* and restarts alone never deliver twice.  A text still in the input box counts: it may
\* be submitted at any moment.
NoDuplicateDelivery == \A m \in Ids : Copies(m) <= 1 + msgs[m].cut

\* At most one row accounts for another: a give-up, an abandonment and a summary of the
\* same row exclude each other, whatever PUTs and restarts come between.
AccountedOnce ==
    \A m, n, k \in Ids : Accounts(n, m) /\ Accounts(k, m) => n = k

\* The main agent is told of a failed handoff only if no attempt reached the recipient
\* or still can from the input box, or such an attempt was cut by a fault before the
\* router could note it.
NoFalseAlarm ==
    \A m, n \in Ids : Accounts(n, m) => Copies(m) <= msgs[m].cut

\* A delegator -- the main agent included -- hears of every completion: an agent's row
\* to somebody else that a PUT closed has its report, unless the process died between
\* the two statements.  (routes/messages.ts:30-36.)
ReportFollows ==
    \A m \in Ids :
        /\ msgs[m].result = "put" /\ msgs[m].cut = 0 /\ msgs[m].kind # "report"
        /\ msgs[m].from \in Agent \ {msgs[m].to}
        => \E n \in Ids : /\ msgs[n].kind = "report" /\ msgs[n].to = msgs[m].from
                          /\ m \in msgs[n].about

\* A closed row is never pending again, whoever writes it next (no claim, mark or
\* restart revives it), and the table only grows.
NeverReopened ==
    [][\A m \in Ids : /\ m \in DOMAIN msgs'
                      /\ msgs[m].status # "pending" => msgs'[m].status # "pending"]_vars

\* The outcome of a row, for the abstract specification.  "lost" is no outcome there.
outcome(m) ==
    CASE msgs[m].shown > 0                       -> "shown"
      [] msgs[m].shown = 0 /\ \E n \in Ids : Accounts(n, m) -> "accounted"
      [] OTHER ->
         IF msgs[m].status = "pending" THEN "open"
         ELSE IF msgs[m].box # "none" THEN "parked"
         ELSE IF msgs[m].cut > 0 THEN "cut"
         ELSE IF msgs[m].result \in {"put", "unframable", "errored"} THEN "withdrawn"
         ELSE "lost"

Promise == INSTANCE Handoff WITH ledger <- [m \in Ids |-> outcome(m)]

\* The router, the drain endpoint and the PUT handler together keep the promise of
\* Handoff: outcomes are final, and nothing is accounted for without a new message.
KeepsPromise == Promise!Spec
----------------------------------------------------------------------------
(***************************************************************************)
(* Progress.  The interval timer restarts the tick, every await returns    *)
(* (tmux, ssh and speech-to-text calls carry timeouts), time passes, and a *)
(* turn of the main agent runs its drain hook.  A session of responsive,   *)
(* while it exists, is found ready again and again.                        *)
(***************************************************************************)
Answers(a) == \E m \in work : msgs[m].to = a /\ (BeginSend(m) \/ Reject(m))

Fairness(responsive) ==
    /\ WF_vars(Router)
    /\ \A a \in responsive : SF_vars(Answers(a))
    /\ SF_vars(CooldownElapses) /\ SF_vars(TimePasses)
    /\ SF_vars(Drain(TRUE))

Queued(m) == m \in Ids /\ msgs[m].status = "pending"

\* A row leaves the queue if its recipient is one of names: the main agent, a responsive
\* session, a name without a session.  (A row too young to expire by MaxClock may stay.)
Settles(m, names) ==
    (Queued(m) /\ msgs[m].to \in names /\ msgs[m].created + ABANDON_WINDOW < MaxClock)
    ~> ~Queued(m)
============================================================================
