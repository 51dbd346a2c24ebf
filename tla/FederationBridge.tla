-------------------------- MODULE FederationBridge --------------------------
(***************************************************************************)
(* The outbound half of federation: the router's batch over the pending    *)
(* rows addressed to agents of other systems (deliverFederatedBatch in     *)
(* src/web/message-router.ts), the HTTPS POST with its per-peer backoff    *)
(* (src/web/federation/bridge.ts), and the operator's configuration        *)
(* handlers, which close rows while a POST is under way                    *)
(* (src/web/routes/federation.ts).                                         *)
(*                                                                         *)
(* The batch is a snapshot; the dashboard's handlers run while one of its  *)
(* POSTs is awaited, and a restart may cut it anywhere.  What the peer     *)
(* answers is left open here; module Federation supplies a peer.           *)
(***************************************************************************)
EXTENDS Integers, FiniteSets, Sequences

CONSTANTS
    Peer,                    \* the systems a row can be addressed to
    MAX_FEDERATED_PER_TICK,  \* POSTs, and abandonments, of one batch
    ABANDON_WINDOW,          \* abandonWindowMinutes of each peer, in time units
    BACKOFF_BASE, BACKOFF_MAX,
    Oversize,                \* whether a text may exceed FEDERATION_MAX_CONTENT_BYTES
    MaxPosts, LastPost,      \* bounds: how many rows are posted, and until when
    MaxPuts, MaxEdits, MaxRestarts,
    MaxTroubles,             \* bound on puts, edits and restarts together
    MaxClock

ASSUME BridgeAssumption ==
    /\ MAX_FEDERATED_PER_TICK \in Nat \ {0}
    /\ ABANDON_WINDOW \in [Peer -> Nat]
    /\ BACKOFF_BASE \in Nat \ {0} /\ BACKOFF_MAX \in Nat /\ BACKOFF_BASE <= BACKOFF_MAX
    /\ Oversize \subseteq BOOLEAN /\ Oversize # {}
    /\ {MaxPosts, LastPost, MaxPuts, MaxEdits, MaxRestarts, MaxTroubles, MaxClock} \subseteq Nat

VARIABLES
    rows,        \* the rows of agent_messages whose recipient is "<peer>/<agent>"
    clock,
    enabled,     \* the master switch
    configured,  \* the peers of federation.json
    outbound,    \* each peer's outboundToken; 0 is ''
    \* --- memory, lost on restart ---
    backoff,     \* peerBackoff: 0 failures is no entry
    pc,          \* "idle"; "loop": between rows of a batch; "wire": awaiting a POST
    batch,       \* rows of the snapshot not yet processed
    tickNow,     \* the clock when the tick began
    attempts, abandons,
    misses,      \* history: POSTs failed in this tick since the peer's backoff was reset
    \* --- how often each bounded event has happened ---
    spent

config       == <<enabled, configured, outbound>>
tick         == <<pc, batch, tickNow, attempts, abandons>>
bridgeVars   == <<rows, clock, config, backoff, tick, misses, spent>>

(***************************************************************************)
(* told counts the notices about the row put into the sender's inbox,      *)
(* tries the POSTs begun; cut says that a restart separated the row's      *)
(* closing from the statement that follows it; remote is the id that the   *)
(* result of a delivered row names.                                        *)
(***************************************************************************)
Row == [to : Peer, big : BOOLEAN, created : Nat,
        status : {"pending", "delivered", "done", "failed"},
        result : {"none", "remote", "put", "abandoned", "refused", "off", "removed"},
        remote : Nat, told : Nat, tries : Nat, cut : BOOLEAN]

Ids      == DOMAIN rows
Open     == {m \in Ids : rows[m].status = "pending"}
First(S) == CHOOSE m \in S : \A k \in S : m <= k

Calm == [failures |-> 0, nextAttemptAt |-> 0]

Idle == /\ pc = "idle" /\ batch = {} /\ tickNow = 0 /\ attempts = 0 /\ abandons = 0

BridgeInit ==
    /\ rows = <<>> /\ clock = 0
    /\ enabled = TRUE /\ configured = Peer /\ outbound = [p \in Peer |-> 1]
    /\ backoff = [p \in Peer |-> Calm]
    /\ Idle
    /\ misses = [p \in Peer |-> 0]
    /\ spent = [puts |-> 0, edits |-> 0, restarts |-> 0]

\* Between the rows of a batch nothing is awaited: only a restart comes in between.
Awake == pc # "loop"

Spend(what, bound) ==
    /\ spent[what] < bound /\ spent.puts + spent.edits + spent.restarts < MaxTroubles
    /\ spent' = [spent EXCEPT ![what] = @ + 1]
----------------------------------------------------------------------------
(***************************************************************************)
(* POST and PUT of /api/messages.                                          *)
(***************************************************************************)
\* A qualified recipient is checked against the configuration when the row is created.
Post(p, big) ==
    /\ Awake
    /\ Len(rows) < MaxPosts /\ clock <= LastPost
    /\ enabled /\ p \in configured
    /\ rows' = Append(rows, [to |-> p, big |-> big, created |-> clock,
                             status |-> "pending", result |-> "none", remote |-> 0,
                             told |-> 0, tries |-> 0, cut |-> FALSE])
    /\ UNCHANGED <<clock, config, backoff, tick, misses, spent>>

\* markMessageDone and markMessageFailed look at no status.
Put(m, status) ==
    /\ Awake
    /\ Spend("puts", MaxPuts)
    /\ rows' = [rows EXCEPT ![m].status = status, ![m].result = "put"]
    /\ UNCHANGED <<clock, config, backoff, tick, misses>>
----------------------------------------------------------------------------
(***************************************************************************)
(* sendFederatedMessage and its backoff.                                   *)
(***************************************************************************)
Min2(a, b) == IF a <= b THEN a ELSE b

Delay(failures) == Min2(BACKOFF_BASE * 2 ^ (failures - 1), BACKOFF_MAX)

\* Counted from the beginning of the tick, not from the failure.
noteFailure(p) ==
    LET n == backoff[p].failures + 1
    IN /\ backoff' = [backoff EXCEPT ![p] = [failures |-> n, nextAttemptAt |-> tickNow + Delay(n)]]
       /\ misses' = [misses EXCEPT ![p] = @ + 1]

noteSuccess(p) == backoff' = [backoff EXCEPT ![p] = Calm] /\ UNCHANGED misses

resetPeerBackoff(S) ==
    /\ backoff' = [p \in Peer |-> IF p \in S THEN Calm ELSE backoff[p]]
    /\ misses'  = [p \in Peer |-> IF p \in S THEN 0 ELSE misses[p]]

isPeerInBackoff(p) == tickNow < backoff[p].nextAttemptAt

\* What is checked before the network is touched.
Sendable(m) == /\ enabled
               /\ rows[m].to \in configured /\ outbound[rows[m].to] # 0
               /\ ~rows[m].big
----------------------------------------------------------------------------
(***************************************************************************)
(* deliverFederatedBatch.                                                  *)
(***************************************************************************)
Running(m) == pc = "loop" /\ batch # {} /\ m = First(batch)

Overdue(m) == tickNow - rows[m].created > ABANDON_WINDOW[rows[m].to]

TickBegins ==
    /\ pc = "idle" /\ Open # {}
    /\ pc' = "loop" /\ batch' = Open /\ tickNow' = clock
    /\ misses' = [p \in Peer |-> 0]
    /\ UNCHANGED <<rows, clock, config, backoff, attempts, abandons, spent>>

\* Over one of the budgets, or a peer in backoff: the row is left for a later tick.
PassOver(m) ==
    /\ Running(m)
    /\ IF Overdue(m) THEN abandons >= MAX_FEDERATED_PER_TICK
                     ELSE \/ attempts >= MAX_FEDERATED_PER_TICK
                          \/ Sendable(m) /\ isPeerInBackoff(rows[m].to)
    /\ batch' = batch \ {m}
    /\ UNCHANGED <<rows, clock, config, backoff, pc, tickNow, attempts, abandons, misses, spent>>

\* Mutant: the notice does not depend on the guarded update.
FailAndTell_always(m, why) ==
    rows' = [rows EXCEPT ![m].status = IF @ = "pending" THEN "failed" ELSE @,
                         ![m].result = IF rows[m].status = "pending" THEN why ELSE @,
                         ![m].told = @ + 1]

\* markPendingFederatedFailed and, if it closed the row, notifyDelegationFailed.
FailAndTell(m, why) ==
    IF rows[m].status = "pending"
    THEN rows' = [rows EXCEPT ![m].status = "failed", ![m].result = why, ![m].told = @ + 1]
    ELSE UNCHANGED rows

Abandon(m) ==
    /\ Running(m) /\ Overdue(m) /\ abandons < MAX_FEDERATED_PER_TICK
    /\ FailAndTell(m, "abandoned")
    /\ batch' = batch \ {m} /\ abandons' = abandons + 1
    /\ UNCHANGED <<clock, config, backoff, pc, tickNow, attempts, misses, spent>>

\* sendFederatedMessage fails before it touches the network.
Refuse(m) ==
    /\ Running(m) /\ ~Overdue(m) /\ attempts < MAX_FEDERATED_PER_TICK /\ ~Sendable(m)
    /\ FailAndTell(m, "refused")
    /\ batch' = batch \ {m} /\ attempts' = attempts + 1
    /\ UNCHANGED <<clock, config, backoff, pc, tickNow, abandons, misses, spent>>

\* Mutant: a peer in backoff is tried all the same.
Fetch_eager(m) ==
    /\ Running(m) /\ ~Overdue(m) /\ attempts < MAX_FEDERATED_PER_TICK /\ Sendable(m)
    /\ rows' = [rows EXCEPT ![m].tries = @ + 1]
    /\ pc' = "wire"
    /\ UNCHANGED <<clock, config, backoff, batch, tickNow, attempts, abandons, misses, spent>>

\* The POST leaves.
Fetch(m) ==
    /\ Running(m) /\ ~Overdue(m) /\ attempts < MAX_FEDERATED_PER_TICK
    /\ Sendable(m) /\ ~isPeerInBackoff(rows[m].to)
    /\ rows' = [rows EXCEPT ![m].tries = @ + 1]
    /\ pc' = "wire"
    /\ UNCHANGED <<clock, config, backoff, batch, tickNow, attempts, abandons, misses, spent>>

Awaiting(m) == pc = "wire" /\ m = First(batch)

\* The await returns: the row has had its turn.
Resume(m) ==
    /\ Awaiting(m)
    /\ pc' = "loop" /\ batch' = batch \ {m} /\ attempts' = attempts + 1
    /\ UNCHANGED <<clock, config, tickNow, abandons, spent>>

\* Mutant: the update that marks the row delivered looks at no status.
Accepted_unguarded(m, id) ==
    /\ Resume(m) /\ noteSuccess(rows[m].to)
    /\ rows' = [rows EXCEPT ![m].status = "delivered", ![m].result = "remote", ![m].remote = id]

\* 2xx: markMessageDelivered and, if it closed the row, setMessageResult with the id the
\* peer gave to its copy.
Accepted(m, id) ==
    /\ Resume(m) /\ noteSuccess(rows[m].to)
    /\ rows' = IF rows[m].status = "pending"
               THEN [rows EXCEPT ![m].status = "delivered", ![m].result = "remote", ![m].remote = id]
               ELSE rows

\* A 4xx other than 401: an answer, so no backoff.
Rejected(m) == Resume(m) /\ noteSuccess(rows[m].to) /\ FailAndTell(m, "refused")

\* Mutant: the row that is to be tried again counts as new.
Unanswered_renews(m) ==
    /\ Resume(m) /\ noteFailure(rows[m].to)
    /\ rows' = [rows EXCEPT ![m].created = IF rows[m].status = "pending" THEN clock ELSE @]

\* 401, 5xx, no connection, or no answer within FEDERATION_REQUEST_TIMEOUT_MS: try again.
Unanswered(m) == Resume(m) /\ noteFailure(rows[m].to) /\ UNCHANGED rows

TickEnds ==
    /\ pc = "loop" /\ batch = {}
    /\ pc' = "idle" /\ tickNow' = 0 /\ attempts' = 0 /\ abandons' = 0
    /\ UNCHANGED <<rows, clock, config, backoff, batch, misses, spent>>
----------------------------------------------------------------------------
(***************************************************************************)
(* The operator's handlers; each runs without an await after its body.     *)
(***************************************************************************)
Amend == Awake /\ Spend("edits", MaxEdits)

\* The rows after failPendingFederatedMessages: no notice goes out.
Purged(S, why) ==
    [m \in Ids |-> IF rows[m].status = "pending" /\ rows[m].to \in S
                   THEN [rows[m] EXCEPT !.status = "failed", !.result = why] ELSE rows[m]]

Enable ==
    /\ ~enabled /\ enabled' = TRUE
    /\ Amend
    /\ UNCHANGED <<rows, clock, configured, outbound, backoff, tick, misses>>

\* Mutant: what is pending stays so.
Disable_keeps ==
    /\ enabled /\ enabled' = FALSE
    /\ Amend
    /\ resetPeerBackoff(Peer)
    /\ UNCHANGED <<rows, clock, configured, outbound, tick>>

Disable ==
    /\ enabled /\ enabled' = FALSE
    /\ Amend
    /\ resetPeerBackoff(Peer)
    /\ rows' = Purged(Peer, "off")
    /\ UNCHANGED <<clock, configured, outbound, tick>>

\* The token the peer minted for us may be pasted at once or later.
AddPeer(p, token) ==
    /\ p \notin configured
    /\ Amend
    /\ configured' = configured \cup {p}
    /\ outbound' = [outbound EXCEPT ![p] = token]
    /\ UNCHANGED <<rows, clock, enabled, backoff, tick, misses>>

PatchToken(p, token) ==
    /\ p \in configured
    /\ Amend
    /\ outbound' = [outbound EXCEPT ![p] = token]
    /\ resetPeerBackoff({p})
    /\ UNCHANGED <<rows, clock, enabled, configured, tick>>

RemovePeer(p) ==
    /\ p \in configured
    /\ Amend
    /\ configured' = configured \ {p}
    /\ rows' = Purged({p}, "removed")
    /\ resetPeerBackoff({p})
    /\ UNCHANGED <<clock, enabled, outbound, tick>>

\* Full removal: the switch off, the file gone.
RemoveAll ==
    /\ Amend
    /\ enabled' = FALSE /\ configured' = {}
    /\ rows' = Purged(Peer, "off")
    /\ resetPeerBackoff(Peer)
    /\ UNCHANGED <<clock, outbound, tick>>
----------------------------------------------------------------------------
(***************************************************************************)
(* Restarts of the process.                                                *)
(***************************************************************************)
Forgotten ==
    /\ backoff' = [p \in Peer |-> Calm] /\ misses' = [p \in Peer |-> 0]
    /\ pc' = "idle" /\ batch' = {} /\ tickNow' = 0 /\ attempts' = 0 /\ abandons' = 0

Restart == Spend("restarts", MaxRestarts) /\ Forgotten /\ UNCHANGED <<rows, clock, config>>

\* The process dies between the update that closes a row and the statement after it.
CutShort(m, status, result) ==
    /\ rows[m].status = "pending"
    /\ Spend("restarts", MaxRestarts) /\ Forgotten /\ UNCHANGED <<clock, config>>
    /\ rows' = [rows EXCEPT ![m].status = status, ![m].result = result, ![m].cut = TRUE]

CutAbandon(m) == /\ Running(m) /\ Overdue(m) /\ abandons < MAX_FEDERATED_PER_TICK
                 /\ CutShort(m, "failed", "abandoned")
CutRefuse(m) == /\ Running(m) /\ ~Overdue(m) /\ attempts < MAX_FEDERATED_PER_TICK /\ ~Sendable(m)
                /\ CutShort(m, "failed", "refused")
CutRejected(m) == Awaiting(m) /\ CutShort(m, "failed", "refused")
CutAccepted(m) == Awaiting(m) /\ CutShort(m, "delivered", "none")

TimePasses == /\ clock < MaxClock /\ clock' = clock + 1
              /\ UNCHANGED <<rows, config, backoff, tick, misses, spent>>
----------------------------------------------------------------------------

BatchStep(m) == \/ PassOver(m) \/ Abandon(m) \/ Refuse(m) \/ Fetch(m)
                \/ CutAbandon(m) \/ CutRefuse(m)

Edit == \/ Enable \/ Disable \/ RemoveAll
        \/ \E p \in Peer : RemovePeer(p) \/ \E token \in {0, 1} : AddPeer(p, token) \/ PatchToken(p, token)

Users == \/ \E p \in Peer, big \in Oversize : Post(p, big)
         \/ \E m \in Ids, status \in {"done", "failed"} : Put(m, status)

\* The bridge with peers that answer as they like.
Answer(m) == \/ Accepted(m, 1) \/ Rejected(m) \/ Unanswered(m) \/ CutAccepted(m) \/ CutRejected(m)

BridgeNext ==
    \/ Users \/ Edit \/ Restart \/ TimePasses
    \/ TickBegins \/ TickEnds
    \/ \E m \in batch : BatchStep(m) \/ Answer(m)

BridgeSpec == BridgeInit /\ [][BridgeNext]_bridgeVars

\* The tick's timer fires, its loop runs, AbortSignal.timeout bounds the await; time goes on.
BridgeFairness ==
    /\ WF_bridgeVars(TickBegins) /\ WF_bridgeVars(TickEnds) /\ WF_bridgeVars(TimePasses)
    /\ WF_bridgeVars(\E m \in batch : BatchStep(m) \/ Answer(m))

FairBridge == BridgeSpec /\ BridgeFairness
----------------------------------------------------------------------------
BridgeTypeOK ==
    /\ rows \in Seq(Row)
    /\ clock \in Nat /\ tickNow \in Nat /\ attempts \in Nat /\ abandons \in Nat
    /\ enabled \in BOOLEAN /\ configured \subseteq Peer /\ outbound \in [Peer -> Nat]
    /\ backoff \in [Peer -> [failures : Nat, nextAttemptAt : Nat]]
    /\ misses \in [Peer -> Nat]
    /\ pc \in {"idle", "loop", "wire"} /\ batch \subseteq Ids
    /\ spent \in [{"puts", "edits", "restarts"} -> Nat]

\* The sender of a row hears of its failure exactly once, and only if it failed: never of
\* a row that is still pending or was delivered, and not twice when the bridge, a purge
\* and a restart meet on the row.  Only a restart between two statements loses a notice.
ToldOnce ==
    \A m \in Ids :
        /\ rows[m].told <= 1
        /\ rows[m].told = 1 => rows[m].result \in {"abandoned", "refused", "put"}
        /\ rows[m].result \in {"abandoned", "refused"} /\ ~rows[m].cut => rows[m].told = 1

\* Whoever closed a row had the last word: a POST that comes back after the row was
\* purged, or closed by hand, changes neither status nor result.  Only PUT may.
CloserWins ==
    [][\A m \in Ids : rows[m].status # "pending" /\ rows'[m] # rows[m] =>
          \/ rows'[m].result = "put"
          \/ rows'[m] = [rows[m] EXCEPT !.tries = @ + 1]]_bridgeVars

\* A peer that is down costs a tick at most one failed POST, however many rows wait for
\* it: the first failure puts the rest of the batch behind the backoff.  Only an operator
\* who resets the backoff in the middle of the tick buys another attempt.
OneMissPerTick == \A p \in Peer : misses[p] <= 1

\* Off means off: nothing that could still be delivered later waits for a peer that has
\* been removed, or for any peer while federation is disabled.
NoOrphans == \A m \in Open : enabled /\ rows[m].to \in configured

\* Whatever the peers do, a row is not pending for ever.
Settles == \A m \in 1 .. MaxPosts : m \in Open ~> m \notin Open
=============================================================================
