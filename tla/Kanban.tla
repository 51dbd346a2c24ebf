------------------------------- MODULE Kanban -------------------------------
(* The dashboard's kanban board: the workflow of a card (kanban-workflow.ts), *)
(* the work-in-progress limit of the execution lanes with its SQL triggers    *)
(* (db.ts), and the message that wakes the assigned agent when its card       *)
(* starts running (routes/kanban.ts).                                         *)
(*                                                                            *)
(* Every operation on the table is one SQLite transaction, and a request's    *)
(* handler is not interleaved with another's; only a crash can come between   *)
(* two of its statements, so "serving" names the statement it does next.  The *)
(* legacy status is a function of the state, and a row without a state        *)
(* behaves as the state its status maps to.                                   *)
EXTENDS Integers, FiniteSets

CONSTANTS
  Card, Lane, Agent,
  Snapshot,     \* the cards a fleet import may bring
  MaxLimit,     \* bound on the configured limits
  MaxCuts,      \* bound on crashes and failed stamps
  MaxRequests   \* bound on the requests of a behaviour
ASSUME KanbanAssumption ==
  /\ MaxLimit \in Nat /\ MaxCuts \in Nat /\ MaxRequests \in Nat /\ IsFiniteSet(Card)

NoLane == "noLane"
Human == "human"      \* the human: assigned cards, never sent a prompt
Assignee == Agent \cup {Human}

VARIABLES
  card,        \* table kanban_cards
  limit,       \* table kanban_lane_policy, read from the settings at startup
  enforce,
  online,      \* the agents whose session is running
  serving,     \* the rest of the request at work
  told,        \* messages that assign the card to an agent
  cuts, requests  \* history: crashes and failed stamps; requests served

kbVars == <<card, limit, enforce, online, serving, told, cuts, requests>>
kbPolicy == <<limit, enforce>>

States == {"new", "ready", "running", "verify", "repair", "blocked", "done"}
Rows == [state : States, repairs : 0..2, lane : Lane \cup {NoLane}, archived : BOOLEAN,
         assignee : Assignee, dispatched : BOOLEAN]
NoCard == [state |-> "absent", repairs |-> 0, lane |-> NoLane, archived |-> FALSE,
           assignee |-> Human, dispatched |-> FALSE]
ASSUME RowsAssumption == NoLane \notin Lane /\ Snapshot \subseteq Rows
NoWork == [op |-> "idle"]
Work == [op : {"message", "stamp"}, card : Card, actor : Assignee] \cup {NoWork}

EDGES ==
  [new |-> {"ready", "blocked"}, ready |-> {"running", "blocked"},
   running |-> {"verify", "blocked"}, verify |-> {"done", "repair", "blocked"},
   repair |-> {"verify", "blocked"}, blocked |-> {"ready"}, done |-> {}]

Exists(c) == card[c].state # "absent"
RunsIn(l) == {c \in Card : Exists(c) /\ card[c].state = "running" /\ ~card[c].archived /\ card[c].lane = l}
Room(l, c) == limit[l] = 0 \/ Cardinality(RunsIn(l) \ {c}) < limit[l]
Admits(l, c) == enforce => Room(l, c)

KBInit ==
  /\ card = [c \in Card |-> NoCard] /\ told = [c \in Card |-> 0]
  /\ limit \in [Lane -> 0..MaxLimit] /\ enforce \in BOOLEAN
  /\ online \in SUBSET Agent /\ serving = NoWork /\ cuts = 0 /\ requests = 0

Serves == serving = NoWork /\ requests < MaxRequests /\ requests' = requests + 1

Put(c, row) == card' = [card EXCEPT ![c] = row]

CreateCard(c, state, lane, who) ==
  /\ Serves /\ ~Exists(c)
  /\ Put(c, [state |-> state, repairs |-> 0, lane |-> lane, archived |-> FALSE,
             assignee |-> who, dispatched |-> FALSE])
  /\ told' = [told EXCEPT ![c] = 0]
  /\ UNCHANGED <<kbPolicy, online, serving, cuts>>

\* decideWorkflowTransition, along an edge
Decision(k, to) ==
  IF to = "repair"
  THEN IF k.repairs >= 2 THEN [state |-> "blocked", repairs |-> k.repairs]
                         ELSE [state |-> "repair", repairs |-> k.repairs + 1]
  ELSE [state |-> to, repairs |-> k.repairs]

\* the lane a request leaves the card in: null and a missing lane keep the stored one
Effective(lane, k) == IF lane = NoLane THEN k.lane ELSE lane

(* transitionKanbanWorkflowState, asked for by anyone; a move to running goes *)
(* on to fireKanbanDispatch *)
MoveCard(c, to, lane) ==
  /\ Serves /\ Exists(c) /\ to \in EDGES[card[c].state]
  /\ LET k == card[c]
         d == Decision(k, to)
         l == Effective(lane, k)
     IN /\ d.state = "running" => l # NoLane /\ (k.archived \/ Admits(l, c))
        /\ Put(c, [k EXCEPT !.state = d.state, !.repairs = d.repairs, !.lane = l])
        /\ serving' \in IF d.state = "running" THEN [op : {"message"}, card : {c}, actor : Assignee] ELSE {NoWork}
  /\ UNCHANGED <<kbPolicy, online, told, cuts>>

\* A move to the state the card is in changes its place only, and passes no gate.
MoveWithin(c) ==
  /\ Serves /\ Exists(c) /\ card[c].state = "running"
  /\ serving' \in [op : {"message"}, card : {c}, actor : Assignee]
  /\ UNCHANGED <<card, kbPolicy, online, told, cuts>>

\* Mutant: only a restored card passes the gate.
Gated_restoreOnly(k, lane, archived) == k.state = "running" /\ k.archived /\ ~archived

\* evaluateLaneTransition for a request that keeps the state
Gated(k, lane, archived) ==
  /\ k.state = "running" /\ ~archived
  /\ (lane # NoLane /\ lane # k.lane) \/ k.archived

(* updateKanbanCardWithLaneGate: PUT /api/kanban/:id *)
EditCard(c, lane, archived, who) ==
  /\ Serves /\ Exists(c)
  /\ LET k == card[c]
         l == Effective(lane, k)
     IN /\ Gated(k, lane, archived) /\ l # NoLane => Admits(l, c)
        /\ Put(c, [k EXCEPT !.lane = l, !.archived = archived, !.assignee = who])
  /\ UNCHANGED <<kbPolicy, online, serving, told, cuts>>

ArchiveCard(c) ==
  /\ Serves /\ Exists(c) /\ Put(c, [card[c] EXCEPT !.archived = TRUE])
  /\ UNCHANGED <<kbPolicy, online, serving, told, cuts>>

\* listKanbanCards, on every read: done cards nobody has touched for days
AutoArchive(S) ==
  /\ serving = NoWork /\ S \subseteq {c \in Card : Exists(c) /\ card[c].state = "done" /\ ~card[c].archived}
  /\ S # {}
  /\ card' = [c \in Card |-> IF c \in S THEN [card[c] EXCEPT !.archived = TRUE] ELSE card[c]]
  /\ UNCHANGED <<kbPolicy, online, serving, told, cuts, requests>>

\* Mutant: a card comes back whatever runs in its lane.
UnarchiveCard_ungated(c) ==
  /\ Serves /\ Exists(c) /\ card[c].archived
  /\ Put(c, [card[c] EXCEPT !.archived = FALSE])
  /\ UNCHANGED <<kbPolicy, online, serving, told, cuts>>

(* unarchiveKanbanCardWithLaneGate *)
UnarchiveCard(c) ==
  /\ Serves /\ Exists(c) /\ card[c].archived
  /\ card[c].state = "running" /\ card[c].lane # NoLane => Admits(card[c].lane, c)
  /\ Put(c, [card[c] EXCEPT !.archived = FALSE])
  /\ UNCHANGED <<kbPolicy, online, serving, told, cuts>>

DeleteCard(c) ==
  /\ Serves /\ Exists(c) /\ Put(c, NoCard)
  /\ UNCHANGED <<kbPolicy, online, serving, told, cuts>>

(* insertImportedKanbanCard: a card of a fleet snapshot as it is, unless the id is taken *)
ImportCard(c, row) ==
  /\ Serves /\ ~Exists(c) /\ Put(c, row)
  /\ told' = [told EXCEPT ![c] = IF row.dispatched THEN 1 ELSE 0]
  /\ UNCHANGED <<kbPolicy, online, serving, cuts>>

\* Mutant: the guard is not looked at.
Wakes_always(c, actor) ==
  Exists(c) /\ card[c].assignee # actor /\ card[c].assignee \in online

\* resolveKanbanDispatchTarget finds an agent other than the mover whose session runs
Wakes(c, actor) ==
  Exists(c) /\ ~card[c].dispatched /\ card[c].assignee # actor /\ card[c].assignee \in online

(* fireKanbanDispatch: create the message, then stamp the card *)
DispatchMessage ==
  /\ serving.op = "message"
  /\ IF Wakes(serving.card, serving.actor)
     THEN told' = [told EXCEPT ![serving.card] = @ + 1] /\ serving' = [serving EXCEPT !.op = "stamp"]
     ELSE told' = told /\ serving' = NoWork
  /\ UNCHANGED <<card, kbPolicy, online, cuts, requests>>

DispatchStamp ==
  /\ serving.op = "stamp" /\ Put(serving.card, [card[serving.card] EXCEPT !.dispatched = TRUE])
  /\ serving' = NoWork
  /\ UNCHANGED <<kbPolicy, online, told, cuts, requests>>

\* a database error: the message is sent, and the handler only logs
StampFails ==
  /\ serving.op = "stamp" /\ cuts < MaxCuts /\ cuts' = cuts + 1 /\ serving' = NoWork
  /\ UNCHANGED <<card, kbPolicy, online, told, requests>>

\* A crash at any point; the next start takes the limits of the settings at that time.
KBRestart ==
  /\ cuts < MaxCuts /\ cuts' = cuts + 1 /\ serving' = NoWork
  /\ limit' \in [Lane -> 0..MaxLimit] /\ enforce' \in BOOLEAN
  /\ UNCHANGED <<card, online, told, requests>>

AgentFlips(a) ==
  /\ online' = IF a \in online THEN online \ {a} ELSE online \cup {a}
  /\ UNCHANGED <<card, kbPolicy, serving, told, cuts, requests>>

Lanes == Lane \cup {NoLane}
OnCard(c) ==
  \/ \E state \in {"new", "ready"}, lane \in Lanes, who \in Assignee : CreateCard(c, state, lane, who)
  \/ \E to \in States, lane \in Lanes : MoveCard(c, to, lane)
  \/ \E lane \in Lanes, archived \in BOOLEAN, who \in Assignee : EditCard(c, lane, archived, who)
  \/ MoveWithin(c) \/ ArchiveCard(c) \/ UnarchiveCard(c) \/ DeleteCard(c)
  \/ \E row \in Snapshot : ImportCard(c, row)

KBNext ==
  \/ \E c \in Card : OnCard(c)
  \/ \E S \in SUBSET Card : AutoArchive(S)
  \/ DispatchMessage \/ DispatchStamp \/ StampFails \/ KBRestart
  \/ \E a \in Agent : AgentFlips(a)

KBSpec == KBInit /\ [][KBNext]_kbVars

-----------------------------------------------------------------------------
KBTypeOK ==
  /\ card \in [Card -> Rows \cup {NoCard}] /\ limit \in [Lane -> 0..MaxLimit] /\ enforce \in BOOLEAN
  /\ online \in SUBSET Agent /\ serving \in Work /\ told \in [Card -> Nat]
  /\ cuts \in 0..MaxCuts /\ requests \in 0..MaxRequests

\* "One Piece Flow": while the limits are enforced, no request but a fleet
\* import raises the number of cards running in a lane above its limit,
\* whatever route it takes (move, edit, restore).
WipHolds ==
  [][\A l \in Lane :
       /\ enforce /\ limit[l] > 0
       /\ Cardinality(RunsIn(l)') > Cardinality(RunsIn(l))
       /\ \A c \in Card : Exists(c)' => Exists(c)
       => Cardinality(RunsIn(l)') <= limit[l]]_kbVars

\* The agent is woken once for a card, however often it is moved, edited and archived;
\* only a crash between the message and the stamp, or a stamp that fails, can wake it again.
WokenOnce == \A c \in Card : told[c] <= 1 + cuts
=============================================================================
