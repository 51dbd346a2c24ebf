---------------------------- MODULE BoardProofs -----------------------------
(* Theorems about the two sources of cards, Kanban and IdeaBox, for any       *)
(* number of cards, lanes, agents and ideas.                                  *)
EXTENDS Kanban, IdeaBox, FiniteSetTheorems, TLAPS

\* the card of a message that is still to be stamped is not deleted meanwhile
Typed ==
  /\ card \in [Card -> Rows \cup {NoCard}] /\ limit \in [Lane -> Nat]
  /\ serving \in Work /\ (serving.op = "stamp" => Exists(serving.card))

USE DEF Typed

LEMMA RunsInFinite ==
    ASSUME NEW l \in Lane
    PROVE  IsFiniteSet(RunsIn(l)) /\ IsFiniteSet(RunsIn(l)')
  BY KanbanAssumption, FS_Subset DEF RunsIn

(***************************************************************************)
(* One row is written.  Unless the row enters the lane through the gate,   *)
(* the lane does not get fuller; through the gate it gets no fuller than   *)
(* its limit.                                                              *)
(***************************************************************************)
Enters(l, c, r) == r.state = "running" /\ ~r.archived /\ r.lane = l /\ c \notin RunsIn(l)

\* what WipHolds says of one lane
LaneHolds(l) ==
  enforce /\ limit[l] > 0 /\ Cardinality(RunsIn(l)') > Cardinality(RunsIn(l))
    => Cardinality(RunsIn(l)') <= limit[l]

LEMMA PutHolds ==
    ASSUME Typed, NEW c \in Card, NEW r, Put(c, r), NEW l \in Lane,
           Enters(l, c, r) => Admits(l, c)
    PROVE  LaneHolds(l)
  <1> SUFFICES ASSUME enforce, Cardinality(RunsIn(l)') > Cardinality(RunsIn(l)), limit[l] > 0
               PROVE  Cardinality(RunsIn(l)') <= limit[l]
    BY DEF LaneHolds
  <1>1. card'[c] = r /\ \A d \in Card : d # c => card'[d] = card[d]
    BY DEF Put
  <1>2. RunsIn(l)' \subseteq RunsIn(l) \cup {c}
    BY <1>1 DEF RunsIn, Exists
  <1>3. ~(RunsIn(l)' \subseteq RunsIn(l))
    <2> SUFFICES ASSUME RunsIn(l)' \subseteq RunsIn(l) PROVE FALSE
      OBVIOUS
    <2>1. Cardinality(RunsIn(l)') <= Cardinality(RunsIn(l))
      BY RunsInFinite, FS_Subset
    <2>2. Cardinality(RunsIn(l)') \in Nat /\ Cardinality(RunsIn(l)) \in Nat
      BY RunsInFinite, FS_CardinalityType
    <2> QED
      BY <2>1, <2>2
  <1>4. c \in RunsIn(l)' /\ c \notin RunsIn(l)
    BY <1>2, <1>3
  <1>5. Enters(l, c, r)
    BY <1>1, <1>4 DEF Enters, RunsIn
  <1>6. Cardinality(RunsIn(l) \ {c}) < limit[l]
    BY <1>5 DEF Admits, Room
  <1>7. RunsIn(l) \ {c} = RunsIn(l)
    BY <1>4
  <1>8. Cardinality(RunsIn(l) \cup {c}) = Cardinality(RunsIn(l)) + 1
    BY <1>4, RunsInFinite, FS_AddElement
  <1>9. Cardinality(RunsIn(l)') <= Cardinality(RunsIn(l) \cup {c})
    BY <1>2, RunsInFinite, FS_AddElement, FS_Subset
  <1>10. Cardinality(RunsIn(l)') \in Nat /\ Cardinality(RunsIn(l)) \in Nat /\ limit[l] \in Nat
    BY RunsInFinite, FS_CardinalityType
  <1> QED
    BY <1>6, <1>7, <1>8, <1>9, <1>10

\* a row as it is written keeps the types
LEMMA PutTyped ==
    ASSUME Typed, NEW c \in Card, NEW r \in Rows \cup {NoCard}, Put(c, r), UNCHANGED kbPolicy,
           serving' \in Work, serving'.op # "stamp"
    PROVE  Typed'
  BY DEF Put, kbPolicy

Step == Typed' /\ \A l \in Lane : (\A c \in Card : Exists(c)' => Exists(c)) => LaneHolds(l)

LEMMA PutSteps ==
    ASSUME Typed, NEW c \in Card, NEW r \in Rows \cup {NoCard}, Put(c, r), UNCHANGED kbPolicy,
           serving' \in Work, serving'.op # "stamp",
           \A l \in Lane : Enters(l, c, r) => Admits(l, c)
    PROVE  Step
  BY PutTyped, PutHolds DEF Step

\* what an action leaves to be done when it only writes the row
Idles == serving' \in Work /\ serving'.op # "stamp"

LEMMA ServesIdles == ASSUME Serves, UNCHANGED serving PROVE Idles
  BY DEF Idles, Serves, NoWork, Work

LEMMA CreateSteps ==
    ASSUME Typed, NEW c \in Card, NEW state \in {"new", "ready"}, NEW lane \in Lanes, NEW who \in Assignee,
           CreateCard(c, state, lane, who)
    PROVE  Step
  <1> DEFINE r == [state |-> state, repairs |-> 0, lane |-> lane, archived |-> FALSE,
                   assignee |-> who, dispatched |-> FALSE]
  <1>1. r \in Rows /\ r.state # "running"
    BY DEF Rows, States, Lanes
  <1>2. Put(c, r) /\ UNCHANGED kbPolicy /\ Idles
    BY ServesIdles DEF CreateCard
  <1> HIDE DEF r
  <1> QED
    BY <1>1, <1>2, PutSteps DEF Enters, Idles

LEMMA MoveSteps ==
    ASSUME Typed, NEW c \in Card, NEW to \in States, NEW lane \in Lanes, MoveCard(c, to, lane)
    PROVE  Step
  <1> DEFINE k == card[c]
             d == Decision(k, to)
             e == Effective(lane, k)
             r == [k EXCEPT !.state = d.state, !.repairs = d.repairs, !.lane = e]
  <1>1. k \in Rows
    BY DEF MoveCard, Exists, NoCard
  <1>2. d.state \in States /\ d.repairs \in 0..2
    BY <1>1 DEF Decision, Rows, States
  <1>3. e \in Lane \cup {NoLane}
    BY <1>1 DEF Effective, Rows, Lanes
  <1>4. r \in Rows /\ r.state = d.state /\ r.lane = e /\ r.archived = k.archived
    BY <1>1, <1>2, <1>3 DEF Rows
  <1>5. Put(c, r) /\ UNCHANGED kbPolicy /\ (d.state = "running" => k.archived \/ Admits(e, c))
    BY DEF MoveCard
  <1>6. Idles
    BY DEF MoveCard, Idles, Work, NoWork
  <1> HIDE DEF r, d, e, k
  <1> QED
    BY <1>4, <1>5, <1>6, PutSteps DEF Enters, Idles

LEMMA EditSteps ==
    ASSUME Typed, NEW c \in Card, NEW lane \in Lanes, NEW archived \in BOOLEAN, NEW who \in Assignee,
           EditCard(c, lane, archived, who)
    PROVE  Step
  <1> DEFINE k == card[c]
             e == Effective(lane, k)
             r == [k EXCEPT !.lane = e, !.archived = archived, !.assignee = who]
  <1>1. k \in Rows
    BY DEF EditCard, Exists, NoCard
  <1>2. e \in Lane \cup {NoLane}
    BY <1>1 DEF Effective, Rows, Lanes
  <1>3. r \in Rows /\ r.state = k.state /\ r.lane = e /\ r.archived = archived
    BY <1>1, <1>2 DEF Rows
  <1>4. Put(c, r) /\ UNCHANGED kbPolicy /\ Idles
    BY ServesIdles DEF EditCard
  <1>5. ASSUME NEW l \in Lane, Enters(l, c, r) PROVE Admits(l, c)
    <2>1. k.state = "running" /\ ~archived /\ e = l
      BY <1>3, <1>5 DEF Enters
    <2>2. k.archived \/ k.lane # l
      BY <1>5, <2>1, <1>1 DEF Enters, RunsIn, Exists
    <2>3. Gated(k, lane, archived)
      BY <2>1, <2>2 DEF Gated, Effective
    <2>4. e # NoLane
      BY <2>1, RowsAssumption
    <2> QED
      BY <2>1, <2>3, <2>4 DEF EditCard
  <1> HIDE DEF r
  <1> QED
    BY <1>3, <1>4, <1>5, PutSteps DEF Idles

LEMMA ArchiveSteps == ASSUME Typed, NEW c \in Card, ArchiveCard(c) PROVE Step
  <1> DEFINE r == [card[c] EXCEPT !.archived = TRUE]
  <1>0. card[c] \in Rows
    BY DEF ArchiveCard, Exists, NoCard
  <1>1. r \in Rows /\ r.archived
    BY <1>0 DEF Rows
  <1>2. Put(c, r) /\ UNCHANGED kbPolicy /\ Idles
    BY ServesIdles DEF ArchiveCard
  <1> HIDE DEF r
  <1> QED
    BY <1>1, <1>2, PutSteps DEF Enters, Idles

LEMMA UnarchiveSteps == ASSUME Typed, NEW c \in Card, UnarchiveCard(c) PROVE Step
  <1> DEFINE r == [card[c] EXCEPT !.archived = FALSE]
  <1>0. card[c] \in Rows
    BY DEF UnarchiveCard, Exists, NoCard
  <1>1. r \in Rows /\ r.state = card[c].state /\ r.lane = card[c].lane
    BY <1>0 DEF Rows
  <1>2. Put(c, r) /\ UNCHANGED kbPolicy /\ Idles
        /\ (card[c].state = "running" /\ card[c].lane # NoLane => Admits(card[c].lane, c))
    BY ServesIdles DEF UnarchiveCard
  <1> HIDE DEF r
  <1> QED
    BY <1>1, <1>2, RowsAssumption, PutSteps DEF Enters, Idles

LEMMA DeleteSteps == ASSUME Typed, NEW c \in Card, DeleteCard(c) PROVE Step
  <1>1. NoCard.state # "running" /\ Put(c, NoCard) /\ UNCHANGED kbPolicy /\ Idles
    BY ServesIdles DEF DeleteCard, NoCard
  <1> QED
    BY <1>1, PutSteps DEF Enters, Idles

\* a fleet import is none of the requests the limit is about
LEMMA ImportSteps == ASSUME Typed, NEW c \in Card, NEW r \in Snapshot, ImportCard(c, r) PROVE Step
  <1>1. r \in Rows /\ r.state # "absent"
    BY RowsAssumption DEF Rows, States
  <1>2. Put(c, r) /\ UNCHANGED kbPolicy /\ Idles /\ ~Exists(c)
    BY ServesIdles DEF ImportCard
  <1>3. Exists(c)'
    BY <1>1, <1>2 DEF Put, Exists
  <1> QED
    BY <1>1, <1>2, <1>3, PutTyped DEF Step, Idles

LEMMA AutoArchiveSteps == ASSUME Typed, NEW S \in SUBSET Card, AutoArchive(S) PROVE Step
  <1>1. \A c \in Card : card[c] \in Rows => [card[c] EXCEPT !.archived = TRUE] \in Rows
    BY DEF Rows
  <1>2. \A c \in S : card[c] \in Rows /\ card[c].state = "done"
    BY DEF AutoArchive, Exists, NoCard
  <1>3. Typed'
    BY <1>1, <1>2 DEF AutoArchive, kbPolicy, NoWork, Work
  <1>4. \A c \in S : card'[c].state = "done"
    BY <1>2 DEF AutoArchive, Rows
  <1>5. \A c \in Card \ S : card'[c] = card[c]
    BY DEF AutoArchive
  <1>6. ASSUME NEW l \in Lane PROVE LaneHolds(l)
    <2>1. RunsIn(l)' \subseteq RunsIn(l)
      BY <1>4, <1>5 DEF RunsIn, Exists
    <2>2. Cardinality(RunsIn(l)') <= Cardinality(RunsIn(l))
      BY <2>1, RunsInFinite, FS_Subset
    <2>3. Cardinality(RunsIn(l)') \in Nat /\ Cardinality(RunsIn(l)) \in Nat
      BY RunsInFinite, FS_CardinalityType
    <2> QED
      BY <2>2, <2>3 DEF LaneHolds
  <1> QED
    BY <1>3, <1>6 DEF Step

LEMMA StampSteps == ASSUME Typed, DispatchStamp PROVE Step
  <1> DEFINE c == serving.card
             r == [card[c] EXCEPT !.dispatched = TRUE]
  <1>1. c \in Card /\ card[c] \in Rows
    BY DEF DispatchStamp, Work, NoWork, Exists, NoCard
  <1>2. r \in Rows /\ r.state = card[c].state /\ r.lane = card[c].lane /\ r.archived = card[c].archived
    BY <1>1 DEF Rows
  <1>3. Put(c, r) /\ UNCHANGED kbPolicy /\ Idles
    BY DEF DispatchStamp, Idles, Work, NoWork
  <1>4. \A l \in Lane : ~Enters(l, c, r)
    BY <1>1, <1>2 DEF Enters, RunsIn, Exists
  <1> HIDE DEF r, c
  <1> QED
    BY <1>1, <1>2, <1>3, <1>4, PutSteps DEF Idles

\* steps that write no row
LEMMA OtherSteps ==
    ASSUME Typed, UNCHANGED card, Typed'
    PROVE  Step
  <1>1. \A l \in Lane : RunsIn(l)' = RunsIn(l)
    BY DEF RunsIn, Exists
  <1>2. \A l \in Lane : Cardinality(RunsIn(l)) \in Nat
    BY RunsInFinite, FS_CardinalityType
  <1> QED
    BY <1>1, <1>2 DEF Step, LaneHolds

LEMMA MessageSteps == ASSUME Typed, DispatchMessage PROVE Step
  <1>1. UNCHANGED <<card, kbPolicy>>
    BY DEF DispatchMessage
  <1>2. CASE Wakes(serving.card, serving.actor)
    <2>1. serving \in [op : {"message", "stamp"}, card : Card, actor : Assignee]
      BY DEF DispatchMessage, Work, NoWork
    <2>2. serving' = [serving EXCEPT !.op = "stamp"] /\ Exists(serving.card)
      BY <1>2 DEF DispatchMessage, Wakes
    <2>3. serving' \in Work /\ serving'.card = serving.card
      BY <2>1, <2>2 DEF Work
    <2> QED
      BY <1>1, <2>2, <2>3, OtherSteps DEF kbPolicy, Exists
  <1>3. CASE ~Wakes(serving.card, serving.actor)
    BY <1>1, <1>3, OtherSteps DEF DispatchMessage, kbPolicy, NoWork, Work
  <1> QED
    BY <1>2, <1>3

LEMMA RestartSteps == ASSUME Typed, KBRestart PROVE Step
  <1>1. limit' \in [Lane -> Nat] /\ serving' \in Work /\ serving'.op # "stamp" /\ UNCHANGED card
    BY KanbanAssumption DEF KBRestart, NoWork, Work
  <1> QED
    BY <1>1, OtherSteps

LEMMA StampFailsSteps == ASSUME Typed, StampFails PROVE Step
  <1>1. Typed'
    BY DEF StampFails, kbPolicy, NoWork, Work
  <1> QED
    BY <1>1, OtherSteps DEF StampFails

LEMMA WithinSteps == ASSUME Typed, NEW c \in Card, MoveWithin(c) PROVE Step
  <1>1. PICK a \in Assignee : serving' = [op |-> "message", card |-> c, actor |-> a]
    BY DEF MoveWithin
  <1>2. serving' \in Work /\ serving'.op # "stamp"
    BY <1>1 DEF Work
  <1>3. Typed'
    BY <1>2 DEF MoveWithin, kbPolicy
  <1> QED
    BY <1>3, OtherSteps DEF MoveWithin

LEMMA FlipSteps == ASSUME Typed, NEW a \in Agent, AgentFlips(a) PROVE Step
  BY OtherSteps DEF AgentFlips, kbPolicy, Exists

LEMMA NextSteps == ASSUME Typed, [KBNext]_kbVars PROVE Step
  <1>1. CASE UNCHANGED kbVars
    BY <1>1, OtherSteps DEF kbVars, Exists
  <1>2. ASSUME NEW c \in Card, OnCard(c) PROVE Step
    BY <1>2, CreateSteps, MoveSteps, EditSteps, WithinSteps, ArchiveSteps, UnarchiveSteps, DeleteSteps, ImportSteps
    DEF OnCard
  <1> QED
    BY <1>1, <1>2, StampFailsSteps, AutoArchiveSteps, MessageSteps, StampSteps, RestartSteps, FlipSteps DEF KBNext

\* No request overfills a lane: whatever route a card takes into it, for any
\* limits and any number of cards and lanes.
THEOREM LimitsHold == KBSpec => WipHolds
  <1>1. KBInit => Typed
    BY KanbanAssumption DEF KBInit, NoWork, Work
  <1>2. Typed /\ [KBNext]_kbVars => Typed'
    BY NextSteps DEF Step
  <1>3. Typed /\ [KBNext]_kbVars =>
          [\A l \in Lane :
             /\ enforce /\ limit[l] > 0
             /\ Cardinality(RunsIn(l)') > Cardinality(RunsIn(l))
             /\ \A c \in Card : Exists(c)' => Exists(c)
             => Cardinality(RunsIn(l)') <= limit[l]]_kbVars
    BY NextSteps DEF Step, LaneHolds
  <1> QED
    BY <1>1, <1>2, <1>3, PTL DEF KBSpec, WipHolds
(***************************************************************************)
(* How often an agent is told.  A row that has no stamp, and is not about  *)
(* to get one, has only the messages of cuts behind it; deleting a card    *)
(* and creating it anew starts the count again.                            *)
(***************************************************************************)
Stamping(c) == serving.op = "stamp" /\ serving.card = c
Unstamped(c) == Exists(c) /\ ~card[c].dispatched /\ ~Stamping(c)

Woken ==
  /\ told \in [Card -> Nat] /\ cuts \in Nat
  /\ \A c \in Card : told[c] <= 1 + cuts /\ (Unstamped(c) => told[c] <= cuts)

\* a row that keeps its stamp, or goes, while nobody is told
LEMMA PutWoken ==
    ASSUME Typed, Woken, NEW c \in Card, NEW r, Put(c, r), serving.op # "stamp",
           r.state # "absent" => Exists(c) /\ r.dispatched = card[c].dispatched,
           UNCHANGED <<told, cuts>>
    PROVE  Woken'
  <1>1. card'[c] = r /\ \A d \in Card : d # c => card'[d] = card[d]
    BY DEF Put
  <1>2. \A d \in Card : Unstamped(d)' => Unstamped(d)
    BY <1>1 DEF Unstamped, Exists, Stamping
  <1> QED
    BY <1>2 DEF Woken

\* a new row, whatever the last one with its id was told
LEMMA NewWoken ==
    ASSUME Typed, Woken, NEW c \in Card, NEW r, Put(c, r), serving.op # "stamp",
           NEW n \in 0..1, told' = [told EXCEPT ![c] = n], r.dispatched \/ n = 0,
           UNCHANGED cuts
    PROVE  Woken'
  <1>1. card'[c] = r /\ \A d \in Card : d # c => card'[d] = card[d]
    BY DEF Put
  <1>2. \A d \in Card : d # c => told'[d] = told[d] /\ (Unstamped(d)' => Unstamped(d))
    BY <1>1 DEF Unstamped, Exists, Stamping, Woken
  <1>3. told'[c] = n /\ (Unstamped(c)' => n = 0)
    BY <1>1 DEF Unstamped, Exists, Woken
  <1>4. told' \in [Card -> Nat] /\ cuts' \in Nat
    BY DEF Woken
  <1> QED
    BY <1>2, <1>3, <1>4 DEF Woken

LEMMA CreateWoken ==
    ASSUME Typed, Woken, NEW c \in Card,
           \/ \E state \in {"new", "ready"}, lane \in Lanes, who \in Assignee : CreateCard(c, state, lane, who)
           \/ \E row \in Snapshot : ImportCard(c, row)
    PROVE  Woken'
  <1>1. ASSUME NEW state, NEW lane, NEW who, CreateCard(c, state, lane, who) PROVE Woken'
    <2> DEFINE r == [state |-> state, repairs |-> 0, lane |-> lane, archived |-> FALSE,
                     assignee |-> who, dispatched |-> FALSE]
    <2>1. Put(c, r) /\ told' = [told EXCEPT ![c] = 0] /\ UNCHANGED cuts /\ serving.op # "stamp"
      BY <1>1 DEF CreateCard, Serves, NoWork
    <2>2. 0 \in 0..1
      OBVIOUS
    <2> HIDE DEF r
    <2> QED
      BY <2>1, <2>2, NewWoken
  <1>2. ASSUME NEW row \in Snapshot, ImportCard(c, row) PROVE Woken'
    <2> DEFINE n == IF row.dispatched THEN 1 ELSE 0
    <2>1. Put(c, row) /\ told' = [told EXCEPT ![c] = n] /\ UNCHANGED cuts /\ serving.op # "stamp"
      BY <1>2 DEF ImportCard, Serves, NoWork
    <2>2. n \in 0..1 /\ (row.dispatched \/ n = 0)
      OBVIOUS
    <2> HIDE DEF n
    <2> QED
      BY <2>1, <2>2, NewWoken
  <1> QED
    BY <1>1, <1>2

LEMMA RowWoken ==
    ASSUME Typed, Woken, NEW c \in Card,
           \/ \E to \in States, lane \in Lanes : MoveCard(c, to, lane)
           \/ \E lane \in Lanes, archived \in BOOLEAN, who \in Assignee : EditCard(c, lane, archived, who)
           \/ ArchiveCard(c) \/ UnarchiveCard(c) \/ DeleteCard(c)
    PROVE  Woken'
  <1>1. ASSUME NEW to \in States, NEW lane \in Lanes, MoveCard(c, to, lane) PROVE Woken'
    <2> DEFINE k == card[c]
               r == [k EXCEPT !.state = Decision(k, to).state, !.repairs = Decision(k, to).repairs,
                              !.lane = Effective(lane, k)]
    <2>1. Put(c, r) /\ Exists(c) /\ serving.op # "stamp" /\ UNCHANGED <<told, cuts>>
      BY <1>1 DEF MoveCard, Serves, NoWork
    <2>2. r.dispatched = k.dispatched
      BY <2>1 DEF Rows, NoCard
    <2> HIDE DEF r
    <2> QED
      BY <2>1, <2>2, PutWoken
  <1>2. ASSUME NEW lane \in Lanes, NEW archived \in BOOLEAN, NEW who \in Assignee,
               EditCard(c, lane, archived, who)
        PROVE  Woken'
    <2> DEFINE r == [card[c] EXCEPT !.lane = Effective(lane, card[c]), !.archived = archived, !.assignee = who]
    <2>1. Put(c, r) /\ Exists(c) /\ serving.op # "stamp" /\ UNCHANGED <<told, cuts>>
      BY <1>2 DEF EditCard, Serves, NoWork
    <2>2. r.dispatched = card[c].dispatched
      BY <2>1 DEF Rows, NoCard
    <2> HIDE DEF r
    <2> QED
      BY <2>1, <2>2, PutWoken
  <1>3. ASSUME NEW b \in BOOLEAN, Serves, Exists(c), Put(c, [card[c] EXCEPT !.archived = b]),
               UNCHANGED <<told, cuts>>
        PROVE  Woken'
    <2> DEFINE r == [card[c] EXCEPT !.archived = b]
    <2>1. r.dispatched = card[c].dispatched /\ Put(c, r) /\ serving.op # "stamp"
      BY <1>3 DEF Rows, NoCard, Serves, NoWork
    <2> HIDE DEF r
    <2> QED
      BY <2>1, <1>3, PutWoken
  <1>4. CASE DeleteCard(c)
    <2>1. Put(c, NoCard) /\ NoCard.state = "absent" /\ serving.op # "stamp" /\ UNCHANGED <<told, cuts>>
      BY <1>4 DEF DeleteCard, NoCard, Serves, NoWork
    <2> QED
      BY <2>1, PutWoken
  <1> QED
    BY <1>1, <1>2, <1>3, <1>4 DEF ArchiveCard, UnarchiveCard

LEMMA AutoArchiveWoken == ASSUME Typed, Woken, NEW S \in SUBSET Card, AutoArchive(S) PROVE Woken'
  <1>1. \A d \in Card : Exists(d)' => Exists(d) /\ card'[d].dispatched = card[d].dispatched
    BY DEF AutoArchive, Exists, Rows, NoCard
  <1>2. UNCHANGED <<serving, told, cuts>>
    BY DEF AutoArchive
  <1>3. \A d \in Card : Unstamped(d)' => Unstamped(d)
    BY <1>1, <1>2 DEF Unstamped, Stamping
  <1> QED
    BY <1>2, <1>3 DEF Woken

LEMMA DispatchWoken == ASSUME Typed, Woken, DispatchMessage \/ DispatchStamp PROVE Woken'
  <1>1. CASE DispatchMessage
    <2>0. PICK c \in Card : c = serving.card
      BY <1>1 DEF DispatchMessage, Work, NoWork
    <2>1. c = serving.card /\ serving.op = "message" /\ UNCHANGED <<card, cuts>>
      BY <1>1, <2>0 DEF DispatchMessage
    <2>2. CASE Wakes(c, serving.actor)
      <3>1. Unstamped(c) /\ told' = [told EXCEPT ![c] = told[c] + 1] /\ serving' = [serving EXCEPT !.op = "stamp"]
        BY <1>1, <2>1, <2>2 DEF DispatchMessage, Wakes, Unstamped, Stamping
      <3>2. Stamping(c)' /\ \A d \in Card : d # c => told'[d] = told[d]
        BY <2>1, <3>1 DEF Stamping, Woken, Work, NoWork
      <3>3. told'[c] = told[c] + 1 /\ told[c] <= cuts /\ told[c] \in Nat /\ told' \in [Card -> Nat]
        BY <2>1, <3>1 DEF Woken
      <3>4. \A d \in Card : d # c => (Unstamped(d)' => Unstamped(d))
        BY <2>1, <3>1 DEF Unstamped, Stamping, Exists
      <3>5. cuts' = cuts /\ ~Unstamped(c)'
        BY <2>1, <3>2 DEF Unstamped
      <3> QED
        BY <3>2, <3>3, <3>4, <3>5 DEF Woken
    <2>3. CASE ~Wakes(c, serving.actor)
      BY <1>1, <2>1, <2>3 DEF DispatchMessage, Woken, Unstamped, Stamping, NoWork, Exists
    <2> QED
      BY <2>2, <2>3
  <1>2. CASE DispatchStamp
    <2> DEFINE c == serving.card
    <2>1. c \in Card /\ Exists(c) /\ serving.op = "stamp" /\ UNCHANGED <<told, cuts>>
          /\ Put(c, [card[c] EXCEPT !.dispatched = TRUE])
      BY <1>2 DEF DispatchStamp, Work, NoWork
    <2>2. card'[c].dispatched /\ \A d \in Card : d # c => card'[d] = card[d]
      BY <2>1 DEF Put, Rows, Exists, NoCard
    <2>3. \A d \in Card : Unstamped(d)' => Unstamped(d)
      BY <2>1, <2>2 DEF Unstamped, Stamping, Exists
    <2> QED
      BY <2>1, <2>3 DEF Woken
  <1> QED
    BY <1>1, <1>2

\* a crash or an error loses the stamp that was to come, and counts
LEMMA CutWoken == ASSUME Typed, Woken, KBRestart \/ StampFails PROVE Woken'
  BY DEF KBRestart, StampFails, Woken

LEMMA WithinWoken == ASSUME Typed, Woken, NEW c \in Card, MoveWithin(c) PROVE Woken'
  <1>1. serving.op # "stamp" /\ serving'.op # "stamp" /\ UNCHANGED <<card, told, cuts>>
    BY DEF MoveWithin, Serves, NoWork
  <1>2. \A d \in Card : Unstamped(d)' => Unstamped(d)
    BY <1>1 DEF Unstamped, Stamping, Exists
  <1> QED
    BY <1>1, <1>2 DEF Woken

LEMMA NextWoken == ASSUME Typed, Woken, [KBNext]_kbVars PROVE Woken'
  <1>1. ASSUME UNCHANGED <<card, serving, told, cuts>> PROVE Woken'
    BY <1>1 DEF Woken, Unstamped, Stamping, Exists
  <1>2. ASSUME NEW c \in Card, OnCard(c) PROVE Woken'
    BY <1>2, CreateWoken, RowWoken, WithinWoken DEF OnCard
  <1> QED
    BY <1>1, <1>2, AutoArchiveWoken, DispatchWoken, CutWoken DEF KBNext, AgentFlips, kbVars

\* An agent is told of its card once, and once more only for each crash or
\* failed stamp, for any number of cards, agents and crashes.
THEOREM ToldOnce == KBSpec => []WokenOnce
  <1>1. KBInit => Typed /\ Woken
    BY KanbanAssumption DEF KBInit, NoWork, Work, Woken
  <1>2. Typed /\ Woken /\ [KBNext]_kbVars => Typed' /\ Woken'
    BY NextSteps, NextWoken DEF Step
  <1>3. Woken => WokenOnce
    BY DEF Woken, WokenOnce
  <1> QED
    BY <1>1, <1>2, <1>3, PTL DEF KBSpec
\* Each variable keeps its type, the bounded counters their bounds.
THEOREM BoardTypes == KBSpec => []KBTypeOK
  <1> DEFINE Rest == /\ limit \in [Lane -> 0..MaxLimit] /\ enforce \in BOOLEAN /\ online \in SUBSET Agent
                     /\ cuts \in 0..MaxCuts /\ requests \in 0..MaxRequests
  <1>1. KBInit => Typed /\ Woken /\ Rest
    BY KanbanAssumption DEF KBInit, NoWork, Work, Woken
  <1>2. Typed /\ Woken /\ [KBNext]_kbVars => Typed' /\ Woken'
    BY NextSteps, NextWoken DEF Step
  <1>3. Rest /\ [KBNext]_kbVars => Rest'
    <2> SUFFICES ASSUME Rest, [KBNext]_kbVars PROVE Rest'
      OBVIOUS
    <2>1. ASSUME NEW c \in Card, OnCard(c) PROVE Rest'
      <3>1. requests < MaxRequests /\ requests' = requests + 1 /\ UNCHANGED <<kbPolicy, online, cuts>>
        BY <2>1 DEF OnCard, CreateCard, MoveCard, MoveWithin, EditCard, ArchiveCard, UnarchiveCard, DeleteCard,
                    ImportCard, Serves
      <3> QED
        BY <3>1, KanbanAssumption DEF kbPolicy
    <2>2. CASE KBRestart \/ StampFails
      BY <2>2, KanbanAssumption DEF KBRestart, StampFails, kbPolicy
    <2>3. CASE \/ UNCHANGED kbVars \/ DispatchMessage \/ DispatchStamp
              \/ \E S \in SUBSET Card : AutoArchive(S)
              \/ \E a \in Agent : AgentFlips(a)
      BY <2>3 DEF kbVars, kbPolicy, DispatchMessage, DispatchStamp, AutoArchive, AgentFlips
    <2> QED
      BY <2>1, <2>2, <2>3 DEF KBNext
  <1>4. Typed /\ Woken /\ Rest => KBTypeOK
    BY DEF Woken, KBTypeOK
  <1> QED
    BY <1>1, <1>2, <1>3, <1>4, PTL DEF KBSpec

-----------------------------------------------------------------------------
(***************************************************************************)
(* The idea box.  The link of a promoted idea is to a card that was new    *)
(* when it was promoted, so no two ideas share one that no PUT has claimed *)
(* (a claimed card exists), and a request at work still finds the card as  *)
(* it left it: nothing else runs in between.                               *)
(***************************************************************************)
Promoted(i) == ideas[i].status = "kanban" /\ ideas[i].link \notin claimed

Boxed ==
  /\ IBTypeOK /\ PromotedHasCard
  /\ \A i, j \in Idea : Promoted(i) /\ Promoted(j) /\ ideas[i].link = ideas[j].link => i = j
  /\ pending.op = "link" =>
       /\ pending.idea \in Idea /\ board[pending.card] = "live" /\ pending.card \notin claimed
       /\ \A i \in Idea : Promoted(i) => ideas[i].link # pending.card
  /\ pending.op \in {"archive", "delete"} =>
       \A i \in Idea : Promoted(i) => ideas[i].link # pending.card
  /\ \A c \in claimed \cap BoardCard : board[c] # "none"

LEMMA IdeaBoxed ==
    ASSUME Boxed, NEW i \in Idea,
           \/ CreateIdea(i) \/ DeleteIdea(i) \/ RevertIdea(i)
    PROVE  Boxed'
  <1>1. pending = NoRequest /\ UNCHANGED <<board, pending, claimed>>
    BY DEF CreateIdea, DeleteIdea, RevertIdea, Quiet
  <1>2. /\ ideas' \in [Idea -> [status : IdeaStatuses, link : BoardCard \cup {NoLink}]]
        /\ \A j \in Idea : j # i => ideas'[j] = ideas[j]
        /\ ideas'[i].status # "kanban"
    BY DEF CreateIdea, DeleteIdea, RevertIdea, Boxed, IBTypeOK, IdeaStatuses
  <1>3. \A j \in Idea : Promoted(j)' => Promoted(j) /\ ideas'[j] = ideas[j]
    BY <1>1, <1>2 DEF Promoted
  <1> QED
    BY <1>1, <1>2, <1>3 DEF Boxed, IBTypeOK, PromotedHasCard, Promoted, NoRequest

\* A PUT that makes an idea count as promoted claims its card.
LEMMA UpdateBoxed ==
    ASSUME Boxed, NEW i \in Idea, NEW s \in IdeaStatuses \ {"none"}, NEW l \in BoardCard \cup {NoLink},
           UpdateIdea(i, s, l)
    PROVE  Boxed'
  <1>1. /\ pending = NoRequest /\ UNCHANGED <<board, pending>> /\ claimed \subseteq claimed'
        /\ claimed' \subseteq claimed \cup {l} /\ (l \in BoardCard => board[l] # "none")
    BY DEF UpdateIdea, Quiet
  <1>2. /\ ideas' \in [Idea -> [status : IdeaStatuses, link : BoardCard \cup {NoLink}]]
        /\ \A j \in Idea : j # i => ideas'[j] = ideas[j]
        /\ ideas'[i] = [status |-> s, link |-> l]
    BY DEF UpdateIdea, Boxed, IBTypeOK
  <1>3. Promoted(i)' => ideas'[i] = ideas[i]
    BY <1>2 DEF UpdateIdea, Promoted
  <1>4. \A j \in Idea : Promoted(j)' => Promoted(j) /\ ideas'[j] = ideas[j]
    BY <1>1, <1>2, <1>3 DEF Promoted
  <1>5. IBTypeOK'
    BY <1>1, <1>2 DEF Boxed, IBTypeOK
  <1>6. PromotedHasCard'
    BY <1>1, <1>4 DEF Boxed, PromotedHasCard, Promoted
  <1> QED
    BY <1>1, <1>4, <1>5, <1>6 DEF Boxed, NoRequest

\* The card is new, so no promoted idea has it.
LEMMA PromoteBoxed ==
    ASSUME Boxed, NEW i \in Idea, NEW c \in BoardCard, Promote(i, c)
    PROVE  Boxed'
  <1>1. board[c] = "none" /\ board' = [board EXCEPT ![c] = "live"] /\ UNCHANGED <<ideas, claimed>>
        /\ pending' = [op |-> "link", idea |-> i, card |-> c]
    BY DEF Promote
  <1>2. \A j \in Idea : Promoted(j) => ideas[j].link # c
    BY <1>1 DEF Boxed, PromotedHasCard, Promoted
  <1>3. IBTypeOK'
    BY <1>1 DEF Boxed, IBTypeOK, Statements
  <1>4. board'[c] = "live" /\ \A d \in BoardCard : d # c => board'[d] = board[d]
    BY <1>1 DEF Boxed, IBTypeOK
  <1>5. PromotedHasCard'
    BY <1>1, <1>4 DEF Boxed, PromotedHasCard
  <1>6. c \notin claimed /\ \A d \in claimed \cap BoardCard : board'[d] # "none"
    BY <1>1, <1>4 DEF Boxed
  <1>7. \A j \in Idea : Promoted(j)' <=> Promoted(j)
    BY <1>1 DEF Promoted
  <1> QED
    BY <1>1, <1>2, <1>3, <1>4, <1>5, <1>6, <1>7 DEF Boxed

LEMMA LinkBoxed == ASSUME Boxed, LinkIdea PROVE Boxed'
  <1>0. pending.idea \in Idea /\ pending.card \in BoardCard
    BY DEF LinkIdea, Boxed, IBTypeOK, Statements, NoRequest
  <1>1. PICK i \in Idea, c \in BoardCard :
          /\ ideas' = [ideas EXCEPT ![i] = [status |-> "kanban", link |-> c]]
          /\ board[c] = "live" /\ c \notin claimed /\ \A j \in Idea : Promoted(j) => ideas[j].link # c
    BY <1>0 DEF LinkIdea, Boxed
  <1>2. pending' = NoRequest /\ UNCHANGED <<board, claimed>>
    BY DEF LinkIdea
  <1>3. IBTypeOK'
    BY <1>1, <1>2 DEF Boxed, IBTypeOK, IdeaStatuses
  <1>4. ideas'[i] = [status |-> "kanban", link |-> c] /\ \A j \in Idea : j # i => ideas'[j] = ideas[j]
    BY <1>1 DEF Boxed, IBTypeOK
  <1>5. PromotedHasCard'
    BY <1>1, <1>2, <1>4 DEF Boxed, PromotedHasCard
  <1>6. \A j, k \in Idea : (Promoted(j) /\ Promoted(k) /\ ideas[j].link = ideas[k].link)' => j = k
    BY <1>1, <1>2, <1>4 DEF Boxed, Promoted
  <1> QED
    BY <1>2, <1>3, <1>5, <1>6 DEF Boxed, NoRequest

\* The one idea that is on the board as this card is taken back with it.
LEMMA TakeOffBoxed ==
    ASSUME Boxed, NEW c \in BoardCard, NEW op \in {"archive", "delete"}, TakeOff(c, op)
    PROVE  Boxed'
  <1>1. ideas' \in Reverted(c) /\ pending' = [op |-> op, idea |-> NoIdea, card |-> c] /\ UNCHANGED <<board, claimed>>
    BY DEF TakeOff
  <1>2. /\ ideas' \in [Idea -> [status : IdeaStatuses, link : BoardCard \cup {NoLink}]]
        /\ \A j \in Idea : Promoted(j)' => Promoted(j) /\ ideas'[j] = ideas[j] /\ ideas[j].link # c
    <2> DEFINE S == {i \in Idea : ideas[i].status = "kanban" /\ ideas[i].link = c}
    <2>1. CASE S = {}
      BY <1>1, <2>1 DEF Reverted, Boxed, IBTypeOK, Promoted
    <2>2. CASE S # {}
      <3>1. PICK i \in S : ideas' = [ideas EXCEPT ![i] = [status |-> "reviewed", link |-> NoLink]]
        BY <1>1, <2>2 DEF Reverted
      <3>2. \A j \in Idea : Promoted(j) /\ ideas[j].link = c => j = i
        BY <3>1 DEF Boxed, Promoted
      <3>3. ideas'[i].status = "reviewed" /\ \A j \in Idea : j # i => ideas'[j] = ideas[j]
        BY <3>1 DEF Boxed, IBTypeOK
      <3>4. ideas' \in [Idea -> [status : IdeaStatuses, link : BoardCard \cup {NoLink}]]
        BY <3>1 DEF Boxed, IBTypeOK, IdeaStatuses
      <3> QED
        BY <1>1, <3>2, <3>3, <3>4 DEF Promoted
    <2> QED
      BY <2>1, <2>2
  <1>3. IBTypeOK'
    BY <1>1, <1>2 DEF Boxed, IBTypeOK, Statements
  <1>4. PromotedHasCard'
    BY <1>1, <1>2 DEF Boxed, PromotedHasCard, Promoted
  <1> QED
    BY <1>1, <1>2, <1>3, <1>4 DEF Boxed, Promoted

LEMMA CardBoxed == ASSUME Boxed, ArchiveOrDelete \/ \E c \in BoardCard : PutAside(c) \/ Unarchive(c)
                   PROVE  Boxed'
  <1>1. UNCHANGED <<ideas, claimed>> /\ pending' = NoRequest
    BY DEF ArchiveOrDelete, PutAside, Unarchive, Quiet
  <1>2. IBTypeOK'
    BY <1>1 DEF Boxed, IBTypeOK, ArchiveOrDelete, PutAside, Unarchive, Statements, NoRequest
  <1>3. PromotedHasCard'
    <2> SUFFICES ASSUME NEW i \in Idea, Promoted(i)
                 PROVE  ideas[i].link \in BoardCard /\ board'[ideas[i].link] \in {"live", "aside"}
      BY <1>1 DEF PromotedHasCard, Promoted
    <2>1. ideas[i].link \in BoardCard /\ board[ideas[i].link] \in {"live", "aside"}
      BY DEF Boxed, PromotedHasCard, Promoted
    <2>2. CASE ArchiveOrDelete
      <3>1. ideas[i].link # pending.card
        BY <2>2 DEF ArchiveOrDelete, Boxed
      <3> QED
        BY <2>1, <2>2, <3>1 DEF ArchiveOrDelete, Boxed, IBTypeOK
    <2>3. CASE \E c \in BoardCard : PutAside(c) \/ Unarchive(c)
      BY <2>1, <2>3 DEF PutAside, Unarchive, Boxed, IBTypeOK
    <2> QED
      BY <2>2, <2>3
  <1>4. \A c \in claimed \cap BoardCard : board'[c] # "none"
    BY DEF Boxed, IBTypeOK, ArchiveOrDelete, PutAside, Unarchive
  <1> QED
    BY <1>1, <1>2, <1>3, <1>4 DEF Boxed, Promoted, NoRequest

LEMMA IdeasBoxed == ASSUME Boxed, [IBNext]_ibVars PROVE Boxed'
  <1>1. CASE UNCHANGED ibVars \/ CrashMidway
    BY <1>1 DEF Boxed, IBTypeOK, PromotedHasCard, Promoted, NoRequest, ibVars, CrashMidway
  <1> QED
    BY <1>1, IdeaBoxed, UpdateBoxed, PromoteBoxed, LinkBoxed, TakeOffBoxed, CardBoxed DEF IBNext

\* A promoted idea has its card, whatever was promoted again, taken back or cut
\* short by a crash, for any number of ideas and cards.
THEOREM IdeasHaveCards == IBSpec => [](IBTypeOK /\ PromotedHasCard)
  <1>1. IBInit => Boxed
    BY DEF IBInit, Boxed, IBTypeOK, IdeaStatuses, PromotedHasCard, Promoted, NoRequest
  <1>2. Boxed /\ [IBNext]_ibVars => Boxed'
    BY IdeasBoxed
  <1>3. Boxed => IBTypeOK /\ PromotedHasCard
    BY DEF Boxed
  <1> QED
    BY <1>1, <1>2, <1>3, PTL DEF IBSpec
=============================================================================
