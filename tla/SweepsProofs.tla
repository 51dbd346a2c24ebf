---------------------------- MODULE SweepsProofs -----------------------------
(* Theorems about the two timers that type into a session: the cron scheduler *)
(* (ScheduleRunner) and the context guard (ContextGuard), for any value of    *)
(* their constants.                                                           *)
EXTENDS ScheduleRunner, ContextGuard, FiniteSetTheorems, TLAPS

(***************************************************************************)
(* What an attempt, a tick and the clock look like                         *)
(***************************************************************************)
Attempts == [pc : {"loop", "try", "sending", "typed"}, task : Tasks, agent : Agents,
             left : SUBSET Agents, whole : SUBSET Agents, at : Nat]
Ticks == [pc : {"rows", "cron"}, now : Nat, from : Int, defs : [Tasks -> {"on", "off", "gone"}],
          keys : SUBSET Keys, task : SUBSET Tasks, rows : SUBSET Keys, todo : SUBSET Tasks]

\* the tick makes an attempt in its retry loop or for the due task it is at
InLoop == att["tick"] # Idle => \/ tick.pc = "rows" /\ att["tick"].pc # "loop"
                                \/ tick.pc = "cron" /\ tick.task # {}

Timed ==
  /\ lastCheck \in Int /\ lastPersist \in Int /\ lastCheck <= clock
  /\ tick # Idle => tick.now <= clock /\ tick.from <= clock
  /\ \A x \in Actors : att[x] # Idle => att[x].at <= clock
  /\ DOMAIN scan = Tasks /\ \A t \in Tasks : scan[t].from \in Int /\ scan[t].from <= clock

Down == ~up => tick = Idle /\ \A x \in Actors : att[x] = Idle

Shaped ==
  /\ att \in [Actors -> {Idle} \cup Attempts] /\ tick \in {Idle} \cup Ticks
  /\ InLoop

Stored ==
  /\ clock \in Nat /\ up \in BOOLEAN /\ sess \in [Agents -> Sessions]
  /\ defs \in [Tasks -> {"on", "off", "gone"}]
  /\ lastRun \in [Tasks -> 0..clock] /\ stamp \in 0..clock
  /\ retry \subseteq Keys /\ oblig \in [Keys -> 0..clock] /\ inflight \in [Keys -> 0..clock]
  /\ trace \in [Keys -> 0..clock] /\ excess \in [Keys -> Int]

TypeInv == Stored /\ Shaped /\ Timed /\ Down

LEMMA TypesFollow == TypeInv => TypeOK
  BY DEF TypeInv, Stored, Shaped, TypeOK, Attempts, Ticks, Idle

LEMMA TaskShape ==
    ASSUME NEW t \in Tasks
    PROVE  /\ Task[t].agent \in Agents /\ Task[t].all \in BOOLEAN /\ Task[t].output \in BOOLEAN
           /\ Task[t].due \subseteq Nat /\ IsFiniteSet(Task[t].due)
  BY ScheduleAssumption DEF Tasks

LEMMA TargetsAreAgents ==
    ASSUME NEW t \in Tasks
    PROVE  Targets(t) \subseteq Agents
  BY TaskShape, ScheduleAssumption DEF Targets

LEMMA Working ==
    ASSUME TypeInv, NEW x \in Actors, att[x].pc \in {"loop", "try", "sending", "typed"}
    PROVE  /\ att[x] \in Attempts /\ att[x] # Idle /\ Key(x) \in Keys /\ up
           /\ att[x].at <= clock /\ att[x].task \in Tasks /\ att[x].agent \in Agents
  <1>1. att[x] \in Attempts /\ att[x] # Idle
    BY DEF TypeInv, Shaped, Idle
  <1>2. up
    BY <1>1 DEF TypeInv, Down, Stored
  <1> QED
    BY <1>1, <1>2 DEF TypeInv, Timed, Attempts, Key, Keys

\* how an attempt ends: for a row, for the operator, or on to the next target
Resumes(x) == [att[x] EXCEPT !.pc = "loop", !.left = @ \ {att[x].agent}]
LEMMA ReturnedCases ==
    ASSUME TypeInv, NEW x \in Actors, att[x].pc \in {"try", "sending", "typed"}, Returned(x)
    PROVE  \/ ForRow(x) /\ att' = [att EXCEPT ![x] = Idle] /\ tick' = [tick EXCEPT !.rows = @ \ {Key(x)}]
           \/ x = "runNow" /\ att' = [att EXCEPT ![x] = Idle] /\ tick' = tick
           \/ ~ForRow(x) /\ att' = [att EXCEPT ![x] = Resumes(x)] /\ tick' = tick
  BY DEF Returned, Resumes, ForRow

LEMMA ReturnedShape ==
    ASSUME TypeInv, NEW x \in Actors, att[x].pc \in {"try", "sending", "typed"}, Returned(x)
    PROVE  /\ Shaped' /\ \A y \in Actors : att'[y] # Idle => att[y] # Idle /\ att'[y].at = att[y].at
           /\ tick' # Idle => tick # Idle /\ tick'.now = tick.now /\ tick'.from = tick.from
           /\ tick = Idle => tick' = Idle
  <1>w. att[x] \in Attempts /\ Key(x) \in Keys
    BY Working
  <1>t. att \in [Actors -> {Idle} \cup Attempts] /\ tick \in {Idle} \cup Ticks /\ InLoop
    BY DEF TypeInv, Shaped
  <1>1. CASE ForRow(x) /\ att' = [att EXCEPT ![x] = Idle] /\ tick' = [tick EXCEPT !.rows = @ \ {Key(x)}]
    <2>1. tick \in Ticks /\ x = "tick"
      BY <1>1, <1>t DEF ForRow, Idle
    <2>2. tick' \in Ticks /\ tick' # Idle /\ tick # Idle /\ tick'.now = tick.now /\ tick'.from = tick.from
      BY <2>1, <1>1 DEF Ticks, Idle
    <2> QED
      BY <2>1, <2>2, <1>1, <1>t DEF Shaped, InLoop
  <1>2. CASE x = "runNow" /\ att' = [att EXCEPT ![x] = Idle] /\ tick' = tick
    BY <1>2, <1>t DEF Shaped, InLoop, Actors
  <1>3. CASE ~ForRow(x) /\ att' = [att EXCEPT ![x] = Resumes(x)] /\ tick' = tick
    <2>1. Resumes(x) \in Attempts /\ Resumes(x) # Idle /\ Resumes(x).at = att[x].at /\ att[x] # Idle
      <3>1. PICK r : r = att[x]
        OBVIOUS
      <3>2. r \in Attempts /\ att[x].left = r.left /\ att[x].agent = r.agent
        BY <3>1, <1>w
      <3>3. Resumes(x) = [r EXCEPT !.pc = "loop", !.left = r.left \ {r.agent}]
        BY <3>1 DEF Resumes
      <3>4. Resumes(x) \in Attempts /\ Resumes(x).at = r.at
        BY <3>2, <3>3 DEF Attempts
      <3>5. Resumes(x) # Idle /\ att[x] # Idle
        BY <3>4, <1>w DEF Attempts, Idle
      <3> QED
        BY <3>1, <3>4, <3>5
    <2> QED
      BY <2>1, <1>3, <1>t DEF Shaped, InLoop, ForRow
  <1> QED
    BY <1>1, <1>2, <1>3, ReturnedCases

\* the five ways in which an attempt ends without a prompt
Undelivered(x) ==
  /\ up /\ att[x].pc \in {"try", "sending"} /\ Returned(x)
  /\ \E rows \in {retry, retry \cup {Key(x)}} :
       \/ x = "tick" /\ tick.pc = "cron" /\ retry' = rows /\ trace' = [trace EXCEPT ![Key(x)] = clock]
       \/ ForRow(x) /\ retry' = rows /\ trace' = trace
       \/ ~ForRow(x) /\ retry' = rows \cup {Key(x)} /\ trace' = trace
  /\ \/ att[x].pc = "try" /\ oblig' = oblig
     \/ att[x].pc = "sending" /\ oblig' = IF oblig[Key(x)] = att[x].at THEN [oblig EXCEPT ![Key(x)] = 0] ELSE oblig
  /\ sess' \in [Agents -> Sessions]
  /\ UNCHANGED <<clock, up, defs, lastRun, stamp, inflight, lastCheck, lastPersist, scan, excess>>

LEMMA DeferredCases ==
    ASSUME NEW x \in Actors, NEW busy \in BOOLEAN, NEW rows \in {retry, retry \cup {Key(x)}}, Deferred(x, busy, rows)
    PROVE  /\ Returned(x)
           /\ \/ x = "tick" /\ tick.pc = "cron" /\ retry' = rows /\ trace' = [trace EXCEPT ![Key(x)] = clock]
              \/ ForRow(x) /\ retry' = rows /\ trace' = trace
              \/ ~ForRow(x) /\ retry' = rows \cup {Key(x)} /\ trace' = trace
  BY Zenon DEF Deferred

LEMMA EndsUndelivered ==
    ASSUME TypeInv, NEW x \in Actors, NotReady(x) \/ Starting(x) \/ Unavailable(x) \/ PreSendSkip(x) \/ SendFails(x)
    PROVE  Undelivered(x)
  <1>s. sess \in [Agents -> Sessions]
    BY DEF TypeInv, Stored
  <1>1. CASE NotReady(x)
    <2>1. PICK busy \in BOOLEAN : busy = (Pane(x) # "firstRun")
      OBVIOUS
    <2>2. Deferred(x, busy, retry) /\ att[x].pc = "try" /\ up
      BY <1>1, <2>1 DEF NotReady
    <2>3. UNCHANGED <<clock, up, sess, defs, lastRun, stamp, oblig, inflight, lastCheck, lastPersist, scan, excess>>
      BY <1>1 DEF NotReady
    <2> QED
      BY <2>2, <2>3, <1>s, DeferredCases DEF Undelivered
  <1>2. CASE Starting(x)
    <2>2. Deferred(x, FALSE, retry) /\ att[x].pc = "try" /\ up
      BY <1>2 DEF Starting
    <2>3. UNCHANGED <<clock, up, defs, lastRun, stamp, oblig, inflight, lastCheck, lastPersist, scan, excess>>
      BY <1>2 DEF Starting
    <2>4. sess' \in [Agents -> Sessions]
      BY <1>s, <1>2 DEF Starting, Sessions
    <2> QED
      BY <2>2, <2>3, <2>4, DeferredCases DEF Undelivered
  <1>3. CASE Unavailable(x)
    <2>2. Deferred(x, FALSE, retry) /\ att[x].pc = "try" /\ up
      BY <1>3 DEF Unavailable
    <2>3. UNCHANGED <<clock, up, sess, defs, lastRun, stamp, oblig, inflight, lastCheck, lastPersist, scan, excess>>
      BY <1>3 DEF Unavailable
    <2> QED
      BY <2>2, <2>3, <1>s, DeferredCases DEF Undelivered
  <1>4. CASE PreSendSkip(x)
    <2>2. Deferred(x, TRUE, retry \cup {Key(x)}) /\ att[x].pc = "try" /\ up
      BY <1>4 DEF PreSendSkip
    <2>3. UNCHANGED <<clock, up, sess, defs, lastRun, stamp, oblig, inflight, lastCheck, lastPersist, scan, excess>>
      BY <1>4 DEF PreSendSkip
    <2> QED
      BY <2>2, <2>3, <1>s, DeferredCases DEF Undelivered
  <1>5. CASE SendFails(x)
    <2>2. Deferred(x, FALSE, retry) /\ att[x].pc = "sending" /\ up
      BY <1>5 DEF SendFails
    <2>3. UNCHANGED <<clock, up, sess, defs, lastRun, stamp, inflight, lastCheck, lastPersist, scan, excess>>
      BY <1>5 DEF SendFails
    <2>4. oblig' = IF oblig[Key(x)] = att[x].at THEN [oblig EXCEPT ![Key(x)] = 0] ELSE oblig
      BY <1>5 DEF SendFails
    <2> QED
      BY <2>2, <2>3, <2>4, <1>s, DeferredCases DEF Undelivered
  <1> QED
    BY <1>1, <1>2, <1>3, <1>4, <1>5

LEMMA TypeInit == Init => TypeInv
  <1> SUFFICES ASSUME Init PROVE TypeInv
    OBVIOUS
  <1>1. ColdStart \in Nat /\ PersistEvery \in Nat
    BY ScheduleAssumption
  <1>2. CatchUpStart(0, ColdStart + 1) = 1
    BY <1>1 DEF CatchUpStart
  <1>3. Stored
    BY <1>1 DEF Init, Stored, Sessions
  <1>4. Shaped /\ Down
    BY DEF Init, Shaped, InLoop, Down, Actors
  <1>5. Timed
    BY <1>1, <1>2 DEF Init, Timed, NoScan, Idle
  <1> QED
    BY <1>3, <1>4, <1>5 DEF TypeInv

LEMMA WindowStart ==
    ASSUME NEW s \in Nat, NEW n \in Nat
    PROVE  CatchUpStart(s, n) \in Int /\ CatchUpStart(s, n) <= n
  <1>1. ColdStart \in Nat /\ CatchUpCap \in Nat
    BY ScheduleAssumption
  <1>2. CASE s = 0 \/ s > n
    BY <1>1, <1>2 DEF CatchUpStart
  <1>3. CASE ~(s = 0 \/ s > n)
    <2> DEFINE S == {s, n - CatchUpCap}
    <2>1. Max(S) \in S
      <3>1. \E m \in S : \A y \in S : m >= y
        BY <1>1
      <3> QED
        BY <3>1 DEF Max
    <2> QED
      BY <1>1, <1>3, <2>1 DEF CatchUpStart
  <1> QED
    BY <1>2, <1>3

LEMMA FewActors ==
    \A k \in Keys : /\ IsFiniteSet({x \in Actors : att[x].pc = "typed" /\ Key(x) = k})
                    /\ Cardinality({x \in Actors : att[x].pc = "typed" /\ Key(x) = k}) \in Nat
  <1>1. IsFiniteSet({}) /\ Actors = ({} \cup {"tick"}) \cup {"runNow"}
    BY FS_EmptySet DEF Actors
  <1>2. IsFiniteSet({} \cup {"tick"})
    BY <1>1, FS_AddElement
  <1>3. IsFiniteSet(({} \cup {"tick"}) \cup {"runNow"})
    BY <1>2, FS_AddElement
  <1>4. IsFiniteSet(Actors)
    BY <1>1, <1>3
  <1> QED
    BY <1>4, FS_Subset, FS_CardinalityType

LEMMA TypeStep ==
    ASSUME TypeInv, [Next]_vars
    PROVE  TypeInv'
  <1>b. /\ att \in [Actors -> {Idle} \cup Attempts] /\ tick \in {Idle} \cup Ticks
        /\ \A y \in Actors : att[y] # Idle => att[y].at <= clock /\ att[y] \in Attempts
        /\ tick # Idle => tick \in Ticks /\ tick.now <= clock /\ tick.from <= clock
        /\ clock \in Nat
    BY DEF TypeInv, Stored, Shaped, Timed
  <1>a. "tick" \in Actors /\ "runNow" \in Actors /\ DOMAIN att = Actors
    BY DEF TypeInv, Shaped, Actors
  <1>s. Stored /\ Shaped /\ Timed /\ Down
    BY DEF TypeInv
  <1>t. tick.pc \in {"rows", "cron"} \/ tick # Idle \/ att["tick"].pc # "idle" =>
           /\ tick \in Ticks /\ tick # Idle /\ tick.now \in Nat /\ tick.from \in Int /\ up
               /\ tick.now <= clock /\ tick.from <= clock
    BY <1>s DEF Stored, Shaped, Timed, Down, InLoop, Ticks, Idle
  <1>i. \A r \in Ticks \cup Attempts : r # Idle
    BY DEF Ticks, Attempts, Idle
  <1>1. ASSUME NEW k \in Keys, RowDropped(k) PROVE TypeInv'
    <2>1. Stored'
      BY <1>1, <1>a, <1>b, <1>s, <1>t, <1>i DEF Stored, RowDropped, NextRow
    <2>2. tick' \in {Idle} \cup Ticks /\ (tick' # Idle => tick' \in Ticks /\ tick'.now <= clock' /\ tick'.from <= clock')
      BY <1>1, <1>a, <1>b, <1>s, <1>t, <1>i DEF Ticks, RowDropped, NextRow
    <2>3. att' \in [Actors -> {Idle} \cup Attempts] /\ \A y \in Actors : att'[y] # Idle => att'[y].at <= clock'
      BY <1>1, <1>a, <1>b, <1>s, <1>t, <1>i DEF Attempts, RowDropped, NextRow
    <2>4. Shaped'
      BY <1>1, <1>a, <1>b, <1>s, <1>t, <1>i, <2>2, <2>3 DEF Shaped, InLoop, RowDropped, NextRow
    <2>5. Timed' /\ Down'
      BY <1>1, <1>a, <1>b, <1>s, <1>t, <1>i, <2>2, <2>3 DEF Timed, Down, RowDropped, NextRow
    <2> QED
      BY <2>1, <2>4, <2>5 DEF TypeInv
  <1>2. ASSUME NEW k \in Keys, RowSkipped(k) PROVE TypeInv'
    <2>1. Stored'
      BY <1>2, <1>a, <1>b, <1>s, <1>t, <1>i DEF Stored, RowSkipped, NextRow
    <2>2. tick' \in {Idle} \cup Ticks /\ (tick' # Idle => tick' \in Ticks /\ tick'.now <= clock' /\ tick'.from <= clock')
      BY <1>2, <1>a, <1>b, <1>s, <1>t, <1>i DEF Ticks, RowSkipped, NextRow
    <2>3. att' \in [Actors -> {Idle} \cup Attempts] /\ \A y \in Actors : att'[y] # Idle => att'[y].at <= clock'
      BY <1>2, <1>a, <1>b, <1>s, <1>t, <1>i DEF Attempts, RowSkipped, NextRow
    <2>4. Shaped'
      BY <1>2, <1>a, <1>b, <1>s, <1>t, <1>i, <2>2, <2>3 DEF Shaped, InLoop, RowSkipped, NextRow
    <2>5. Timed' /\ Down'
      BY <1>2, <1>a, <1>b, <1>s, <1>t, <1>i, <2>2, <2>3 DEF Timed, Down, RowSkipped, NextRow
    <2> QED
      BY <2>1, <2>4, <2>5 DEF TypeInv
  <1>3. ASSUME NEW k \in Keys, RowTried(k) PROVE TypeInv'
    <2>1. Stored'
      BY <1>3, <1>a, <1>b, <1>s, <1>t, <1>i DEF Stored, RowTried, NextRow, durable, history, Keys
    <2>2. tick' \in {Idle} \cup Ticks /\ (tick' # Idle => tick' \in Ticks /\ tick'.now <= clock' /\ tick'.from <= clock')
      BY <1>3, <1>a, <1>b, <1>s, <1>t, <1>i DEF Ticks, RowTried, NextRow, durable, history, Keys
    <2>3. att' \in [Actors -> {Idle} \cup Attempts] /\ \A y \in Actors : att'[y] # Idle => att'[y].at <= clock'
      BY <1>3, <1>a, <1>b, <1>s, <1>t, <1>i DEF Attempts, RowTried, NextRow, durable, history, Keys
    <2>4. Shaped'
      BY <1>3, <1>a, <1>b, <1>s, <1>t, <1>i, <2>2, <2>3 DEF Shaped, InLoop, RowTried, NextRow, durable, history, Keys
    <2>5. Timed' /\ Down'
      BY <1>3, <1>a, <1>b, <1>s, <1>t, <1>i, <2>2, <2>3 DEF Timed, Down, RowTried, NextRow, durable, history, Keys
    <2> QED
      BY <2>1, <2>4, <2>5 DEF TypeInv
  <1>4. ASSUME RowsDone PROVE TypeInv'
    <2>1. Stored'
      BY <1>4, <1>a, <1>b, <1>s, <1>t, <1>i DEF Stored, RowsDone, durable, history
    <2>2. tick' \in {Idle} \cup Ticks /\ (tick' # Idle => tick' \in Ticks /\ tick'.now <= clock' /\ tick'.from <= clock')
      BY <1>4, <1>a, <1>b, <1>s, <1>t, <1>i DEF Ticks, RowsDone, durable, history
    <2>3. att' \in [Actors -> {Idle} \cup Attempts] /\ \A y \in Actors : att'[y] # Idle => att'[y].at <= clock'
      BY <1>4, <1>a, <1>b, <1>s, <1>t, <1>i DEF Attempts, RowsDone, durable, history
    <2>4. Shaped'
      BY <1>4, <1>a, <1>b, <1>s, <1>t, <1>i, <2>2, <2>3 DEF Shaped, InLoop, RowsDone, durable, history
    <2>5. Timed' /\ Down'
      BY <1>4, <1>a, <1>b, <1>s, <1>t, <1>i, <2>2, <2>3 DEF Timed, Down, RowsDone, durable, history
    <2> QED
      BY <2>1, <2>4, <2>5 DEF TypeInv
  <1>5. ASSUME DueDone PROVE TypeInv'
    <2>1. Stored'
      BY <1>5, <1>a, <1>b, <1>s, <1>t, <1>i DEF Stored, DueDone, Scanned, durable
    <2>2. tick' \in {Idle} \cup Ticks /\ (tick' # Idle => tick' \in Ticks /\ tick'.now <= clock' /\ tick'.from <= clock')
      BY <1>5, <1>a, <1>b, <1>s, <1>t, <1>i DEF Ticks, DueDone, Scanned, durable
    <2>3. att' \in [Actors -> {Idle} \cup Attempts] /\ \A y \in Actors : att'[y] # Idle => att'[y].at <= clock'
      BY <1>5, <1>a, <1>b, <1>s, <1>t, <1>i DEF Attempts, DueDone, Scanned, durable
    <2>4. Shaped'
      BY <1>5, <1>a, <1>b, <1>s, <1>t, <1>i, <2>2, <2>3 DEF Shaped, InLoop, DueDone, Scanned, durable
    <2>5. Timed' /\ Down'
      BY <1>5, <1>a, <1>b, <1>s, <1>t, <1>i, <2>2, <2>3 DEF Stored, Timed, Down, DueDone, Scanned, durable
    <2> QED
      BY <2>1, <2>4, <2>5 DEF TypeInv
  <1>6. ASSUME TickEnd PROVE TypeInv'
    <2>1. Stored'
      BY <1>6, <1>a, <1>b, <1>s, <1>t, <1>i DEF Stored, TickEnd, history
    <2>2. tick' \in {Idle} \cup Ticks /\ (tick' # Idle => tick' \in Ticks /\ tick'.now <= clock' /\ tick'.from <= clock')
      BY <1>6, <1>a, <1>b, <1>s, <1>t, <1>i DEF Ticks, TickEnd, history
    <2>3. att' \in [Actors -> {Idle} \cup Attempts] /\ \A y \in Actors : att'[y] # Idle => att'[y].at <= clock'
      BY <1>6, <1>a, <1>b, <1>s, <1>t, <1>i DEF Attempts, TickEnd, history
    <2>4. Shaped'
      BY <1>6, <1>a, <1>b, <1>s, <1>t, <1>i, <2>2, <2>3 DEF Shaped, InLoop, TickEnd, history
    <2>5. Timed' /\ Down'
      BY <1>6, <1>a, <1>b, <1>s, <1>t, <1>i, <2>2, <2>3 DEF Stored, Timed, Down, TickEnd, history
    <2> QED
      BY <2>1, <2>4, <2>5 DEF TypeInv
  <1>7. ASSUME NEW t \in Tasks, DueSuppressed(t) PROVE TypeInv'
    <2>1. Stored'
      BY <1>7, <1>a, <1>b, <1>s, <1>t, <1>i DEF Stored, DueSuppressed, NextDue, Scanned, durable
    <2>2. tick' \in {Idle} \cup Ticks /\ (tick' # Idle => tick' \in Ticks /\ tick'.now <= clock' /\ tick'.from <= clock')
      BY <1>7, <1>a, <1>b, <1>s, <1>t, <1>i DEF Ticks, DueSuppressed, NextDue, Scanned, durable
    <2>3. att' \in [Actors -> {Idle} \cup Attempts] /\ \A y \in Actors : att'[y] # Idle => att'[y].at <= clock'
      BY <1>7, <1>a, <1>b, <1>s, <1>t, <1>i DEF Attempts, DueSuppressed, NextDue, Scanned, durable
    <2>4. Shaped'
      BY <1>7, <1>a, <1>b, <1>s, <1>t, <1>i, <2>2, <2>3 DEF Shaped, InLoop, DueSuppressed, NextDue, Scanned, durable
    <2>5. Timed' /\ Down'
      BY <1>7, <1>a, <1>b, <1>s, <1>t, <1>i, <2>2, <2>3 DEF Timed, Down, DueSuppressed, NextDue, Scanned, durable
    <2> QED
      BY <2>1, <2>4, <2>5 DEF TypeInv
  <1>8. ASSUME NEW t \in Tasks, DueStale(t) PROVE TypeInv'
    <2>1. Stored'
      BY <1>8, <1>a, <1>b, <1>s, <1>t, <1>i DEF Stored, DueStale, NextDue, Scanned, Logged, durable
    <2>2. tick' \in {Idle} \cup Ticks /\ (tick' # Idle => tick' \in Ticks /\ tick'.now <= clock' /\ tick'.from <= clock')
      BY <1>8, <1>a, <1>b, <1>s, <1>t, <1>i DEF Ticks, DueStale, NextDue, Scanned, Logged, durable
    <2>3. att' \in [Actors -> {Idle} \cup Attempts] /\ \A y \in Actors : att'[y] # Idle => att'[y].at <= clock'
      BY <1>8, <1>a, <1>b, <1>s, <1>t, <1>i DEF Attempts, DueStale, NextDue, Scanned, Logged, durable
    <2>4. Shaped'
      BY <1>8, <1>a, <1>b, <1>s, <1>t, <1>i, <2>2, <2>3 DEF Shaped, InLoop, DueStale, NextDue, Scanned, Logged, durable
    <2>5. Timed' /\ Down'
      BY <1>8, <1>a, <1>b, <1>s, <1>t, <1>i, <2>2, <2>3 DEF Timed, Down, DueStale, NextDue, Scanned, Logged, durable
    <2> QED
      BY <2>1, <2>4, <2>5 DEF TypeInv
  <1>9. ASSUME NEW t \in Tasks, DueSettled(t) PROVE TypeInv'
    <2>1. Stored'
      BY <1>9, <1>a, <1>b, <1>s, <1>t, <1>i DEF Stored, DueSettled, NextDue, Scanned, Logged
    <2>2. tick' \in {Idle} \cup Ticks /\ (tick' # Idle => tick' \in Ticks /\ tick'.now <= clock' /\ tick'.from <= clock')
      BY <1>9, <1>a, <1>b, <1>s, <1>t, <1>i DEF Ticks, DueSettled, NextDue, Scanned, Logged
    <2>3. att' \in [Actors -> {Idle} \cup Attempts] /\ \A y \in Actors : att'[y] # Idle => att'[y].at <= clock'
      BY <1>9, <1>a, <1>b, <1>s, <1>t, <1>i DEF Attempts, DueSettled, NextDue, Scanned, Logged
    <2>4. Shaped'
      BY <1>9, <1>a, <1>b, <1>s, <1>t, <1>i, <2>2, <2>3 DEF Shaped, InLoop, DueSettled, NextDue, Scanned, Logged
    <2>5. Timed' /\ Down'
      BY <1>9, <1>a, <1>b, <1>s, <1>t, <1>i, <2>2, <2>3 DEF Timed, Down, DueSettled, NextDue, Scanned, Logged
    <2> QED
      BY <2>1, <2>4, <2>5 DEF TypeInv
  <1>10. ASSUME NEW t \in Tasks, DueFires(t) PROVE TypeInv'
    <2>1. Stored'
      BY <1>10, <1>a, <1>b, <1>s, <1>t, <1>i, TargetsAreAgents, ScheduleAssumption DEF Stored, DueFires, NextDue, durable, history
    <2>2. tick' \in {Idle} \cup Ticks /\ (tick' # Idle => tick' \in Ticks /\ tick'.now <= clock' /\ tick'.from <= clock')
      BY <1>10, <1>a, <1>b, <1>s, <1>t, <1>i, TargetsAreAgents, ScheduleAssumption DEF Ticks, DueFires, NextDue, durable, history
    <2>3. att' \in [Actors -> {Idle} \cup Attempts] /\ \A y \in Actors : att'[y] # Idle => att'[y].at <= clock'
      BY <1>10, <1>a, <1>b, <1>s, <1>t, <1>i, TargetsAreAgents, ScheduleAssumption DEF Attempts, DueFires, NextDue, durable, history
    <2>4. Shaped'
      BY <1>10, <1>a, <1>b, <1>s, <1>t, <1>i, TargetsAreAgents, ScheduleAssumption, <2>2, <2>3 DEF Shaped, InLoop, DueFires, NextDue, durable, history
    <2>5. Timed' /\ Down'
      BY <1>10, <1>a, <1>b, <1>s, <1>t, <1>i, TargetsAreAgents, ScheduleAssumption, <2>2, <2>3 DEF Timed, Down, DueFires, NextDue, durable, history
    <2> QED
      BY <2>1, <2>4, <2>5 DEF TypeInv
  <1>11. ASSUME NEW a \in Agents, KeyHandled(a) PROVE TypeInv'
    <2>m. PICK v \in Attempts : v.at <= clock /\ v.pc = "loop" /\ att' = [att EXCEPT !["tick"] = v]
      <3>1. PICK r \in Attempts : r = att["tick"] /\ r.at <= clock
        BY <1>11, <1>a, Working DEF KeyHandled
      <3>2. att' = [att EXCEPT !["tick"] = [r EXCEPT !.left = r.left \ {a}]]
        BY <1>11, <3>1 DEF KeyHandled
      <3>3. r.left \ {r.agent} \in SUBSET Agents /\ r.left \ {a} \in SUBSET Agents
        BY DEF Attempts
      <3>4. PICK v : v = [r EXCEPT !.left = r.left \ {a}]
        OBVIOUS
      <3>6. clock \in Nat /\ v \in Attempts /\ v.at = r.at /\ v.pc = r.pc
        BY <1>b, <3>3, <3>4 DEF Attempts
      <3>5. v \in Attempts /\ v.at <= clock /\ v.pc = "loop"
        BY <1>11, <3>1, <3>6 DEF KeyHandled
      <3> QED
        BY <3>2, <3>4, <3>5
    <2>1. Stored'
      BY <1>11, <1>a, <1>b, <1>s, <1>t, <1>i, <2>m DEF Stored, KeyHandled, durable, history
    <2>2. tick' \in {Idle} \cup Ticks /\ (tick' # Idle => tick' \in Ticks /\ tick'.now <= clock' /\ tick'.from <= clock')
      BY <1>11, <1>a, <1>b, <1>s, <1>t, <1>i, <2>m DEF Ticks, KeyHandled, durable, history
    <2>3. att' \in [Actors -> {Idle} \cup Attempts] /\ \A y \in Actors : att'[y] # Idle => att'[y].at <= clock'
      BY <1>11, <1>a, <1>b, <1>s, <1>t, <1>i, <2>m DEF KeyHandled, durable, history
    <2>4. Shaped'
      BY <1>11, <1>a, <1>b, <1>s, <1>t, <1>i, <2>m, Working, <2>2, <2>3 DEF Shaped, InLoop, KeyHandled, durable, history
    <2>5. Timed' /\ Down'
      BY <1>11, <1>a, <1>b, <1>s, <1>t, <1>i, <2>m, Working, <2>2, <2>3 DEF Timed, Down, KeyHandled, durable, history
    <2> QED
      BY <2>1, <2>4, <2>5 DEF TypeInv
  <1>12. ASSUME NEW x \in Actors, NEW a \in Agents, Target(x, a) PROVE TypeInv'
    <2>m. PICK v \in Attempts : v.at <= clock /\ v.pc = "try" /\ att' = [att EXCEPT ![x] = v]
      <3>1. PICK r \in Attempts : r = att[x] /\ r.at <= clock
        BY <1>12, <1>a, Working DEF Target
      <3>2. att' = [att EXCEPT ![x] = [r EXCEPT !.pc = "try", !.agent = a]]
        BY <1>12, <3>1 DEF Target
      <3>3. r.left \ {r.agent} \in SUBSET Agents
        BY DEF Attempts
      <3>4. PICK v : v = [r EXCEPT !.pc = "try", !.agent = a]
        OBVIOUS
      <3>5. v \in Attempts /\ v.at <= clock /\ v.pc = "try"
        BY <1>b, <3>1, <3>3, <3>4 DEF Attempts
      <3> QED
        BY <3>2, <3>4, <3>5
    <2>1. Stored'
      BY <1>12, <1>a, <1>b, <1>s, <1>t, <1>i, <2>m DEF Stored, Target, durable, history
    <2>2. tick' \in {Idle} \cup Ticks /\ (tick' # Idle => tick' \in Ticks /\ tick'.now <= clock' /\ tick'.from <= clock')
      BY <1>12, <1>a, <1>b, <1>s, <1>t, <1>i, <2>m DEF Ticks, Target, durable, history
    <2>3. att' \in [Actors -> {Idle} \cup Attempts] /\ \A y \in Actors : att'[y] # Idle => att'[y].at <= clock'
      BY <1>12, <1>a, <1>b, <1>s, <1>t, <1>i, <2>m DEF Target, durable, history
    <2>4. Shaped'
      BY <1>12, <1>a, <1>b, <1>s, <1>t, <1>i, <2>m, Working, <2>2, <2>3 DEF Shaped, InLoop, Target, durable, history
    <2>5. Timed' /\ Down'
      BY <1>12, <1>a, <1>b, <1>s, <1>t, <1>i, <2>m, Working, <2>2, <2>3 DEF Timed, Down, Target, durable, history
    <2> QED
      BY <2>1, <2>4, <2>5 DEF TypeInv
  <1>13. ASSUME NEW x \in Actors, Undelivered(x) PROVE TypeInv'
    <2>m. Shaped' /\ UNCHANGED <<clock, up>> /\ \A y \in Actors : att'[y] # Idle => att'[y].at = att[y].at /\ att[y] # Idle
      BY <1>13, <1>b, ReturnedShape DEF Undelivered
    <2>1. Stored'
      BY <1>13, <1>a, <1>b, <1>s, <1>t, <1>i, <2>m, ReturnedShape, Working DEF Stored, Undelivered
    <2>2. tick' \in {Idle} \cup Ticks /\ (tick' # Idle => tick' \in Ticks /\ tick'.now <= clock' /\ tick'.from <= clock')
      BY <1>13, <1>a, <1>b, <1>s, <1>t, <1>i, <2>m, ReturnedShape, Working DEF Shaped, Undelivered
    <2>3. att' \in [Actors -> {Idle} \cup Attempts] /\ \A y \in Actors : att'[y] # Idle => att'[y].at <= clock'
      BY <1>13, <1>a, <1>b, <1>s, <1>t, <1>i, <2>m, ReturnedShape, Working DEF Shaped, Undelivered
    <2>4. Shaped'
      BY <1>13, <1>a, <1>b, <1>s, <1>t, <1>i, <2>m, ReturnedShape, Working, <2>2, <2>3 DEF Shaped, InLoop, Undelivered
    <2>5. Timed' /\ Down'
      BY <1>13, <1>a, <1>b, <1>s, <1>t, <1>i, <2>m, ReturnedShape, Working, <2>2, <2>3 DEF Timed, Down, Undelivered
    <2> QED
      BY <2>1, <2>4, <2>5 DEF TypeInv
  <1>14. ASSUME NEW x \in Actors, SendBegin(x) PROVE TypeInv'
    <2>m. PICK v \in Attempts : v.at <= clock /\ v.pc = "sending" /\ att' = [att EXCEPT ![x] = v]
      <3>1. PICK r \in Attempts : r = att[x] /\ r.at <= clock
        BY <1>14, <1>a, Working DEF SendBegin
      <3>2. att' = [att EXCEPT ![x] = [r EXCEPT !.pc = "sending", !.at = clock]]
        BY <1>14, <3>1 DEF SendBegin
      <3>3. r.left \ {r.agent} \in SUBSET Agents
        BY DEF Attempts
      <3>4. PICK v : v = [r EXCEPT !.pc = "sending", !.at = clock]
        OBVIOUS
      <3>6. clock \in Nat
        BY <1>b
      <3>7. v \in Attempts /\ v.at = clock /\ v.pc = "sending"
        BY <3>4, <3>6 DEF Attempts
      <3>5. v \in Attempts /\ v.at <= clock /\ v.pc = "sending"
        BY <3>6, <3>7
      <3> QED
        BY <3>2, <3>4, <3>5
    <2>1. Stored'
      BY <1>14, <1>a, <1>b, <1>s, <1>t, <1>i, <2>m, Working DEF Stored, SendBegin, history
    <2>2. tick' \in {Idle} \cup Ticks /\ (tick' # Idle => tick' \in Ticks /\ tick'.now <= clock' /\ tick'.from <= clock')
      BY <1>14, <1>a, <1>b, <1>s, <1>t, <1>i, <2>m, Working DEF Ticks, SendBegin, history
    <2>3. att' \in [Actors -> {Idle} \cup Attempts] /\ \A y \in Actors : att'[y] # Idle => att'[y].at <= clock'
      BY <1>14, <1>a, <1>b, <1>s, <1>t, <1>i, <2>m, Working DEF SendBegin, history
    <2>4. Shaped'
      BY <1>14, <1>a, <1>b, <1>s, <1>t, <1>i, <2>m, Working, <2>2, <2>3 DEF Shaped, InLoop, SendBegin, history
    <2>5. Timed' /\ Down'
      BY <1>14, <1>a, <1>b, <1>s, <1>t, <1>i, <2>m, Working, <2>2, <2>3 DEF Timed, Down, SendBegin, history
    <2> QED
      BY <2>1, <2>4, <2>5 DEF TypeInv
  <1>15. ASSUME NEW x \in Actors, NEW p \in {"ready", "busy"}, Typed(x, p) PROVE TypeInv'
    <2>1. Stored'
      BY <1>15, <1>a, <1>b, <1>s, <1>t, <1>i, Working DEF Stored, Typed, Sessions, durable
    <2>2. tick' \in {Idle} \cup Ticks /\ (tick' # Idle => tick' \in Ticks /\ tick'.now <= clock' /\ tick'.from <= clock')
      BY <1>15, <1>a, <1>b, <1>s, <1>t, <1>i, Working DEF Ticks, Typed, Sessions, durable
    <2>3. att' \in [Actors -> {Idle} \cup Attempts] /\ \A y \in Actors : att'[y] # Idle => att'[y].at <= clock'
      BY <1>15, <1>a, <1>b, <1>s, <1>t, <1>i, Working DEF Attempts, Typed, Sessions, durable
    <2>4. Shaped'
      BY <1>15, <1>a, <1>b, <1>s, <1>t, <1>i, Working, <2>2, <2>3 DEF Shaped, InLoop, Typed, Sessions, durable
    <2>5. Timed' /\ Down'
      BY <1>15, <1>a, <1>b, <1>s, <1>t, <1>i, Working, <2>2, <2>3 DEF Timed, Down, Typed, Sessions, durable
    <2> QED
      BY <2>1, <2>4, <2>5 DEF TypeInv
  <1>16. ASSUME NEW x \in Actors, Fired(x) PROVE TypeInv'
    <2>m. /\ Shaped' /\ UNCHANGED <<clock, up>> /\ \A y \in Actors : att'[y] # Idle => att'[y].at = att[y].at /\ att[y] # Idle
          /\ att[x].at \in 0..clock
      BY <1>16, <1>b, ReturnedShape, Working DEF Fired, Attempts
    <2>1. Stored'
      BY <1>16, <1>a, <1>b, <1>s, <1>t, <1>i, <2>m, ReturnedShape, Working DEF Stored, Fired
    <2>2. tick' \in {Idle} \cup Ticks /\ (tick' # Idle => tick' \in Ticks /\ tick'.now <= clock' /\ tick'.from <= clock')
      BY <1>16, <1>a, <1>b, <1>s, <1>t, <1>i, <2>m, ReturnedShape, Working DEF Shaped, Fired
    <2>3. att' \in [Actors -> {Idle} \cup Attempts] /\ \A y \in Actors : att'[y] # Idle => att'[y].at <= clock'
      BY <1>16, <1>a, <1>b, <1>s, <1>t, <1>i, <2>m, ReturnedShape, Working DEF Shaped, Fired
    <2>4. Shaped'
      BY <1>16, <1>a, <1>b, <1>s, <1>t, <1>i, <2>m, ReturnedShape, Working, <2>2, <2>3 DEF Shaped, InLoop, Fired
    <2>5. Timed' /\ Down'
      BY <1>16, <1>a, <1>b, <1>s, <1>t, <1>i, <2>m, ReturnedShape, Working, <2>2, <2>3 DEF Timed, Down, Fired
    <2> QED
      BY <2>1, <2>4, <2>5 DEF TypeInv
  <1>17. ASSUME NEW k \in Keys, GiveUp(k) PROVE TypeInv'
    BY <1>17, <1>a, <1>s, <1>i DEF TypeInv, Stored, Shaped, Timed, Down, InLoop, GiveUp, memory
  <1>18. ASSUME NEW t \in Tasks, RunNow(t) PROVE TypeInv'
    <2>1. Stored'
      BY <1>18, <1>a, <1>b, <1>s, <1>t, <1>i, TargetsAreAgents, ScheduleAssumption DEF Stored, RunNow, Logged
    <2>2. tick' \in {Idle} \cup Ticks /\ (tick' # Idle => tick' \in Ticks /\ tick'.now <= clock' /\ tick'.from <= clock')
      BY <1>18, <1>a, <1>b, <1>s, <1>t, <1>i, TargetsAreAgents, ScheduleAssumption DEF Ticks, RunNow, Logged
    <2>3. att' \in [Actors -> {Idle} \cup Attempts] /\ \A y \in Actors : att'[y] # Idle => att'[y].at <= clock'
      BY <1>18, <1>a, <1>b, <1>s, <1>t, <1>i, TargetsAreAgents, ScheduleAssumption DEF Attempts, RunNow, Logged
    <2>4. Shaped'
      BY <1>18, <1>a, <1>b, <1>s, <1>t, <1>i, TargetsAreAgents, ScheduleAssumption, <2>2, <2>3 DEF Shaped, InLoop, RunNow, Logged
    <2>5. Timed' /\ Down'
      BY <1>18, <1>a, <1>b, <1>s, <1>t, <1>i, TargetsAreAgents, ScheduleAssumption, <2>2, <2>3 DEF Timed, Down, RunNow, Logged
    <2> QED
      BY <2>1, <2>4, <2>5 DEF TypeInv
  <1>19. ASSUME NEW t \in Tasks, NEW d \in {"on", "off", "gone"}, SetDef(t, d) PROVE TypeInv'
    BY <1>19, <1>a, <1>s, <1>i DEF TypeInv, Stored, Shaped, Timed, Down, InLoop, SetDef, memory, history
  <1>20. ASSUME NEW k \in Keys, CancelRetry(k) PROVE TypeInv'
    BY <1>20, <1>a, <1>s, <1>i DEF TypeInv, Stored, Shaped, Timed, Down, InLoop, CancelRetry, memory
  <1>21. ASSUME Crash PROVE TypeInv'
    <2>m. \A k \in Keys : Cardinality({x \in Actors : att[x].pc = "typed" /\ Key(x) = k}) \in Nat
      BY FewActors
    <2>n. excess' \in [Keys -> Int]
      BY <1>21, <1>s, <2>m DEF Stored, Crash
    <2>1. Stored'
      <3>1. /\ UNCHANGED <<clock, sess, defs, lastRun, stamp, retry, oblig, trace>> /\ up' = FALSE
            /\ inflight' = [k \in Keys |-> 0]
        BY <1>21 DEF Crash, durable
      <3>2. clock \in Nat
        BY <1>b
      <3>3. inflight' \in [Keys -> 0..clock]
        <4>1. 0 \in 0..clock
          BY <3>2
        <4> QED
          BY <3>1, <4>1
      <3>4. /\ sess \in [Agents -> Sessions] /\ defs \in [Tasks -> {"on", "off", "gone"}]
            /\ lastRun \in [Tasks -> 0..clock] /\ stamp \in 0..clock /\ retry \subseteq Keys
            /\ oblig \in [Keys -> 0..clock] /\ trace \in [Keys -> 0..clock]
        BY <1>s DEF Stored
      <3>5. clock' = clock /\ up' \in BOOLEAN
        BY <3>1
      <3> QED
        BY <2>n, <3>1, <3>2, <3>3, <3>4, <3>5, Zenon DEF Stored
    <2>2. tick' \in {Idle} \cup Ticks /\ (tick' # Idle => tick' \in Ticks /\ tick'.now <= clock' /\ tick'.from <= clock')
      BY <1>21, <1>a, <1>b, <1>s, <1>t, <1>i, <2>m DEF Ticks, Crash, durable
    <2>3. att' \in [Actors -> {Idle} \cup Attempts] /\ \A y \in Actors : att'[y] # Idle => att'[y].at <= clock'
      BY <1>21, <1>a, <1>b, <1>s, <1>t, <1>i, <2>m DEF Attempts, Crash, durable
    <2>4. Shaped'
      BY <1>21, <1>a, <1>b, <1>s, <1>t, <1>i, <2>m, <2>2, <2>3 DEF Shaped, InLoop, Crash, durable
    <2>5. Timed' /\ Down'
      BY <1>21, <1>a, <1>b, <1>s, <1>t, <1>i, <2>m, <2>2, <2>3 DEF Timed, Down, Crash, durable
    <2> QED
      BY <2>1, <2>4, <2>5 DEF TypeInv
  <1>22. ASSUME Restart PROVE TypeInv'
    <2>1. Stored'
      BY <1>22, <1>a, <1>b, <1>s, <1>t, <1>i DEF Stored, Restart, durable, history
    <2>2. tick' \in {Idle} \cup Ticks /\ (tick' # Idle => tick' \in Ticks /\ tick'.now <= clock' /\ tick'.from <= clock')
      BY <1>22, <1>a, <1>b, <1>s, <1>t, <1>i DEF Ticks, Restart, durable, history
    <2>3. att' \in [Actors -> {Idle} \cup Attempts] /\ \A y \in Actors : att'[y] # Idle => att'[y].at <= clock'
      BY <1>22, <1>a, <1>b, <1>s, <1>t, <1>i DEF Attempts, Restart, durable, history
    <2>4. Shaped'
      BY <1>22, <1>a, <1>b, <1>s, <1>t, <1>i, WindowStart, <2>2, <2>3 DEF Shaped, InLoop, Restart, durable, history
    <2>5. Timed' /\ Down'
      BY <1>22, <1>a, <1>b, <1>s, <1>t, <1>i, WindowStart, <2>2, <2>3 DEF Stored, Timed, Down, Restart, durable, history
    <2> QED
      BY <2>1, <2>4, <2>5 DEF TypeInv
  <1>23. ASSUME Advance PROVE TypeInv'
    <2>1. Stored'
      BY <1>23, <1>a, <1>b, <1>s, <1>t, <1>i DEF Stored, Advance, durable, memory, history
    <2>2. tick' \in {Idle} \cup Ticks /\ (tick' # Idle => tick' \in Ticks /\ tick'.now <= clock' /\ tick'.from <= clock')
      BY <1>23, <1>a, <1>b, <1>s, <1>t, <1>i DEF Ticks, Advance, durable, memory, history
    <2>3. att' \in [Actors -> {Idle} \cup Attempts] /\ \A y \in Actors : att'[y] # Idle => att'[y].at <= clock'
      BY <1>23, <1>a, <1>b, <1>s, <1>t, <1>i DEF Attempts, Advance, durable, memory, history
    <2>4. Shaped'
      BY <1>23, <1>a, <1>b, <1>s, <1>t, <1>i, <2>2, <2>3 DEF Shaped, InLoop, Advance, durable, memory, history
    <2>5. Timed' /\ Down'
      BY <1>23, <1>a, <1>b, <1>s, <1>t, <1>i, <2>2, <2>3 DEF Timed, Down, Advance, durable, memory, history
    <2> QED
      BY <2>1, <2>4, <2>5 DEF TypeInv
  <1>24. ASSUME NEW a \in Agents, Frees(a) PROVE TypeInv'
    BY <1>24, <1>a, <1>s, <1>i DEF TypeInv, Stored, Shaped, Timed, Down, InLoop, Frees, Sessions, durable, memory, history
  <1>25. ASSUME NEW a \in Agents, NEW s \in Sessions, Flip(a, s) PROVE TypeInv'
    BY <1>25, <1>a, <1>s, <1>i DEF TypeInv, Stored, Shaped, Timed, Down, InLoop, Flip, Sessions, durable, memory, history
  <1>26. ASSUME UNCHANGED vars PROVE TypeInv'
    BY <1>26, <1>a, <1>s, <1>i DEF TypeInv, Stored, Shaped, Timed, Down, InLoop, vars, durable, memory, history
  <1>27. ASSUME NEW lost \in SUBSET Keys, NEW done \in SUBSET Keys, NEW stale \in SUBSET Keys, up, tick = Idle,
               TickBegin(lost, done, stale) PROVE TypeInv'
    <2>m. PICK r \in Ticks : tick' = r /\ r.now = clock /\ r.from = lastCheck
      <3>1. lastCheck \in Int /\ lastCheck <= clock /\ clock \in Nat /\ defs \in [Tasks -> {"on", "off", "gone"}]
        BY <1>s DEF Stored, Timed
      <3>2. retry' \in SUBSET Keys
        BY <1>27, <1>s DEF TickBegin, Stored
      <3>3. PICK T \in SUBSET Tasks : T = {t \in Tasks : defs[t] = "on" /\ Occurrences(t, lastCheck, clock) # {}}
        OBVIOUS
      <3>4. tick' = [pc |-> "rows", now |-> clock, from |-> lastCheck, defs |-> defs, keys |-> {}, task |-> {},
                     rows |-> retry', todo |-> T]
        BY <1>27, <3>3 DEF TickBegin
      <3>5. tick' \in Ticks
        BY <3>1, <3>2, <3>4 DEF Ticks
      <3> QED
        BY <3>1, <3>4, <3>5
    <2>1. Stored'
      BY <1>27, <1>a, <1>b, <1>s, <1>t, <1>i, <2>m DEF Stored, TickBegin
    <2>2. tick' \in {Idle} \cup Ticks /\ (tick' # Idle => tick' \in Ticks /\ tick'.now <= clock' /\ tick'.from <= clock')
      <3>1. lastCheck <= clock /\ clock' = clock /\ tick' = r /\ r.now = clock /\ r.from = lastCheck /\ clock \in Nat
        BY <1>27, <1>s, <2>m DEF Timed, Stored, TickBegin
      <3> QED
        BY <3>1
    <2>3. att' \in [Actors -> {Idle} \cup Attempts] /\ \A y \in Actors : att'[y] # Idle => att'[y].at <= clock'
      BY <1>27, <1>a, <1>b, <1>s, <1>t, <1>i, <2>m DEF Attempts, TickBegin
    <2>4. Shaped'
      BY <1>27, <1>a, <1>b, <1>s, <1>t, <1>i, <2>m, <2>2, <2>3 DEF Shaped, InLoop, TickBegin
    <2>5. Timed' /\ Down'
      BY <1>27, <1>a, <1>b, <1>s, <1>t, <1>i, <2>m, <2>2, <2>3 DEF Timed, Down, TickBegin
    <2> QED
      BY <2>1, <2>4, <2>5 DEF TypeInv
  <1> QED
    BY <1>1, <1>2, <1>3, <1>4, <1>5, <1>6, <1>7, <1>8, <1>9, <1>10, <1>11, <1>12, <1>13, <1>14, <1>15, <1>16, <1>17, <1>18, <1>19, <1>20, <1>21, <1>22, <1>23, <1>24, <1>25, <1>26, <1>27, EndsUndelivered DEF Next, TickLoop, Attempt, Tick, Operator

LEMMA TypeInvariant == Spec => []TypeInv
  <1>1. TypeInv /\ UNCHANGED vars => TypeInv'
    BY TypeStep
  <1> QED
    BY TypeInit, TypeStep, PTL DEF Spec

\* The scheduler's stores, its clocks and the tick it is in keep their shape.
THEOREM SchedulerTypes == Spec => []TypeOK
  BY TypeInvariant, TypesFollow, PTL

(***************************************************************************)
(* Output obligations: the one of a key is either the one the watchdog     *)
(* holds, or that of the newest prompt still on its way to the pane.       *)
(***************************************************************************)
Sends(x) == att[x].pc \in {"sending", "typed"}
Newest(k) == \E x \in Actors : Sends(x) /\ Key(x) = k /\ att[x].at = oblig[k]

\* who types has come before whoever waits for the same pane
LaneOrder ==
  \A x, y \in Actors : x # y /\ att[x].pc = "typed" /\ Sends(y) /\ att[x].agent = att[y].agent
                       => att[y].pc = "sending" /\ att[x].at <= att[y].at
NoFileNoDebt == \A k \in Keys : ~Task[k[1]].output => oblig[k] = 0
HeldOrSent == up => \A k \in Keys : oblig[k] # 0 => inflight[k] = oblig[k] \/ Newest(k)
LatestCounts == \A k \in Keys, x \in Actors : oblig[k] # 0 /\ Sends(x) /\ Key(x) = k => att[x].at <= oblig[k] /\ Newest(k)

ObligInv == LaneOrder /\ NoFileNoDebt /\ HeldOrSent /\ LatestCounts

LEMMA ObligInit == Init => ObligInv
  BY DEF Init, ObligInv, LaneOrder, NoFileNoDebt, HeldOrSent, LatestCounts, Sends, Idle

LEMMA ObligFollows == TypeInv /\ ObligInv => ObligationsWatched
  <1> SUFFICES ASSUME TypeInv, ObligInv, up, NEW k \in Keys, oblig[k] # 0
               PROVE  inflight[k] >= oblig[k] \/ \E x \in Actors : att[x].pc \in {"sending", "typed"} /\ Key(x) = k
    BY DEF ObligationsWatched
  <1>1. inflight[k] = oblig[k] \/ Newest(k)
    BY DEF ObligInv, HeldOrSent
  <1>2. inflight[k] \in Nat /\ oblig[k] \in Nat
    BY DEF TypeInv, Stored
  <1> QED
    BY <1>1, <1>2 DEF Newest, Sends

\* whoever sends goes on sending, and nobody begins to
SendersStay == \A y \in Actors : (Sends(y)' <=> Sends(y)) /\ (Sends(y) => att'[y] = att[y])

LEMMA QuietForSenders ==
    ASSUME ObligInv, SendersStay, UNCHANGED <<up, oblig, inflight>>
    PROVE  ObligInv'
  <1>1. \A y \in Actors : Sends(y)' <=> Sends(y)
    BY DEF SendersStay
  <1>2. \A y \in Actors : Sends(y) => att'[y] = att[y] /\ Key(y)' = Key(y)
    BY DEF SendersStay, Key
  <1>3. \A k \in Keys : Newest(k)' <=> Newest(k)
    BY <1>1, <1>2 DEF Newest
  <1>4. \A y \in Actors : att'[y].pc = "typed" => Sends(y)' 
    BY DEF Sends
  <1>5. LaneOrder'
    BY <1>1, <1>2, <1>4 DEF ObligInv, LaneOrder
  <1>6. LatestCounts' /\ NoFileNoDebt' /\ HeldOrSent'
    BY <1>1, <1>2, <1>3 DEF ObligInv, LatestCounts, NoFileNoDebt, HeldOrSent
  <1> QED
    BY <1>5, <1>6 DEF ObligInv

\* one attempt stops sending, the others go on
LEMMA OneLeaves ==
    ASSUME TypeInv, NEW x \in Actors, att[x].pc \in {"try", "sending", "typed"}, Returned(x)
    PROVE  ~Sends(x)' /\ \A y \in Actors \ {x} : att'[y] = att[y]
  <1>1. att[x] \in Attempts /\ DOMAIN att = Actors /\ Resumes(x).pc = "loop"
    BY Working DEF TypeInv, Shaped, Resumes, Attempts
  <1> QED
    BY <1>1, ReturnedCases DEF Sends, Idle

LEMMA TickBeginOblig ==
    ASSUME TypeInv, ObligInv, NEW lost \in SUBSET Keys, NEW done \in SUBSET Keys, NEW stale \in SUBSET Keys,
           TickBegin(lost, done, stale)
    PROVE  ObligInv'
  <1>1. UNCHANGED <<att, up>>
    BY DEF TickBegin
  <1>2. \A k \in Keys : oblig'[k] # 0 =>
          /\ oblig'[k] = oblig[k] /\ (inflight[k] = oblig[k] => inflight'[k] = oblig[k])
    BY DEF TickBegin
  <1>3. \A k \in Keys : oblig[k] = 0 => oblig'[k] = 0
    BY DEF TickBegin
  <1>4. \A k \in Keys : oblig'[k] # 0 /\ Newest(k) => Newest(k)'
    BY <1>1, <1>2 DEF Newest, Sends, Key
  <1>5. LaneOrder' /\ NoFileNoDebt'
    BY <1>1, <1>3 DEF ObligInv, LaneOrder, NoFileNoDebt, Sends
  <1>6. HeldOrSent'
    BY <1>1, <1>2, <1>4 DEF ObligInv, HeldOrSent
  <1>7. LatestCounts'
    <2> SUFFICES ASSUME NEW k \in Keys, NEW x \in Actors, oblig'[k] # 0, Sends(x)', Key(x)' = k
                 PROVE  att'[x].at <= oblig'[k] /\ Newest(k)'
      BY DEF LatestCounts
    <2>1. Sends(x) /\ Key(x) = k /\ oblig'[k] = oblig[k]
      BY <1>1, <1>2 DEF Sends, Key
    <2> QED
      BY <1>1, <1>4, <2>1 DEF ObligInv, LatestCounts
  <1> QED
    BY <1>5, <1>6, <1>7 DEF ObligInv

LEMMA UndeliveredOblig ==
    ASSUME TypeInv, ObligInv, NEW x \in Actors, Undelivered(x)
    PROVE  ObligInv'
  <1>1. ~Sends(x)' /\ (\A y \in Actors \ {x} : att'[y] = att[y]) /\ UNCHANGED <<up, inflight>>
    BY OneLeaves DEF Undelivered
  <1>2. \A y \in Actors \ {x} : (Sends(y)' <=> Sends(y)) /\ Key(y)' = Key(y)
    BY <1>1 DEF Sends, Key
  <1>3. CASE att[x].pc = "try" /\ oblig' = oblig
    <2>1. ~Sends(x)
      BY <1>3 DEF Sends
    <2>2. SendersStay
      BY <1>1, <1>2, <2>1 DEF SendersStay
    <2> QED
      BY <1>1, <1>3, <2>2, QuietForSenders
  <1>4. CASE att[x].pc = "sending" /\ oblig' = IF oblig[Key(x)] = att[x].at THEN [oblig EXCEPT ![Key(x)] = 0] ELSE oblig
    <2>0. oblig \in [Keys -> Nat] /\ Key(x) \in Keys
      BY <1>4, Working DEF TypeInv, Stored
    <2>1. \A k \in Keys : oblig'[k] # 0 => oblig'[k] = oblig[k] /\ (Key(x) = k => att[x].at # oblig[k])
      BY <1>4, <2>0
    <2>2. \A k \in Keys : oblig[k] = 0 => oblig'[k] = 0
      BY <1>4, <2>0
    <2>3. \A k \in Keys : oblig'[k] # 0 /\ Newest(k) => Newest(k)'
      <3> SUFFICES ASSUME NEW k \in Keys, oblig'[k] # 0, NEW y \in Actors, Sends(y), Key(y) = k, att[y].at = oblig[k]
                   PROVE  Newest(k)'
        BY DEF Newest
      <3>1. y # x /\ oblig'[k] = oblig[k]
        BY <2>1
      <3> QED
        BY <1>1, <1>2, <3>1 DEF Newest
    <2>4. LaneOrder'
      <3>1. \A y \in Actors : Sends(y)' => y # x
        BY <1>1
      <3>2. \A y \in Actors : att'[y].pc = "typed" => Sends(y)'
        BY DEF Sends
      <3> QED
        BY <1>1, <1>2, <3>1, <3>2 DEF ObligInv, LaneOrder
    <2>5. NoFileNoDebt'
      BY <2>2 DEF ObligInv, NoFileNoDebt
    <2>6. HeldOrSent'
      BY <1>1, <2>1, <2>3 DEF ObligInv, HeldOrSent
    <2>7. LatestCounts'
      <3> SUFFICES ASSUME NEW k \in Keys, NEW y \in Actors, oblig'[k] # 0, Sends(y)', Key(y)' = k
                   PROVE  att'[y].at <= oblig'[k] /\ Newest(k)'
        BY DEF LatestCounts
      <3>1. y # x
        BY <1>1
      <3>2. Sends(y) /\ Key(y) = k /\ oblig'[k] = oblig[k] /\ att'[y] = att[y]
        BY <1>1, <1>2, <2>1, <3>1
      <3> QED
        BY <2>3, <3>2 DEF ObligInv, LatestCounts
    <2> QED
      BY <2>4, <2>5, <2>6, <2>7 DEF ObligInv
  <1> QED
    BY <1>3, <1>4 DEF Undelivered

LEMMA SendBeginOblig ==
    ASSUME TypeInv, ObligInv, NEW x \in Actors, SendBegin(x)
    PROVE  ObligInv'
  <1>0. /\ att[x] \in Attempts /\ Key(x) \in Keys /\ DOMAIN att = Actors /\ ~Sends(x) /\ clock \in Nat
        /\ oblig \in [Keys -> Nat]
    BY Working DEF TypeInv, Stored, Shaped, SendBegin, Sends
  <1>1. /\ Sends(x)' /\ att'[x].pc = "sending" /\ att'[x].at = clock /\ att'[x].task = att[x].task
        /\ att'[x].agent = att[x].agent
    BY <1>0 DEF SendBegin, Sends, Attempts
  <1>2. (\A y \in Actors \ {x} : att'[y] = att[y]) /\ UNCHANGED <<up, inflight, clock>>
    BY <1>0 DEF SendBegin
  <1>3. Key(x)' = Key(x) /\ \A y \in Actors \ {x} : (Sends(y)' <=> Sends(y)) /\ Key(y)' = Key(y)
    BY <1>1, <1>2 DEF Sends, Key
  <1>4. \A y \in Actors : Sends(y) => att[y].at <= clock /\ att[y] # Idle
    BY Working DEF Sends
  <1>5. oblig' = IF Traits(x).output THEN [oblig EXCEPT ![Key(x)] = clock] ELSE oblig
    BY DEF SendBegin
  <1>6. Key(x)[1] = att[x].task
    BY DEF Key
  <1>7. \A k \in Keys : oblig'[k] # 0 /\ k # Key(x) => oblig'[k] = oblig[k]
    BY <1>0, <1>5
  <1>8. oblig'[Key(x)] # 0 => oblig'[Key(x)] = clock
    BY <1>0, <1>5, <1>6 DEF ObligInv, NoFileNoDebt, Traits
  <1>9. \A k \in Keys : k # Key(x) /\ oblig'[k] # 0 /\ Newest(k) => Newest(k)'
    <2> SUFFICES ASSUME NEW k \in Keys, k # Key(x), oblig'[k] # 0, NEW y \in Actors, Sends(y), Key(y) = k,
                        att[y].at = oblig[k]
                 PROVE  Newest(k)'
      BY DEF Newest
    <2>1. y # x /\ oblig'[k] = oblig[k]
      BY <1>7
    <2> QED
      BY <1>2, <1>3, <2>1 DEF Newest
  <1>q. PICK q \in Keys : q = Key(x)
    BY <1>0
  <1>10. oblig'[q] # 0 => Newest(q)'
    BY <1>1, <1>3, <1>8, <1>q DEF Newest
  <1>11. LaneOrder'
    <2> SUFFICES ASSUME NEW y \in Actors, NEW z \in Actors, y # z, att'[y].pc = "typed", Sends(z)',
                        att'[y].agent = att'[z].agent
                 PROVE  att'[z].pc = "sending" /\ att'[y].at <= att'[z].at
      BY DEF LaneOrder
    <2>1. y # x /\ att'[y] = att[y] /\ Sends(y)
      BY <1>1, <1>2 DEF Sends
    <2> QED
      BY <1>1, <1>2, <1>3, <1>4, <2>1 DEF ObligInv, LaneOrder
  <1>12. NoFileNoDebt'
    BY <1>0, <1>5, <1>6 DEF ObligInv, NoFileNoDebt, Traits
  <1>13. HeldOrSent'
    BY <1>2, <1>7, <1>9, <1>10, <1>q DEF ObligInv, HeldOrSent
  <1>14. LatestCounts'
    <2> SUFFICES ASSUME NEW k \in Keys, NEW y \in Actors, oblig'[k] # 0, Sends(y)', Key(y)' = k
                 PROVE  att'[y].at <= oblig'[k] /\ Newest(k)'
      BY DEF LatestCounts
    <2>1. CASE k = Key(x)
      BY <1>0, <1>1, <1>2, <1>3, <1>4, <1>8, <1>10, <1>q, <2>1
    <2>2. CASE k # Key(x)
      BY <1>2, <1>3, <1>7, <1>9, <2>2 DEF ObligInv, LatestCounts
    <2> QED
      BY <2>1, <2>2
  <1> QED
    BY <1>11, <1>12, <1>13, <1>14 DEF ObligInv

LEMMA TypedOblig ==
    ASSUME TypeInv, ObligInv, NEW x \in Actors, NEW s \in {"ready", "busy"}, Typed(x, s)
    PROVE  ObligInv'
  <1>0. att[x] \in Attempts /\ DOMAIN att = Actors /\ Sends(x)
    BY Working DEF TypeInv, Shaped, Typed, Sends
  <1>1. /\ Sends(x)' /\ att'[x].pc = "typed" /\ att'[x].at = att[x].at /\ att'[x].task = att[x].task
        /\ att'[x].agent = att[x].agent
    BY <1>0 DEF Typed, Sends, Attempts
  <1>2. (\A y \in Actors \ {x} : att'[y] = att[y]) /\ UNCHANGED <<up, inflight, oblig>>
    BY <1>0 DEF Typed, durable
  <1>3. \A y \in Actors : (Sends(y)' <=> Sends(y)) /\ Key(y)' = Key(y) /\ att'[y].at = att[y].at /\ att'[y].agent = att[y].agent
    BY <1>0, <1>1, <1>2 DEF Sends, Key
  <1>4. \A k \in Keys : Newest(k)' <=> Newest(k)
    BY <1>2, <1>3 DEF Newest
  <1>5. LatestCounts' /\ NoFileNoDebt' /\ HeldOrSent'
    BY <1>2, <1>3, <1>4 DEF ObligInv, LatestCounts, NoFileNoDebt, HeldOrSent
  <1>6. LaneOrder'
    <2> SUFFICES ASSUME NEW y \in Actors, NEW z \in Actors, y # z, att'[y].pc = "typed", Sends(z)',
                        att'[y].agent = att'[z].agent
                 PROVE  att'[z].pc = "sending" /\ att'[y].at <= att'[z].at
      BY DEF LaneOrder
    <2>1. Sends(z) /\ att[y].agent = att[z].agent /\ Sends(y)
      <3>1. Sends(y)'
        BY DEF Sends
      <3> QED
        BY <1>3, <3>1
    <2>2. LaneIsOurs(x)
      BY DEF Typed
    <2>3. CASE y = x
      BY <1>2, <1>3, <2>1, <2>2, <2>3 DEF LaneIsOurs, Sends
    <2>4. CASE y # x
      <3>1. att[y].pc = "typed"
        BY <1>2, <2>4
      <3>2. z # x
        BY <2>1, <2>2, <2>4, <3>1 DEF LaneIsOurs, Sends
      <3> QED
        BY <1>2, <2>1, <2>4, <3>1, <3>2 DEF ObligInv, LaneOrder
    <2> QED
      BY <2>3, <2>4
  <1> QED
    BY <1>5, <1>6 DEF ObligInv

LEMMA FiredOblig ==
    ASSUME TypeInv, ObligInv, NEW x \in Actors, Fired(x)
    PROVE  ObligInv'
  <1>0. Key(x) \in Keys /\ Sends(x) /\ inflight \in [Keys -> Nat] /\ att[x].at \in Nat
    BY Working DEF TypeInv, Stored, Fired, Sends, Attempts
  <1>1. ~Sends(x)' /\ (\A y \in Actors \ {x} : att'[y] = att[y]) /\ UNCHANGED <<up, oblig>>
    BY OneLeaves DEF Fired
  <1>2. \A y \in Actors \ {x} : (Sends(y)' <=> Sends(y)) /\ Key(y)' = Key(y)
    BY <1>1 DEF Sends, Key
  <1>3. inflight' = [inflight EXCEPT ![Key(x)] = att[x].at]
    BY DEF Fired
  <1>4. \A k \in Keys : k # Key(x) /\ Newest(k) => Newest(k)'
    BY <1>1, <1>2 DEF Newest
  <1>5. LaneOrder'
    <2>1. \A y \in Actors : Sends(y)' => y # x
      BY <1>1
    <2>2. \A y \in Actors : att'[y].pc = "typed" => Sends(y)'
      BY DEF Sends
    <2> QED
      BY <1>1, <1>2, <2>1, <2>2 DEF ObligInv, LaneOrder
  <1>6. NoFileNoDebt'
    BY <1>1 DEF ObligInv, NoFileNoDebt
  <1>q. PICK q \in Keys : q = Key(x)
    BY <1>0
  <1>7. oblig[q] # 0 =>
          \/ Newest(q)'
          \/ oblig[q] = att[x].at /\ \A y \in Actors : Sends(y)' => Key(y)' # q
    <2> SUFFICES ASSUME oblig[q] # 0, ~Newest(q)'
                 PROVE  oblig[q] = att[x].at /\ \A y \in Actors : Sends(y)' => Key(y)' # q
      OBVIOUS
    <2>1. oblig[q] = att[x].at
      <3>1. PICK y \in Actors : Sends(y) /\ Key(y) = q /\ att[y].at = oblig[q]
        BY <1>0, <1>q DEF ObligInv, LatestCounts, Newest
      <3>2. CASE y = x
        BY <3>1, <3>2
      <3>3. CASE y # x
        BY <1>1, <1>2, <3>1, <3>3 DEF Newest
      <3> QED
        BY <3>2, <3>3
    <2>2. ASSUME NEW y \in Actors, Sends(y)', Key(y)' = q
          PROVE  FALSE
      <3>1. y # x /\ Sends(y) /\ Key(y) = q /\ att'[y] = att[y]
        BY <1>1, <1>2, <2>2
      <3>2. att[y].agent = att[x].agent /\ att[y].at \in Nat
        BY <1>q, <3>1, Working DEF Key, Sends, Attempts
      <3>3. att[x].at <= att[y].at
        BY <3>1, <3>2 DEF ObligInv, LaneOrder, Fired
      <3>4. att[y].at <= oblig[q]
        BY <1>0, <3>1 DEF ObligInv, LatestCounts
      <3>5. att[y].at = oblig[q]
        BY <1>0, <2>1, <3>2, <3>3, <3>4
      <3> QED
        BY <1>1, <2>2, <3>1, <3>5 DEF Newest
    <2> QED
      BY <2>1, <2>2
  <1>8. HeldOrSent'
    BY <1>0, <1>1, <1>3, <1>4, <1>7, <1>q DEF ObligInv, HeldOrSent
  <1>9. LatestCounts'
    <2> SUFFICES ASSUME NEW k \in Keys, NEW y \in Actors, oblig'[k] # 0, Sends(y)', Key(y)' = k
                 PROVE  att'[y].at <= oblig'[k] /\ Newest(k)'
      BY DEF LatestCounts
    <2>1. y # x /\ Sends(y) /\ Key(y) = k /\ att'[y] = att[y]
      BY <1>1, <1>2
    <2>2. att[y].at <= oblig[k] /\ Newest(k)
      BY <1>1, <2>1 DEF ObligInv, LatestCounts
    <2> QED
      BY <1>1, <1>4, <1>7, <1>q, <2>1, <2>2
  <1> QED
    BY <1>5, <1>6, <1>8, <1>9 DEF ObligInv

LEMMA ObligStep ==
    ASSUME TypeInv, ObligInv, [Next]_vars
    PROVE  ObligInv'
  <1>a. DOMAIN att = Actors /\ "tick" \in Actors /\ "runNow" \in Actors
    BY DEF TypeInv, Shaped, Actors
  <1>1. ASSUME NEW lost \in SUBSET Keys, NEW done \in SUBSET Keys, NEW stale \in SUBSET Keys, TickBegin(lost, done, stale)
        PROVE  ObligInv'
    BY <1>1, TickBeginOblig
  <1>2. ASSUME NEW k \in Keys, RowDropped(k) \/ RowSkipped(k) \/ GiveUp(k) \/ CancelRetry(k)
        PROVE  ObligInv'
    <2>1. UNCHANGED <<att, up, oblig, inflight>>
      BY <1>2 DEF RowDropped, RowSkipped, GiveUp, CancelRetry, memory
    <2> QED
      BY <2>1, QuietForSenders DEF SendersStay, Sends
  <1>3. ASSUME NEW k \in Keys, RowTried(k)
        PROVE  ObligInv'
    <2>1. SendersStay /\ UNCHANGED <<up, oblig, inflight>>
      BY <1>3, <1>a DEF RowTried, NextRow, durable, SendersStay, Sends, Idle
    <2> QED
      BY <2>1, QuietForSenders
  <1>4. CASE RowsDone \/ TickEnd \/ Advance \/ UNCHANGED vars
    <2>1. UNCHANGED <<att, up, oblig, inflight>>
      BY <1>4 DEF RowsDone, TickEnd, Advance, vars, durable, memory
    <2> QED
      BY <2>1, QuietForSenders DEF SendersStay, Sends
  <1>5. CASE DueDone
    <2>1. SendersStay /\ UNCHANGED <<up, oblig, inflight>>
      BY <1>5, <1>a DEF DueDone, durable, SendersStay, Sends, Idle
    <2> QED
      BY <2>1, QuietForSenders
  <1>6. ASSUME NEW t \in Tasks, DueSuppressed(t) \/ DueStale(t) \/ DueSettled(t) \/ \E d \in {"on", "off", "gone"} : SetDef(t, d)
        PROVE  ObligInv'
    <2>1. UNCHANGED <<att, up, oblig, inflight>>
      BY <1>6 DEF DueSuppressed, DueStale, DueSettled, SetDef, durable, memory
    <2> QED
      BY <2>1, QuietForSenders DEF SendersStay, Sends
  <1>7. ASSUME NEW t \in Tasks, DueFires(t)
        PROVE  ObligInv'
    <2>0. ~Sends("tick")
      BY <1>7 DEF TypeInv, Shaped, InLoop, DueFires, NextDue, Sends, Idle
    <2>1. SendersStay /\ UNCHANGED <<up, oblig, inflight>>
      BY <1>7, <1>a, <2>0 DEF DueFires, durable, SendersStay, Sends
    <2> QED
      BY <2>1, QuietForSenders
  <1>8. ASSUME NEW a \in Agents, KeyHandled(a)
        PROVE  ObligInv'
    <2>0. att["tick"] \in Attempts
      BY <1>8, <1>a, Working DEF KeyHandled
    <2>1. SendersStay /\ UNCHANGED <<up, oblig, inflight>>
      BY <1>8, <1>a, <2>0 DEF KeyHandled, durable, SendersStay, Sends, Attempts
    <2> QED
      BY <2>1, QuietForSenders
  <1>9. ASSUME NEW x \in Actors, NEW a \in Agents, Target(x, a)
        PROVE  ObligInv'
    <2>0. att[x] \in Attempts
      BY <1>9, Working DEF Target
    <2>1. SendersStay /\ UNCHANGED <<up, oblig, inflight>>
      BY <1>9, <1>a, <2>0 DEF Target, durable, SendersStay, Sends, Attempts
    <2> QED
      BY <2>1, QuietForSenders
  <1>10. ASSUME NEW x \in Actors, Undelivered(x) \/ SendBegin(x) \/ Fired(x) \/ \E s \in {"ready", "busy"} : Typed(x, s)
         PROVE  ObligInv'
    BY <1>10, UndeliveredOblig, SendBeginOblig, FiredOblig, TypedOblig
  <1>11. ASSUME NEW t \in Tasks, RunNow(t)
         PROVE  ObligInv'
    <2>1. SendersStay /\ UNCHANGED <<up, oblig, inflight>>
      BY <1>11, <1>a DEF RunNow, SendersStay, Sends, Idle
    <2> QED
      BY <2>1, QuietForSenders
  <1>12. CASE Crash
    <2>1. ~up' /\ oblig' = oblig /\ \A x \in Actors : ~Sends(x)' /\ att'[x].pc # "typed"
      BY <1>12 DEF Crash, durable, Sends, Idle
    <2> QED
      BY <2>1 DEF ObligInv, LaneOrder, NoFileNoDebt, HeldOrSent, LatestCounts
  <1>13. CASE Restart
    <2>1. UNCHANGED <<att, oblig>> /\ inflight' = oblig
      BY <1>13 DEF Restart, durable
    <2>2. \A k \in Keys : Newest(k)' <=> Newest(k)
      BY <2>1 DEF Newest, Sends, Key
    <2>3. LaneOrder' /\ NoFileNoDebt' /\ HeldOrSent'
      BY <2>1 DEF ObligInv, LaneOrder, NoFileNoDebt, HeldOrSent, Sends
    <2>4. LatestCounts'
      BY <2>1, <2>2 DEF ObligInv, LatestCounts, Sends, Key
    <2> QED
      BY <2>3, <2>4 DEF ObligInv
  <1>14. ASSUME NEW a \in Agents, Frees(a) \/ \E s \in Sessions : Flip(a, s)
         PROVE  ObligInv'
    <2>1. UNCHANGED <<att, up, oblig, inflight>>
      BY <1>14 DEF Frees, Flip, durable, memory
    <2> QED
      BY <2>1, QuietForSenders DEF SendersStay, Sends
  <1> QED
    BY <1>1, <1>2, <1>3, <1>4, <1>5, <1>6, <1>7, <1>8, <1>9, <1>10, <1>11, <1>12, <1>13, <1>14, EndsUndelivered
    DEF Next, TickLoop, Attempt, Tick, Operator

\* While the process runs, no durable output obligation is orphaned - by a
\* restart, a swallowed prompt or a second injection for the same key: the
\* watchdog holds it or its prompt is still being sent.
THEOREM DebtsWatched == Spec => []ObligationsWatched
  <1>1. Init => TypeInv /\ ObligInv
    BY TypeInit, ObligInit
  <1>2. TypeInv /\ ObligInv /\ [Next]_vars => (TypeInv /\ ObligInv)'
    BY TypeStep, ObligStep
  <1> QED
    BY <1>1, <1>2, ObligFollows, PTL DEF Spec

(***************************************************************************)
(* Occurrences: what accounts for a key goes on doing so, for every        *)
(* instant that has come; what a tick has behind it is accounted for since *)
(* its window began, and a task's last run is.                             *)
(***************************************************************************)
RunsAccounted == \A t \in Tasks : \E a \in Agents : Accounted(<<t, a>>, lastRun[t])
RowsAccounted == tick # Idle => \A k \in tick.rows \cup tick.keys : Accounted(k, tick.from)
PassedAccounted ==
  att["tick"] # Idle /\ tick.pc = "cron" =>
    \A a \in att["tick"].whole \ att["tick"].left : Accounted(<<att["tick"].task, a>>, tick.from)
NamedFor(t) ==
  /\ scan[t].targets \subseteq Agents
  /\ IF scan[t].suppressed THEN \E a \in Agents : Accounted(<<t, a>>, scan[t].from)
                           ELSE \A a \in scan[t].targets : Accounted(<<t, a>>, scan[t].from)
Named == \A t \in Tasks : NamedFor(t)

VanishInv == RunsAccounted /\ RowsAccounted /\ PassedAccounted /\ Named

LEMMA VanishInit == Init => VanishInv
  <1> SUFFICES ASSUME Init PROVE VanishInv
    OBVIOUS
  <1>1. RunsAccounted
    BY ScheduleAssumption DEF Init, RunsAccounted, Accounted, Keys
  <1>2. RowsAccounted /\ PassedAccounted
    BY DEF Init, RowsAccounted, PassedAccounted, Actors
  <1>3. Named
    BY DEF Init, Named, NamedFor, NoScan
  <1> QED
    BY <1>1, <1>2, <1>3 DEF VanishInv

LEMMA VanishFollows == VanishInv => NothingVanishes
  BY DEF VanishInv, Named, NamedFor, NothingVanishes

\* a row leaves the table only for a record, a record goes only for a row
Kept ==
  /\ clock' >= clock
  /\ \A k \in Keys : /\ k \in retry => k \in retry' \/ trace'[k] >= clock
                     /\ trace'[k] >= trace[k] \/ k \in retry'

LEMMA AccountStays ==
    ASSUME TypeInv, TypeInv', Kept, NEW k \in Keys, NEW s \in Int, s <= clock, Accounted(k, s)
    PROVE  trace'[k] >= s \/ k \in retry'
  <1>1. trace[k] \in Nat /\ clock \in Nat
    BY DEF TypeInv, Stored
  <1>2. CASE k \in retry'
    BY <1>2
  <1>3. CASE k \notin retry'
    <2>1. trace'[k] >= trace[k] /\ (k \in retry => trace'[k] >= clock)
      BY <1>3 DEF Kept
    <2>2. trace'[k] \in Nat
      BY DEF TypeInv, Stored
    <2> QED
      BY <1>1, <2>1, <2>2 DEF Accounted
  <1> QED
    BY <1>2, <1>3


LEMMA StepKeeps ==
    ASSUME TypeInv, TypeInv', [Next]_vars
    PROVE  Kept
  <1>a. clock \in Nat /\ trace \in [Keys -> 0..clock] /\ retry \subseteq Keys
    BY DEF TypeInv, Stored
  <1>b. \A k \in Keys : trace[k] <= clock /\ trace[k] \in Nat
    BY <1>a
  <1>0. ASSUME UNCHANGED <<trace, retry>>, clock' >= clock PROVE Kept
    BY <1>0, <1>b DEF Kept
  <1>1. ASSUME NEW lost \in SUBSET Keys, NEW done \in SUBSET Keys, NEW stale \in SUBSET Keys, TickBegin(lost, done, stale)
        PROVE  Kept
    BY <1>1, <1>a, <1>b DEF Kept, TickBegin
  <1>2. ASSUME NEW k \in Keys, RowDropped(k) \/ RowSkipped(k) \/ CancelRetry(k)
        PROVE  Kept
    BY <1>2, <1>a, <1>b DEF Kept, RowDropped, RowSkipped, CancelRetry
  <1>3. ASSUME NEW k \in Keys, GiveUp(k)
        PROVE  Kept
    BY <1>3, <1>a, <1>b DEF Kept, GiveUp
  <1>4. CASE RowsDone \/ DueDone \/ TickEnd \/ UNCHANGED vars \/ \E k \in Keys : RowTried(k)
    <2>1. UNCHANGED <<trace, retry, clock>>
      BY <1>4 DEF RowsDone, DueDone, TickEnd, RowTried, vars, durable, history
    <2> QED
      BY <2>1, <1>0, <1>a
  <1>5. ASSUME NEW t \in Tasks, DueStale(t) \/ DueSettled(t)
        PROVE  Kept
    <2>1. trace' = Logged(t, Targets(t)) /\ UNCHANGED <<clock, retry>>
      BY <1>5 DEF DueStale, DueSettled, durable
    <2> QED
      BY <2>1, <1>a, <1>b DEF Kept, Logged
  <1>6. ASSUME NEW t \in Tasks, RunNow(t)
        PROVE  Kept
    <2>1. CASE trace' = Logged(t, Targets(t)) /\ UNCHANGED <<clock, retry>>
      BY <2>1, <1>a, <1>b DEF Kept, Logged
    <2>2. CASE UNCHANGED <<trace, clock, retry>>
      BY <2>2, <1>0, <1>a
    <2> QED
      BY <1>6, <2>1, <2>2 DEF RunNow
  <1>7. ASSUME NEW t \in Tasks, DueSuppressed(t) \/ DueFires(t) \/ \E d \in {"on", "off", "gone"} : SetDef(t, d)
        PROVE  Kept
    <2>1. UNCHANGED <<trace, retry, clock>>
      BY <1>7 DEF DueSuppressed, DueFires, SetDef, durable, history
    <2> QED
      BY <2>1, <1>0, <1>a
  <1>8. ASSUME NEW x \in Actors, Undelivered(x)
        PROVE  Kept
    <2>1. Key(x) \in Keys /\ UNCHANGED clock
      BY <1>8, Working DEF Undelivered
    <2>2. retry \subseteq retry' /\ (trace' = trace \/ trace' = [trace EXCEPT ![Key(x)] = clock])
      <3>1. ForRow(x) => x = "tick" /\ tick.pc = "rows"
        BY DEF ForRow
      <3> QED
        BY <1>8 DEF Undelivered
    <2> QED
      BY <2>1, <2>2, <1>a, <1>b DEF Kept
  <1>9. ASSUME NEW x \in Actors, Fired(x)
        PROVE  Kept
    <2>1. Key(x) \in Keys /\ UNCHANGED clock /\ trace' = [trace EXCEPT ![Key(x)] = clock]
      BY <1>9, Working DEF Fired
    <2>2. \A k \in retry : k \in retry' \/ k = Key(x)
      BY <1>9 DEF Fired
    <2> QED
      BY <2>1, <2>2, <1>a, <1>b DEF Kept
  <1>10. ASSUME NEW x \in Actors, SendBegin(x) \/ (\E a \in Agents : Target(x, a)) \/ \E s \in {"ready", "busy"} : Typed(x, s)
        PROVE  Kept
    <2>1. UNCHANGED <<trace, retry, clock>>
      BY <1>10 DEF SendBegin, Target, Typed, durable, history
    <2> QED
      BY <2>1, <1>0, <1>a
  <1>11. CASE Crash \/ Restart \/ Advance
    BY <1>11, <1>0, <1>a DEF Crash, Restart, Advance, durable, history
  <1>12. ASSUME NEW a \in Agents, KeyHandled(a) \/ Frees(a) \/ \E s \in Sessions : Flip(a, s)
         PROVE  Kept
    BY <1>12, <1>0, <1>a DEF KeyHandled, Frees, Flip, durable, history
  <1> QED
    BY <1>1, <1>2, <1>3, <1>4, <1>5, <1>6, <1>7, <1>8, <1>9, <1>10, <1>11, <1>12, EndsUndelivered
    DEF Next, TickLoop, Attempt, Tick, Operator

\* what a step may do to the last runs, to the tick's window and to its attempt
RunShape ==
  \A t \in Tasks : \/ lastRun'[t] = lastRun[t] \/ lastRun'[t] = 0
                   \/ lastRun'[t] <= clock /\ \E a \in Agents : trace'[<<t, a>>] = clock
RowShape ==
  \/ tick' = Idle
  \/ tick'.keys = {} /\ tick'.rows \subseteq retry'
  \/ /\ tick # Idle /\ tick'.from = tick.from
     /\ tick'.rows \subseteq tick.rows \cup tick.keys /\ tick'.keys \subseteq tick.rows \cup tick.keys
PassShape ==
  \/ att'["tick"] = Idle \/ tick'.pc # "cron" \/ att'["tick"].left = att'["tick"].whole
  \/ /\ att["tick"] # Idle /\ tick.pc = "cron" /\ tick'.from = tick.from
     /\ att'["tick"].task = att["tick"].task /\ att'["tick"].whole = att["tick"].whole
     /\ \A a \in att["tick"].left \ att'["tick"].left :
          \/ <<att["tick"].task, a>> \in tick.keys
          \/ <<att["tick"].task, a>> \in retry'
          \/ trace'[<<att["tick"].task, a>>] = clock

LEMMA SomeTarget ==
    ASSUME NEW t \in Tasks
    PROVE  \E a \in Agents : a \in Targets(t)
  BY TaskShape, ScheduleAssumption DEF Targets

LEMMA UndeliveredShapes ==
    ASSUME TypeInv, NEW x \in Actors, Undelivered(x)
    PROVE  RunShape /\ RowShape /\ PassShape
  <1>0. /\ att[x] \in Attempts /\ Key(x) \in Keys /\ att[x].pc \in {"try", "sending", "typed"} /\ Returned(x)
        /\ DOMAIN att = Actors /\ trace \in [Keys -> 0..clock] /\ "tick" \in Actors
    BY Working DEF Undelivered, TypeInv, Shaped, Stored, Actors
  <1>1. RunShape
    BY DEF Undelivered, RunShape
  <1>2. RowShape
    BY <1>0, ReturnedCases DEF RowShape, ForRow, TypeInv, Shaped, Ticks, Idle
  <1>3. PassShape
    <2>1. CASE x = "runNow"
      <3>1. att'["tick"] = att["tick"] /\ tick' = tick
        BY <1>0, <2>1, OneLeaves, ReturnedCases DEF ForRow
      <3> QED
        BY <3>1 DEF PassShape
    <2>2. CASE ForRow(x)
      BY <1>0, <2>2, ReturnedCases DEF PassShape, ForRow
    <2>3. CASE x = "tick" /\ ~ForRow(x)
      <3>1. att'["tick"] = Resumes("tick") /\ tick' = tick /\ att["tick"] # Idle /\ tick.pc = "cron"
        BY <1>0, <2>3, ReturnedCases, Working DEF TypeInv, Shaped, InLoop, ForRow
      <3>2. /\ Resumes("tick").task = att["tick"].task /\ Resumes("tick").whole = att["tick"].whole
            /\ Resumes("tick").left = att["tick"].left \ {att["tick"].agent}
        BY <1>0, <2>3 DEF Resumes, Attempts
      <3>3. Key(x) \in retry' \/ trace'[Key(x)] = clock
        BY <1>0, <2>3 DEF Undelivered
      <3>4. \A a \in att["tick"].left \ att'["tick"].left : <<att["tick"].task, a>> = Key(x)
        BY <2>3, <3>1, <3>2 DEF Key
      <3> QED
        BY <3>1, <3>2, <3>3, <3>4 DEF PassShape
    <2> QED
      BY <2>1, <2>2, <2>3 DEF Actors
  <1> QED
    BY <1>1, <1>2, <1>3

LEMMA FiredShapes ==
    ASSUME TypeInv, NEW x \in Actors, Fired(x)
    PROVE  RunShape /\ RowShape /\ PassShape
  <1>0. /\ att[x] \in Attempts /\ Key(x) \in Keys /\ att[x].pc \in {"try", "sending", "typed"} /\ Returned(x)
        /\ DOMAIN att = Actors /\ trace \in [Keys -> 0..clock] /\ "tick" \in Actors
        /\ lastRun \in [Tasks -> 0..clock] /\ att[x].at <= clock
    BY Working DEF Fired, TypeInv, Shaped, Stored, Actors
  <1>4. trace'[Key(x)] = clock
    BY <1>0 DEF Fired
  <1>1. RunShape
    <2>1. Key(x) = <<att[x].task, att[x].agent>> /\ att[x].agent \in Agents
      BY <1>0 DEF Key, Attempts
    <2> QED
      BY <1>0, <1>4, <2>1 DEF Fired, RunShape
  <1>2. RowShape
    BY <1>0, ReturnedCases DEF RowShape, ForRow, TypeInv, Shaped, Ticks, Idle
  <1>3. PassShape
    <2>1. CASE x = "runNow"
      <3>1. att'["tick"] = att["tick"] /\ tick' = tick
        BY <1>0, <2>1, OneLeaves, ReturnedCases DEF ForRow
      <3> QED
        BY <3>1 DEF PassShape
    <2>2. CASE ForRow(x)
      BY <1>0, <2>2, ReturnedCases DEF PassShape, ForRow
    <2>3. CASE x = "tick" /\ ~ForRow(x)
      <3>1. att'["tick"] = Resumes("tick") /\ tick' = tick /\ att["tick"] # Idle /\ tick.pc = "cron"
        BY <1>0, <2>3, ReturnedCases, Working DEF TypeInv, Shaped, InLoop, ForRow
      <3>2. /\ Resumes("tick").task = att["tick"].task /\ Resumes("tick").whole = att["tick"].whole
            /\ Resumes("tick").left = att["tick"].left \ {att["tick"].agent}
        BY <1>0, <2>3 DEF Resumes, Attempts
      <3>4. \A a \in att["tick"].left \ att'["tick"].left : <<att["tick"].task, a>> = Key(x)
        BY <2>3, <3>1, <3>2 DEF Key
      <3> QED
        BY <3>1, <3>2, <1>4, <3>4 DEF PassShape
    <2> QED
      BY <2>1, <2>2, <2>3 DEF Actors
  <1> QED
    BY <1>1, <1>2, <1>3

LEMMA StepShapes ==
    ASSUME TypeInv, [Next]_vars
    PROVE  RunShape /\ RowShape /\ PassShape
  <1>a. /\ DOMAIN att = Actors /\ "tick" \in Actors /\ "runNow" \in Actors /\ clock \in Nat
        /\ lastRun \in [Tasks -> 0..clock] /\ trace \in [Keys -> 0..clock] /\ tick \in {Idle} \cup Ticks /\ InLoop
    BY DEF TypeInv, Shaped, Stored, Actors
  <1>t. ASSUME tick.pc \in {"rows", "cron"}
        PROVE  tick \in Ticks /\ tick # Idle /\ tick.now <= clock
    BY <1>a, <1>t DEF TypeInv, Timed, Idle
  <1>s. UNCHANGED lastRun => RunShape
    BY DEF RunShape
  <1>u. UNCHANGED tick => RowShape
    BY DEF RowShape
  <1>v. UNCHANGED <<tick, att>> => PassShape
    BY DEF PassShape
  <1>1. ASSUME NEW lost \in SUBSET Keys, NEW done \in SUBSET Keys, NEW stale \in SUBSET Keys,
               tick = Idle, TickBegin(lost, done, stale)
        PROVE  RunShape /\ RowShape /\ PassShape
    <2>1. RunShape
      BY <1>1 DEF RunShape, TickBegin
    <2>2. RowShape /\ PassShape
      BY <1>1 DEF RowShape, PassShape, TickBegin
    <2> QED
      BY <2>1, <2>2
  <1>2. ASSUME NEW k \in Keys, RowDropped(k) \/ RowSkipped(k)
        PROVE  RunShape /\ RowShape /\ PassShape
    <2>1. tick \in Ticks /\ tick # Idle /\ UNCHANGED <<lastRun, att>> /\ att["tick"] = Idle /\ k \in tick.rows
      BY <1>2, <1>t DEF RowDropped, RowSkipped, NextRow
    <2>2. tick' = [tick EXCEPT !.rows = @ \ {k}] \/ tick' = [tick EXCEPT !.rows = @ \ {k}, !.keys = @ \cup {k}]
      BY <1>2 DEF RowDropped, RowSkipped
    <2>3. RowShape
      <3>1. CASE tick' = [tick EXCEPT !.rows = @ \ {k}]
        BY <2>1, <3>1 DEF RowShape, Ticks
      <3>2. CASE tick' = [tick EXCEPT !.rows = @ \ {k}, !.keys = @ \cup {k}]
        BY <2>1, <3>2 DEF RowShape, Ticks
      <3> QED
        BY <2>2, <3>1, <3>2
    <2> QED
      BY <2>1, <2>3, <1>s DEF PassShape
  <1>3. ASSUME NEW k \in Keys, RowTried(k)
        PROVE  RunShape /\ RowShape /\ PassShape
    <2>1. tick \in Ticks /\ tick # Idle /\ UNCHANGED lastRun /\ tick.pc = "rows" /\ k \in tick.rows
      BY <1>3, <1>t DEF RowTried, NextRow, durable
    <2>2. tick' = [tick EXCEPT !.keys = @ \cup {k}]
      BY <1>3 DEF RowTried
    <2>3. RowShape /\ tick'.pc = "rows"
      BY <2>1, <2>2 DEF RowShape, Ticks
    <2> QED
      BY <2>1, <2>3, <1>s DEF PassShape
  <1>4. CASE RowsDone
    <2>1. tick \in Ticks /\ tick # Idle /\ UNCHANGED <<lastRun, att>> /\ att["tick"] = Idle
      BY <1>4, <1>t DEF RowsDone, durable
    <2>2. RowShape
      BY <1>4, <2>1 DEF RowShape, RowsDone, Ticks
    <2> QED
      BY <2>1, <2>2, <1>s DEF PassShape
  <1>5. CASE DueDone
    <2>1. tick \in Ticks /\ tick # Idle /\ UNCHANGED lastRun /\ att'["tick"] = Idle
      BY <1>5, <1>t, <1>a DEF DueDone, durable, InLoop, Idle
    <2>2. RowShape
      BY <1>5, <2>1 DEF RowShape, DueDone, Ticks
    <2> QED
      BY <2>1, <2>2, <1>s DEF PassShape
  <1>6. CASE TickEnd
    <2>1. UNCHANGED <<lastRun, att>> /\ tick' = Idle
      BY <1>6 DEF TickEnd
    <2> QED
      BY <2>1, <1>s DEF RowShape, PassShape, Idle
  <1>7. ASSUME NEW t \in Tasks, DueSuppressed(t) \/ DueStale(t) \/ DueSettled(t)
        PROVE  RunShape /\ RowShape /\ PassShape
    <2>1. /\ tick \in Ticks /\ tick # Idle /\ tick.now <= clock /\ UNCHANGED att /\ att["tick"] = Idle
          /\ tick' = [tick EXCEPT !.todo = @ \ {t}]
      BY <1>7, <1>t, <1>a DEF DueSuppressed, DueStale, DueSettled, NextDue, InLoop
    <2>2. RowShape
      BY <2>1 DEF RowShape, Ticks
    <2>3. RunShape
      <3>1. CASE DueSettled(t)
        <4>1. PICK a \in Agents : a \in Targets(t)
          BY SomeTarget
        <4>2. lastRun' = [lastRun EXCEPT ![t] = tick.now] /\ trace' = Logged(t, Targets(t))
          BY <3>1 DEF DueSettled
        <4>3. <<t, a>> \in Keys /\ trace'[<<t, a>>] = clock
          BY <4>1, <4>2 DEF Logged, Keys
        <4> QED
          BY <1>a, <2>1, <4>2, <4>3 DEF RunShape
      <3>2. CASE DueSuppressed(t) \/ DueStale(t)
        BY <3>2, <1>s DEF DueSuppressed, DueStale, durable
      <3> QED
        BY <1>7, <3>1, <3>2
    <2> QED
      BY <2>1, <2>2, <2>3 DEF PassShape
  <1>8. ASSUME NEW t \in Tasks, DueFires(t)
        PROVE  RunShape /\ RowShape /\ PassShape
    <2>1. tick \in Ticks /\ tick # Idle /\ UNCHANGED lastRun
      BY <1>8, <1>t DEF DueFires, NextDue, durable
    <2>2. RowShape
      BY <1>8, <2>1 DEF RowShape, DueFires, Ticks
    <2>3. att'["tick"].left = att'["tick"].whole
      BY <1>8, <1>a DEF DueFires
    <2> QED
      BY <2>1, <2>2, <2>3, <1>s DEF PassShape
  <1>9. ASSUME NEW a \in Agents, KeyHandled(a)
        PROVE  RunShape /\ RowShape /\ PassShape
    <2>1. /\ att["tick"] \in Attempts /\ att["tick"] # Idle /\ tick.pc = "cron" /\ UNCHANGED <<lastRun, tick>>
          /\ <<att["tick"].task, a>> \in tick.keys
      BY <1>9, <1>a, Working DEF KeyHandled, InLoop, durable
    <2>2. /\ att'["tick"].task = att["tick"].task /\ att'["tick"].whole = att["tick"].whole
          /\ att'["tick"].left = att["tick"].left \ {a}
      BY <1>9, <1>a, <2>1 DEF KeyHandled, Attempts
    <2> QED
      BY <2>1, <2>2, <1>s, <1>u DEF PassShape
  <1>10. ASSUME NEW x \in Actors, NEW a \in Agents, NEW s \in {"ready", "busy"}, Target(x, a) \/ SendBegin(x) \/ Typed(x, s)
         PROVE  RunShape /\ RowShape /\ PassShape
    <2>1. att[x] \in Attempts /\ UNCHANGED <<lastRun, tick>>
      BY <1>10, Working DEF Target, SendBegin, Typed, durable
    <2>2. /\ att'[x].task = att[x].task /\ att'[x].whole = att[x].whole /\ att'[x].left = att[x].left
          /\ \A y \in Actors \ {x} : att'[y] = att[y]
      <3>1. CASE Target(x, a)
        BY <3>1, <1>a, <2>1 DEF Target, Attempts
      <3>2. CASE SendBegin(x)
        BY <3>2, <1>a, <2>1 DEF SendBegin, Attempts
      <3>3. CASE Typed(x, s)
        BY <3>3, <1>a, <2>1 DEF Typed, Attempts
      <3> QED
        BY <1>10, <3>1, <3>2, <3>3
    <2>3. /\ att'["tick"] = att["tick"] \/ att'["tick"].task = att["tick"].task
          /\ att'["tick"] = att["tick"] \/ (att'["tick"].left = att["tick"].left /\ att'["tick"].whole = att["tick"].whole)
          /\ att'["tick"] = att["tick"] \/ att["tick"] # Idle
      BY <2>1, <2>2, <1>a, Working, <1>10 DEF Target, SendBegin, Typed
    <2> QED
      BY <2>1, <2>3, <1>s, <1>u DEF PassShape
  <1>11. ASSUME NEW t \in Tasks, RunNow(t)
         PROVE  RunShape /\ RowShape /\ PassShape
    <2>1. UNCHANGED tick /\ att'["tick"] = att["tick"]
      BY <1>11, <1>a DEF RunNow
    <2>2. PassShape
      BY <2>1 DEF PassShape
    <2>3. RunShape
      <3>1. CASE Task[t].command
        <4>1. PICK a \in Agents : a \in Targets(t)
          BY SomeTarget
        <4>2. lastRun' = [lastRun EXCEPT ![t] = clock] /\ trace' = Logged(t, Targets(t))
          BY <1>11, <3>1 DEF RunNow
        <4>3. <<t, a>> \in Keys /\ trace'[<<t, a>>] = clock
          BY <4>1, <4>2 DEF Logged, Keys
        <4> QED
          BY <1>a, <4>2, <4>3 DEF RunShape
      <3>2. CASE ~Task[t].command
        BY <1>11, <3>2, <1>s DEF RunNow
      <3> QED
        BY <3>1, <3>2
    <2> QED
      BY <2>1, <2>2, <2>3, <1>u
  <1>12. CASE Crash
    <2>1. UNCHANGED lastRun /\ tick' = Idle
      BY <1>12 DEF Crash, durable
    <2> QED
      BY <2>1, <1>s DEF RowShape, PassShape, Idle
  <1>13. ASSUME UNCHANGED <<lastRun, tick, att>>
         PROVE  RunShape /\ RowShape /\ PassShape
    BY <1>13, <1>s, <1>u, <1>v
  <1>14. CASE Restart \/ Advance \/ UNCHANGED vars
    <2>1. UNCHANGED <<lastRun, tick, att>>
      BY <1>14 DEF Restart, Advance, vars, durable, memory
    <2> QED
      BY <2>1, <1>13
  <1>15. ASSUME NEW k \in Keys, GiveUp(k) \/ CancelRetry(k)
         PROVE  RunShape /\ RowShape /\ PassShape
    <2>1. UNCHANGED <<lastRun, tick, att>>
      BY <1>15 DEF GiveUp, CancelRetry, memory
    <2> QED
      BY <2>1, <1>13
  <1>16. ASSUME NEW t \in Tasks, NEW d \in {"on", "off", "gone"}, SetDef(t, d)
         PROVE  RunShape /\ RowShape /\ PassShape
    <2>1. UNCHANGED <<lastRun, tick, att>>
      BY <1>16 DEF SetDef, memory
    <2> QED
      BY <2>1, <1>13
  <1>17. ASSUME NEW a \in Agents, Frees(a) \/ \E s \in Sessions : Flip(a, s)
         PROVE  RunShape /\ RowShape /\ PassShape
    <2>1. UNCHANGED <<lastRun, tick, att>>
      BY <1>17 DEF Frees, Flip, durable, memory
    <2> QED
      BY <2>1, <1>13
  <1>18. ASSUME NEW x \in Actors, SendBegin(x) \/ (\E a \in Agents : Target(x, a)) \/ \E s \in {"ready", "busy"} : Typed(x, s)
         PROVE  RunShape /\ RowShape /\ PassShape
    BY <1>10, <1>18, ScheduleAssumption
  <1> QED
    BY <1>1, <1>2, <1>3, <1>4, <1>5, <1>6, <1>7, <1>8, <1>9, <1>11, <1>12, <1>14, <1>15, <1>16, <1>17, <1>18,
       EndsUndelivered, UndeliveredShapes, FiredShapes
    DEF Next, TickLoop, Attempt, Tick, Operator

LEMMA VanishStep ==
    ASSUME TypeInv, TypeInv', VanishInv, [Next]_vars
    PROVE  RunsAccounted' /\ RowsAccounted' /\ PassedAccounted'
  <1>a. /\ Kept /\ RunShape /\ RowShape /\ PassShape /\ clock \in Nat /\ clock' >= clock /\ clock' \in Nat
        /\ \A t \in Tasks : lastRun[t] \in 0..clock
    BY StepKeeps, StepShapes DEF Kept, TypeInv, Stored
  <1>b. \A k \in Keys : trace'[k] \in Nat
    BY DEF TypeInv, Stored
  <1>c. tick # Idle => /\ tick \in Ticks /\ tick.from \in Int /\ tick.from <= clock
                       /\ tick.rows \subseteq Keys /\ tick.keys \subseteq Keys
    BY DEF TypeInv, Shaped, Timed, Ticks
  <1>1. RunsAccounted'
    <2> SUFFICES ASSUME NEW t \in Tasks PROVE \E a \in Agents : trace'[<<t, a>>] >= lastRun'[t] \/ <<t, a>> \in retry'
      BY DEF RunsAccounted, Accounted
    <2>1. CASE lastRun'[t] = lastRun[t]
      <3>1. PICK a \in Agents : Accounted(<<t, a>>, lastRun[t])
        BY DEF VanishInv, RunsAccounted
      <3>2. <<t, a>> \in Keys /\ lastRun[t] \in Int /\ lastRun[t] <= clock
        BY <1>a DEF Keys
      <3> QED
        BY <2>1, <3>1, <3>2, <1>a, AccountStays
    <2>2. CASE lastRun'[t] = 0
      <3>1. <<t, Main>> \in Keys /\ Main \in Agents
        BY ScheduleAssumption DEF Keys
      <3> QED
        BY <1>b, <2>2, <3>1
    <2>3. CASE lastRun'[t] <= clock /\ \E a \in Agents : trace'[<<t, a>>] = clock
      BY <2>3
    <2> QED
      BY <1>a, <2>1, <2>2, <2>3 DEF RunShape
  <1>2. RowsAccounted'
    <2> SUFFICES ASSUME tick' # Idle, NEW k \in tick'.rows \cup tick'.keys
                 PROVE  trace'[k] >= tick'.from \/ k \in retry'
      BY DEF RowsAccounted, Accounted
    <2>1. CASE tick'.keys = {} /\ tick'.rows \subseteq retry'
      BY <2>1
    <2>2. CASE /\ tick # Idle /\ tick'.from = tick.from
               /\ tick'.rows \subseteq tick.rows \cup tick.keys /\ tick'.keys \subseteq tick.rows \cup tick.keys
      <3>1. k \in tick.rows \cup tick.keys /\ Accounted(k, tick.from)
        BY <2>2 DEF VanishInv, RowsAccounted
      <3> QED
        BY <1>a, <1>c, <2>2, <3>1, AccountStays
    <2> QED
      BY <1>a, <2>1, <2>2 DEF RowShape
  <1>3. PassedAccounted'
    <2> SUFFICES ASSUME att'["tick"] # Idle, tick'.pc = "cron", NEW a \in att'["tick"].whole \ att'["tick"].left
                 PROVE  trace'[<<att'["tick"].task, a>>] >= tick'.from \/ <<att'["tick"].task, a>> \in retry'
      BY DEF PassedAccounted, Accounted
    <2>1. /\ att["tick"] # Idle /\ tick.pc = "cron" /\ tick'.from = tick.from
          /\ att'["tick"].task = att["tick"].task /\ att'["tick"].whole = att["tick"].whole
          /\ \A b \in att["tick"].left \ att'["tick"].left :
               \/ <<att["tick"].task, b>> \in tick.keys
               \/ <<att["tick"].task, b>> \in retry'
               \/ trace'[<<att["tick"].task, b>>] = clock
      BY <1>a DEF PassShape
    <2>2. att["tick"] \in Attempts /\ tick # Idle
      BY <2>1 DEF TypeInv, Shaped, Actors, Idle
    <2>3. a \in Agents /\ <<att["tick"].task, a>> \in Keys
      BY <2>1, <2>2 DEF Attempts, Keys
    <2>4. ASSUME Accounted(<<att["tick"].task, a>>, tick.from)
          PROVE  trace'[<<att'["tick"].task, a>>] >= tick'.from \/ <<att'["tick"].task, a>> \in retry'
      BY <1>a, <1>c, <2>1, <2>2, <2>3, <2>4, AccountStays
    <2>5. CASE a \notin att["tick"].left
      BY <2>1, <2>4, <2>5 DEF VanishInv, PassedAccounted
    <2>6. CASE a \in att["tick"].left
      <3>1. CASE <<att["tick"].task, a>> \in tick.keys
        BY <2>2, <2>4, <3>1 DEF VanishInv, RowsAccounted
      <3>2. CASE <<att["tick"].task, a>> \notin tick.keys
        BY <1>a, <1>c, <2>1, <2>2, <2>6, <3>2
      <3> QED
        BY <3>1, <3>2
    <2> QED
      BY <2>5, <2>6
  <1> QED
    BY <1>1, <1>2, <1>3

\* a step that says nothing of a scan leaves what is said of the earlier ones true
LEMMA NamedStays ==
    ASSUME TypeInv, TypeInv', Kept, Named, NEW t \in Tasks, scan'[t] = scan[t]
    PROVE  NamedFor(t)'
  <1>1. scan[t].from \in Int /\ scan[t].from <= clock
    BY DEF TypeInv, Timed
  <1>2. \A a \in Agents : <<t, a>> \in Keys
    BY DEF Keys
  <1>3. \A a \in Agents : Accounted(<<t, a>>, scan[t].from) =>
                             trace'[<<t, a>>] >= scan[t].from \/ <<t, a>> \in retry'
    BY <1>1, <1>2, AccountStays
  <1>4. \A a \in Agents : Accounted(<<t, a>>, scan[t].from) =>
                             trace'[<<t, a>>] >= scan'[t].from \/ <<t, a>> \in retry'
    BY <1>3
  <1> QED
    BY <1>4 DEF Named, NamedFor, Accounted

LEMMA NamedStep ==
    ASSUME TypeInv, TypeInv', VanishInv, [Next]_vars
    PROVE  Named'
  <1>a. Kept /\ Named /\ DOMAIN scan = Tasks /\ clock \in Nat /\ "tick" \in Actors /\ DOMAIN att = Actors
    BY StepKeeps DEF VanishInv, TypeInv, Timed, Stored, Shaped, Actors
  <1>t. ASSUME tick.pc = "cron"
        PROVE  tick \in Ticks /\ tick # Idle /\ tick.from \in Int /\ tick.from <= clock
    <2>1. tick \in Ticks /\ tick # Idle
      BY <1>t DEF TypeInv, Shaped, Idle
    <2> QED
      BY <2>1 DEF TypeInv, Timed, Ticks
  <1>s. ASSUME UNCHANGED scan PROVE Named'
    BY <1>s, <1>a, NamedStays DEF Named
  <1>o. ASSUME NEW t \in Tasks, \A u \in Tasks \ {t} : scan'[u] = scan[u], NamedFor(t)'
        PROVE  Named'
    BY <1>o, <1>a, NamedStays DEF Named
  <1>1. ASSUME NEW t \in Tasks, DueSuppressed(t)
        PROVE  Named'
    <2>1. tick.from <= clock /\ tick.from \in Int /\ lastRun[t] >= tick.from /\ lastRun[t] \in Nat /\ UNCHANGED <<trace, retry>>
      BY <1>1, <1>t DEF DueSuppressed, NextDue, TypeInv, Stored, durable
    <2>2. PICK s : s = [from |-> tick.from, occ |-> Occurrence(t), targets |-> Targets(t), suppressed |-> TRUE]
      OBVIOUS
    <2>3. scan' = [scan EXCEPT ![t] = s]
      BY <1>1, <2>2 DEF DueSuppressed, Scanned
    <2>4. PICK a \in Agents : Accounted(<<t, a>>, lastRun[t])
      BY DEF VanishInv, RunsAccounted
    <2>5. trace[<<t, a>>] \in Nat
      BY DEF TypeInv, Stored, Keys
    <2>6. trace'[<<t, a>>] >= s.from \/ <<t, a>> \in retry'
      BY <2>1, <2>2, <2>4, <2>5 DEF Accounted
    <2>7. scan'[t] = s /\ s.suppressed /\ s.targets \subseteq Agents
      BY <1>a, <2>2, <2>3, TargetsAreAgents
    <2> QED
      BY <1>a, <1>o, <2>3, <2>6, <2>7 DEF NamedFor, Accounted
  <1>2. ASSUME NEW t \in Tasks, DueStale(t) \/ DueSettled(t)
        PROVE  Named'
    <2>1. tick.from <= clock /\ tick.from \in Int /\ trace' = Logged(t, Targets(t))
      BY <1>2, <1>t DEF DueStale, DueSettled, NextDue
    <2>2. PICK s : s = [from |-> tick.from, occ |-> Occurrence(t), targets |-> Targets(t), suppressed |-> FALSE]
      OBVIOUS
    <2>3. scan' = [scan EXCEPT ![t] = s]
      BY <1>2, <2>2 DEF DueStale, DueSettled, Scanned
    <2>4. scan'[t] = s /\ ~s.suppressed /\ s.targets \subseteq Agents /\ s.from = tick.from /\ s.targets = Targets(t)
      BY <1>a, <2>2, <2>3, TargetsAreAgents
    <2>5. \A a \in s.targets : trace'[<<t, a>>] >= s.from
      BY <2>1, <2>4 DEF Logged, Keys
    <2> QED
      BY <1>a, <1>o, <2>3, <2>4, <2>5 DEF NamedFor, Accounted
  <1>3. CASE DueDone
    <2>1. att["tick"] \in Attempts /\ att["tick"] # Idle /\ tick.pc = "cron" /\ UNCHANGED <<trace, retry>> /\ att["tick"].left = {}
      BY <1>3, <1>a, Working DEF DueDone, TypeInv, Shaped, InLoop, durable
    <2>2. PICK t \in Tasks : t = att["tick"].task
      BY <2>1 DEF Attempts
    <2>3. PICK s : s = [from |-> tick.from, occ |-> Occurrence(t), targets |-> att["tick"].whole, suppressed |-> FALSE]
      OBVIOUS
    <2>4. scan' = [scan EXCEPT ![t] = s]
      BY <1>3, <2>2, <2>3 DEF DueDone, Scanned
    <2>5. scan'[t] = s /\ ~s.suppressed /\ s.targets \subseteq Agents /\ s.from = tick.from /\ s.targets = att["tick"].whole
      BY <1>a, <2>1, <2>3, <2>4 DEF Attempts
    <2>6. \A a \in s.targets : Accounted(<<t, a>>, tick.from)
      BY <2>1, <2>2, <2>5 DEF VanishInv, PassedAccounted
    <2> QED
      BY <1>a, <1>o, <2>1, <2>4, <2>5, <2>6 DEF NamedFor, Accounted
  <1>4. ASSUME NEW lost \in SUBSET Keys, NEW done \in SUBSET Keys, NEW stale \in SUBSET Keys, TickBegin(lost, done, stale)
        PROVE  Named'
    BY <1>4, <1>s DEF TickBegin
  <1>5. ASSUME NEW k \in Keys, RowDropped(k) \/ RowSkipped(k) \/ RowTried(k) \/ CancelRetry(k) \/ GiveUp(k)
        PROVE  Named'
    BY <1>5, <1>s DEF RowDropped, RowSkipped, RowTried, CancelRetry, GiveUp, history
  <1>6. CASE RowsDone \/ TickEnd \/ Crash \/ Restart \/ Advance \/ UNCHANGED vars
    BY <1>6, <1>s DEF RowsDone, TickEnd, Crash, Restart, Advance, vars, history
  <1>7. ASSUME NEW t \in Tasks, DueFires(t) \/ RunNow(t) \/ \E d \in {"on", "off", "gone"} : SetDef(t, d)
        PROVE  Named'
    BY <1>7, <1>s DEF DueFires, RunNow, SetDef, history
  <1>8. ASSUME NEW x \in Actors, Undelivered(x) \/ Fired(x) \/ SendBegin(x) \/ (\E a \in Agents : Target(x, a))
                                 \/ \E s \in {"ready", "busy"} : Typed(x, s)
        PROVE  Named'
    BY <1>8, <1>s DEF Undelivered, Fired, SendBegin, Target, Typed, history
  <1>9. ASSUME NEW a \in Agents, KeyHandled(a) \/ Frees(a) \/ \E s \in Sessions : Flip(a, s)
        PROVE  Named'
    BY <1>9, <1>s DEF KeyHandled, Frees, Flip, history
  <1> QED
    BY <1>1, <1>2, <1>3, <1>4, <1>5, <1>6, <1>7, <1>8, <1>9, EndsUndelivered DEF Next, TickLoop, Attempt, Tick, Operator

\* An occurrence the tick went through never vanishes: every target of the
\* task has an outcome record no older than the scanned window, waits in the
\* retry table, or was withdrawn by the operator - across crashes, lost
\* prompts, failed sends and cancelled rows.
THEOREM NothingLost == Spec => []NothingVanishes
  <1>1. Init => TypeInv /\ VanishInv
    BY TypeInit, VanishInit
  <1>2. TypeInv /\ VanishInv /\ [Next]_vars => (TypeInv /\ VanishInv)'
    BY TypeStep, VanishStep, NamedStep DEF VanishInv
  <1> QED
    BY <1>1, <1>2, VanishFollows, PTL DEF Spec

(***************************************************************************)
(* Prompts: for the one target of a task, what has been typed and what   *)
(* is promised never exceeds the occurrences up to some horizon h; they    *)
(* are equal only if the task's last run, a queued row or the prompt under *)
(* way keeps the tick from firing that key again for what is up to h.      *)
(***************************************************************************)
Single == {k \in Keys : ~Task[k[1]].all}
Home == {k \in Single : k[2] = Task[k[1]].agent}

N(b) == IF b THEN 1 ELSE 0
DueBy(t, h) == Cardinality({o \in Task[t].due : o <= h})

Queued(k) == k \in retry \/ (tick # Idle /\ k \in tick.rows)
RowTyped(k) == ForRow("tick") /\ att["tick"].pc = "typed" /\ Key("tick") = k
Cron(k) == /\ tick.pc = "cron" /\ att["tick"] # Idle /\ att["tick"].task = k[1]
           /\ k[2] \in att["tick"].left /\ k \notin tick.keys
Ordered(k) == att["runNow"] # Idle /\ att["runNow"].task = k[1] /\ k[2] \in att["runNow"].left
\* the prompts still to be typed for a row, for the due task, for the operator
RowOwed(k) == Queued(k) /\ ~RowTyped(k)
CronOwed(k) == Cron(k) /\ att["tick"].pc # "typed"
AskOwed(k) == Ordered(k) /\ att["runNow"].pc # "typed"
Spent(k) == excess[k] + N(RowOwed(k)) + N(CronOwed(k)) + N(AskOwed(k))

\* the last run counts for the horizon, and no older one is about to replace it
RanBy(k, h) == lastRun[k[1]] >= h /\ ~(Sends("runNow") /\ Key("runNow") = k /\ att["runNow"].at < h)

Horizon(k, h) ==
  /\ tick # Idle => h <= tick.now
  /\ Spent(k) <= DueBy(k[1], h)
  /\ RanBy(k, h) \/ Queued(k) \/ Cron(k) \/ Spent(k) < DueBy(k[1], h)
  /\ tick # Idle /\ k[1] \in tick.todo => RanBy(k, h) \/ k \in tick.rows \cup tick.keys \/ Spent(k) < DueBy(k[1], h)
Balanced == \A k \in Home : \E h \in 0..clock : Horizon(k, h)

\* what a task with one target never does
Aimed ==
  \A x \in Actors : att[x] # Idle /\ ~Task[att[x].task].all =>
    /\ att[x].left \subseteq {Task[att[x].task].agent}
    /\ att[x].pc # "loop" => att[x].agent = Task[att[x].task].agent
NoStrays ==
  \A k \in Single \ Home : /\ k \notin retry /\ inflight[k] = 0 /\ oblig[k] = 0 /\ excess[k] <= 0
                           /\ tick # Idle => k \notin tick.rows

\* the loops of the tick and the attempt they make
TickSends == Sends("tick") => tick # Idle /\ att["tick"].at >= tick.now
RowAttempt == att["tick"] # Idle /\ tick.pc = "rows" => Key("tick") \in tick.rows \cap tick.keys
OneOfLeft ==
  \A x \in Actors : att[x].pc \in {"try", "sending", "typed"} /\ ~ForRow(x) =>
    att[x].agent \in att[x].left /\ (x = "tick" => Key("tick") \notin tick.keys)
Windows ==
  tick # Idle => /\ tick.pc = "cron" => tick.rows = {}
                 /\ \A t \in tick.todo : \E o \in Task[t].due : tick.from < o /\ o <= tick.now
LoopInv == TickSends /\ RowAttempt /\ OneOfLeft /\ Windows

LEMMA LoopInit == Init => LoopInv
  <1> SUFFICES ASSUME Init PROVE LoopInv
    OBVIOUS
  <1>1. tick = Idle /\ \A x \in Actors : att[x] = Idle /\ att[x].pc = "idle"
    BY DEF Init, Idle
  <1> QED
    BY <1>1 DEF LoopInv, TickSends, RowAttempt, OneOfLeft, Windows, Sends, Actors

LEMMA LoopQuiet ==
    ASSUME LoopInv, UNCHANGED <<att, tick>>
    PROVE  LoopInv'
  <1>1. \A x \in Actors : (Sends(x)' <=> Sends(x)) /\ Key(x)' = Key(x) /\ (ForRow(x)' <=> ForRow(x))
    BY DEF Sends, Key, ForRow
  <1>2. Sends("tick")' = Sends("tick") /\ Key("tick")' = Key("tick")
    BY DEF Sends, Key
  <1> QED
    BY <1>1, <1>2 DEF LoopInv, TickSends, RowAttempt, OneOfLeft, Windows

LEMMA ReturnedLoop ==
    ASSUME TypeInv, LoopInv, NEW x \in Actors, att[x].pc \in {"try", "sending", "typed"}, Returned(x)
    PROVE  LoopInv'
  <1>a. /\ DOMAIN att = Actors /\ "tick" \in Actors /\ tick \in {Idle} \cup Ticks /\ InLoop
        /\ LoopInv /\ TickSends /\ RowAttempt /\ OneOfLeft /\ Windows
    BY DEF TypeInv, Shaped, Actors, LoopInv
  <1>b. ~ForRow("runNow")' /\ ~ForRow("runNow")
    BY DEF ForRow
  <1>c. \A y \in Actors \ {x} : att'[y] = att[y]
    BY OneLeaves
  <1>d. att[x] \in Attempts /\ att'[x].pc \notin {"try", "sending", "typed"}
    <2>1. Resumes(x).pc = "loop"
      BY Working DEF Resumes, Attempts
    <2> QED
      BY <2>1, <1>a, Working, ReturnedCases DEF Idle
  <1>1. CASE ForRow(x)
    <2>1. /\ x = "tick" /\ att'["tick"] = Idle /\ tick' = [tick EXCEPT !.rows = @ \ {Key(x)}] /\ tick.pc = "rows"
          /\ tick \in Ticks
      BY <1>1, <1>a, ReturnedCases DEF ForRow, Idle
    <2>2. tick'.pc = "rows" /\ tick'.todo = tick.todo /\ tick'.from = tick.from /\ tick'.now = tick.now /\ tick # Idle
      BY <2>1 DEF Ticks, Idle
    <2>3. att'["runNow"] = att["runNow"] /\ Sends("tick")' = FALSE
      BY <1>c, <2>1 DEF Actors, Sends, Idle
    <2>4. TickSends' /\ RowAttempt'
      BY <2>1, <2>3 DEF TickSends, RowAttempt
    <2>5. OneOfLeft'
      BY <1>a, <1>b, <1>d, <2>1, <2>3 DEF OneOfLeft, Actors
    <2>6. Windows'
      BY <1>a, <2>2 DEF Windows
    <2> QED
      BY <2>4, <2>5, <2>6 DEF LoopInv
  <1>2. CASE ~ForRow(x)
    <2>1. tick' = tick
      BY <1>2, ReturnedCases
    <2>2. Windows'
      BY <1>a, <2>1 DEF Windows
    <2>3. CASE x = "tick"
      <3>1. tick.pc = "cron" /\ ~Sends("tick")'
        BY <1>2, <1>a, <1>d, <2>3, Working DEF InLoop, ForRow, Sends
      <3>2. TickSends' /\ RowAttempt'
        BY <2>1, <3>1 DEF TickSends, RowAttempt
      <3>3. OneOfLeft'
        BY <1>a, <1>b, <1>c, <1>d, <2>3 DEF OneOfLeft, Actors
      <3> QED
        BY <2>2, <3>2, <3>3 DEF LoopInv
    <2>4. CASE x = "runNow"
      <3>1. att'["tick"] = att["tick"]
        BY <1>c, <2>4 DEF Actors
      <3>2. (Sends("tick")' <=> Sends("tick")) /\ Key("tick")' = Key("tick") /\ (ForRow("tick")' <=> ForRow("tick"))
        BY <2>1, <3>1 DEF Sends, Key, ForRow
      <3>3. TickSends' /\ RowAttempt'
        BY <1>a, <2>1, <3>1, <3>2 DEF TickSends, RowAttempt
      <3>4. OneOfLeft'
        BY <1>a, <1>d, <2>1, <2>4, <3>1, <3>2 DEF OneOfLeft, Actors
      <3> QED
        BY <2>2, <3>3, <3>4 DEF LoopInv
    <2> QED
      BY <2>3, <2>4 DEF Actors
  <1> QED
    BY <1>1, <1>2

LEMMA LoopStep ==
    ASSUME TypeInv, LoopInv, [Next]_vars
    PROVE  LoopInv'
  <1>a. /\ DOMAIN att = Actors /\ "tick" \in Actors /\ "runNow" \in Actors /\ tick \in {Idle} \cup Ticks /\ InLoop
        /\ TickSends /\ RowAttempt /\ OneOfLeft /\ Windows /\ Down /\ clock \in Nat
    BY DEF TypeInv, Shaped, Stored, Actors, LoopInv
  <1>t. ASSUME tick.pc \in {"rows", "cron"}
        PROVE  tick \in Ticks /\ tick # Idle /\ tick.now <= clock
    BY <1>a, <1>t DEF TypeInv, Timed, Idle
  <1>q. ASSUME UNCHANGED <<att, tick>> PROVE LoopInv'
    BY <1>q, LoopQuiet
  <1>i. Idle.pc = "idle"
    BY DEF Idle
  \* the tick moves on while it makes no attempt
  <1>m. ASSUME att["tick"] = Idle, UNCHANGED att, Windows'
        PROVE  LoopInv'
    <2>1. ~Sends("tick")' /\ att'["tick"] = Idle
      BY <1>m, <1>i DEF Sends
    <2>2. \A x \in Actors : att'[x].pc \in {"try", "sending", "typed"} => x = "runNow" /\ ~ForRow(x) /\ att'[x] = att[x]
      BY <1>m, <1>i DEF Actors, ForRow
    <2> QED
      BY <1>a, <1>m, <2>1, <2>2 DEF LoopInv, TickSends, RowAttempt, OneOfLeft, Actors
  <1>1. ASSUME NEW lost \in SUBSET Keys, NEW done \in SUBSET Keys, NEW stale \in SUBSET Keys,
               tick = Idle, TickBegin(lost, done, stale)
        PROVE  LoopInv'
    <2>1. att["tick"] = Idle /\ UNCHANGED att
      BY <1>1, <1>a, <1>i DEF InLoop, TickBegin
    <2>2. tick'.pc = "rows" /\ tick'.from = lastCheck /\ tick'.now = clock
          /\ tick'.todo = {t \in Tasks : defs[t] = "on" /\ Occurrences(t, lastCheck, clock) # {}}
      BY <1>1 DEF TickBegin
    <2>3. Windows'
      BY <2>2 DEF Windows, Occurrences
    <2> QED
      BY <1>m, <2>1, <2>3
  <1>2. ASSUME NEW k \in Keys, RowDropped(k) \/ RowSkipped(k)
        PROVE  LoopInv'
    <2>1. tick \in Ticks /\ tick # Idle /\ UNCHANGED att /\ att["tick"] = Idle /\ tick.pc = "rows"
      BY <1>2, <1>t DEF RowDropped, RowSkipped, NextRow
    <2>2. tick' = [tick EXCEPT !.rows = @ \ {k}] \/ tick' = [tick EXCEPT !.rows = @ \ {k}, !.keys = @ \cup {k}]
      BY <1>2 DEF RowDropped, RowSkipped
    <2>3. tick'.pc = "rows" /\ tick'.from = tick.from /\ tick'.now = tick.now /\ tick'.todo = tick.todo
      <3>1. CASE tick' = [tick EXCEPT !.rows = @ \ {k}]
        BY <2>1, <3>1 DEF Ticks
      <3>2. CASE tick' = [tick EXCEPT !.rows = @ \ {k}, !.keys = @ \cup {k}]
        BY <2>1, <3>2 DEF Ticks
      <3> QED
        BY <2>2, <3>1, <3>2
    <2> QED
      BY <1>a, <1>m, <2>1, <2>3 DEF Windows
  <1>3. ASSUME NEW k \in Keys, RowTried(k)
        PROVE  LoopInv'
    <2>1. tick \in Ticks /\ tick # Idle /\ tick.pc = "rows" /\ k \in tick.rows
      BY <1>3, <1>t DEF RowTried, NextRow
    <2>2. tick' = [tick EXCEPT !.keys = @ \cup {k}]
      BY <1>3 DEF RowTried
    <2>3. /\ tick'.pc = "rows" /\ tick'.from = tick.from /\ tick'.now = tick.now /\ tick'.todo = tick.todo
          /\ tick'.rows = tick.rows /\ tick'.keys = tick.keys \cup {k}
      BY <2>1, <2>2 DEF Ticks
    <2>4. att'["tick"] = [pc |-> "try", task |-> k[1], agent |-> k[2], left |-> {}, whole |-> {}, at |-> 0]
          /\ att'["runNow"] = att["runNow"]
      BY <1>3, <1>a DEF RowTried
    <2>5. ~Sends("tick")' /\ Key("tick")' = k /\ ForRow("tick")'
      BY <2>3, <2>4 DEF Sends, Key, ForRow, Keys
    <2>6. TickSends' /\ RowAttempt' /\ Windows'
      BY <1>a, <2>1, <2>3, <2>5 DEF TickSends, RowAttempt, Windows
    <2>7. OneOfLeft'
      BY <1>a, <2>4, <2>5 DEF OneOfLeft, Actors, ForRow
    <2> QED
      BY <2>6, <2>7 DEF LoopInv
  <1>4. CASE RowsDone
    <2>1. tick \in Ticks /\ tick # Idle /\ UNCHANGED att /\ att["tick"] = Idle /\ tick.rows = {}
      BY <1>4, <1>t DEF RowsDone
    <2>2. tick' = [tick EXCEPT !.pc = "cron"]
      BY <1>4 DEF RowsDone
    <2>3. tick'.rows = {} /\ tick'.from = tick.from /\ tick'.now = tick.now /\ tick'.todo = tick.todo
      BY <2>1, <2>2 DEF Ticks
    <2> QED
      BY <1>a, <1>m, <2>1, <2>3 DEF Windows
  <1>5. CASE DueDone
    <2>1. /\ tick \in Ticks /\ tick # Idle /\ tick.pc = "cron" /\ att' = [att EXCEPT !["tick"] = Idle]
          /\ tick' = [tick EXCEPT !.task = {}]
      BY <1>5, <1>t, <1>a, <1>i DEF DueDone, InLoop
    <2>2. /\ tick'.pc = "cron" /\ tick'.rows = tick.rows /\ tick'.from = tick.from /\ tick'.now = tick.now
          /\ tick'.todo = tick.todo
      BY <2>1 DEF Ticks
    <2>3. att'["tick"] = Idle /\ att'["runNow"] = att["runNow"] /\ ~Sends("tick")'
      BY <1>a, <1>i, <2>1 DEF Sends
    <2>4. TickSends' /\ RowAttempt' /\ Windows'
      BY <1>a, <2>1, <2>2, <2>3 DEF TickSends, RowAttempt, Windows
    <2>5. OneOfLeft'
      BY <1>a, <1>i, <2>3 DEF OneOfLeft, Actors, ForRow
    <2> QED
      BY <2>4, <2>5 DEF LoopInv
  <1>6. CASE TickEnd
    <2>1. UNCHANGED att /\ tick' = Idle /\ att["tick"] = Idle
      BY <1>6, <1>a DEF TickEnd, InLoop
    <2> QED
      BY <1>m, <2>1 DEF Windows
  <1>7. ASSUME NEW t \in Tasks, DueSuppressed(t) \/ DueStale(t) \/ DueSettled(t)
        PROVE  LoopInv'
    <2>1. /\ tick \in Ticks /\ tick # Idle /\ UNCHANGED att /\ att["tick"] = Idle /\ tick' = [tick EXCEPT !.todo = @ \ {t}]
      BY <1>7, <1>t, <1>a DEF DueSuppressed, DueStale, DueSettled, NextDue, InLoop
    <2>2. /\ tick'.pc = tick.pc /\ tick'.rows = tick.rows /\ tick'.from = tick.from /\ tick'.now = tick.now
          /\ tick'.todo \subseteq tick.todo
      BY <2>1 DEF Ticks
    <2> QED
      BY <1>a, <1>m, <2>1, <2>2 DEF Windows
  <1>8. ASSUME NEW t \in Tasks, DueFires(t)
        PROVE  LoopInv'
    <2>1. tick \in Ticks /\ tick # Idle /\ tick.pc = "cron" /\ tick' = [tick EXCEPT !.task = {t}, !.todo = @ \ {t}]
      BY <1>8, <1>t DEF DueFires, NextDue
    <2>2. /\ tick'.pc = "cron" /\ tick'.rows = tick.rows /\ tick'.from = tick.from /\ tick'.now = tick.now
          /\ tick'.todo \subseteq tick.todo
      BY <2>1 DEF Ticks
    <2>3. att'["tick"].pc = "loop" /\ att'["runNow"] = att["runNow"] /\ ~Sends("tick")'
      BY <1>8, <1>a DEF DueFires, Sends
    <2>4. TickSends' /\ RowAttempt' /\ Windows'
      BY <1>a, <2>1, <2>2, <2>3 DEF TickSends, RowAttempt, Windows
    <2>5. OneOfLeft'
      BY <1>a, <2>3 DEF OneOfLeft, Actors, ForRow
    <2> QED
      BY <2>4, <2>5 DEF LoopInv
  <1>9. ASSUME NEW a \in Agents, KeyHandled(a)
        PROVE  LoopInv'
    <2>1. att["tick"] \in Attempts /\ att["tick"] # Idle /\ tick.pc = "cron" /\ UNCHANGED tick
      BY <1>9, <1>a, Working DEF KeyHandled, InLoop
    <2>2. att'["tick"].pc = "loop" /\ att'["runNow"] = att["runNow"]
      BY <1>9, <1>a, <2>1 DEF KeyHandled, Attempts
    <2>4. TickSends' /\ RowAttempt' /\ Windows'
      BY <1>a, <2>1, <2>2 DEF TickSends, RowAttempt, Windows, Sends
    <2>5. OneOfLeft'
      BY <1>a, <2>2 DEF OneOfLeft, Actors, ForRow
    <2> QED
      BY <2>4, <2>5 DEF LoopInv
  <1>10. ASSUME NEW x \in Actors, Undelivered(x) \/ Fired(x)
         PROVE  LoopInv'
    BY <1>10, ReturnedLoop DEF Undelivered, Fired
  <1>11. ASSUME NEW x \in Actors, NEW a \in Agents, Target(x, a)
         PROVE  LoopInv'
    <2>1. /\ att[x] \in Attempts /\ att[x] # Idle /\ UNCHANGED tick /\ \A y \in Actors \ {x} : att'[y] = att[y]
          /\ x = "tick" => tick.pc = "cron"
      BY <1>11, <1>a, Working DEF Target, InLoop
    <2>2. /\ att'[x].pc = "try" /\ att'[x].agent = a /\ att'[x].task = att[x].task /\ att'[x].left = att[x].left
          /\ a \in att[x].left /\ (x = "tick" => <<att[x].task, a>> \notin tick.keys)
      BY <1>11, <1>a, <2>1 DEF Target, Attempts
    <2>3. CASE x = "tick"
      <3>1. TickSends' /\ RowAttempt' /\ Windows'
        BY <1>a, <2>1, <2>2, <2>3 DEF TickSends, RowAttempt, Windows, Sends
      <3>2. Key("tick")' = <<att["tick"].task, a>> /\ att'["runNow"] = att["runNow"]
        BY <2>1, <2>2, <2>3 DEF Key, Actors
      <3>3. OneOfLeft'
        BY <1>a, <2>1, <2>2, <2>3, <3>2 DEF OneOfLeft, Actors, ForRow
      <3> QED
        BY <3>1, <3>3 DEF LoopInv
    <2>4. CASE x = "runNow"
      <3>0. att'["tick"] = att["tick"]
        BY <2>1, <2>4 DEF Actors
      <3>1. (Sends("tick")' <=> Sends("tick")) /\ Key("tick")' = Key("tick")
        BY <3>0 DEF Sends, Key
      <3>2. TickSends' /\ RowAttempt' /\ Windows'
        BY <1>a, <2>1, <3>0, <3>1 DEF TickSends, RowAttempt, Windows
      <3>3. OneOfLeft'
        BY <1>a, <2>1, <2>2, <2>4, <3>0, <3>1 DEF OneOfLeft, Actors, ForRow
      <3> QED
        BY <3>2, <3>3 DEF LoopInv
    <2> QED
      BY <2>3, <2>4 DEF Actors
  <1>12. ASSUME NEW x \in Actors, NEW s \in {"ready", "busy"}, SendBegin(x) \/ Typed(x, s)
         PROVE  LoopInv'
    <2>1. att[x] \in Attempts /\ att[x] # Idle /\ UNCHANGED tick /\ (\A y \in Actors \ {x} : att'[y] = att[y])
          /\ att[x].pc \in {"try", "sending", "typed"}
      BY <1>12, <1>a, Working DEF SendBegin, Typed
    <2>2. /\ att'[x].agent = att[x].agent /\ att'[x].task = att[x].task /\ att'[x].left = att[x].left
          /\ (att'[x].at = clock \/ (Sends(x) /\ att'[x].at = att[x].at))
      <3>1. CASE SendBegin(x)
        BY <3>1, <1>a, <2>1 DEF SendBegin, Attempts
      <3>2. CASE Typed(x, s)
        BY <3>2, <1>a, <2>1 DEF Typed, Attempts, Sends
      <3> QED
        BY <1>12, <3>1, <3>2
    <2>3. att'[x].pc \in {"sending", "typed"}
      <3>1. CASE SendBegin(x)
        BY <3>1, <1>a, <2>1 DEF SendBegin, Attempts
      <3>2. CASE Typed(x, s)
        BY <3>2, <1>a, <2>1 DEF Typed, Attempts, Sends
      <3> QED
        BY <1>12, <3>1, <3>2
    <2>4. Key(x)' = Key(x) /\ (ForRow(x)' <=> ForRow(x))
      BY <2>1, <2>2 DEF Key, ForRow
    <2>5. \A y \in Actors \ {x} : Key(y)' = Key(y) /\ (ForRow(y)' <=> ForRow(y))
      BY <2>1 DEF Key, ForRow
    <2>6. OneOfLeft'
      BY <1>a, <2>1, <2>2, <2>4, <2>5 DEF OneOfLeft
    <2>7. TickSends' /\ RowAttempt' /\ Windows'
      <3>1. CASE x = "tick"
        <4>1. tick # Idle /\ tick.now <= clock
          BY <1>a, <1>t, <2>1, <3>1 DEF InLoop
        <4>2. Key("tick")' = Key("tick")
          BY <2>4, <3>1
        <4> QED
          BY <1>a, <2>1, <2>2, <3>1, <4>1, <4>2 DEF TickSends, RowAttempt, Windows
      <3>2. CASE x = "runNow"
        <4>1. att'["tick"] = att["tick"]
          BY <2>1, <3>2 DEF Actors
        <4>2. (Sends("tick")' <=> Sends("tick")) /\ Key("tick")' = Key("tick")
          BY <4>1 DEF Sends, Key
        <4> QED
          BY <1>a, <2>1, <4>1, <4>2 DEF TickSends, RowAttempt, Windows
      <3> QED
        BY <3>1, <3>2 DEF Actors
    <2> QED
      BY <2>6, <2>7 DEF LoopInv
  <1>13. ASSUME NEW t \in Tasks, RunNow(t)
         PROVE  LoopInv'
    <2>1. UNCHANGED tick /\ att'["tick"] = att["tick"]
      BY <1>13, <1>a DEF RunNow
    <2>2. att'["runNow"] = att["runNow"] \/ att'["runNow"].pc = "loop"
      BY <1>13, <1>a DEF RunNow
    <2>3. (Sends("tick")' <=> Sends("tick")) /\ Key("tick")' = Key("tick") /\ (ForRow("tick")' <=> ForRow("tick"))
      BY <2>1 DEF Sends, Key, ForRow
    <2>4. TickSends' /\ RowAttempt' /\ Windows'
      BY <1>a, <2>1, <2>3 DEF TickSends, RowAttempt, Windows
    <2>5. OneOfLeft'
      BY <1>a, <2>1, <2>2, <2>3 DEF OneOfLeft, Actors, ForRow
    <2> QED
      BY <2>4, <2>5 DEF LoopInv
  <1>14. CASE Crash
    <2>1. tick' = Idle /\ \A x \in Actors : att'[x] = Idle /\ att'[x].pc = "idle"
      BY <1>14, <1>i DEF Crash
    <2> QED
      BY <2>1 DEF LoopInv, TickSends, RowAttempt, OneOfLeft, Windows, Sends, Actors
  <1>15. CASE Restart \/ Advance \/ UNCHANGED vars
    BY <1>15, <1>q DEF Restart, Advance, vars, memory
  <1>16. ASSUME NEW k \in Keys, GiveUp(k) \/ CancelRetry(k)
         PROVE  LoopInv'
    BY <1>16, <1>q DEF GiveUp, CancelRetry, memory
  <1>17. ASSUME NEW t \in Tasks, NEW d \in {"on", "off", "gone"}, SetDef(t, d)
         PROVE  LoopInv'
    BY <1>17, <1>q DEF SetDef, memory
  <1>18. ASSUME NEW a \in Agents, Frees(a) \/ \E s \in Sessions : Flip(a, s)
         PROVE  LoopInv'
    BY <1>18, <1>q DEF Frees, Flip, memory
  <1> QED
    BY <1>1, <1>2, <1>3, <1>4, <1>5, <1>6, <1>7, <1>8, <1>9, <1>10, <1>11, <1>12, <1>13, <1>14, <1>15, <1>16, <1>17, <1>18,
       EndsUndelivered
    DEF Next, TickLoop, Attempt, Tick, Operator

LEMMA AimedInit == Init => Aimed /\ NoStrays
  <1> SUFFICES ASSUME Init PROVE Aimed /\ NoStrays
    OBVIOUS
  <1>1. Aimed
    BY DEF Init, Aimed
  <1>2. NoStrays
    BY DEF Init, NoStrays, Single
  <1> QED
    BY <1>1, <1>2

LEMMA OneTarget ==
    ASSUME NEW t \in Tasks, ~Task[t].all
    PROVE  Targets(t) = {Task[t].agent}
  BY DEF Targets

\* whatever an attempt does, it does to the one key of its task
LEMMA AimedKey ==
    ASSUME TypeInv, Aimed, NEW x \in Actors, att[x].pc \in {"try", "sending", "typed"}
    PROVE  Key(x) \in Keys /\ Key(x) \notin Single \ Home
  <1>1. att[x] \in Attempts /\ att[x] # Idle /\ Key(x) \in Keys
    BY Working
  <1>2. Key(x)[1] = att[x].task /\ Key(x)[2] = att[x].agent
    BY DEF Key
  <1> QED
    BY <1>1, <1>2 DEF Aimed, Single, Home

LEMMA AimedStep ==
    ASSUME TypeInv, Aimed, NoStrays, [Next]_vars
    PROVE  Aimed'
  <1>a. DOMAIN att = Actors /\ "tick" \in Actors /\ "runNow" \in Actors /\ tick \in {Idle} \cup Ticks
    BY DEF TypeInv, Shaped, Actors
  <1>q. ASSUME UNCHANGED att PROVE Aimed'
    BY <1>q DEF Aimed
  <1>o. ASSUME NEW x \in Actors, \A y \in Actors \ {x} : att'[y] = att[y],
               \/ att'[x] = Idle
               \/ ~Task[att'[x].task].all =>
                    /\ att'[x].left \subseteq {Task[att'[x].task].agent}
                    /\ att'[x].pc # "loop" => att'[x].agent = Task[att'[x].task].agent
        PROVE  Aimed'
    BY <1>o DEF Aimed
  <1>1. ASSUME NEW k \in Keys, RowTried(k)
        PROVE  Aimed'
    <2>1. tick # Idle /\ k \in tick.rows
      BY <1>1 DEF RowTried, NextRow, Idle
    <2>2. ~Task[k[1]].all => k[2] = Task[k[1]].agent
      BY <2>1 DEF NoStrays, Single, Home
    <2>3. att' = [att EXCEPT !["tick"] = [pc |-> "try", task |-> k[1], agent |-> k[2], left |-> {}, whole |-> {}, at |-> 0]]
      BY <1>1 DEF RowTried
    <2>4. att'["tick"].left = {} /\ att'["tick"].agent = k[2] /\ att'["tick"].task = k[1]
          /\ \A y \in Actors \ {"tick"} : att'[y] = att[y]
      BY <1>a, <2>3
    <2> QED
      BY <1>a, <1>o, <2>2, <2>4
  <1>2. ASSUME NEW t \in Tasks, NEW x \in Actors, 
               (DueFires(t) /\ x = "tick") \/ (RunNow(t) /\ x = "runNow" /\ ~Task[t].command)
        PROVE  Aimed'
    <2>1. att' = [att EXCEPT ![x] = [pc |-> "loop", task |-> t, agent |-> Main, left |-> Targets(t),
                                     whole |-> Targets(t), at |-> 0]]
      BY <1>2 DEF DueFires, RunNow
    <2>2. att'[x].left = Targets(t) /\ att'[x].pc = "loop" /\ att'[x].task = t /\ \A y \in Actors \ {x} : att'[y] = att[y]
      BY <1>a, <2>1
    <2> QED
      BY <1>o, <2>2, OneTarget
  <1>3. ASSUME NEW x \in Actors, Undelivered(x) \/ Fired(x)
        PROVE  Aimed'
    <2>1. att[x] \in Attempts /\ att[x] # Idle /\ att[x].pc \in {"try", "sending", "typed"} /\ Returned(x)
      BY <1>3, Working DEF Undelivered, Fired
    <2>2. \A y \in Actors \ {x} : att'[y] = att[y]
      BY <2>1, OneLeaves
    <2>3. /\ Resumes(x).task = att[x].task /\ Resumes(x).left = att[x].left \ {att[x].agent}
          /\ Resumes(x).pc = "loop"
      BY <2>1 DEF Resumes, Attempts
    <2>4. att'[x] = Idle \/ att'[x] = Resumes(x)
      BY <1>a, <2>1, ReturnedCases
    <2>5. ~Task[att[x].task].all => att[x].left \subseteq {Task[att[x].task].agent}
      BY <2>1 DEF Aimed
    <2> QED
      BY <1>o, <2>2, <2>3, <2>4, <2>5
  <1>4. ASSUME NEW a \in Agents, KeyHandled(a)
        PROVE  Aimed'
    <2>1. att["tick"] \in Attempts /\ att["tick"] # Idle
      BY <1>4, <1>a, Working DEF KeyHandled
    <2>2. /\ att'["tick"].left = att["tick"].left \ {a} /\ att'["tick"].pc = "loop" /\ att'["tick"].task = att["tick"].task
          /\ \A y \in Actors \ {"tick"} : att'[y] = att[y]
      BY <1>4, <1>a, <2>1 DEF KeyHandled, Attempts
    <2>3. ~Task[att["tick"].task].all => att["tick"].left \subseteq {Task[att["tick"].task].agent}
      BY <1>a, <2>1 DEF Aimed
    <2> QED
      BY <1>a, <1>o, <2>2, <2>3
  <1>5. ASSUME NEW x \in Actors, NEW a \in Agents, Target(x, a)
        PROVE  Aimed'
    <2>1. att[x] \in Attempts /\ att[x] # Idle
      BY <1>5, Working DEF Target
    <2>2. /\ att'[x].left = att[x].left /\ att'[x].task = att[x].task /\ att'[x].agent = a /\ a \in att[x].left
          /\ \A y \in Actors \ {x} : att'[y] = att[y]
      BY <1>5, <1>a, <2>1 DEF Target, Attempts
    <2>3. ~Task[att[x].task].all => att[x].left \subseteq {Task[att[x].task].agent}
      BY <2>1 DEF Aimed
    <2> QED
      BY <1>o, <2>2, <2>3
  <1>6. ASSUME NEW x \in Actors, NEW s \in {"ready", "busy"}, SendBegin(x) \/ Typed(x, s)
        PROVE  Aimed'
    <2>1. att[x] \in Attempts /\ att[x] # Idle /\ att[x].pc # "loop"
      BY <1>6, Working DEF SendBegin, Typed
    <2>2. /\ att'[x].left = att[x].left /\ att'[x].task = att[x].task /\ att'[x].agent = att[x].agent
          /\ \A y \in Actors \ {x} : att'[y] = att[y]
      <3>1. CASE SendBegin(x)
        BY <3>1, <1>a, <2>1 DEF SendBegin, Attempts
      <3>2. CASE Typed(x, s)
        BY <3>2, <1>a, <2>1 DEF Typed, Attempts
      <3> QED
        BY <1>6, <3>1, <3>2
    <2>3. ~Task[att[x].task].all => /\ att[x].left \subseteq {Task[att[x].task].agent}
                                    /\ att[x].agent = Task[att[x].task].agent
      BY <2>1 DEF Aimed
    <2> QED
      BY <1>o, <2>2, <2>3
  <1>7. CASE DueDone
    <2>1. att'["tick"] = Idle /\ \A y \in Actors \ {"tick"} : att'[y] = att[y]
      BY <1>7, <1>a DEF DueDone
    <2> QED
      BY <1>a, <1>o, <2>1
  <1>8. CASE Crash
    BY <1>8 DEF Crash, Aimed
  <1>9. ASSUME NEW lost \in SUBSET Keys, NEW done \in SUBSET Keys, NEW stale \in SUBSET Keys, TickBegin(lost, done, stale)
        PROVE  Aimed'
    BY <1>9, <1>q DEF TickBegin
  <1>10. ASSUME NEW k \in Keys, RowDropped(k) \/ RowSkipped(k) \/ CancelRetry(k) \/ GiveUp(k)
         PROVE  Aimed'
    BY <1>10, <1>q DEF RowDropped, RowSkipped, CancelRetry, GiveUp, memory
  <1>11. CASE RowsDone \/ TickEnd \/ Restart \/ Advance \/ UNCHANGED vars
    BY <1>11, <1>q DEF RowsDone, TickEnd, Restart, Advance, vars, memory
  <1>12. ASSUME NEW t \in Tasks, \/ DueSuppressed(t) \/ DueStale(t) \/ DueSettled(t)
                                 \/ (RunNow(t) /\ Task[t].command) \/ \E d \in {"on", "off", "gone"} : SetDef(t, d)
         PROVE  Aimed'
    BY <1>12, <1>q DEF DueSuppressed, DueStale, DueSettled, RunNow, SetDef, memory
  <1>13. ASSUME NEW a \in Agents, Frees(a) \/ \E s \in Sessions : Flip(a, s)
         PROVE  Aimed'
    BY <1>13, <1>q DEF Frees, Flip, memory
  <1>14. ASSUME NEW t \in Tasks, DueFires(t) \/ RunNow(t)
         PROVE  Aimed'
    <2>1. CASE DueFires(t)
      BY <1>a, <1>2, <2>1
    <2>2. CASE RunNow(t) /\ Task[t].command
      BY <1>12, <2>2
    <2>3. CASE RunNow(t) /\ ~Task[t].command
      BY <1>a, <1>2, <2>3
    <2> QED
      BY <1>14, <2>1, <2>2, <2>3
  <1> QED
    BY <1>1, <1>3, <1>4, <1>5, <1>6, <1>7, <1>8, <1>9, <1>10, <1>11, <1>12, <1>13, <1>14, EndsUndelivered
    DEF Next, TickLoop, Attempt, Tick, Operator

LEMMA StraysStep ==
    ASSUME TypeInv, Aimed, NoStrays, [Next]_vars
    PROVE  NoStrays'
  <1>a. /\ tick \in {Idle} \cup Ticks /\ retry \subseteq Keys /\ oblig \in [Keys -> Nat] /\ inflight \in [Keys -> Nat]
        /\ excess \in [Keys -> Int]
    BY DEF TypeInv, Shaped, Stored
  <1>t. ASSUME tick.pc \in {"rows", "cron"}
        PROVE  tick \in Ticks /\ tick # Idle
    BY <1>a, <1>t DEF Idle
  \* nothing is ever added for such a key
  <1>o. ASSUME \A k \in Single \ Home :
                 /\ k \in retry' => k \in retry
                 /\ inflight'[k] = inflight[k] \/ inflight'[k] = 0 \/ inflight'[k] = oblig[k]
                 /\ oblig'[k] = oblig[k] \/ oblig'[k] = 0
                 /\ excess'[k] <= excess[k],
               \/ tick' = Idle \/ tick'.rows = retry'
               \/ tick # Idle /\ tick'.rows \subseteq tick.rows
        PROVE  NoStrays'
    <2> SUFFICES ASSUME NEW k \in Single \ Home
                 PROVE  /\ k \notin retry' /\ inflight'[k] = 0 /\ oblig'[k] = 0 /\ excess'[k] <= 0
                        /\ tick' # Idle => k \notin tick'.rows
      BY DEF NoStrays, Single, Home
    <2>1. k \in Keys /\ k \notin retry /\ inflight[k] = 0 /\ oblig[k] = 0 /\ excess[k] <= 0 /\ (tick # Idle => k \notin tick.rows)
      BY DEF NoStrays, Single
    <2>2. k \notin retry' /\ inflight'[k] = 0 /\ oblig'[k] = 0 /\ (tick' # Idle => k \notin tick'.rows)
      BY <1>o, <2>1
    <2>3. excess'[k] <= excess[k] /\ excess[k] \in Int /\ excess'[k] \in Int
      <3>1. excess' \in [Keys -> Int]
        BY TypeStep DEF TypeInv, Stored
      <3> QED
        BY <1>a, <1>o, <2>1, <3>1
    <2> QED
      BY <2>1, <2>2, <2>3
  <1>k. \A k \in Single \ Home : k \in Keys
    BY DEF Single
  <1>e. \A k \in Single \ Home : excess[k] <= excess[k]
    BY <1>a, <1>k
  <1>q. ASSUME UNCHANGED <<retry, inflight, oblig, excess>>, tick' = Idle \/ (tick # Idle /\ tick'.rows \subseteq tick.rows)
        PROVE  NoStrays'
    BY <1>e, <1>o, <1>q
  <1>1. ASSUME NEW lost \in SUBSET Keys, NEW done \in SUBSET Keys, NEW stale \in SUBSET Keys, TickBegin(lost, done, stale),
               \A k \in lost \cup stale : inflight[k] # 0
        PROVE  NoStrays'
    <2>1. \A k \in Single \ Home : k \notin lost \cup stale
      BY <1>1 DEF NoStrays
    <2>2. tick'.rows = retry' /\ retry' = retry \cup lost \cup stale
      BY <1>1 DEF TickBegin
    <2>3. \A k \in Single \ Home : excess'[k] = excess[k] /\ (inflight'[k] = inflight[k] \/ inflight'[k] = 0)
                                   /\ (oblig'[k] = oblig[k] \/ oblig'[k] = 0)
      BY <1>1, <1>k, <2>1 DEF TickBegin
    <2> QED
      BY <1>e, <1>o, <2>1, <2>2, <2>3
  <1>2. ASSUME NEW k \in Keys, RowDropped(k) \/ RowSkipped(k)
        PROVE  NoStrays'
    <2>1. tick \in Ticks /\ tick # Idle /\ UNCHANGED <<inflight, oblig, excess>> /\ retry' \subseteq retry
      BY <1>2, <1>t DEF RowDropped, RowSkipped, NextRow
    <2>2. tick'.rows \subseteq tick.rows
      <3>1. CASE tick' = [tick EXCEPT !.rows = @ \ {k}]
        BY <2>1, <3>1 DEF Ticks
      <3>2. CASE tick' = [tick EXCEPT !.rows = @ \ {k}, !.keys = @ \cup {k}]
        BY <2>1, <3>2 DEF Ticks
      <3> QED
        BY <1>2, <3>1, <3>2 DEF RowDropped, RowSkipped
    <2> QED
      BY <1>e, <1>o, <2>1, <2>2
  <1>3. ASSUME NEW k \in Keys, RowTried(k)
        PROVE  NoStrays'
    <2>1. tick \in Ticks /\ tick # Idle /\ UNCHANGED <<retry, inflight, oblig, excess>> /\ tick' = [tick EXCEPT !.keys = @ \cup {k}]
      BY <1>3, <1>t DEF RowTried, NextRow, durable, history
    <2> QED
      BY <1>q, <2>1 DEF Ticks
  <1>4. CASE RowsDone \/ DueDone
    <2>1. tick \in Ticks /\ tick # Idle
      <3>1. tick # Idle
        BY <1>4, <1>t, Working DEF RowsDone, DueDone, TypeInv, Shaped, InLoop, Actors
      <3> QED
        BY <1>a, <3>1
    <2>2. UNCHANGED <<retry, inflight, oblig, excess>> /\ (tick' = [tick EXCEPT !.pc = "cron"] \/ tick' = [tick EXCEPT !.task = {}])
      BY <1>4 DEF RowsDone, DueDone, durable, history
    <2>3. tick'.rows = tick.rows
      <3>1. CASE tick' = [tick EXCEPT !.pc = "cron"]
        BY <2>1, <3>1 DEF Ticks
      <3>2. CASE tick' = [tick EXCEPT !.task = {}]
        BY <2>1, <3>2 DEF Ticks
      <3> QED
        BY <2>2, <3>1, <3>2
    <2> QED
      BY <1>q, <2>1, <2>2, <2>3
  <1>5. ASSUME NEW t \in Tasks, DueSuppressed(t) \/ DueStale(t) \/ DueSettled(t) \/ DueFires(t)
        PROVE  NoStrays'
    <2>1. tick \in Ticks /\ tick # Idle /\ UNCHANGED <<retry, inflight, oblig, excess>>
      BY <1>5, <1>t DEF DueSuppressed, DueStale, DueSettled, DueFires, NextDue, durable, history
    <2>2. tick'.rows = tick.rows
      <3>1. CASE tick' = [tick EXCEPT !.todo = @ \ {t}]
        BY <2>1, <3>1 DEF Ticks
      <3>2. CASE tick' = [tick EXCEPT !.task = {t}, !.todo = @ \ {t}]
        BY <2>1, <3>2 DEF Ticks
      <3> QED
        BY <1>5, <3>1, <3>2 DEF DueSuppressed, DueStale, DueSettled, DueFires
    <2> QED
      BY <1>q, <2>1, <2>2
  <1>6. ASSUME NEW x \in Actors, Undelivered(x) \/ Fired(x)
        PROVE  NoStrays'
    <2>1. att[x].pc \in {"try", "sending", "typed"} /\ Returned(x) /\ Key(x) \in Keys /\ Key(x) \notin Single \ Home
          /\ excess' = excess
      BY <1>6, AimedKey DEF Undelivered, Fired
    <2>2. tick' = tick \/ (tick # Idle /\ tick'.rows \subseteq tick.rows)
      BY <1>a, <1>t, <2>1, ReturnedCases DEF ForRow, Ticks
    <2>3. \A k \in Single \ Home : /\ k \in retry' => k \in retry
                                   /\ inflight'[k] = inflight[k] /\ (oblig'[k] = oblig[k] \/ oblig'[k] = 0)
      <3>1. CASE Undelivered(x)
        BY <1>a, <1>k, <2>1, <3>1 DEF Undelivered
      <3>2. CASE Fired(x)
        BY <1>a, <1>k, <2>1, <3>2 DEF Fired
      <3> QED
        BY <1>6, <3>1, <3>2
    <2> QED
      BY <1>e, <1>o, <2>1, <2>2, <2>3
  <1>7. ASSUME NEW x \in Actors, NEW s \in {"ready", "busy"}, SendBegin(x) \/ Typed(x, s)
        PROVE  NoStrays'
    <2>1. Key(x) \in Keys /\ Key(x) \notin Single \ Home /\ UNCHANGED <<retry, inflight, tick>>
      BY <1>7, AimedKey DEF SendBegin, Typed, durable
    <2>2. \A k \in Single \ Home : oblig'[k] = oblig[k] /\ excess'[k] = excess[k]
      BY <1>7, <1>a, <1>k, <2>1 DEF SendBegin, Typed, durable, history
    <2> QED
      BY <1>e, <1>o, <2>1, <2>2
  <1>8. ASSUME NEW k \in Keys, GiveUp(k)
        PROVE  NoStrays'
    <2>1. k \notin Single \ Home /\ UNCHANGED <<inflight, oblig, tick>> /\ retry' = retry \cup {k} /\ excess' = [excess EXCEPT ![k] = @ - 1]
      BY <1>8 DEF GiveUp, NoStrays, memory
    <2>2. \A j \in Single \ Home : excess'[j] = excess[j] /\ (j \in retry' => j \in retry)
      BY <1>a, <1>k, <2>1
    <2> QED
      BY <1>e, <1>o, <2>1, <2>2
  <1>9. ASSUME NEW t \in Tasks, RunNow(t)
        PROVE  NoStrays'
    <2>1. UNCHANGED <<retry, inflight, oblig, tick>>
      BY <1>9 DEF RunNow
    <2>2. \A j \in Single \ Home : excess'[j] <= excess[j]
      BY <1>9, <1>a, <1>k DEF RunNow
    <2> QED
      BY <1>o, <2>1, <2>2
  <1>10. ASSUME NEW k \in Keys, CancelRetry(k)
         PROVE  NoStrays'
    BY <1>10, <1>e, <1>o DEF CancelRetry, memory
  <1>11. CASE Crash
    <2>1. UNCHANGED <<retry, oblig>> /\ inflight' = [k \in Keys |-> 0] /\ tick' = Idle
      BY <1>11 DEF Crash, durable
    <2>2. \A j \in Single \ Home : excess'[j] <= excess[j]
      <3>1. \A k \in Keys : Cardinality({x \in Actors : att[x].pc = "typed" /\ Key(x) = k}) \in Nat
        BY FewActors
      <3>2. excess' = [k \in Keys |-> excess[k] - Cardinality({x \in Actors : att[x].pc = "typed" /\ Key(x) = k})]
        BY <1>11 DEF Crash
      <3> SUFFICES ASSUME NEW j \in Single \ Home PROVE excess'[j] <= excess[j]
        OBVIOUS
      <3>3. PICK n \in Nat : n = Cardinality({x \in Actors : att[x].pc = "typed" /\ Key(x) = j})
        BY <1>k, <3>1
      <3>4. excess'[j] = excess[j] - n
        BY <1>k, <3>2, <3>3
      <3> QED
        BY <1>a, <1>k, <3>4
    <2> QED
      BY <1>k, <1>o, <2>1, <2>2
  <1>12. CASE Restart
    <2>1. UNCHANGED <<retry, oblig, tick, excess>> /\ inflight' = oblig
      BY <1>12 DEF Restart, durable, history
    <2> QED
      BY <1>e, <1>o, <2>1
  <1>13. CASE TickEnd
    BY <1>13, <1>q DEF TickEnd, history
  <1>14. ASSUME UNCHANGED <<retry, inflight, oblig, excess, tick>> PROVE NoStrays'
    BY <1>14, <1>q
  <1>15. ASSUME NEW a \in Agents, KeyHandled(a) \/ (\E x \in Actors : Target(x, a)) \/ Frees(a) \/ \E s \in Sessions : Flip(a, s)
         PROVE  NoStrays'
    BY <1>15, <1>14 DEF KeyHandled, Target, Frees, Flip, memory, durable, history
  <1>16. ASSUME NEW t \in Tasks, NEW d \in {"on", "off", "gone"}, SetDef(t, d)
         PROVE  NoStrays'
    BY <1>16, <1>14 DEF SetDef, memory, history
  <1>17. CASE Advance \/ UNCHANGED vars
    BY <1>17, <1>14 DEF Advance, vars, memory, durable, history
  <1>18. Tick => \E lost \in SUBSET Keys, done \in SUBSET Keys, stale \in SUBSET Keys :
                   TickBegin(lost, done, stale) /\ \A k \in lost \cup stale : inflight[k] # 0
    BY DEF Tick, LostNow
  <1> QED
    BY <1>1, <1>2, <1>3, <1>4, <1>5, <1>6, <1>7, <1>8, <1>9, <1>10, <1>11, <1>12, <1>13, <1>15, <1>16, <1>17, <1>18,
       EndsUndelivered
    DEF Next, TickLoop, Attempt, Operator

LEMMA SpentCount ==
    ASSUME TypeInv, NEW k \in Keys
    PROVE  Spent(k) \in Int /\ excess[k] <= Spent(k)
  <1>1. excess[k] \in Int /\ N(RowOwed(k)) \in {0, 1} /\ N(CronOwed(k)) \in {0, 1} /\ N(AskOwed(k)) \in {0, 1}
    BY DEF TypeInv, Stored, N
  <1> QED
    BY <1>1 DEF Spent

\* an entitlement falls when a promise is dropped, and is kept when one is kept
LEMMA SpentFalls ==
    ASSUME TypeInv, TypeInv', NEW k \in Keys, excess'[k] <= excess[k],
           RowOwed(k)' => RowOwed(k), CronOwed(k)' => CronOwed(k), AskOwed(k)' => AskOwed(k)
    PROVE  /\ Spent(k)' <= Spent(k)
           /\ \/ excess'[k] < excess[k] \/ (RowOwed(k) /\ ~RowOwed(k)')
              \/ (CronOwed(k) /\ ~CronOwed(k)') \/ (AskOwed(k) /\ ~AskOwed(k)')
              => Spent(k)' < Spent(k)
  <1>1. excess[k] \in Int /\ excess'[k] \in Int
    BY DEF TypeInv, Stored
  <1>2. PICK r, c, a, r1, c1, a1 \in {0, 1} :
          /\ r = N(RowOwed(k)) /\ c = N(CronOwed(k)) /\ a = N(AskOwed(k))
          /\ r1 = N(RowOwed(k)') /\ c1 = N(CronOwed(k)') /\ a1 = N(AskOwed(k)')
    BY DEF N
  <1>3. Spent(k) = excess[k] + r + c + a /\ Spent(k)' = excess'[k] + r1 + c1 + a1
    BY <1>2 DEF Spent, N
  <1>4. r1 <= r /\ c1 <= c /\ a1 <= a
    BY <1>2 DEF N
  <1>5. /\ RowOwed(k) /\ ~RowOwed(k)' => r1 < r
        /\ CronOwed(k) /\ ~CronOwed(k)' => c1 < c
        /\ AskOwed(k) /\ ~AskOwed(k)' => a1 < a
    BY <1>2 DEF N
  <1> QED
    BY <1>1, <1>3, <1>4, <1>5

\* the due occurrences are counted up
LEMMA DueGrows ==
    ASSUME NEW t \in Tasks, NEW g \in Nat, NEW h \in Nat, g <= h
    PROVE  /\ DueBy(t, g) \in Nat /\ DueBy(t, h) \in Nat /\ DueBy(t, g) <= DueBy(t, h)
           /\ (\E o \in Task[t].due : g < o /\ o <= h) => DueBy(t, g) < DueBy(t, h)
  <1> DEFINE G == {o \in Task[t].due : o <= g}
             H == {o \in Task[t].due : o <= h}
  <1>1. Task[t].due \subseteq Nat /\ IsFiniteSet(Task[t].due)
    BY TaskShape
  <1>2. IsFiniteSet(H) /\ IsFiniteSet(G) /\ G \subseteq H
    BY <1>1, FS_Subset
  <1>3. Cardinality(G) \in Nat /\ Cardinality(H) \in Nat /\ Cardinality(G) <= Cardinality(H)
        /\ (Cardinality(G) = Cardinality(H) => G = H)
    BY <1>2, FS_CardinalityType, FS_Subset
  <1>4. (\E o \in Task[t].due : g < o /\ o <= h) => G # H
    BY <1>1
  <1> QED
    BY <1>3, <1>4 DEF DueBy

\* a horizon lasts as long as nothing that keeps the tick from firing is lost
LEMMA HorizonKept ==
    ASSUME TypeInv, TypeInv', NEW k \in Home, NEW h \in 0..clock, Horizon(k, h),
           tick' # Idle => h <= tick'.now,
           Spent(k)' <= Spent(k),
           \/ Spent(k)' < Spent(k)
           \/ ~RanBy(k, h) /\ ~Queued(k) /\ ~Cron(k)
           \/ /\ RanBy(k, h)' \/ Queued(k)' \/ Cron(k)'
              /\ tick' # Idle /\ k[1] \in tick'.todo =>
                   \/ RanBy(k, h)' \/ k \in tick'.rows \cup tick'.keys
                   \/ tick # Idle /\ k[1] \in tick.todo /\ ~RanBy(k, h) /\ k \notin tick.rows \cup tick.keys
    PROVE  Horizon(k, h)'
  <1>1. k \in Keys /\ k[1] \in Tasks /\ h \in Nat
    BY DEF Home, Single, Keys, TypeInv, Stored
  <1>2. Spent(k) \in Int /\ Spent(k)' \in Int
    <2>1. Spent(k) \in Int
      BY <1>1, SpentCount
    <2>2. excess'[k] \in Int
      BY <1>1 DEF TypeInv, Stored
    <2>3. N(RowOwed(k)') \in {0, 1} /\ N(CronOwed(k)') \in {0, 1} /\ N(AskOwed(k)') \in {0, 1}
      BY DEF N
    <2>4. Spent(k)' = excess'[k] + N(RowOwed(k)') + N(CronOwed(k)') + N(AskOwed(k)')
      BY DEF Spent, N
    <2> QED
      BY <2>1, <2>2, <2>3, <2>4
  <1>3. PICK d \in Nat : d = DueBy(k[1], h)
    BY <1>1, DueGrows
  <1>4. Spent(k) <= d
    BY <1>3 DEF Horizon
  <1>5. CASE Spent(k)' < Spent(k) \/ Spent(k) < d
    <2>1. Spent(k)' < d
      BY <1>2, <1>3, <1>4, <1>5
    <2> QED
      BY <1>2, <1>3, <2>1 DEF Horizon
  <1>6. CASE ~(Spent(k)' < Spent(k)) /\ ~(Spent(k) < d)
    <2>1. /\ RanBy(k, h) \/ Queued(k) \/ Cron(k)
          /\ tick # Idle /\ k[1] \in tick.todo => RanBy(k, h) \/ k \in tick.rows \cup tick.keys
      BY <1>3, <1>6 DEF Horizon
    <2>2. /\ RanBy(k, h)' \/ Queued(k)' \/ Cron(k)'
          /\ tick' # Idle /\ k[1] \in tick'.todo => RanBy(k, h)' \/ k \in tick'.rows \cup tick'.keys
      BY <1>6, <2>1
    <2>3. Spent(k)' <= d
      BY <1>2, <1>3, <1>4
    <2> QED
      BY <1>3, <2>2, <2>3 DEF Horizon
  <1> QED
    BY <1>5, <1>6

\* ... and as long as no promise is added and the tick has no more to fire
LEMMA HorizonEased ==
    ASSUME TypeInv, TypeInv', NEW k \in Home, NEW h \in 0..clock, Horizon(k, h), excess'[k] <= excess[k],
           RowOwed(k)' => RowOwed(k), CronOwed(k)' => CronOwed(k), AskOwed(k)' => AskOwed(k),
           RanBy(k, h) => RanBy(k, h)', Queued(k) => Queued(k)', Cron(k) => Cron(k)',
           tick' # Idle => /\ tick # Idle /\ tick'.now = tick.now /\ tick'.todo \subseteq tick.todo
                           /\ k \in tick.rows \cup tick.keys => k \in tick'.rows \cup tick'.keys
    PROVE  Horizon(k, h)'
  <1>1. k \in Keys
    BY DEF Home, Single
  <1>2. Spent(k)' <= Spent(k)
    BY <1>1, SpentFalls
  <1>3. tick' # Idle => h <= tick'.now
    BY DEF Horizon
  <1>4. tick' # Idle /\ k[1] \in tick'.todo =>
          \/ RanBy(k, h)' \/ k \in tick'.rows \cup tick'.keys
          \/ tick # Idle /\ k[1] \in tick.todo /\ ~RanBy(k, h) /\ k \notin tick.rows \cup tick.keys
    OBVIOUS
  <1> QED
    BY <1>2, <1>3, <1>4, HorizonKept

LEMMA QuietBalance ==
    ASSUME TypeInv, TypeInv', NEW k \in Home, NEW h \in 0..clock, Horizon(k, h), excess'[k] <= excess[k],
           lastRun'[k[1]] = lastRun[k[1]], UNCHANGED <<tick, att, retry>>
    PROVE  Horizon(k, h)'
  <1>1. /\ Queued(k)' <=> Queued(k)
        /\ RowTyped(k)' <=> RowTyped(k)
        /\ Cron(k)' <=> Cron(k)
        /\ Ordered(k)' <=> Ordered(k)
        /\ RanBy(k, h)' <=> RanBy(k, h)
    BY DEF Queued, RowTyped, Cron, Ordered, RanBy, Sends, Key, ForRow
  <1>2. /\ RowOwed(k)' => RowOwed(k)
        /\ CronOwed(k)' => CronOwed(k)
        /\ AskOwed(k)' => AskOwed(k)
    BY <1>1 DEF RowOwed, CronOwed, AskOwed
  <1> QED
    BY <1>1, <1>2, HorizonEased

\* the operator withdraws a row, the tick drops one: the promise goes with it
LEMMA RowGoneBalance ==
    ASSUME TypeInv, TypeInv', LoopInv, NEW k \in Home, NEW h \in 0..clock, Horizon(k, h), NEW j \in Keys,
           CancelRetry(j) \/ RowDropped(j) \/ RowSkipped(j)
    PROVE  Horizon(k, h)'
  <1>a. tick \in {Idle} \cup Ticks /\ InLoop /\ RowAttempt
    BY DEF TypeInv, Shaped, LoopInv
  <1>b. retry' = retry \ {j} /\ UNCHANGED <<att, lastRun, excess>>
    BY DEF CancelRetry, RowDropped, RowSkipped, memory
  <1>c. k \in Keys /\ excess'[k] <= excess[k]
    BY <1>b DEF TypeInv, Stored, Home, Single
  <1>1. CASE CancelRetry(j)
    <2>1. tick' = tick
      BY <1>1 DEF CancelRetry, memory
    <2>2. /\ RowTyped(k)' <=> RowTyped(k)
          /\ Cron(k)' <=> Cron(k)
          /\ Ordered(k)' <=> Ordered(k)
          /\ RanBy(k, h)' <=> RanBy(k, h)
      BY <1>b, <2>1 DEF RowTyped, Cron, Ordered, RanBy, Sends, Key, ForRow
    <2>3. Queued(k)' => Queued(k)
      BY <1>b, <2>1 DEF Queued
    <2>4. /\ RowOwed(k)' => RowOwed(k)
          /\ CronOwed(k)' => CronOwed(k)
          /\ AskOwed(k)' => AskOwed(k)
      BY <1>b, <2>2, <2>3 DEF RowOwed, CronOwed, AskOwed
    <2>5. CASE Queued(k) => Queued(k)'
      BY <1>c, <2>1, <2>2, <2>4, <2>5, HorizonEased
    <2>6. CASE Queued(k) /\ ~Queued(k)'
      <3>1. ~(tick # Idle /\ k \in tick.rows)
        BY <2>1, <2>6 DEF Queued
      <3>2. ~RowTyped(k)
        BY <1>a, <3>1 DEF RowTyped, ForRow, RowAttempt, Idle
      <3>3. RowOwed(k) /\ ~RowOwed(k)'
        BY <2>6, <3>2 DEF RowOwed
      <3> QED
        BY <1>c, <2>1, <2>4, <3>3, SpentFalls, HorizonKept DEF Horizon
    <2> QED
      BY <2>5, <2>6
  <1>2. CASE RowDropped(j) \/ RowSkipped(j)
    <2>1. tick \in Ticks /\ tick # Idle /\ tick.pc = "rows" /\ j \in tick.rows /\ att["tick"] = Idle
      BY <1>2, <1>a DEF RowDropped, RowSkipped, NextRow, Idle
    <2>2. /\ tick' \in Ticks /\ tick' # Idle /\ tick'.pc = "rows" /\ tick'.now = tick.now /\ tick'.todo = tick.todo
          /\ tick'.rows = tick.rows \ {j} /\ tick.keys \subseteq tick'.keys
      <3>2. CASE tick' = [tick EXCEPT !.rows = @ \ {j}]
        BY <2>1, <3>2 DEF Ticks, Idle
      <3>3. CASE tick' = [tick EXCEPT !.rows = @ \ {j}, !.keys = @ \cup {j}]
        BY <2>1, <3>3 DEF Ticks, Idle
      <3> QED
        BY <1>2, <3>2, <3>3 DEF RowDropped, RowSkipped
    <2>3. /\ ~RowTyped(k) /\ ~RowTyped(k)' /\ ~Cron(k) /\ ~Cron(k)'
          /\ Ordered(k)' <=> Ordered(k)
          /\ RanBy(k, h)' <=> RanBy(k, h)
      BY <1>b, <2>1, <2>2 DEF RowTyped, Cron, Ordered, RanBy, Sends, Key, ForRow, Idle
    <2>4. Queued(k)' <=> Queued(k) /\ j # k
      BY <1>b, <2>1, <2>2 DEF Queued
    <2>5. /\ RowOwed(k)' => RowOwed(k)
          /\ CronOwed(k)' => CronOwed(k)
          /\ AskOwed(k)' => AskOwed(k)
      BY <1>b, <2>3, <2>4 DEF RowOwed, CronOwed, AskOwed
    <2>6. CASE j # k
      BY <1>c, <2>1, <2>2, <2>3, <2>4, <2>5, <2>6, HorizonEased
    <2>7. CASE j = k
      <3>1. RowOwed(k) /\ ~RowOwed(k)'
        BY <2>1, <2>3, <2>4, <2>7 DEF RowOwed, Queued
      <3> QED
        BY <1>c, <2>1, <2>2, <2>5, <3>1, SpentFalls, HorizonKept DEF Horizon
    <2> QED
      BY <2>6, <2>7
  <1> QED
    BY <1>1, <1>2

\* a lost prompt is owed again
LEMMA GiveUpBalance ==
    ASSUME TypeInv, TypeInv', NEW k \in Home, NEW h \in 0..clock, Horizon(k, h), NEW j \in Keys, GiveUp(j)
    PROVE  Horizon(k, h)'
  <1>a. /\ retry' = retry \cup {j} /\ UNCHANGED <<att, tick, lastRun>> /\ k \in Keys
        /\ excess' = [excess EXCEPT ![j] = @ - 1] /\ excess \in [Keys -> Int]
    BY DEF GiveUp, memory, TypeInv, Stored, Home, Single
  <1>1. /\ RowTyped(k)' <=> RowTyped(k)
        /\ Cron(k)' <=> Cron(k)
        /\ Ordered(k)' <=> Ordered(k)
        /\ RanBy(k, h)' <=> RanBy(k, h)
    BY <1>a DEF RowTyped, Cron, Ordered, RanBy, Sends, Key, ForRow
  <1>2. CASE j # k
    <2>1. excess'[k] = excess[k] /\ (Queued(k)' <=> Queued(k))
      BY <1>a, <1>2 DEF Queued
    <2>2. /\ RowOwed(k)' => RowOwed(k)
          /\ CronOwed(k)' => CronOwed(k)
          /\ AskOwed(k)' => AskOwed(k)
      BY <1>a, <1>1, <2>1 DEF RowOwed, CronOwed, AskOwed
    <2> QED
      BY <1>a, <1>1, <2>1, <2>2, HorizonEased
  <1>3. CASE j = k
    <2>1. excess'[k] = excess[k] - 1 /\ Queued(k)'
      BY <1>a, <1>3 DEF Queued
    <2>2. N(CronOwed(k)') = N(CronOwed(k)) /\ N(AskOwed(k)') = N(AskOwed(k))
      BY <1>a, <1>1 DEF CronOwed, AskOwed, N
    <2>3. N(RowOwed(k)) \in {0, 1} /\ N(CronOwed(k)) \in {0, 1} /\ N(AskOwed(k)) \in {0, 1} /\ N(RowOwed(k)') \in {0, 1}
      BY DEF N
    <2>4. Spent(k)' = excess'[k] + N(RowOwed(k)') + N(CronOwed(k)') + N(AskOwed(k)')
      BY DEF Spent, N
    <2>5. Spent(k)' <= Spent(k)
      BY <1>a, <2>1, <2>2, <2>3, <2>4 DEF Spent
    <2> QED
      BY <1>a, <1>1, <2>1, <2>5, HorizonKept DEF Horizon
  <1> QED
    BY <1>2, <1>3

\* a new tick: the watchdog turns lost prompts into rows, every row is taken along
LEMMA TickBalance ==
    ASSUME TypeInv, TypeInv', NoStrays, NEW k \in Home, NEW h \in 0..clock, Horizon(k, h), tick = Idle,
           NEW lost \in SUBSET Keys, NEW done \in SUBSET Keys, NEW stale \in SUBSET Keys, TickBegin(lost, done, stale),
           \A j \in lost \cup stale : inflight[j] # 0
    PROVE  Horizon(k, h)'
  <1>a. /\ k \in Keys /\ k[1] \in Tasks /\ excess \in [Keys -> Int] /\ lastRun \in [Tasks -> Nat]
        /\ att["tick"] = Idle /\ tick.pc = "idle" /\ clock \in Nat /\ h <= clock
    BY DEF TypeInv, Stored, Shaped, InLoop, Home, Single, Keys, Idle
  <1>b. /\ att' = att /\ retry' = retry \cup lost \cup stale
        /\ excess' = [j \in Keys |-> IF j \in lost \cup stale THEN excess[j] - 1 ELSE excess[j]]
    BY DEF TickBegin
  <1>c. /\ tick'.now = clock /\ tick'.rows = retry' /\ tick'.pc = "rows" /\ tick'.keys = {}
        /\ tick' # Idle
    <2>1. tick' = [pc |-> "rows", now |-> clock, from |-> lastCheck, defs |-> defs, keys |-> {}, task |-> {},
                   rows |-> retry', todo |-> {t \in Tasks : defs[t] = "on" /\ Occurrences(t, lastCheck, clock) # {}}]
      BY DEF TickBegin
    <2> QED
      BY <2>1 DEF Idle
  <1>1. /\ ~RowTyped(k) /\ ~RowTyped(k)' /\ ~Cron(k) /\ ~Cron(k)'
        /\ Ordered(k)' <=> Ordered(k)
        /\ Queued(k)' <=> k \in retry'
        /\ Queued(k) <=> k \in retry
    BY <1>a, <1>b, <1>c DEF RowTyped, Cron, Ordered, Queued, Idle
  <1>2. CASE k \in lost \cup stale
    <2>1. excess'[k] = excess[k] - 1 /\ Queued(k)'
      BY <1>a, <1>b, <1>1, <1>2
    <2>2. N(CronOwed(k)') = N(CronOwed(k)) /\ N(AskOwed(k)') = N(AskOwed(k))
      BY <1>b, <1>1 DEF CronOwed, AskOwed, N
    <2>3. N(RowOwed(k)) \in {0, 1} /\ N(CronOwed(k)) \in {0, 1} /\ N(AskOwed(k)) \in {0, 1} /\ N(RowOwed(k)') \in {0, 1}
      BY DEF N
    <2>4. Spent(k)' = excess'[k] + N(RowOwed(k)') + N(CronOwed(k)') + N(AskOwed(k)')
      BY DEF Spent, N
    <2>5. Spent(k)' <= Spent(k)
      BY <1>a, <2>1, <2>2, <2>3, <2>4 DEF Spent
    <2> QED
      BY <1>a, <1>b, <1>c, <1>2, <2>1, <2>5, HorizonKept
  <1>3. CASE k \notin lost \cup stale
    <2>1. excess'[k] = excess[k] /\ (Queued(k)' <=> Queued(k))
      BY <1>a, <1>b, <1>1, <1>3
    <2>2. lastRun'[k[1]] = lastRun[k[1]]
      <3>1. lastRun' = [t \in Tasks |-> IF \E j \in lost : j[1] = t /\ inflight[j] = lastRun[t] THEN 0 ELSE lastRun[t]]
        BY DEF TickBegin
      <3>2. ASSUME NEW j \in lost, j[1] = k[1] PROVE FALSE
        <4>1. j \in Keys /\ j \in Single /\ j # k /\ inflight[j] # 0
          BY <1>3, <3>2 DEF Home, Single
        <4>2. j \notin Home
          BY <3>2, <4>1 DEF Home, Single, Keys
        <4> QED
          BY <4>1, <4>2 DEF NoStrays
      <3> QED
        BY <1>a, <3>1, <3>2
    <2>3. RanBy(k, h)' <=> RanBy(k, h)
      BY <1>b, <2>2 DEF RanBy, Sends, Key
    <2>4. /\ RowOwed(k)' => RowOwed(k)
          /\ CronOwed(k)' => CronOwed(k)
          /\ AskOwed(k)' => AskOwed(k)
      BY <1>b, <1>1, <2>1 DEF RowOwed, CronOwed, AskOwed
    <2>5. Spent(k)' <= Spent(k)
      BY <1>a, <2>1, <2>4, SpentFalls
    <2> QED
      BY <1>a, <1>c, <1>1, <2>1, <2>3, <2>5, HorizonKept
  <1> QED
    BY <1>2, <1>3

\* the steps of the tick that fire nothing
LEMMA TickWalksBalance ==
    ASSUME TypeInv, TypeInv', LoopInv, NEW k \in Home, NEW h \in 0..clock, Horizon(k, h),
           \/ \E j \in Keys : RowTried(j)
           \/ RowsDone \/ DueDone \/ TickEnd
           \/ \E t \in Tasks : DueSuppressed(t) \/ DueStale(t) \/ DueSettled(t)
    PROVE  Horizon(k, h)'
  <1>t. /\ k \in Keys /\ k[1] \in Tasks /\ excess \in [Keys -> Int] /\ lastRun \in [Tasks -> Nat]
        /\ tick \in {Idle} \cup Ticks /\ InLoop /\ DOMAIN att = Actors /\ "tick" # "runNow"
    BY DEF TypeInv, Stored, Shaped, Home, Single, Keys
  <1>s. excess' = excess /\ retry' = retry /\ tick # Idle /\ att'["runNow"] = att["runNow"]
    <2>1. ASSUME NEW j \in Keys, RowTried(j)
          PROVE  excess' = excess /\ retry' = retry /\ tick # Idle /\ att'["runNow"] = att["runNow"]
      BY <1>t, <2>1 DEF RowTried, NextRow, durable, history, Idle, Actors
    <2>2. CASE RowsDone \/ TickEnd
      BY <1>t, <2>2 DEF RowsDone, TickEnd, durable, history, Idle
    <2>3. CASE DueDone
      <3>1. att["tick"] # Idle
        BY <2>3 DEF DueDone, Idle
      <3> QED
        BY <1>t, <2>3, <3>1 DEF DueDone, InLoop, durable, Idle, Actors
    <2>4. ASSUME NEW t \in Tasks, DueSuppressed(t) \/ DueStale(t) \/ DueSettled(t)
          PROVE  excess' = excess /\ retry' = retry /\ tick # Idle /\ att'["runNow"] = att["runNow"]
      <3>1. tick.pc = "cron"
        BY <2>4 DEF DueSuppressed, DueStale, DueSettled, NextDue
      <3>2. UNCHANGED <<excess, retry, att>>
        BY <2>4 DEF DueSuppressed, DueStale, DueSettled, durable
      <3> QED
        BY <3>1, <3>2 DEF Idle
    <2> QED
      BY <2>1, <2>2, <2>3, <2>4
  <1>a. /\ k \in Keys /\ k[1] \in Tasks /\ excess' = excess /\ retry' = retry /\ excess \in [Keys -> Int]
        /\ lastRun \in [Tasks -> Nat] /\ tick \in {Idle} \cup Ticks /\ tick # Idle /\ DOMAIN att = Actors
    BY <1>t, <1>s
  <1>b. tick \in Ticks /\ excess'[k] <= excess[k] /\ att'["runNow"] = att["runNow"]
    BY <1>a, <1>s
  <1>r. /\ Ordered(k)' <=> Ordered(k)
        /\ AskOwed(k)' <=> AskOwed(k)
        /\ lastRun'[k[1]] = lastRun[k[1]] => (RanBy(k, h)' <=> RanBy(k, h))
    BY <1>b DEF Ordered, AskOwed, RanBy, Sends, Key
  <1>1. ASSUME lastRun'[k[1]] = lastRun[k[1]], Queued(k)' <=> Queued(k), ~RowTyped(k), Cron(k)' <=> Cron(k), 
               CronOwed(k)' => CronOwed(k),
               tick' # Idle => /\ tick'.now = tick.now /\ tick'.todo \subseteq tick.todo
                               /\ k \in tick.rows \cup tick.keys => k \in tick'.rows \cup tick'.keys
        PROVE  Horizon(k, h)'
    <2>1. RowOwed(k)' => RowOwed(k)
      BY <1>1 DEF RowOwed
    <2> QED
      BY <1>a, <1>b, <1>r, <1>1, <2>1, HorizonEased
  <1>2. ASSUME NEW j \in Keys, RowTried(j) PROVE Horizon(k, h)'
    <2>1. /\ tick.pc = "rows" /\ att["tick"] = Idle /\ tick' = [tick EXCEPT !.keys = @ \cup {j}] /\ UNCHANGED lastRun
          /\ att' = [att EXCEPT !["tick"] = [pc |-> "try", task |-> j[1], agent |-> j[2], left |-> {}, whole |-> {}, at |-> 0]]
      BY <1>2 DEF RowTried, NextRow, durable
    <2>2. /\ tick' # Idle /\ tick'.pc = "rows" /\ tick'.now = tick.now /\ tick'.todo = tick.todo /\ tick'.rows = tick.rows
          /\ tick'.keys = tick.keys \cup {j}
      BY <1>b, <2>1 DEF Ticks, Idle
    <2>3. att'["tick"].pc = "try"
      BY <1>a, <2>1 DEF Actors
    <2>4. ~RowTyped(k) /\ ~RowTyped(k)' /\ ~Cron(k) /\ ~Cron(k)' /\ (Queued(k)' <=> Queued(k)) /\ ~CronOwed(k)'
      BY <1>a, <2>1, <2>2, <2>3 DEF RowTyped, Cron, CronOwed, Queued, Idle
    <2> QED
      BY <1>1, <2>1, <2>2, <2>4
  <1>3. CASE RowsDone
    <2>1. /\ att["tick"] = Idle /\ tick' = [tick EXCEPT !.pc = "cron"] /\ UNCHANGED <<lastRun, att>>
      BY <1>3 DEF RowsDone, durable
    <2>2. /\ tick' # Idle /\ tick'.now = tick.now /\ tick'.todo = tick.todo /\ tick'.rows = tick.rows /\ tick'.keys = tick.keys
      BY <1>b, <2>1 DEF Ticks, Idle
    <2>4. ~RowTyped(k) /\ ~RowTyped(k)' /\ ~Cron(k) /\ ~Cron(k)' /\ (Queued(k)' <=> Queued(k)) /\ ~CronOwed(k)'
      BY <1>a, <2>1, <2>2 DEF RowTyped, Cron, CronOwed, Queued, Idle
    <2> QED
      BY <1>1, <2>1, <2>2, <2>4
  <1>4. CASE DueDone
    <2>1. /\ att["tick"].pc = "loop" /\ att["tick"].left = {} /\ tick' = [tick EXCEPT !.task = {}] /\ UNCHANGED lastRun
          /\ att' = [att EXCEPT !["tick"] = Idle]
      BY <1>4 DEF DueDone, durable
    <2>2. /\ tick' # Idle /\ tick'.now = tick.now /\ tick'.todo = tick.todo /\ tick'.rows = tick.rows /\ tick'.keys = tick.keys
      BY <1>b, <2>1 DEF Ticks, Idle
    <2>3. att'["tick"] = Idle
      BY <1>a, <2>1 DEF Actors
    <2>4. ~RowTyped(k) /\ ~RowTyped(k)' /\ ~Cron(k) /\ ~Cron(k)' /\ (Queued(k)' <=> Queued(k)) /\ ~CronOwed(k)'
      BY <1>a, <2>1, <2>2, <2>3 DEF RowTyped, Cron, CronOwed, Queued, Idle
    <2> QED
      BY <1>1, <2>1, <2>2, <2>4
  <1>5. CASE TickEnd
    <2>1. /\ tick.pc = "cron" /\ tick.task = {} /\ tick' = Idle /\ UNCHANGED <<lastRun, att>>
      BY <1>5 DEF TickEnd
    <2>2. tick.rows = {} /\ att["tick"] = Idle
      BY <1>a, <2>1 DEF LoopInv, Windows, TypeInv, Shaped, InLoop
    <2>4. ~RowTyped(k) /\ ~RowTyped(k)' /\ ~Cron(k) /\ ~Cron(k)' /\ (Queued(k)' <=> Queued(k)) /\ ~CronOwed(k)'
      BY <1>a, <2>1, <2>2 DEF RowTyped, Cron, CronOwed, Queued, Idle
    <2> QED
      BY <1>1, <2>1, <2>4
  <1>6. ASSUME NEW t \in Tasks, DueSuppressed(t) \/ DueStale(t) \/ DueSettled(t) PROVE Horizon(k, h)'
    <2>1. /\ tick.pc = "cron" /\ tick' = [tick EXCEPT !.todo = @ \ {t}] /\ UNCHANGED att
          /\ lastRun' = lastRun \/ lastRun' = [lastRun EXCEPT ![t] = tick.now]
      BY <1>6 DEF DueSuppressed, DueStale, DueSettled, NextDue, durable
    <2>2. /\ tick' # Idle /\ tick'.pc = "cron" /\ tick'.now = tick.now /\ tick'.todo = tick.todo \ {t} /\ tick'.rows = tick.rows
          /\ tick'.keys = tick.keys
      BY <1>b, <2>1 DEF Ticks, Idle
    <2>4. /\ ~RowTyped(k) /\ ~RowTyped(k)'
          /\ Cron(k)' <=> Cron(k)
          /\ CronOwed(k)' <=> CronOwed(k)
          /\ Queued(k)' <=> Queued(k)
      BY <1>a, <2>1, <2>2 DEF RowTyped, ForRow, Cron, CronOwed, Queued
    <2>5. CASE lastRun'[k[1]] = lastRun[k[1]]
      BY <1>1, <2>1, <2>2, <2>4, <2>5
    <2>6. CASE lastRun'[k[1]] # lastRun[k[1]]
      <3>1. t = k[1] /\ lastRun'[k[1]] = tick.now
        BY <1>a, <2>1, <2>6
      <3>2. tick.now >= h
        BY <1>a, <1>b DEF Horizon, Ticks
      <3>3. lastRun'[k[1]] >= h
        BY <3>1, <3>2
      <3>4. RanBy(k, h) => RanBy(k, h)'
        BY <2>1, <3>3 DEF RanBy, Sends, Key
      <3>5. RowOwed(k)' => RowOwed(k)
        BY <2>4 DEF RowOwed
      <3> QED
        BY <1>a, <1>b, <1>r, <2>2, <2>4, <3>4, <3>5, HorizonEased
    <2> QED
      BY <2>5, <2>6
  <1> QED
    BY <1>2, <1>3, <1>4, <1>5, <1>6

\* an attempt is made for the key whose turn it is, and for no other
LEMMA WhoseTurn ==
    ASSUME TypeInv, LoopInv, Aimed, NEW k \in Home, NEW x \in Actors, att[x].pc \in {"try", "sending", "typed"}
    PROVE  /\ ForRow(x) => tick # Idle /\ Key(x) \in tick.rows \cap tick.keys /\ ~Cron(k)
           /\ x = "tick" /\ ~ForRow(x) => tick.pc = "cron" /\ ~RowTyped(k) /\ (Cron(k) <=> Key(x) = k)
           /\ x = "runNow" => (Ordered(k) <=> Key(x) = k)
           /\ Key(x) # k => att[x].task # k[1]
  <1>a. /\ k \in Keys /\ ~Task[k[1]].all /\ k[2] = Task[k[1]].agent /\ k = <<k[1], k[2]>>
        /\ tick \in {Idle} \cup Ticks /\ InLoop /\ RowAttempt /\ OneOfLeft
    BY DEF Home, Single, Keys, TypeInv, Shaped, LoopInv
  <1>b. att[x] \in Attempts /\ att[x] # Idle
    BY Working
  <1>c. att[x].task = k[1] => att[x].left \subseteq {k[2]} /\ att[x].agent = k[2]
    BY <1>a, <1>b DEF Aimed
  <1>d. att[x].task = k[1] => Key(x) = k
    BY <1>a, <1>c DEF Key
  <1>e. Key(x) = k => att[x].task = k[1] /\ att[x].agent = k[2]
    BY <1>a DEF Key
  <1>1. ASSUME ForRow(x)
        PROVE  tick # Idle /\ Key(x) \in tick.rows \cap tick.keys /\ ~Cron(k)
    BY <1>1, <1>a, <1>b DEF ForRow, RowAttempt, Cron, Idle
  <1>2. ASSUME x = "tick", ~ForRow(x)
        PROVE  tick.pc = "cron" /\ ~RowTyped(k) /\ (Cron(k) <=> Key(x) = k)
    <2>1. tick.pc = "cron" /\ ~RowTyped(k)
      BY <1>2, <1>a, <1>b DEF InLoop, ForRow, RowTyped
    <2>2. att[x].agent \in att[x].left /\ Key(x) \notin tick.keys
      BY <1>2, <1>a DEF OneOfLeft
    <2> QED
      BY <1>2, <1>b, <1>d, <1>e, <2>1, <2>2 DEF Cron
  <1>3. ASSUME x = "runNow"
        PROVE  Ordered(k) <=> Key(x) = k
    <2>1. att[x].agent \in att[x].left
      BY <1>3, <1>a DEF OneOfLeft, ForRow
    <2> QED
      BY <1>3, <1>b, <1>d, <1>e, <2>1 DEF Ordered
  <1> QED
    BY <1>1, <1>2, <1>3, <1>d

\* ... and when it returns it has had its turn
LEMMA TurnOver ==
    ASSUME TypeInv, LoopInv, Aimed, NEW k \in Home, NEW x \in Actors, att[x].pc \in {"try", "sending", "typed"}, Returned(x)
    PROVE  /\ tick' # Idle <=> tick # Idle
           /\ tick # Idle => /\ tick'.now = tick.now /\ tick'.todo = tick.todo /\ tick'.keys = tick.keys
                             /\ tick'.rows = IF ForRow(x) THEN tick.rows \ {Key(x)} ELSE tick.rows
           /\ x = "tick" => /\ ~Cron(k)' /\ ~RowTyped(k)' /\ att'["runNow"] = att["runNow"]
           /\ x = "runNow" => /\ ~Ordered(k)' /\ tick' = tick /\ att'["tick"] = att["tick"] /\ ~Sends("runNow")'
  <1>a. /\ k \in Keys /\ ~Task[k[1]].all /\ k[2] = Task[k[1]].agent /\ DOMAIN att = Actors
        /\ tick \in {Idle} \cup Ticks /\ InLoop
    BY DEF Home, Single, Keys, TypeInv, Shaped
  <1>b. att[x] \in Attempts /\ att[x] # Idle
    BY Working
  <1>c. /\ Resumes(x).pc = "loop" /\ Resumes(x).task = att[x].task /\ Resumes(x).left = att[x].left \ {att[x].agent}
        /\ Resumes(x) # Idle
    BY <1>b DEF Resumes, Attempts, Idle
  <1>d. att[x].task = k[1] => att[x].left \subseteq {k[2]} /\ att[x].agent = k[2]
    BY <1>a, <1>b DEF Aimed
  <1>e. att[x].task = k[1] => k[2] \notin Resumes(x).left
    BY <1>c, <1>d
  <1>f. ~Sends(x)' /\ \A y \in Actors \ {x} : att'[y] = att[y]
    BY OneLeaves
  <1>1. CASE ForRow(x) /\ att' = [att EXCEPT ![x] = Idle] /\ tick' = [tick EXCEPT !.rows = @ \ {Key(x)}]
    <2>1. x = "tick" /\ tick \in Ticks /\ tick # Idle /\ att'[x] = Idle
      BY <1>1, <1>a DEF ForRow, Idle
    <2>2. /\ tick' # Idle /\ tick'.now = tick.now /\ tick'.todo = tick.todo /\ tick'.keys = tick.keys
          /\ tick'.rows = tick.rows \ {Key(x)}
      BY <1>1, <2>1 DEF Ticks, Idle
    <2>3. ~Cron(k)' /\ ~RowTyped(k)' /\ att'["runNow"] = att["runNow"]
      BY <1>f, <2>1 DEF Cron, RowTyped, Idle, Actors
    <2> QED
      BY <1>1, <2>1, <2>2, <2>3
  <1>2. CASE x = "runNow" /\ att' = [att EXCEPT ![x] = Idle] /\ tick' = tick
    <2>1. att'[x] = Idle /\ ~ForRow(x) /\ att'["tick"] = att["tick"]
      BY <1>2, <1>a DEF ForRow, Actors
    <2>2. ~Ordered(k)' /\ ~Sends("runNow")'
      BY <1>2, <1>f, <2>1 DEF Ordered
    <2> QED
      BY <1>2, <2>1, <2>2
  <1>3. CASE ~ForRow(x) /\ att' = [att EXCEPT ![x] = Resumes(x)] /\ tick' = tick
    <2>1. att'[x] = Resumes(x)
      BY <1>3, <1>a
    <2>2. x = "tick" => ~Cron(k)' /\ ~RowTyped(k)' /\ att'["runNow"] = att["runNow"]
      BY <1>c, <1>e, <1>f, <2>1 DEF Cron, RowTyped, Actors
    <2>3. x = "runNow" => ~Ordered(k)' /\ att'["tick"] = att["tick"] /\ ~Sends("runNow")'
      BY <1>c, <1>e, <1>f, <2>1 DEF Ordered, Actors
    <2> QED
      BY <1>3, <2>2, <2>3
  <1> QED
    BY <1>1, <1>2, <1>3, ReturnedCases

\* an attempt that types nothing leaves a row behind, or gives its promise up
LEMMA UndeliveredBalance ==
    ASSUME TypeInv, TypeInv', LoopInv, Aimed, NEW k \in Home, NEW h \in 0..clock, Horizon(k, h),
           NEW x \in Actors, Undelivered(x)
    PROVE  Horizon(k, h)'
  <1>a. /\ k \in Keys /\ att[x].pc \in {"try", "sending"} /\ Returned(x) /\ UNCHANGED <<lastRun, excess>>
        /\ excess \in [Keys -> Int] /\ RowAttempt
    BY DEF Home, Single, Undelivered, TypeInv, Stored, LoopInv
  <1>t. /\ ForRow(x) => tick # Idle /\ Key(x) \in tick.rows \cap tick.keys /\ ~Cron(k)
        /\ x = "tick" /\ ~ForRow(x) => tick.pc = "cron" /\ ~RowTyped(k) /\ (Cron(k) <=> Key(x) = k)
        /\ x = "runNow" => (Ordered(k) <=> Key(x) = k)
    BY <1>a, WhoseTurn
  <1>o. /\ tick' # Idle <=> tick # Idle
        /\ tick # Idle => /\ tick'.now = tick.now /\ tick'.todo = tick.todo /\ tick'.keys = tick.keys
                          /\ tick'.rows = IF ForRow(x) THEN tick.rows \ {Key(x)} ELSE tick.rows
        /\ x = "tick" => /\ ~Cron(k)' /\ ~RowTyped(k)' /\ att'["runNow"] = att["runNow"]
        /\ x = "runNow" => /\ ~Ordered(k)' /\ tick' = tick /\ att'["tick"] = att["tick"] /\ ~Sends("runNow")'
    BY <1>a, TurnOver
  <1>x. x = "tick" \/ x = "runNow"
    BY DEF Actors
  <1>f. ForRow(x) => x = "tick"
    BY DEF ForRow
  <1>r. RanBy(k, h) => RanBy(k, h)'
    BY <1>a, <1>o, <1>x DEF RanBy, Sends, Key
  <1>y. x = "tick" => ~RowTyped(k)
    BY <1>a DEF RowTyped
  <1>q. x = "tick" => (AskOwed(k)' <=> AskOwed(k)) /\ ~CronOwed(k)'
    BY <1>o DEF AskOwed, Ordered, CronOwed
  <1>n. /\ x = "runNow" => /\ Cron(k)' <=> Cron(k)
                           /\ CronOwed(k)' <=> CronOwed(k)
                           /\ RowTyped(k)' <=> RowTyped(k)
        /\ x = "runNow" => ~AskOwed(k)'
    BY <1>o DEF CronOwed, Cron, RowTyped, ForRow, Key, AskOwed
  <1>s. \/ retry' = retry \/ retry' = retry \cup {Key(x)}
    BY DEF Undelivered
  <1>e. excess'[k] = excess[k] /\ excess[k] \in Int
    BY <1>a
  <1>h. tick' # Idle => h <= tick'.now
    BY <1>o DEF Horizon
  <1>1. CASE Key(x) # k
    <2>1. Queued(k)' <=> Queued(k)
      BY <1>1, <1>o, <1>s DEF Queued
    <2>2. /\ Cron(k)' <=> Cron(k)
          /\ RowTyped(k)' <=> RowTyped(k)
          /\ CronOwed(k)' => CronOwed(k)
          /\ AskOwed(k)' => AskOwed(k)
      BY <1>1, <1>t, <1>o, <1>x, <1>y, <1>q, <1>n
    <2>3. RowOwed(k)' => RowOwed(k)
      BY <2>1, <2>2 DEF RowOwed
    <2>4. tick' # Idle => /\ tick # Idle /\ tick'.now = tick.now /\ tick'.todo \subseteq tick.todo
                          /\ k \in tick.rows \cup tick.keys => k \in tick'.rows \cup tick'.keys
      BY <1>1, <1>o
    <2> QED
      BY <1>e, <1>r, <2>1, <2>2, <2>3, <2>4, HorizonEased
  \* its promise is dropped: the account has room again
  <1>2. ASSUME Key(x) = k, RowOwed(k)' => RowOwed(k)
        PROVE  Spent(k)' < Spent(k) \/ (ForRow(x) /\ Queued(k)' /\ Spent(k)' <= Spent(k))
    <2>1. CASE ForRow(x)
      <3>1. RowOwed(k) /\ ~CronOwed(k)' /\ (AskOwed(k)' <=> AskOwed(k))
        BY <1>2, <1>t, <1>f, <1>y, <1>q, <2>1 DEF RowOwed, Queued
      <3>2. Spent(k)' <= Spent(k) /\ (~RowOwed(k)' => Spent(k)' < Spent(k))
        BY <1>a, <1>e, <1>2, <3>1, SpentFalls
      <3>3. RowOwed(k)' => Queued(k)'
        BY DEF RowOwed
      <3> QED
        BY <2>1, <3>2, <3>3
    <2>2. CASE x = "tick" /\ ~ForRow(x)
      <3>1. CronOwed(k) /\ ~CronOwed(k)' /\ (AskOwed(k)' <=> AskOwed(k))
        BY <1>2, <1>a, <1>t, <1>q, <2>2 DEF CronOwed
      <3> QED
        BY <1>a, <1>e, <1>2, <3>1, SpentFalls
    <2>3. CASE x = "runNow"
      <3>1. AskOwed(k) /\ ~AskOwed(k)' /\ (CronOwed(k)' <=> CronOwed(k))
        BY <1>2, <1>a, <1>t, <1>n, <2>3 DEF AskOwed
      <3> QED
        BY <1>a, <1>e, <1>2, <3>1, SpentFalls
    <2> QED
      BY <1>x, <2>1, <2>2, <2>3
  \* it is exchanged for a row
  <1>3. ASSUME Key(x) = k, ~(RowOwed(k)' => RowOwed(k))
        PROVE  Spent(k)' <= Spent(k) /\ Queued(k)' /\ ~ForRow(x)
    <2>1. RowOwed(k)' /\ ~RowOwed(k) /\ Queued(k)'
      BY <1>3 DEF RowOwed
    <2>2. ~ForRow(x)
      BY <1>3, <1>t, <1>f, <1>y, <2>1 DEF RowOwed, Queued
    <2>3. \/ CronOwed(k) /\ ~CronOwed(k)' /\ (AskOwed(k)' <=> AskOwed(k))
          \/ AskOwed(k) /\ ~AskOwed(k)' /\ (CronOwed(k)' <=> CronOwed(k))
      BY <1>3, <1>a, <1>t, <1>x, <1>q, <1>n, <2>2 DEF CronOwed, AskOwed
    <2>4. N(RowOwed(k)) = 0 /\ N(RowOwed(k)') = 1
      BY <2>1 DEF N
    <2>5. PICK c, a, c1, a1 \in {0, 1} : /\ c = N(CronOwed(k)) /\ a = N(AskOwed(k))
                                         /\ c1 = N(CronOwed(k)') /\ a1 = N(AskOwed(k)')
      BY DEF N
    <2>6. c1 + a1 + 1 = c + a
      BY <2>3, <2>5 DEF N
    <2>7. Spent(k) = excess[k] + 0 + c + a /\ Spent(k)' = excess'[k] + 1 + c1 + a1
      BY <2>4, <2>5 DEF Spent, N
    <2> QED
      BY <1>e, <2>1, <2>2, <2>6, <2>7
  <1>4. CASE Key(x) = k
    <2>1. tick' # Idle /\ k[1] \in tick'.todo =>
            \/ RanBy(k, h)' \/ k \in tick'.rows \cup tick'.keys
            \/ tick # Idle /\ k[1] \in tick.todo /\ ~RanBy(k, h) /\ k \notin tick.rows \cup tick.keys
      BY <1>4, <1>r, <1>o, <1>t
    <2>2. CASE RowOwed(k)' => RowOwed(k)
      <3>1. CASE Spent(k)' < Spent(k)
        <4>1. Spent(k)' <= Spent(k)
          BY <1>4, <1>a, <1>e, <2>2, <1>q, <1>n, <1>x, <1>t, SpentFalls DEF CronOwed
        <4> QED
          BY <1>h, <3>1, <4>1, HorizonKept
      <3>2. CASE ForRow(x) /\ Queued(k)' /\ Spent(k)' <= Spent(k)
        BY <1>h, <2>1, <3>2, HorizonKept
      <3> QED
        BY <1>2, <1>4, <2>2, <3>1, <3>2
    <2>3. CASE ~(RowOwed(k)' => RowOwed(k))
      BY <1>h, <1>3, <1>4, <2>1, <2>3, HorizonKept
    <2> QED
      BY <2>2, <2>3
  <1> QED
    BY <1>1, <1>4

\* a prompt is typed on the strength of one promise
LEMMA SameSpent ==
    ASSUME NEW k \in Keys, excess[k] \in Int, excess'[k] = excess[k] + 1,
           \/ RowOwed(k) /\ ~RowOwed(k)' /\ (CronOwed(k)' <=> CronOwed(k)) /\ (AskOwed(k)' <=> AskOwed(k))
           \/ CronOwed(k) /\ ~CronOwed(k)' /\ (RowOwed(k)' <=> RowOwed(k)) /\ (AskOwed(k)' <=> AskOwed(k))
           \/ AskOwed(k) /\ ~AskOwed(k)' /\ (RowOwed(k)' <=> RowOwed(k)) /\ (CronOwed(k)' <=> CronOwed(k))
    PROVE  Spent(k)' <= Spent(k)
  <1>1. PICK r, c, a, r1, c1, a1 \in {0, 1} :
          /\ r = N(RowOwed(k)) /\ c = N(CronOwed(k)) /\ a = N(AskOwed(k))
          /\ r1 = N(RowOwed(k)') /\ c1 = N(CronOwed(k)') /\ a1 = N(AskOwed(k)')
    BY DEF N
  <1>2. Spent(k) = excess[k] + r + c + a /\ Spent(k)' = excess'[k] + r1 + c1 + a1
    BY <1>1 DEF Spent, N
  <1>3. r1 + c1 + a1 + 1 = r + c + a
    BY <1>1 DEF N
  <1> QED
    BY <1>2, <1>3

\* the target is chosen, a handled one is left out, the send begins, the text is typed
LEMMA TypingBalance ==
    ASSUME TypeInv, TypeInv', LoopInv, Aimed, NEW k \in Home, NEW h \in 0..clock, Horizon(k, h), NEW x \in Actors,
           \/ \E a \in Agents : Target(x, a) \/ KeyHandled(a)
           \/ SendBegin(x)
           \/ \E s \in {"ready", "busy"} : Typed(x, s)
    PROVE  Horizon(k, h)'
  <1>b. UNCHANGED <<tick, retry, lastRun>>
    BY DEF Target, KeyHandled, SendBegin, Typed, durable
  <1>a. /\ k \in Keys /\ UNCHANGED <<tick, retry, lastRun>> /\ excess \in [Keys -> Int] /\ h <= clock /\ RowAttempt
        /\ DOMAIN att = Actors /\ InLoop /\ clock \in Nat /\ h \in Nat
    BY <1>b DEF Home, Single, TypeInv, Stored, Shaped, LoopInv
  <1>i. Queued(k)' <=> Queued(k)
    BY <1>a DEF Queued
  <1>1. ASSUME UNCHANGED excess, NEW y \in Actors,
               att'[y] # Idle, att[y] # Idle, att[y].pc \in {"loop", "try"}, att'[y].pc \in {"loop", "try", "sending"},
               att'[y].task = att[y].task, \A z \in Actors \ {y} : att'[z] = att[z],
               y = "tick" => (Cron(k)' <=> Cron(k)), y = "runNow" => att'[y].left = att[y].left,
               att'[y].pc = "sending" => att'[y].at >= h
        PROVE  Horizon(k, h)'
    <2>1. y = "tick" \/ y = "runNow"
      BY DEF Actors
    <2>2. excess'[k] <= excess[k]
      BY <1>1, <1>a
    <2>3. Cron(k)' <=> Cron(k)
      BY <1>1, <1>a, <2>1 DEF Cron, Actors
    <2>4. (RowTyped(k)' <=> RowTyped(k)) /\ (CronOwed(k)' <=> CronOwed(k))
      BY <1>1, <1>a, <2>1, <2>3 DEF RowTyped, CronOwed, ForRow, Key, Actors
    <2>5. (Ordered(k)' <=> Ordered(k)) /\ (AskOwed(k)' <=> AskOwed(k))
      BY <1>1, <2>1 DEF Ordered, AskOwed, Actors
    <2>6. RanBy(k, h) => RanBy(k, h)'
      <3>1. CASE y = "tick"
        BY <1>1, <1>a, <3>1 DEF RanBy, Sends, Key, Actors
      <3>2. CASE y = "runNow"
        <4>1. Sends("runNow")' => ~(att'["runNow"].at < h)
          <5>1. Sends("runNow")' => att'[y].pc = "sending"
            BY <1>1, <3>2 DEF Sends
          <5>2. att'[y].at \in Int
            BY <1>1 DEF TypeInv, Shaped, Attempts
          <5> QED
            BY <1>1, <1>a, <3>2, <5>1, <5>2
        <4> QED
          BY <1>a, <4>1 DEF RanBy
      <3> QED
        BY <2>1, <3>1, <3>2
    <2>7. RowOwed(k)' => RowOwed(k)
      BY <1>i, <2>4 DEF RowOwed
    <2> QED
      BY <1>a, <1>i, <2>2, <2>3, <2>4, <2>5, <2>6, <2>7, HorizonEased
  <1>2. ASSUME NEW a \in Agents, Target(x, a) PROVE Horizon(k, h)'
    <2>1. att[x] \in Attempts /\ att[x].pc = "loop" /\ att' = [att EXCEPT ![x] = [@ EXCEPT !.pc = "try", !.agent = a]]
      BY <1>2, Working DEF Target
    <2>2. /\ att'[x].pc = "try" /\ att'[x].task = att[x].task /\ att'[x].left = att[x].left
          /\ \A z \in Actors \ {x} : att'[z] = att[z]
      BY <1>a, <2>1 DEF Attempts
    <2>3. att'[x] # Idle /\ att[x] # Idle /\ UNCHANGED excess
      <3>1. UNCHANGED excess
        BY <1>2 DEF Target, history
      <3>2. att[x].pc # "idle" /\ att'[x].pc # "idle"
        BY <2>1, <2>2
      <3> QED
        BY <3>1, <3>2 DEF Idle
    <2>4. x = "tick" => (Cron(k)' <=> Cron(k))
      BY <1>a, <2>2, <2>3 DEF Cron
    <2> QED
      BY <1>1, <2>1, <2>2, <2>3, <2>4
  <1>3. ASSUME NEW a \in Agents, KeyHandled(a) PROVE Horizon(k, h)'
    <2>1. /\ att["tick"] \in Attempts /\ att["tick"].pc = "loop" /\ <<att["tick"].task, a>> \in tick.keys
          /\ att' = [att EXCEPT !["tick"] = [att["tick"] EXCEPT !.left = @ \ {a}]]
      BY <1>3, Working DEF KeyHandled, Actors
    <2>2. /\ att'["tick"].pc = "loop" /\ att'["tick"].task = att["tick"].task /\ att'["tick"].left = att["tick"].left \ {a}
          /\ \A z \in Actors \ {"tick"} : att'[z] = att[z]
      BY <1>a, <2>1 DEF Attempts, Actors
    <2>3. att'["tick"] # Idle /\ att["tick"] # Idle /\ UNCHANGED excess
      BY <1>3, <2>1, <2>2 DEF Idle, KeyHandled, history
    <2>4. Cron(k)' <=> Cron(k)
      <3>1. k = <<k[1], k[2]>>
        BY <1>a DEF Keys
      <3>2. k[1] = att["tick"].task /\ k[2] = a => k \in tick.keys
        BY <2>1, <3>1
      <3> QED
        BY <1>a, <2>2, <2>3, <3>2 DEF Cron
    <2> QED
      BY <1>1, <2>1, <2>2, <2>3, <2>4 DEF Actors
  <1>4. CASE SendBegin(x)
    <2>1. att[x] \in Attempts /\ att[x].pc = "try" /\ att' = [att EXCEPT ![x] = [@ EXCEPT !.pc = "sending", !.at = clock]]
      BY <1>4, Working DEF SendBegin
    <2>2. /\ att'[x].pc = "sending" /\ att'[x].at = clock /\ att'[x].task = att[x].task /\ att'[x].left = att[x].left
          /\ \A z \in Actors \ {x} : att'[z] = att[z]
      BY <1>a, <2>1 DEF Attempts
    <2>3. att'[x] # Idle /\ att[x] # Idle /\ UNCHANGED excess
      <3>1. UNCHANGED excess
        BY <1>4 DEF SendBegin, history
      <3>2. att[x].pc # "idle" /\ att'[x].pc # "idle"
        BY <2>1, <2>2
      <3> QED
        BY <3>1, <3>2 DEF Idle
    <2>4. x = "tick" => (Cron(k)' <=> Cron(k))
      BY <1>a, <2>2, <2>3 DEF Cron
    <2>5. att'[x].at >= h
      BY <1>a, <2>2
    <2> QED
      BY <1>1, <2>1, <2>2, <2>3, <2>4, <2>5
  <1>5. ASSUME NEW s \in {"ready", "busy"}, Typed(x, s) PROVE Horizon(k, h)'
    <2>1. /\ att[x] \in Attempts /\ att[x].pc = "sending" /\ att' = [att EXCEPT ![x] = [@ EXCEPT !.pc = "typed"]]
          /\ excess' = [excess EXCEPT ![Key(x)] = @ + 1]
      BY <1>5, Working DEF Typed
    <2>2. /\ att'[x].pc = "typed" /\ att'[x].at = att[x].at /\ att'[x].task = att[x].task /\ att'[x].left = att[x].left
          /\ att'[x].agent = att[x].agent
          /\ \A z \in Actors \ {x} : att'[z] = att[z]
      BY <1>a, <2>1 DEF Attempts
    <2>3. att'[x] # Idle /\ att[x] # Idle /\ Key(x) \in Keys
      BY <2>1, <2>2, Working DEF Idle
    <2>4. x = "tick" \/ x = "runNow"
      BY DEF Actors
    <2>5. \A y \in Actors : /\ Key(y)' = Key(y)
                            /\ Sends(y)' <=> Sends(y)
                            /\ att'[y].at = att[y].at
      BY <2>1, <2>2 DEF Key, Sends
    <2>6. RanBy(k, h)' <=> RanBy(k, h)
      BY <1>a, <2>5 DEF RanBy, Actors
    <2>7. Cron(k)' <=> Cron(k)
      BY <1>a, <2>2, <2>3, <2>4 DEF Cron, Actors
    <2>8. Ordered(k)' <=> Ordered(k)
      BY <1>a, <2>2, <2>3, <2>4 DEF Ordered, Actors
    <2>t. /\ ForRow(x) => tick # Idle /\ Key(x) \in tick.rows \cap tick.keys /\ ~Cron(k)
          /\ x = "tick" /\ ~ForRow(x) => tick.pc = "cron" /\ ~RowTyped(k) /\ (Cron(k) <=> Key(x) = k)
          /\ x = "runNow" => (Ordered(k) <=> Key(x) = k)
      BY <2>1, WhoseTurn
    <2>f. /\ ForRow("tick")' <=> ForRow("tick")
          /\ x = "runNow" => ~ForRow(x)
          /\ att'["tick"].pc = IF x = "tick" THEN "typed" ELSE att["tick"].pc
          /\ att'["runNow"].pc = IF x = "runNow" THEN "typed" ELSE att["runNow"].pc
      BY <1>a, <2>2, <2>4 DEF ForRow, Actors
    <2>k. Key("tick")' = Key("tick")
      BY <2>5 DEF Actors
    <2>9. CASE Key(x) # k
      <3>1. RowTyped(k)' <=> RowTyped(k)
        BY <2>1, <2>4, <2>9, <2>f, <2>k DEF RowTyped
      <3>2. CronOwed(k)' <=> CronOwed(k)
        BY <2>4, <2>7, <2>9, <2>t, <2>f DEF CronOwed
      <3>3. AskOwed(k)' <=> AskOwed(k)
        BY <2>4, <2>8, <2>9, <2>t, <2>f DEF AskOwed
      <3>4. excess'[k] <= excess[k]
        BY <1>a, <2>1, <2>3, <2>9
      <3>5. RowOwed(k)' => RowOwed(k)
        BY <1>i, <3>1 DEF RowOwed
      <3> QED
        BY <1>a, <1>i, <2>6, <2>7, <3>2, <3>3, <3>4, <3>5, HorizonEased
    <2>10. CASE Key(x) = k
      <3>1. excess'[k] = excess[k] + 1 /\ excess[k] \in Int
        BY <1>a, <2>1, <2>3, <2>10
      <3>2. CASE ForRow(x)
        <4>1. x = "tick" /\ RowOwed(k) /\ ~RowOwed(k)'
          BY <1>i, <2>1, <2>4, <2>10, <2>t, <2>f, <2>k, <3>2 DEF RowOwed, RowTyped, Queued
        <4>2. ~CronOwed(k) /\ ~CronOwed(k)' /\ (AskOwed(k)' <=> AskOwed(k))
          BY <2>7, <2>8, <2>t, <2>f, <3>2, <4>1 DEF CronOwed, AskOwed
        <4> QED
          BY <4>1, <4>2, <3>1, <1>a, <1>i, <2>6, <2>7, SameSpent, HorizonKept DEF Horizon
      <3>3. CASE x = "tick" /\ ~ForRow(x)
        <4>1. CronOwed(k) /\ ~CronOwed(k)'
          BY <2>1, <2>7, <2>10, <2>t, <2>f, <3>3 DEF CronOwed
        <4>2. (RowOwed(k)' <=> RowOwed(k)) /\ (AskOwed(k)' <=> AskOwed(k))
          BY <1>i, <2>8, <2>f, <3>3 DEF RowOwed, RowTyped, AskOwed
        <4> QED
          BY <4>1, <4>2, <3>1, <1>a, <1>i, <2>6, <2>7, SameSpent, HorizonKept DEF Horizon
      <3>4. CASE x = "runNow"
        <4>1. AskOwed(k) /\ ~AskOwed(k)'
          BY <2>1, <2>8, <2>10, <2>t, <2>f, <3>4 DEF AskOwed
        <4>2. (RowOwed(k)' <=> RowOwed(k)) /\ (CronOwed(k)' <=> CronOwed(k))
          BY <1>i, <2>7, <2>f, <2>k, <3>4 DEF RowOwed, RowTyped, CronOwed
        <4> QED
          BY <4>1, <4>2, <3>1, <1>a, <1>i, <2>6, <2>7, SameSpent, HorizonKept DEF Horizon
      <3> QED
        BY <2>4, <3>2, <3>3, <3>4
    <2> QED
      BY <2>9, <2>10
  <1> QED
    BY <1>2, <1>3, <1>4, <1>5

\* the tick's prompt is no older than its horizon, and whoever waits behind it is younger
LEMMA TickRanBy ==
    ASSUME TypeInv, LoopInv, ObligInv, NEW k \in Home, NEW h \in 0..clock, Horizon(k, h),
           att["tick"].pc = "typed", Key("tick") = k, lastRun'[k[1]] = att["tick"].at, att'["runNow"] = att["runNow"]
    PROVE  RanBy(k, h)'
  <1>a. "tick" \in Actors /\ "runNow" \in Actors
    BY DEF Actors
  <1>1. att["tick"] \in Attempts /\ att["tick"].at \in Nat /\ Sends("tick")
    BY <1>a, Working DEF Attempts, Sends
  <1>2. tick # Idle /\ att["tick"].at >= tick.now /\ h <= tick.now /\ tick.now \in Nat /\ h \in Nat
    BY <1>1 DEF LoopInv, TickSends, Horizon, TypeInv, Shaped, Ticks, Stored
  <1>3. att["tick"].at >= h
    BY <1>1, <1>2
  <1>4. ASSUME Sends("runNow"), Key("runNow") = k
        PROVE  att["runNow"].at >= h
    <2>1. att["runNow"].agent = att["tick"].agent
      BY <1>4 DEF Key
    <2>2. att["tick"].at <= att["runNow"].at
      BY <1>4, <1>a, <2>1 DEF ObligInv, LaneOrder
    <2>3. att["runNow"].at \in Nat
      BY <1>4, <1>a, Working DEF Sends, Attempts
    <2> QED
      BY <1>1, <1>2, <1>3, <2>2, <2>3
  <1>5. (Sends("runNow")' <=> Sends("runNow")) /\ Key("runNow")' = Key("runNow")
    BY DEF Sends, Key
  <1>6. Sends("runNow") => att["runNow"].at \in Nat
    BY <1>a, Working DEF Sends, Attempts
  <1>7. Sends("runNow") /\ Key("runNow") = k => ~(att["runNow"].at < h)
    BY <1>2, <1>4, <1>6
  <1> QED
    BY <1>3, <1>5, <1>7 DEF RanBy

\* a prompt is recorded: the last run now covers its horizon
LEMMA FiredBalance ==
    ASSUME TypeInv, TypeInv', ObligInv, LoopInv, Aimed, NEW k \in Home, NEW h \in 0..clock, Horizon(k, h),
           NEW x \in Actors, Fired(x)
    PROVE  Horizon(k, h)'
  <1>a. /\ k \in Keys /\ k[1] \in Tasks /\ att[x].pc = "typed" /\ Returned(x) /\ excess' = excess
        /\ excess \in [Keys -> Int] /\ lastRun \in [Tasks -> Nat] /\ h \in Nat /\ TickSends /\ LaneOrder
    BY DEF Home, Single, Keys, Fired, TypeInv, Stored, LoopInv, ObligInv
  <1>b. /\ lastRun' = [lastRun EXCEPT ![att[x].task] = att[x].at]
        /\ retry' = IF ForRow(x) THEN retry \ {Key(x)} ELSE retry
    BY DEF Fired
  <1>w. att[x] \in Attempts /\ att[x].at \in Nat /\ att[x].task \in Tasks
    BY <1>a, Working DEF Attempts
  <1>t. /\ ForRow(x) => tick # Idle /\ Key(x) \in tick.rows \cap tick.keys /\ ~Cron(k)
        /\ x = "tick" /\ ~ForRow(x) => tick.pc = "cron" /\ ~RowTyped(k) /\ (Cron(k) <=> Key(x) = k)
        /\ x = "runNow" => (Ordered(k) <=> Key(x) = k)
        /\ Key(x) # k => att[x].task # k[1]
    BY <1>a, WhoseTurn
  <1>o. /\ tick' # Idle <=> tick # Idle
        /\ tick # Idle => /\ tick'.now = tick.now /\ tick'.todo = tick.todo /\ tick'.keys = tick.keys
                          /\ tick'.rows = IF ForRow(x) THEN tick.rows \ {Key(x)} ELSE tick.rows
        /\ x = "tick" => /\ ~Cron(k)' /\ ~RowTyped(k)' /\ att'["runNow"] = att["runNow"]
        /\ x = "runNow" => /\ ~Ordered(k)' /\ tick' = tick /\ att'["tick"] = att["tick"] /\ ~Sends("runNow")'
    BY <1>a, TurnOver
  <1>x. x = "tick" \/ x = "runNow"
    BY DEF Actors
  <1>f. ForRow(x) => x = "tick"
    BY DEF ForRow
  <1>q. x = "tick" => (AskOwed(k)' <=> AskOwed(k)) /\ ~CronOwed(k)'
    BY <1>o DEF AskOwed, Ordered, CronOwed
  <1>n. x = "runNow" => /\ Cron(k)' <=> Cron(k)
                        /\ CronOwed(k)' <=> CronOwed(k)
                        /\ RowTyped(k)' <=> RowTyped(k)
                        /\ Queued(k)' <=> Queued(k)
                        /\ ~AskOwed(k)'
    BY <1>b, <1>f, <1>o DEF CronOwed, Cron, RowTyped, ForRow, Key, AskOwed, Queued
  <1>e. excess'[k] <= excess[k]
    BY <1>a
  <1>h. tick' # Idle => h <= tick'.now
    BY <1>o DEF Horizon
  <1>r. ASSUME x = "tick", Key(x) = k
        PROVE  RanBy(k, h)'
    <2>1. att[x].task = k[1]
      BY <1>r DEF Key
    <2>2. att["tick"].pc = "typed" /\ Key("tick") = k /\ lastRun'[k[1]] = att["tick"].at /\ att'["runNow"] = att["runNow"]
      BY <1>a, <1>b, <1>o, <1>r, <2>1
    <2> QED
      BY <2>2, TickRanBy
  <1>1. CASE Key(x) # k
    <2>1. Queued(k)' <=> Queued(k)
      BY <1>1, <1>b, <1>o DEF Queued
    <2>2. x = "tick" => (RowTyped(k)' <=> RowTyped(k)) /\ (Cron(k)' <=> Cron(k))
      BY <1>1, <1>t, <1>o DEF RowTyped
    <2>3. /\ Cron(k)' <=> Cron(k)
          /\ RowTyped(k)' <=> RowTyped(k)
          /\ CronOwed(k)' => CronOwed(k)
          /\ AskOwed(k)' => AskOwed(k)
      BY <1>x, <1>q, <1>n, <2>2
    <2>4. RowOwed(k)' => RowOwed(k)
      BY <2>1, <2>3 DEF RowOwed
    <2>5. tick' # Idle => /\ tick # Idle /\ tick'.now = tick.now /\ tick'.todo \subseteq tick.todo
                          /\ k \in tick.rows \cup tick.keys => k \in tick'.rows \cup tick'.keys
      BY <1>1, <1>o
    <2>6. lastRun'[k[1]] = lastRun[k[1]]
      BY <1>1, <1>a, <1>b, <1>t
    <2>7. RanBy(k, h) => RanBy(k, h)'
      BY <1>o, <1>x, <2>6 DEF RanBy, Sends, Key
    <2> QED
      BY <1>e, <2>1, <2>3, <2>4, <2>5, <2>7, HorizonEased
  <1>2. CASE Key(x) = k
    <2>1. lastRun'[k[1]] = att[x].at
      <3>1. att[x].task = k[1]
        BY <1>2 DEF Key
      <3> QED
        BY <1>a, <1>b, <3>1
    \* what was owed stays owed: the prompt was counted when it was typed
    <2>2. CASE ForRow(x)
      <3>1. x = "tick" /\ RowTyped(k) /\ ~RowOwed(k)' /\ (AskOwed(k)' <=> AskOwed(k)) /\ ~CronOwed(k)'
        <4>1. x = "tick" /\ RowTyped(k)
          BY <1>2, <1>a, <1>f, <2>2 DEF RowTyped
        <4>2. ~Queued(k)'
          BY <1>2, <1>b, <1>o, <2>2 DEF Queued
        <4> QED
          BY <1>q, <4>1, <4>2 DEF RowOwed
      <3>2. Spent(k)' <= Spent(k)
        BY <1>a, <1>e, <3>1, SpentFalls
      <3>3. RanBy(k, h)'
        BY <1>r, <1>2, <3>1
      <3> QED
        BY <1>h, <3>2, <3>3, HorizonKept
    <2>3. CASE x = "tick" /\ ~ForRow(x)
      <3>1. Queued(k)' <=> Queued(k)
        BY <1>b, <1>o, <2>3 DEF Queued
      <3>2. (RowOwed(k)' => RowOwed(k)) /\ (AskOwed(k)' <=> AskOwed(k)) /\ ~CronOwed(k)'
        BY <1>t, <1>q, <2>3, <3>1 DEF RowOwed
      <3>3. Spent(k)' <= Spent(k)
        BY <1>a, <1>e, <3>2, SpentFalls
      <3>4. RanBy(k, h)'
        BY <1>r, <1>2, <2>3
      <3> QED
        BY <1>h, <3>3, <3>4, HorizonKept
    <2>4. CASE x = "runNow"
      <3>1. (RowOwed(k)' => RowOwed(k)) /\ (CronOwed(k)' => CronOwed(k)) /\ ~AskOwed(k)'
        BY <1>n, <2>4 DEF RowOwed
      <3>2. Spent(k)' <= Spent(k)
        BY <1>a, <1>e, <3>1, SpentFalls
      <3>3. CASE att[x].at >= h
        <4>1. RanBy(k, h)'
          BY <1>o, <2>1, <2>4, <3>3 DEF RanBy
        <4> QED
          BY <1>h, <3>2, <4>1, HorizonKept
      <3>4. CASE ~(att[x].at >= h)
        <4>1. ~RanBy(k, h)
          BY <1>2, <1>a, <1>w, <2>4, <3>4 DEF RanBy, Sends
        <4>2. CASE ~Queued(k) /\ ~Cron(k)
          BY <1>h, <3>2, <4>1, <4>2, HorizonKept
        <4>3. CASE Queued(k) \/ Cron(k)
          <5>1. Queued(k)' \/ Cron(k)'
            BY <1>n, <2>4, <4>3
          <5>2. tick' # Idle /\ k[1] \in tick'.todo =>
                  \/ k \in tick'.rows \cup tick'.keys
                  \/ tick # Idle /\ k[1] \in tick.todo /\ ~RanBy(k, h) /\ k \notin tick.rows \cup tick.keys
            BY <1>o, <2>4, <4>1
          <5> QED
            BY <1>h, <3>2, <5>1, <5>2, HorizonKept
        <4> QED
          BY <4>2, <4>3
      <3> QED
        BY <3>3, <3>4
    <2> QED
      BY <1>x, <2>2, <2>3, <2>4
  <1> QED
    BY <1>1, <1>2

\* the operator asks for a run: an entitlement and a promise, or a command done
LEMMA RunNowBalance ==
    ASSUME TypeInv, TypeInv', NEW k \in Home, NEW h \in 0..clock, Horizon(k, h), NEW t \in Tasks, RunNow(t)
    PROVE  Horizon(k, h)'
  <1>a. /\ k \in Keys /\ k[1] \in Tasks /\ ~Task[k[1]].all /\ k[2] = Task[k[1]].agent /\ excess \in [Keys -> Int]
        /\ lastRun \in [Tasks -> Nat] /\ DOMAIN att = Actors /\ h <= clock /\ clock \in Nat /\ h \in Nat
    BY DEF Home, Single, Keys, TypeInv, Stored, Shaped
  <1>b. att["runNow"] = Idle /\ UNCHANGED <<tick, retry>>
    BY DEF RunNow
  <1>c. ~Sends("runNow") /\ ~Ordered(k) /\ ~AskOwed(k)
    BY <1>b DEF Sends, Ordered, AskOwed, Idle
  <1>1. CASE Task[t].command
    <2>1. lastRun' = [lastRun EXCEPT ![t] = clock] /\ UNCHANGED <<att, excess>>
      BY <1>1 DEF RunNow
    <2>2. /\ Queued(k)' <=> Queued(k)
          /\ RowTyped(k)' <=> RowTyped(k)
          /\ Cron(k)' <=> Cron(k)
          /\ Ordered(k)' <=> Ordered(k)
      BY <1>b, <2>1 DEF Queued, RowTyped, Cron, Ordered, Key, ForRow
    <2>3. (RowOwed(k)' => RowOwed(k)) /\ (CronOwed(k)' => CronOwed(k)) /\ (AskOwed(k)' => AskOwed(k))
      BY <2>1, <2>2 DEF RowOwed, CronOwed, AskOwed
    <2>4. RanBy(k, h) => RanBy(k, h)'
      <3>1. lastRun'[k[1]] = IF t = k[1] THEN clock ELSE lastRun[k[1]]
        BY <1>a, <2>1
      <3>2. ~Sends("runNow")'
        BY <1>c, <2>1 DEF Sends
      <3> QED
        BY <1>a, <3>1, <3>2 DEF RanBy
    <2> QED
      BY <1>a, <1>b, <2>1, <2>2, <2>3, <2>4, HorizonEased
  <1>2. CASE ~Task[t].command
    <2>1. /\ UNCHANGED lastRun
          /\ att' = [att EXCEPT !["runNow"] = [pc |-> "loop", task |-> t, agent |-> Main, left |-> Targets(t),
                                               whole |-> Targets(t), at |-> 0]]
          /\ excess' = [j \in Keys |-> IF j[1] = t /\ j[2] \in Targets(t) THEN excess[j] - 1 ELSE excess[j]]
      BY <1>2 DEF RunNow
    <2>2. /\ att'["tick"] = att["tick"] /\ att'["runNow"].pc = "loop" /\ att'["runNow"].task = t
          /\ att'["runNow"].left = Targets(t)
      BY <1>a, <2>1 DEF Actors
    <2>3. /\ Queued(k)' <=> Queued(k)
          /\ RowTyped(k)' <=> RowTyped(k)
          /\ Cron(k)' <=> Cron(k)
      BY <1>b, <2>2 DEF Queued, RowTyped, Cron, Key, ForRow
    <2>4. /\ RowOwed(k)' <=> RowOwed(k)
          /\ CronOwed(k)' <=> CronOwed(k)
      BY <2>2, <2>3 DEF RowOwed, CronOwed
    <2>5. ~Sends("runNow")'
      BY <2>2 DEF Sends
    <2>6. RanBy(k, h)' <=> RanBy(k, h)
      BY <1>c, <2>1, <2>5 DEF RanBy
    <2>7. Spent(k)' <= Spent(k)
      <3>1. CASE t # k[1]
        <4>1. ~AskOwed(k)'
          BY <2>2, <3>1 DEF AskOwed, Ordered
        <4>2. excess'[k] <= excess[k]
          BY <1>a, <2>1, <3>1
        <4> QED
          BY <1>a, <2>4, <4>1, <4>2, SpentFalls
      <3>2. CASE t = k[1]
        <4>1. excess'[k] = excess[k] - 1 /\ excess[k] \in Int
          BY <1>a, <2>1, <3>2, OneTarget
        <4>2. N(RowOwed(k)') = N(RowOwed(k)) /\ N(CronOwed(k)') = N(CronOwed(k)) /\ N(AskOwed(k)) = 0
          BY <1>c, <2>4 DEF N
        <4>3. N(AskOwed(k)') \in {0, 1} /\ N(RowOwed(k)) \in {0, 1} /\ N(CronOwed(k)) \in {0, 1}
          BY DEF N
        <4>4. Spent(k)' = excess'[k] + N(RowOwed(k)') + N(CronOwed(k)') + N(AskOwed(k)')
          BY DEF Spent, N
        <4> QED
          BY <4>1, <4>2, <4>3, <4>4 DEF Spent
      <3> QED
        BY <3>1, <3>2
    <2> QED
      BY <1>b, <2>3, <2>6, <2>7, HorizonKept DEF Horizon
  <1> QED
    BY <1>1, <1>2

\* a crash forgets the promises in memory, and the prompts typed but not recorded
LEMMA CrashBalance ==
    ASSUME TypeInv, TypeInv', LoopInv, Aimed, NEW k \in Home, NEW h \in 0..clock, Horizon(k, h), Crash
    PROVE  Horizon(k, h)'
  <1> DEFINE Cut == {x \in Actors : att[x].pc = "typed" /\ Key(x) = k}
  <1>a. /\ k \in Keys /\ k[1] \in Tasks /\ excess \in [Keys -> Int] /\ UNCHANGED <<retry, lastRun>>
        /\ tick' = Idle /\ att' = [x \in Actors |-> Idle]
        /\ excess' = [j \in Keys |-> excess[j] - Cardinality({x \in Actors : att[x].pc = "typed" /\ Key(x) = j})]
    BY DEF Home, Single, Keys, TypeInv, Stored, Crash, durable
  <1>b. excess'[k] = excess[k] - Cardinality(Cut) /\ excess[k] \in Int /\ Cardinality(Cut) \in Nat
    <2>1. Cardinality(Cut) \in Nat
      BY <1>a, FewActors
    <2> QED
      BY <1>a, <2>1
  <1>c. (\E x \in Actors : att[x].pc = "typed" /\ Key(x) = k) => Cardinality(Cut) >= 1
    <2>1. IsFiniteSet(Cut)
      BY <1>a, FewActors
    <2>2. Cut # {} => Cardinality(Cut) # 0
      BY <2>1, FS_EmptySet
    <2> QED
      BY <1>b, <2>2
  <1> HIDE DEF Cut
  <1>d. /\ ~RowTyped(k)' /\ ~Cron(k)' /\ ~Ordered(k)' /\ ~Sends("runNow")'
        /\ Queued(k)' <=> k \in retry
    BY <1>a DEF RowTyped, Cron, Ordered, Sends, Queued, Idle, Actors
  <1>e. RanBy(k, h) => RanBy(k, h)'
    BY <1>a, <1>d DEF RanBy
  <1>t. RowTyped(k) => \E x \in Actors : att[x].pc = "typed" /\ Key(x) = k
    BY DEF RowTyped, Actors
  <1>u. Cron(k) /\ ~CronOwed(k) => \E x \in Actors : att[x].pc = "typed" /\ Key(x) = k
    <2> SUFFICES ASSUME Cron(k), att["tick"].pc = "typed"
                 PROVE  \E x \in Actors : att[x].pc = "typed" /\ Key(x) = k
      BY DEF CronOwed
    <2>1. "tick" \in Actors /\ ~ForRow("tick")
      BY DEF Actors, Cron, ForRow
    <2>2. Key("tick") = k
      BY <2>1, WhoseTurn
    <2> QED
      BY <2>1, <2>2
  <1>1. /\ N(CronOwed(k)') = 0 /\ N(AskOwed(k)') = 0 /\ N(RowOwed(k)') = N(k \in retry)
    BY <1>d DEF RowOwed, CronOwed, AskOwed, N
  <1>2. /\ N(CronOwed(k)) \in {0, 1} /\ N(AskOwed(k)) \in {0, 1} /\ N(RowOwed(k)) \in {0, 1} /\ N(k \in retry) \in {0, 1}
    BY DEF N
  <1>3. Spent(k)' = excess'[k] + N(RowOwed(k)') + N(CronOwed(k)') + N(AskOwed(k)')
    BY DEF Spent, N
  <1>4. Spent(k)' = excess[k] - Cardinality(Cut) + N(k \in retry)
    BY <1>1, <1>2, <1>3, <1>b
  <1>5. CASE RowOwed(k) \/ k \notin retry
    <2>1. N(k \in retry) <= N(RowOwed(k)) /\ (k \notin retry /\ RowOwed(k) => N(k \in retry) < N(RowOwed(k)))
      BY <1>5 DEF N
    <2>2. Spent(k)' <= Spent(k)
      BY <1>2, <1>4, <1>b, <2>1 DEF Spent
    <2>3. Cardinality(Cut) >= 1 => Spent(k)' < Spent(k)
      BY <1>2, <1>4, <1>b, <2>1 DEF Spent
    <2>4. CronOwed(k) \/ (k \notin retry /\ RowOwed(k)) => Spent(k)' < Spent(k)
      <3>1. CronOwed(k) => N(CronOwed(k)) = 1
        BY DEF N
      <3> QED
        BY <1>2, <1>4, <1>b, <2>1, <3>1 DEF Spent
    <2>5. CASE RanBy(k, h)'
      BY <1>a, <2>2, <2>5, HorizonKept
    <2>6. CASE k \in retry
      BY <1>a, <1>d, <2>2, <2>6, HorizonKept
    <2>7. CASE ~RanBy(k, h)' /\ k \notin retry
      <3>1. CASE ~Queued(k) /\ ~Cron(k)
        BY <1>a, <1>e, <2>2, <2>7, <3>1, HorizonKept
      <3>2. CASE Queued(k) \/ Cron(k)
        <4>1. Spent(k)' < Spent(k)
          BY <1>c, <1>t, <1>u, <2>3, <2>4, <2>7, <3>2 DEF RowOwed
        <4> QED
          BY <1>a, <2>2, <4>1, HorizonKept
      <3> QED
        BY <3>1, <3>2
    <2> QED
      BY <2>5, <2>6, <2>7
  <1>6. CASE ~RowOwed(k) /\ k \in retry
    <2>1. Queued(k) /\ RowTyped(k) /\ Cardinality(Cut) >= 1
      BY <1>6, <1>c, <1>t DEF RowOwed, Queued
    <2>2. N(RowOwed(k)) = 0 /\ N(k \in retry) = 1
      BY <1>6 DEF N
    <2>3. Spent(k)' <= Spent(k)
      BY <1>2, <1>4, <1>b, <2>1, <2>2 DEF Spent
    <2> QED
      BY <1>6, <1>a, <1>d, <2>3, HorizonKept
  <1> QED
    BY <1>5, <1>6

\* the due task is fired: its last occurrence lies behind every horizon so far
LEMMA DueFiresBalance ==
    ASSUME TypeInv, TypeInv', LoopInv, NEW k \in Home, NEW h \in 0..clock, Horizon(k, h),
           NEW t \in Tasks, DueFires(t)
    PROVE  \E g \in 0..clock' : Horizon(k, g)'
  <1>a. /\ k \in Keys /\ k[1] \in Tasks /\ ~Task[k[1]].all /\ k[2] = Task[k[1]].agent /\ excess \in [Keys -> Int]
        /\ lastRun \in [Tasks -> Nat] /\ DOMAIN att = Actors /\ clock \in Nat /\ h \in Nat
        /\ tick \in {Idle} \cup Ticks /\ InLoop /\ Windows
    BY DEF Home, Single, Keys, TypeInv, Stored, Shaped, LoopInv
  <1>b. /\ tick.pc = "cron" /\ tick.task = {} /\ t \in tick.todo /\ lastRun[t] < tick.from
        /\ tick' = [tick EXCEPT !.task = {t}, !.todo = @ \ {t}] /\ UNCHANGED <<clock, retry, lastRun, excess>>
        /\ att' = [att EXCEPT !["tick"] = [pc |-> "loop", task |-> t, agent |-> Main, left |-> Targets(t),
                                           whole |-> Targets(t), at |-> 0]]
    BY DEF DueFires, NextDue, durable, history
  <1>c. tick \in Ticks /\ tick # Idle /\ att["tick"] = Idle
    BY <1>a, <1>b DEF InLoop, Idle
  <1>d. /\ tick' # Idle /\ tick'.pc = "cron" /\ tick'.now = tick.now /\ tick'.rows = tick.rows /\ tick'.keys = tick.keys
        /\ tick'.todo = tick.todo \ {t}
    BY <1>b, <1>c DEF Ticks, Idle
  <1>e. /\ att'["runNow"] = att["runNow"] /\ att'["tick"].pc = "loop" /\ att'["tick"].task = t /\ att'["tick"].left = Targets(t)
        /\ att'["tick"] # Idle
    BY <1>a, <1>b DEF Actors, Idle
  <1>f. tick.now \in Nat /\ tick.from \in Int /\ tick.now <= clock /\ h <= tick.now
    BY <1>c DEF Ticks, TypeInv, Timed, Horizon
  <1>1. /\ ~RowTyped(k) /\ ~RowTyped(k)' /\ ~Cron(k) /\ ~CronOwed(k)
        /\ Queued(k)' <=> Queued(k)
        /\ Ordered(k)' <=> Ordered(k)
        /\ AskOwed(k)' <=> AskOwed(k)
    BY <1>b, <1>c, <1>d, <1>e DEF RowTyped, ForRow, Cron, CronOwed, Queued, Ordered, AskOwed
  <1>2. RowOwed(k)' <=> RowOwed(k)
    BY <1>1 DEF RowOwed
  <1>3. Cron(k)' <=> t = k[1] /\ k \notin tick.keys
    BY <1>a, <1>d, <1>e, OneTarget DEF Cron
  <1>4. RanBy(k, h)' <=> RanBy(k, h)
    BY <1>b, <1>e DEF RanBy, Sends, Key
  <1>5. CASE ~Cron(k)'
    <2>1. ~CronOwed(k)'
      BY <1>5 DEF CronOwed
    <2>2. excess'[k] <= excess[k]
      BY <1>a, <1>b
    <2>3. Horizon(k, h)'
      BY <1>1, <1>2, <1>4, <1>c, <1>d, <2>1, <2>2, HorizonEased
    <2> QED
      BY <1>b, <2>3
  <1>6. CASE Cron(k)'
    <2>1. t = k[1] /\ k \notin tick.keys /\ k \notin tick.rows
      BY <1>3, <1>6, <1>a, <1>b, <1>c DEF Windows
    <2>2. RanBy(k, h) \/ Spent(k) < DueBy(t, h)
      BY <1>b, <1>c, <2>1 DEF Horizon
    <2>3. PICK d, e \in Nat : d = DueBy(t, h) /\ e = DueBy(t, tick.now) /\ d <= e
      BY <1>a, <1>f, DueGrows
    <2>4. RanBy(k, h) => d < e
      <3>1. SUFFICES ASSUME RanBy(k, h) PROVE d < e
        OBVIOUS
      <3>2. PICK o \in Task[t].due : tick.from < o /\ o <= tick.now
        BY <1>b, <1>c, <1>a DEF Windows
      <3>3. h <= lastRun[t] /\ lastRun[t] \in Nat /\ o \in Nat
        BY <3>1, <2>1, <1>a, TaskShape DEF RanBy
      <3>4. h < o
        BY <1>a, <1>b, <1>f, <3>2, <3>3
      <3> QED
        BY <1>a, <1>f, <2>3, <3>2, <3>4, DueGrows
    <2>5. Spent(k) <= d /\ Spent(k) \in Int
      BY <1>a, <2>1, <2>3, SpentCount DEF Horizon
    <2>6. Spent(k)' = Spent(k) + 1
      <3>1. CronOwed(k)'
        BY <1>6, <1>e DEF CronOwed
      <3>2. N(CronOwed(k)') = 1 /\ N(CronOwed(k)) = 0
        BY <1>1, <3>1 DEF N
      <3>3. N(RowOwed(k)') = N(RowOwed(k)) /\ N(AskOwed(k)') = N(AskOwed(k))
        BY <1>1, <1>2 DEF N
      <3>4. N(RowOwed(k)) \in {0, 1} /\ N(AskOwed(k)) \in {0, 1} /\ excess[k] \in Int /\ excess'[k] = excess[k]
        BY <1>a, <1>b DEF N
      <3>5. Spent(k)' = excess'[k] + N(RowOwed(k)') + N(CronOwed(k)') + N(AskOwed(k)')
        BY DEF Spent, N
      <3> QED
        BY <3>2, <3>3, <3>4, <3>5 DEF Spent
    <2>7. Spent(k)' <= e
      BY <2>2, <2>3, <2>4, <2>5, <2>6
    <2>8. PICK g \in Nat : g = tick.now
      BY <1>f
    <2>9. g \in 0..clock' /\ Spent(k)' <= DueBy(k[1], g)
      BY <1>a, <1>b, <1>f, <2>1, <2>3, <2>7, <2>8
    <2>10. tick' # Idle => g <= tick'.now
      BY <1>d, <1>f, <2>8
    <2>11. ~(k[1] \in tick'.todo)
      BY <1>d, <2>1
    <2>12. Horizon(k, g)'
      BY <1>6, <2>9, <2>10, <2>11 DEF Horizon
    <2> QED
      BY <2>9, <2>12
  <1> QED
    BY <1>5, <1>6

LEMMA BalancedInit == Init => Balanced
  <1> SUFFICES ASSUME Init, NEW k \in Home
               PROVE  \E h \in 0..clock : Horizon(k, h)
    BY DEF Balanced
  <1>1. /\ k \in Keys /\ k[1] \in Tasks /\ tick = Idle /\ retry = {} /\ att["tick"] = Idle /\ att["runNow"] = Idle
        /\ lastRun[k[1]] = 0 /\ excess[k] = 0 /\ clock \in Nat
    BY ScheduleAssumption DEF Init, Home, Single, Keys, Actors
  <1>2. /\ ~Queued(k) /\ ~Cron(k) /\ ~Ordered(k) /\ ~Sends("runNow")
    BY <1>1 DEF Queued, Cron, Ordered, Sends, Idle
  <1>3. Spent(k) = 0
    BY <1>1, <1>2 DEF Spent, RowOwed, CronOwed, AskOwed, N
  <1>4. DueBy(k[1], 0) \in Nat
    BY <1>1, DueGrows
  <1>5. Spent(k) <= DueBy(k[1], 0)
    BY <1>3, <1>4
  <1>6. RanBy(k, 0)
    BY <1>1, <1>2 DEF RanBy
  <1>7. Horizon(k, 0)
    BY <1>1, <1>5, <1>6 DEF Horizon
  <1> QED
    BY <1>1, <1>7

LEMMA BalancedStep ==
    ASSUME TypeInv, TypeInv', ObligInv, LoopInv, Aimed, NoStrays, Balanced, [Next]_vars
    PROVE  Balanced'
  <1> SUFFICES ASSUME NEW k \in Home, NEW h \in 0..clock, Horizon(k, h)
               PROVE  \E g \in 0..clock' : Horizon(k, g)'
    BY DEF Balanced
  <1>a. clock' >= clock /\ clock \in Nat /\ clock' \in Nat /\ k \in Keys /\ excess \in [Keys -> Int]
    BY StepKeeps DEF Kept, TypeInv, Stored, Home, Single
  <1>k. ASSUME Horizon(k, h)' PROVE \E g \in 0..clock' : Horizon(k, g)'
    BY <1>a, <1>k
  <1>e. excess' = excess => excess'[k] <= excess[k]
    BY <1>a
  <1>1. ASSUME NEW lost \in SUBSET Keys, NEW done \in SUBSET Keys, NEW stale \in SUBSET Keys, TickBegin(lost, done, stale),
               tick = Idle, \A j \in lost \cup stale : inflight[j] # 0
        PROVE  Horizon(k, h)'
    BY <1>1, TickBalance
  <1>2. ASSUME NEW j \in Keys, RowDropped(j) \/ RowSkipped(j) \/ CancelRetry(j)
        PROVE  Horizon(k, h)'
    BY <1>2, RowGoneBalance
  <1>3. ASSUME NEW j \in Keys, GiveUp(j)
        PROVE  Horizon(k, h)'
    BY <1>3, GiveUpBalance
  <1>4. CASE \/ \E j \in Keys : RowTried(j)
             \/ RowsDone \/ DueDone \/ TickEnd
             \/ \E t \in Tasks : DueSuppressed(t) \/ DueStale(t) \/ DueSettled(t)
    <2>1. Horizon(k, h)'
      BY <1>4, TickWalksBalance
    <2> QED
      BY <1>k, <2>1
  <1>5. ASSUME NEW t \in Tasks, DueFires(t)
        PROVE  \E g \in 0..clock' : Horizon(k, g)'
    BY <1>5, DueFiresBalance
  <1>6. ASSUME NEW x \in Actors, Undelivered(x)
        PROVE  Horizon(k, h)'
    BY <1>6, UndeliveredBalance
  <1>7. ASSUME NEW x \in Actors, NEW a \in Agents, Target(x, a) \/ KeyHandled(a)
        PROVE  Horizon(k, h)'
    BY <1>7, TypingBalance
  <1>8. ASSUME NEW x \in Actors, NEW s \in {"ready", "busy"}, SendBegin(x) \/ Typed(x, s)
        PROVE  Horizon(k, h)'
    BY <1>8, TypingBalance
  <1>9. ASSUME NEW x \in Actors, Fired(x)
        PROVE  Horizon(k, h)'
    BY <1>9, FiredBalance
  <1>10. ASSUME NEW t \in Tasks, RunNow(t)
         PROVE  Horizon(k, h)'
    BY <1>10, RunNowBalance
  <1>11. CASE Crash
    <2>1. Horizon(k, h)'
      BY <1>11, CrashBalance
    <2> QED
      BY <1>k, <2>1
  <1>12. ASSUME UNCHANGED <<tick, att, retry, lastRun, excess>>
         PROVE  Horizon(k, h)'
    BY <1>12, <1>e, QuietBalance
  <1>13. ASSUME NEW a \in Agents, Frees(a) \/ \E s \in Sessions : Flip(a, s)
         PROVE  Horizon(k, h)'
    BY <1>13, <1>12 DEF Frees, Flip, memory, durable, history
  <1>14. ASSUME NEW t \in Tasks, NEW d \in {"on", "off", "gone"}, SetDef(t, d)
         PROVE  Horizon(k, h)'
    BY <1>14, <1>12 DEF SetDef, memory, history
  <1>15. ASSUME Restart \/ Advance \/ UNCHANGED vars
         PROVE  Horizon(k, h)'
    BY <1>15, <1>12 DEF Restart, Advance, vars, memory, durable, history
  <1>16. Tick => \E lost \in SUBSET Keys, done \in SUBSET Keys, stale \in SUBSET Keys :
                   TickBegin(lost, done, stale) /\ tick = Idle /\ \A j \in lost \cup stale : inflight[j] # 0
    BY DEF Tick, LostNow
  <1>17. CASE Tick
    BY <1>1, <1>16, <1>17, <1>k
  <1>18. CASE TickLoop
    <2>1. \E x \in Actors : x = "tick"
      BY DEF Actors
    <2> QED
      BY <1>2, <1>4, <1>5, <1>7, <1>18, <1>k, <2>1 DEF TickLoop
  <1>19. ASSUME NEW x \in Actors, Attempt(x)
         PROVE  Horizon(k, h)'
    BY <1>6, <1>7, <1>8, <1>9, <1>19, EndsUndelivered DEF Attempt
  <1>20. CASE Operator
    BY <1>2, <1>10, <1>14, <1>20, <1>k DEF Operator
  <1> QED
    BY <1>3, <1>11, <1>13, <1>15, <1>17, <1>18, <1>19, <1>20, <1>k DEF Next

FireInv == LoopInv /\ Aimed /\ NoStrays /\ Balanced

LEMMA FireFollows == TypeInv /\ FireInv => NoDoubleFire
  <1> SUFFICES ASSUME TypeInv, FireInv, NEW k \in Single
               PROVE  excess[k] <= DueBy(k[1], clock)
    BY DEF NoDoubleFire, Single, DueBy
  <1>1. k \in Keys /\ k[1] \in Tasks /\ clock \in Nat /\ excess[k] \in Int
    BY DEF Single, Keys, TypeInv, Stored
  <1>2. DueBy(k[1], clock) \in Nat
    BY <1>1, DueGrows
  <1>3. CASE k \notin Home
    <2>1. excess[k] <= 0
      BY <1>3 DEF FireInv, NoStrays
    <2> QED
      BY <1>1, <1>2, <2>1
  <1>4. CASE k \in Home
    <2>1. PICK h \in 0..clock : Horizon(k, h)
      BY <1>4 DEF FireInv, Balanced
    <2>2. excess[k] <= Spent(k) /\ Spent(k) \in Int /\ Spent(k) <= DueBy(k[1], h)
      BY <1>1, <2>1, SpentCount DEF Horizon
    <2>3. DueBy(k[1], h) \in Nat /\ DueBy(k[1], h) <= DueBy(k[1], clock)
      BY <1>1, <2>1, DueGrows
    <2> QED
      BY <1>1, <1>2, <2>2, <2>3
  <1> QED
    BY <1>3, <1>4

\* Whatever restarts, re-scans, retries and the operator do, the agent of a task
\* with one target has been sent at most one prompt for each occurrence that came
\* due, beyond those it was entitled to otherwise - for any tasks, agents,
\* thresholds and number of events.
THEOREM FiredOnce == Spec => []NoDoubleFire
  <1>1. Init => TypeInv /\ ObligInv /\ FireInv
    BY TypeInit, ObligInit, LoopInit, AimedInit, BalancedInit DEF FireInv
  <1>2. TypeInv /\ ObligInv /\ FireInv /\ [Next]_vars => (TypeInv /\ ObligInv /\ FireInv)'
    BY TypeStep, ObligStep, LoopStep, AimedStep, StraysStep, BalancedStep DEF FireInv
  <1>3. TypeInv /\ FireInv => NoDoubleFire
    BY FireFollows
  <1> QED
    BY <1>1, <1>2, <1>3, PTL DEF Spec

(***************************************************************************)
(* The context guard: what it decides is stored before it acts, so that    *)
(* between the decision and the resume prompt lie the end of the session,  *)
(* its new start and the wait for it, with the people in between.          *)
(***************************************************************************)
Guards == [phase : {"idle", "await-handoff", "await-ready", "cooldown"}, late : BOOLEAN,
           streak : 0..1, stale : {"current", "behind", "unverified"}, newer : BOOLEAN]

\* a guard that forgets, counts, waits or has a file before it is a guard
LEMMA GuardShapes ==
    ASSUME NEW g \in Guards
    PROVE  /\ Resting \in Guards /\ Resting.phase = "idle"
           /\ \A p \in {"idle", "await-handoff", "await-ready", "cooldown"} : In(p) \in Guards /\ In(p).phase = p
           /\ \A st \in {"current", "behind", "unverified"} :
                LET h == [In("await-ready") EXCEPT !.stale = st]
                IN  h \in Guards /\ h.phase = "await-ready" /\ h.stale = st
           /\ LET h == [g EXCEPT !.late = TRUE] IN h \in Guards /\ h.phase = g.phase /\ h.stale = g.stale
           /\ \A b \in BOOLEAN :
                LET h == [g EXCEPT !.newer = b] IN h \in Guards /\ h.phase = g.phase /\ h.stale = g.stale
           /\ \A n \in 0..1 :
                LET h == [g EXCEPT !.streak = n] IN h \in Guards /\ h.phase = g.phase /\ h.stale = g.stale
  <1>1. Resting \in Guards /\ Resting.phase = "idle"
    BY DEF Guards, Resting
  <1>2. \A p \in {"idle", "await-handoff", "await-ready", "cooldown"} : In(p) \in Guards /\ In(p).phase = p
    BY <1>1 DEF Guards, In
  <1>3. ASSUME NEW st \in {"current", "behind", "unverified"}
        PROVE  LET h == [In("await-ready") EXCEPT !.stale = st]
               IN  h \in Guards /\ h.phase = "await-ready" /\ h.stale = st
    <2>1. In("await-ready") \in Guards /\ In("await-ready").phase = "await-ready"
      BY <1>2
    <2> QED
      BY <2>1 DEF Guards
  <1>4. LET h == [g EXCEPT !.late = TRUE] IN h \in Guards /\ h.phase = g.phase /\ h.stale = g.stale
    BY DEF Guards
  <1>5. ASSUME NEW b \in BOOLEAN
        PROVE  LET h == [g EXCEPT !.newer = b] IN h \in Guards /\ h.phase = g.phase /\ h.stale = g.stale
    BY DEF Guards
  <1>6. ASSUME NEW n \in 0..1
        PROVE  LET h == [g EXCEPT !.streak = n] IN h \in Guards /\ h.phase = g.phase /\ h.stale = g.stale
    BY DEF Guards
  <1> QED
    BY <1>1, <1>2, <1>3, <1>4, <1>5, <1>6

Gates == [armed : BOOLEAN, lane : BOOLEAN, blocked : {"no", "counting", "long", "alerted"}]

\* a gate that loses its timer, its lane or its clock is a gate
LEMMA GateShapes ==
    ASSUME NEW g \in Gates
    PROVE  /\ [g EXCEPT !.armed = FALSE] \in Gates
           /\ \A b \in BOOLEAN : [g EXCEPT !.lane = b] \in Gates
           /\ \A w \in {"no", "counting", "long", "alerted"} : [g EXCEPT !.blocked = w] \in Gates
           /\ [g EXCEPT !.armed = TRUE, !.lane = FALSE] \in Gates
           /\ [g EXCEPT !.lane = FALSE, !.blocked = "no"] \in Gates
  BY DEF Gates

\* the file is known to the last conversation that ended, unless there is none
FileKnown == handoff = "none" => ended = "none"
\* a sweep that acts has left the phase it acts for, a restart is awaited
AwaitsApart ==
  /\ acting = "restarting" => guard.phase = "await-ready"
  /\ acting \in {"asking", "resuming"} => guard.phase # "await-ready"
\* the session waited for is a new one, which nobody has told anything yet
NewlyBegun ==
  guard.phase = "await-ready" /\ ~spoilt =>
    /\ told = "nothing"
    /\ doomed => acting = "restarting" /\ pane = "gone"
    /\ guard.stale = "current" => ended = "current" \/ handoff = "none"
\* the prompt under way says of the file what held when the last one ended
SaysTrue ==
  acting = "resuming" /\ ~spoilt =>
    /\ ~doomed
    /\ claim = "current" => ended = "current"
    /\ claim = "missing" => ended = "none"
Resumable == FileKnown /\ AwaitsApart /\ NewlyBegun /\ SaysTrue

\* the types, in three parts
SessionTyped ==
  /\ pane \in {"gone", "boot", "idle", "busy", "banner", "modal"} /\ load \in Light..Saturated
  /\ reading \in None..Saturated /\ told \in Claims \cup {"nothing", "ask"} /\ doomed \in BOOLEAN
GuardTyped ==
  /\ handoff \in {"none", "current", "behind"} /\ guard \in Guards
  /\ acting \in {"no", "asking", "restarting", "resuming"} /\ claim \in Claims /\ grace \in BOOLEAN
RestTyped ==
  /\ isMain \in BOOLEAN /\ cfg \in Settings \cup Edits
  /\ gate \in Gates
  /\ spoilt \in BOOLEAN /\ ended \in {"none", "current", "behind"} /\ troubles \in 0..MaxTroubles

LEMMA TypedParts == CGTypeOK <=> SessionTyped /\ GuardTyped /\ RestTyped
  BY DEF CGTypeOK, SessionTyped, GuardTyped, RestTyped, Guards, Gates

LEMMA GuardInit == CGInit => CGTypeOK /\ Resumable
  <1>1. CGInit => CGTypeOK
    <2> SUFFICES ASSUME CGInit PROVE CGTypeOK
      OBVIOUS
    <2>a. Saturated \in Nat /\ MaxTroubles \in Nat
      BY GuardAssumption
    <2>1. SessionTyped
      <3>1. 0 \in Light..Saturated /\ 0 \in None..Saturated
        BY <2>a DEF Light, None
      <3>2. /\ pane = "idle" /\ load = 0 /\ reading = 0 /\ told = "nothing" /\ doomed = FALSE
        BY DEF CGInit, Light
      <3> QED
        BY <3>1, <3>2 DEF SessionTyped
    <2>2. GuardTyped
      <3>1. Resting \in Guards
        BY DEF Guards, Resting
      <3> QED
        BY <3>1 DEF CGInit, GuardTyped, Claims
    <2>3. RestTyped
      <3>1. cfg \in Settings /\ cfg.gate \in BOOLEAN
        BY GuardAssumption DEF CGInit
      <3>2. gate \in Gates
        BY <3>1 DEF CGInit, Gates
      <3>3. 0 \in 0..MaxTroubles
        BY <2>a
      <3>4. isMain \in BOOLEAN /\ spoilt = FALSE /\ ended = "none" /\ troubles = 0
        BY DEF CGInit
      <3> QED
        BY <3>1, <3>2, <3>3, <3>4 DEF RestTyped
    <2> QED
      BY <2>1, <2>2, <2>3, TypedParts
  <1>2. CGInit => Resumable
    BY DEF CGInit, Resumable, FileKnown, AwaitsApart, NewlyBegun, SaysTrue, Resting
  <1> QED
    BY <1>1, <1>2

LEMMA GuardTypeStep ==
    ASSUME CGTypeOK, [CGNext]_cgVars
    PROVE  CGTypeOK'
  <1>t. SessionTyped /\ GuardTyped /\ RestTyped
    BY TypedParts
  <1>z. ASSUME SessionTyped', GuardTyped', RestTyped' PROVE CGTypeOK'
    BY <1>z DEF CGTypeOK, SessionTyped, GuardTyped, RestTyped, Guards, Gates
  <1>c. Saturated \in Nat /\ MaxTroubles \in Nat /\ Light = 0 /\ None = -1
    BY GuardAssumption DEF Light, None
  <1>u. /\ UNCHANGED cgSession => SessionTyped'
        /\ UNCHANGED <<handoff, guard, acting, claim, grace>> => GuardTyped'
        /\ UNCHANGED <<agent, gate, past, troubles>> => RestTyped'
        /\ UNCHANGED <<agent, gate, past>> /\ Trouble => RestTyped'
    <2>1. UNCHANGED cgSession => SessionTyped'
      BY <1>t DEF cgSession, SessionTyped
    <2>2. UNCHANGED <<handoff, guard, acting, claim, grace>> => GuardTyped'
      BY <1>t DEF GuardTyped
    <2>3. UNCHANGED <<agent, gate, past, troubles>> => RestTyped'
      BY <1>t DEF agent, past, RestTyped
    <2>4. UNCHANGED <<agent, gate, past>> /\ Trouble => RestTyped'
      BY <1>t, <1>c DEF agent, past, RestTyped, Trouble
    <2> QED
      BY <2>1, <2>2, <2>3, <2>4
  <1>v. Trouble => troubles' \in 0..MaxTroubles
    BY <1>t, <1>c DEF Trouble, RestTyped
  <1>y. /\ gate \in Gates /\ gate' = [gate EXCEPT !.armed = TRUE, !.lane = FALSE] => gate' \in Gates
        /\ gate \in Gates /\ gate' = [gate EXCEPT !.lane = FALSE, !.blocked = "no"] => gate' \in Gates
        /\ gate \in Gates /\ gate' = [gate EXCEPT !.lane = FALSE] => gate' \in Gates
    BY GateShapes
  <1>n. /\ NewConversation /\ pane' \in {"gone", "boot", "idle", "busy", "banner", "modal"} => SessionTyped'
    <2>1. 0 \in Light..Saturated
      BY <1>c
    <2> QED
      BY <2>1, <1>t, <1>c DEF NewConversation, SessionTyped
  \* the guard alone moves
  <1>g. ASSUME UNCHANGED <<agent, cgSession, handoff, claim, grace, gate, past, troubles>>, guard' \in Guards,
               acting' \in {"no", "asking", "restarting", "resuming"}
        PROVE  CGTypeOK'
    <2>1. GuardTyped'
      BY <1>g, <1>t DEF GuardTyped
    <2> QED
      BY <1>g, <1>u, <1>z, <2>1
  <1>b. ASSUME NEW g \in Guards, Becomes(g) \/ AsksFor(g) PROVE CGTypeOK'
    <2>1. acting' \in {"no", "asking", "restarting", "resuming"}
      BY <1>b, <1>t DEF Becomes, AsksFor, GuardTyped
    <2> QED
      BY <1>b, <1>g, <2>1 DEF Becomes, AsksFor
  <1>s. /\ guard \in Guards /\ Resting \in Guards /\ NoStreak \in Guards /\ [guard EXCEPT !.streak = 1] \in Guards
        /\ [guard EXCEPT !.late = TRUE] \in Guards /\ \A b \in BOOLEAN : [guard EXCEPT !.newer = b] \in Guards
        /\ \A p \in {"idle", "await-handoff", "await-ready", "cooldown"} : In(p) \in Guards
        /\ \A st \in {"current", "behind", "unverified"} : [In("await-ready") EXCEPT !.stale = st] \in Guards
    <2>1. guard \in Guards
      BY <1>t DEF GuardTyped
    <2>2. [guard EXCEPT !.streak = 0] \in Guards /\ [guard EXCEPT !.streak = 1] \in Guards
      <3>1. 0 \in 0..1 /\ 1 \in 0..1
        OBVIOUS
      <3> QED
        BY <2>1, <3>1, GuardShapes
    <2>3. [guard EXCEPT !.late = TRUE] \in Guards /\ \A b \in BOOLEAN : [guard EXCEPT !.newer = b] \in Guards
      BY <2>1, GuardShapes
    <2>4. /\ Resting \in Guards
          /\ \A p \in {"idle", "await-handoff", "await-ready", "cooldown"} : In(p) \in Guards
          /\ \A st \in {"current", "behind", "unverified"} : [In("await-ready") EXCEPT !.stale = st] \in Guards
      BY <2>1, GuardShapes
    <2> QED
      BY <2>1, <2>2, <2>3, <2>4 DEF NoStreak
  <1>a. \A c \in BOOLEAN : Staleness(c) \in {"current", "behind", "unverified"}
    BY <1>t DEF Staleness, GuardTyped
  <1>e. ASSUME NEW c \in BOOLEAN, EndsOn(c) PROVE CGTypeOK'
    <2>1. CASE Defers
      <3>1. SessionTyped' /\ RestTyped'
        BY <2>1, <1>t DEF Defers, SessionTyped, RestTyped, agent, past
      <3>2. GuardTyped'
        BY <2>1, <1>u DEF Defers
      <3> QED
        BY <1>z, <3>1, <3>2
    <2>2. CASE Restarts(c)
      <3>1. guard' \in Guards /\ ended' = handoff /\ UNCHANGED <<agent, handoff, claim, gate>>
        BY <2>2, <1>s, <1>a DEF Restarts
      <3>2. CASE isMain /\ pane' = "boot" /\ NewConversation /\ grace' = TRUE /\ spoilt' = FALSE
                 /\ UNCHANGED <<acting, troubles>>
        BY <3>1, <3>2, <1>t, <1>n, <1>z DEF GuardTyped, RestTyped, agent
      <3>3. CASE ~isMain /\ pane' = "gone" /\ told' = "nothing" /\ doomed' = TRUE /\ spoilt' = FALSE
                 /\ acting' = "restarting" /\ UNCHANGED <<load, reading, grace, troubles>>
        <4>1. SessionTyped'
          BY <3>3, <1>t DEF SessionTyped
        <4> QED
          BY <3>1, <3>3, <4>1, <1>t, <1>z DEF GuardTyped, RestTyped, agent
      <3>4. CASE Trouble /\ doomed' = TRUE /\ spoilt' = TRUE /\ UNCHANGED <<pane, load, reading, told, acting, grace>>
        <4>1. SessionTyped'
          BY <3>4, <1>t DEF SessionTyped
        <4>2. GuardTyped'
          BY <3>1, <3>4, <1>t DEF GuardTyped
        <4>3. RestTyped'
          BY <3>1, <3>4, <1>t, <1>v DEF GuardTyped, RestTyped, agent
        <4> QED
          BY <4>1, <4>2, <4>3, <1>z
      <3> QED
        BY <2>2, <3>2, <3>3, <3>4 DEF Restarts
    <2> QED
      BY <1>e, <2>1, <2>2 DEF EndsOn
  <1>1. CASE TurnBegins \/ Works \/ TurnEnds
    <2>1. SessionTyped'
      BY <1>1, <1>t, <1>c DEF TurnBegins, Works, TurnEnds, SessionTyped
    <2>2. GuardTyped'
      BY <1>1, <1>t DEF TurnBegins, Works, TurnEnds, GuardTyped
    <2>3. RestTyped'
      BY <1>1, <1>u DEF TurnBegins, Works, TurnEnds
    <2> QED
      BY <1>z, <2>1, <2>2, <2>3
  <1>3. CASE WritesHandoff
    <2>1. guard' \in Guards /\ handoff' = "current" /\ UNCHANGED <<acting, claim, grace>>
      BY <1>3, <1>s DEF WritesHandoff
    <2>2. GuardTyped'
      BY <1>t, <2>1 DEF GuardTyped
    <2> QED
      BY <1>3, <1>u, <1>z, <2>2 DEF WritesHandoff
  <1>5. CASE Dies
    <2>1. SessionTyped'
      BY <1>5, <1>t DEF Dies, SessionTyped
    <2> QED
      BY <1>5, <1>u, <1>z, <2>1 DEF Dies
  <1>6. CASE StartedByOthers
    <2>1. SessionTyped'
      <3>1. pane' = "boot"
        BY <1>6 DEF StartedByOthers
      <3>2. CASE load' = (IF reading = None THEN Light ELSE reading) /\ UNCHANGED <<reading, told, doomed>>
        BY <3>1, <3>2, <1>t, <1>c DEF SessionTyped
      <3> QED
        BY <1>6, <1>n, <3>1, <3>2 DEF StartedByOthers
    <2>2. GuardTyped'
      BY <1>6, <1>t DEF StartedByOthers, GuardTyped, RestTyped
    <2>3. RestTyped'
      BY <1>6, <1>t DEF StartedByOthers, RestTyped, agent
    <2> QED
      BY <1>z, <2>1, <2>2, <2>3
  <1>7. CASE Configure
    <2>1. RestTyped'
      BY <1>7, <1>t, <1>v DEF Configure, RestTyped, past
    <2> QED
      BY <1>7, <1>u, <1>z, <2>1 DEF Configure
  <1>8. CASE DashboardRestarts
    <2>1. GuardTyped'
      BY <1>8, <1>t, <1>s DEF DashboardRestarts, GuardTyped, Claims
    <2>2. RestTyped'
      BY <1>8, <1>t, <1>v, <1>y DEF DashboardRestarts, RestTyped, Forget, agent
    <2> QED
      BY <1>8, <1>u, <1>z, <2>1, <2>2 DEF DashboardRestarts
  <1>9. CASE DeadlinePasses
    <2>1. guard' \in Guards /\ acting' \in {"no", "asking", "restarting", "resuming"}
      BY <1>9, <1>t, <1>s DEF DeadlinePasses, GuardTyped
    <2> QED
      BY <1>9, <1>g, <2>1 DEF DeadlinePasses
  <1>10. CASE GraceEnds
    <2>1. GuardTyped'
      BY <1>10, <1>t DEF GraceEnds, GuardTyped
    <2> QED
      BY <1>10, <1>u, <1>z, <2>1 DEF GraceEnds
  <1>11. CASE GuardSweeps
    <2>1. CASE SwitchedOff \/ SeesNothing \/ StandsDown \/ GivesUp
      BY <2>1, <1>b, <1>s DEF SwitchedOff, SeesNothing, StandsDown, GivesUp
    <2>2. CASE CoolsDown
      <3>1. GuardTyped'
        BY <2>2, <1>t, <1>s DEF CoolsDown, GuardTyped
      <3>2. RestTyped'
        BY <2>2, <1>t DEF CoolsDown, RestTyped, Forget, agent
      <3> QED
        BY <2>2, <1>u, <1>z, <3>1, <3>2 DEF CoolsDown
    <2>3. CASE SeesSaturation \/ SeesHard \/ TipsOver \/ HandoffOverdue
      BY <2>3, <1>b, <1>s, <1>e DEF SeesSaturation, SeesHard, TipsOver, HandoffOverdue, Ends
    <2>4. CASE AsksHandoff
      BY <2>4, <1>b, <1>s DEF AsksHandoff
    <2>5. CASE HandoffWritten
      BY <2>5, <1>b, <1>s, <1>e DEF HandoffWritten
    <2>6. CASE SeesReady
      <3>1. claim' \in Claims
        BY <2>6, <1>s DEF SeesReady, Guards, Claims
      <3>2. GuardTyped'
        BY <2>6, <1>t, <1>s, <3>1 DEF SeesReady, GuardTyped
      <3> QED
        BY <2>6, <1>u, <1>z, <3>2 DEF SeesReady
    <2> QED
      BY <1>11, <2>1, <2>2, <2>3, <2>4, <2>5, <2>6 DEF GuardSweeps
  <1>12. ASSUME NEW prompt \in Claims \cup {"ask"}, Types(prompt) PROVE CGTypeOK'
    <2>1. SessionTyped'
      BY <1>12, <1>t DEF Types, SessionTyped
    <2>2. GuardTyped'
      BY <1>12, <1>t DEF Types, GuardTyped, Claims
    <2>3. RestTyped'
      BY <1>12, <1>u DEF Types
    <2> QED
      BY <1>z, <2>1, <2>2, <2>3
  <1>13. CASE StartsAgain
    <2>1. SessionTyped'
      BY <1>13, <1>u, <1>n DEF StartsAgain
    <2>2. GuardTyped'
      BY <1>13, <1>t DEF StartsAgain, GuardTyped
    <2>3. RestTyped'
      BY <1>13, <1>t, <1>v DEF StartsAgain, RestTyped, agent
    <2> QED
      BY <1>z, <2>1, <2>2, <2>3
  <1>14. ASSUME NEW g \in Gates, GateBecomes(g)
         PROVE  CGTypeOK'
    <2>1. RestTyped'
      BY <1>14, <1>t DEF GateBecomes, RestTyped, agent, past
    <2> QED
      BY <1>14, <1>u, <1>z, <2>1 DEF GateBecomes
  <1>15. CASE BlockedLong \/ GateDisarms \/ GateBelow \/ GateBlocks \/ GateAlerts \/ GateOpens
    BY <1>15, <1>14, <1>t, GateShapes DEF BlockedLong, GateDisarms, GateBelow, GateBlocks, GateAlerts, GateOpens, RestTyped
  <1>16. CASE GateClears
    <2>1. SessionTyped'
      BY <1>16, <1>n, <1>u DEF GateClears
    <2>2. GuardTyped'
      BY <1>16, <1>u DEF GateClears
    <2>3. RestTyped'
      BY <1>16, <1>t, <1>v, <1>y DEF GateClears, RestTyped, agent, past
    <2> QED
      BY <1>z, <2>1, <2>2, <2>3
  <1>17. CASE UNCHANGED cgVars
    BY <1>17, <1>u, <1>z DEF cgVars
  <1>18. CASE Asked \/ Resumed
    BY <1>18, <1>12, <1>t DEF Asked, Resumed, GuardTyped
  <1> QED
    BY <1>1, <1>3, <1>5, <1>6, <1>7, <1>8, <1>9, <1>10, <1>11, <1>13, <1>15, <1>16, <1>17, <1>18
    DEF CGNext, People, Time, Loop, Gate

\* The guard, the session it watches and the gate stay what they are, whatever the
\* thresholds, the settings and the people do.
THEOREM GuardTypes == CGSpec => []CGTypeOK
  <1>1. CGTypeOK /\ [CGNext]_cgVars => CGTypeOK'
    BY GuardTypeStep
  <1> QED
    BY <1>1, GuardInit, PTL DEF CGSpec

\* what leaves the phases, the prompt and the files alone, and takes no prompt back
LEMMA QuietStep ==
    ASSUME Resumable,
           guard'.phase = guard.phase, guard'.stale = guard.stale, UNCHANGED <<acting, claim, ended>>,
           handoff' = "none" <=> handoff = "none",
           spoilt => spoilt', told' \in {told, "nothing"}, doomed' => doomed,
           acting = "restarting" /\ pane = "gone" => pane' = "gone" \/ spoilt' \/ ~doomed'
    PROVE  Resumable'
  <1>1. FileKnown'
    BY DEF Resumable, FileKnown
  <1>2. AwaitsApart'
    BY DEF Resumable, AwaitsApart
  <1>3. NewlyBegun'
    BY DEF Resumable, NewlyBegun
  <1>4. SaysTrue'
    BY DEF Resumable, SaysTrue
  <1> QED
    BY <1>1, <1>2, <1>3, <1>4 DEF Resumable

\* where no session is waited for and no resume prompt is under way, nothing is promised
LEMMA LeavingStep ==
    ASSUME FileKnown', guard'.phase # "await-ready", acting' \in {"no", "asking"}
    PROVE  Resumable'
  BY DEF Resumable, FileKnown, AwaitsApart, NewlyBegun, SaysTrue

\* the end of a conversation: the file is weighed, and the decision stored, as it ends
LEMMA EndingStep ==
    ASSUME CGTypeOK, Resumable, NEW c \in BOOLEAN, EndsOn(c), acting = "no", guard.phase # "await-ready"
    PROVE  Resumable'
  <1>1. CASE Defers
    BY <1>1, LeavingStep DEF Defers, past, Resumable, FileKnown
  <1>2. CASE Restarts(c)
    <2>1. /\ guard'.phase = "await-ready" /\ guard'.stale = Staleness(c)
          /\ ended' = handoff /\ handoff' = handoff
      <3>1. guard \in Guards /\ Staleness(c) \in {"current", "behind", "unverified"}
        BY DEF CGTypeOK, Guards, Staleness
      <3> QED
        BY <1>2, <3>1, GuardShapes DEF Restarts
    <2>2. \/ acting' = "no" /\ told' = "nothing" /\ ~doomed'
          \/ acting' = "restarting" /\ told' = "nothing" /\ pane' = "gone"
          \/ acting' = "no" /\ spoilt'
      BY <1>2 DEF Restarts, NewConversation
    <2>3. guard'.stale = "current" => ended' = "current" \/ handoff' = "none"
      BY <2>1 DEF Staleness
    <2> QED
      BY <2>1, <2>2, <2>3 DEF Resumable, FileKnown, AwaitsApart, NewlyBegun, SaysTrue
  <1> QED
    BY <1>1, <1>2 DEF EndsOn

LEMMA ResumableStep ==
    ASSUME CGTypeOK, Resumable, [CGNext]_cgVars
    PROVE  Resumable'
  <1>t. guard \in Guards /\ spoilt \in BOOLEAN /\ doomed \in BOOLEAN
    BY DEF CGTypeOK, Guards
  <1>s. /\ NoStreak.phase = guard.phase /\ NoStreak.stale = guard.stale
        /\ [guard EXCEPT !.streak = 1].phase = guard.phase /\ [guard EXCEPT !.streak = 1].stale = guard.stale
        /\ [guard EXCEPT !.late = TRUE].phase = guard.phase /\ [guard EXCEPT !.late = TRUE].stale = guard.stale
        /\ \A b \in BOOLEAN : /\ [guard EXCEPT !.newer = b].phase = guard.phase
                              /\ [guard EXCEPT !.newer = b].stale = guard.stale
        /\ Resting.phase = "idle"
        /\ \A p \in {"idle", "await-handoff", "await-ready", "cooldown"} : In(p).phase = p
    <2>1. 0 \in 0..1 /\ 1 \in 0..1
      OBVIOUS
    <2>2. /\ [guard EXCEPT !.streak = 0].phase = guard.phase /\ [guard EXCEPT !.streak = 0].stale = guard.stale
          /\ [guard EXCEPT !.streak = 1].phase = guard.phase /\ [guard EXCEPT !.streak = 1].stale = guard.stale
      BY <1>t, <2>1, GuardShapes
    <2> QED
      BY <1>t, <2>2, GuardShapes DEF NoStreak
  \* nothing that Resumable speaks of moves, but for the phases' lesser fields
  <1>q. ASSUME UNCHANGED <<cgSession, handoff, acting, claim, past>>,
               guard'.phase = guard.phase, guard'.stale = guard.stale
        PROVE  Resumable'
    BY <1>q, QuietStep DEF cgSession, past
  <1>f. UNCHANGED <<handoff, past>> => FileKnown'
    BY DEF Resumable, FileKnown, past
  <1>b. ASSUME NEW g, Becomes(g), acting = "no", g.phase # "await-ready" PROVE Resumable'
    BY <1>b, <1>f, LeavingStep DEF Becomes
  <1>k. ASSUME NEW g, AsksFor(g), g.phase # "await-ready" PROVE Resumable'
    BY <1>k, <1>f, LeavingStep DEF AsksFor
  <1>e. ASSUME Ends, acting = "no", guard.phase # "await-ready" PROVE Resumable'
    BY <1>e, EndingStep DEF Ends
  <1>1. CASE TurnBegins \/ Works \/ TurnEnds
    <2>1. /\ guard' = guard /\ UNCHANGED <<acting, claim, ended, spoilt, told, doomed>>
          /\ handoff' = "none" <=> handoff = "none"
          /\ pane # "gone"
      BY <1>1 DEF TurnBegins, Works, TurnEnds, past
    <2> QED
      BY <2>1, QuietStep
  <1>2. CASE WritesHandoff
    <2>1. /\ guard'.phase = guard.phase /\ guard'.stale = guard.stale /\ handoff' = "current"
          /\ told = "ask" /\ UNCHANGED <<acting, claim, ended, spoilt, told, doomed, pane>>
      BY <1>2, <1>s DEF WritesHandoff, past, cgSession
    <2> QED
      BY <2>1 DEF Resumable, FileKnown, AwaitsApart, NewlyBegun, SaysTrue
  <1>3. CASE Dies
    <2>1. /\ guard' = guard /\ UNCHANGED <<acting, claim, ended, spoilt, handoff, doomed>>
          /\ told' = "nothing" /\ pane' = "gone"
      BY <1>3 DEF Dies, past
    <2> QED
      BY <2>1, QuietStep
  <1>4. CASE StartedByOthers
    <2>1. /\ guard' = guard /\ UNCHANGED <<acting, claim, ended, handoff>>
          /\ told' \in {told, "nothing"}
          /\ doomed' => doomed
      BY <1>4 DEF StartedByOthers, NewConversation
    <2>2. spoilt => spoilt'
      BY <1>4 DEF StartedByOthers
    <2>3. acting = "restarting" => spoilt'
      BY <1>4 DEF StartedByOthers, Resumable, AwaitsApart
    <2> QED
      BY <2>1, <2>2, <2>3, QuietStep
  <1>5. CASE Configure \/ GraceEnds
    BY <1>5, <1>q DEF Configure, GraceEnds
  <1>6. CASE DashboardRestarts
    BY <1>6, <1>s, LeavingStep DEF DashboardRestarts, Forget, FileKnown
  <1>7. CASE DeadlinePasses
    BY <1>7, <1>q, <1>s DEF DeadlinePasses
  <1>8. CASE GuardSweeps
    <2>1. CASE SwitchedOff
      BY <2>1, <1>b, <1>s DEF SwitchedOff
    <2>2. CASE CoolsDown
      BY <2>2, <1>s, LeavingStep DEF CoolsDown, Sweeping, Forget, FileKnown
    <2>3. CASE SeesSaturation \/ SeesHard \/ TipsOver \/ HandoffOverdue
      BY <2>3, <1>b, <1>s, <1>e DEF SeesSaturation, SeesHard, TipsOver, HandoffOverdue, Sweeping, Waiting
    <2>4. CASE SeesNothing \/ StandsDown \/ GivesUp
      BY <2>4, <1>b, <1>s DEF SeesNothing, StandsDown, GivesUp, Sweeping
    <2>5. CASE AsksHandoff
      BY <2>5, <1>k, <1>s DEF AsksHandoff
    <2>6. CASE HandoffWritten
      <3>1. acting = "no" /\ guard.phase = "await-handoff"
        BY <2>6 DEF HandoffWritten, Waiting, Sweeping
      <3>2. PICK c \in BOOLEAN : AsksFor([guard EXCEPT !.newer = FALSE]) \/ EndsOn(c)
        BY <2>6 DEF HandoffWritten
      <3> QED
        BY <3>1, <3>2, <1>k, <1>s, EndingStep
    <2>7. CASE SeesReady
      <3>1. /\ acting = "no" /\ guard.phase = "await-ready" /\ guard'.phase = "cooldown" /\ acting' = "resuming"
            /\ claim' = (IF handoff = "none" THEN "missing" ELSE guard.stale)
            /\ UNCHANGED <<handoff, ended, spoilt, doomed>>
        BY <2>7, <1>s DEF SeesReady, Sweeping, past, cgSession
      <3>2. guard.stale # "missing"
        BY <1>t DEF Guards
      <3>3. SaysTrue'
        BY <3>1, <3>2 DEF SaysTrue, Resumable, FileKnown, NewlyBegun
      <3> QED
        BY <3>1, <3>3 DEF Resumable, FileKnown, AwaitsApart, NewlyBegun
    <2> QED
      BY <1>8, <2>1, <2>2, <2>3, <2>4, <2>5, <2>6, <2>7 DEF GuardSweeps
  <1>9. ASSUME NEW prompt, Types(prompt), acting \in {"asking", "resuming"} PROVE Resumable'
    <2>1. guard' = guard /\ acting' = "no" /\ UNCHANGED <<handoff, past>>
      BY <1>9 DEF Types
    <2> QED
      BY <1>9, <2>1, <1>f, LeavingStep DEF Resumable, AwaitsApart
  <1>10. CASE Asked \/ Resumed
    BY <1>10, <1>9 DEF Asked, Resumed
  <1>11. CASE StartsAgain
    <2>1. /\ acting = "restarting" /\ acting' = "no"
          /\ guard' = guard /\ UNCHANGED <<handoff, claim, ended>>
      BY <1>11 DEF StartsAgain
    <2>2. \/ told' = "nothing" /\ ~doomed' /\ spoilt' = spoilt
          \/ spoilt'
          \/ pane # "gone" /\ UNCHANGED <<told, doomed, spoilt>>
      BY <1>11 DEF StartsAgain, NewConversation, cgSession
    <2> QED
      BY <2>1, <2>2 DEF Resumable, FileKnown, AwaitsApart, NewlyBegun, SaysTrue
  <1>12. CASE BlockedLong \/ GateDisarms \/ GateBelow \/ GateBlocks \/ GateAlerts \/ GateOpens
    <2>1. PICK g : GateBecomes(g)
      BY <1>12 DEF BlockedLong, GateDisarms, GateBelow, GateBlocks, GateAlerts, GateOpens
    <2> QED
      BY <2>1, <1>q DEF GateBecomes
  <1>13. CASE GateClears
    <2>1. guard' = guard /\ UNCHANGED <<acting, claim, ended, handoff, spoilt>>
      BY <1>13 DEF GateClears, past
    <2>2. \/ pane # "gone" /\ told' = "nothing" /\ ~doomed'
          \/ UNCHANGED <<pane, told, doomed>>
      BY <1>13 DEF GateClears, NewConversation, cgSession
    <2> QED
      BY <2>1, <2>2, QuietStep
  <1>14. CASE UNCHANGED cgVars
    BY <1>14, <1>q DEF cgVars
  <1> QED
    BY <1>1, <1>2, <1>3, <1>4, <1>5, <1>6, <1>7, <1>8, <1>10, <1>11, <1>12, <1>13, <1>14
    DEF CGNext, People, Time, Loop, Gate

\* The prompt that tells a conversation that it begins anew (performResume) never
\* reaches the one the guard decided to end, unless that restart failed or somebody
\* else started the session, and says of HANDOFF.md what held as that one ended.
THEOREM ResumesHonestly == CGSpec => HonestResume
  <1>1. CGInit => CGTypeOK /\ Resumable
    BY GuardInit
  <1>2. CGTypeOK /\ Resumable /\ [CGNext]_cgVars => (CGTypeOK /\ Resumable)'
    BY GuardTypeStep, ResumableStep
  <1>3. Resumable =>
          (Resumed /\ told' # told /\ ~spoilt =>
             /\ ~doomed
             /\ told' = "current" => ended = "current"
             /\ told' = "missing" => ended = "none")
    <2> SUFFICES ASSUME Resumable, Resumed, told' # told, ~spoilt
                 PROVE  /\ ~doomed
                        /\ told' = "current" => ended = "current"
                        /\ told' = "missing" => ended = "none"
      OBVIOUS
    <2>1. told' = claim
      BY DEF Resumed, Types
    <2> QED
      BY <2>1 DEF Resumable, SaysTrue, Resumed
  <1> QED
    BY <1>1, <1>2, <1>3, PTL DEF CGSpec, HonestResume
=============================================================================
