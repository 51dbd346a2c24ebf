----------------------- MODULE MessageDeliveryProofs -----------------------
(* Theorems about MessageDelivery, for every value of its constants. *)
EXTENDS MessageDelivery, TLAPS

(***************************************************************************)
(* Rows and tables of rows.                                                *)
(***************************************************************************)
LEMMA NewRow ==
    ASSUME clock \in Nat, NEW from \in Name, NEW to \in Name, NEW kind \in Kind,
           NEW about \in SUBSET (Nat \cup Sub)
    PROVE  createAgentMessage(from, to, kind, about) \in Row
  BY DEF createAgentMessage, Row, Status, Result, Box

LEMMA AppendRow ==
    ASSUME NEW rs \in Seq(Row), NEW r \in Row
    PROVE  /\ Append(rs, r) \in Seq(Row)
           /\ DOMAIN Append(rs, r) = DOMAIN rs \cup {Len(rs) + 1}
           /\ Len(rs) + 1 \notin DOMAIN rs
           /\ \A m \in DOMAIN rs : Append(rs, r)[m] = rs[m]
           /\ Append(rs, r)[Len(rs) + 1] = r
  OBVIOUS

LEMMA Columns ==
    ASSUME NEW r \in Row
    PROVE  /\ r.shown \in Nat /\ r.cut \in Nat /\ r.inject \in Nat
           /\ r.status \in Status /\ r.result \in Result
           /\ r.to \in Name /\ r.from \in Name /\ r.box \in Box
  BY DEF Row

LEMMA UpdatedRow ==
    ASSUME NEW r \in Row, NEW status \in Status, NEW result \in Result,
           NEW inject \in Nat, NEW shown \in Nat, NEW cut \in Nat
    PROVE  /\ [r EXCEPT !.status = status, !.result = result] \in Row
           /\ [r EXCEPT !.status = status, !.shown = shown] \in Row
           /\ [r EXCEPT !.status = status, !.cut = cut] \in Row
           /\ [r EXCEPT !.status = status, !.result = result, !.cut = cut, !.inject = inject] \in Row
           /\ [r EXCEPT !.shown = shown] \in Row
           /\ [r EXCEPT !.inject = inject, !.status = status] \in Row
           /\ [r EXCEPT !.inject = inject, !.cut = cut] \in Row
           /\ [r EXCEPT !.inject = inject, !.status = status, !.result = result] \in Row
  BY DEF Row

LEMMA Pointwise ==
    ASSUME NEW rs \in Seq(Row), NEW f, f = [m \in DOMAIN rs |-> f[m]],
           \A m \in DOMAIN rs : f[m] \in Row
    PROVE  f \in Seq(Row) /\ DOMAIN f = DOMAIN rs
  <1>1. DOMAIN rs = 1 .. Len(rs) /\ Len(rs) \in Nat
    OBVIOUS
  <1>2. f \in [1 .. Len(rs) -> Row]
    BY <1>1
  <1> QED
    BY <1>1, <1>2

LEMMA ClosedRows ==
    ASSUME msgs \in Seq(Row), NEW S, NEW status \in Status, NEW result \in Result
    PROVE  /\ Closed(S, status, result) \in Seq(Row)
           /\ DOMAIN Closed(S, status, result) = Ids
  <1>1. ASSUME NEW m \in DOMAIN msgs
        PROVE  msgs[m] \in Row /\ [msgs[m] EXCEPT !.status = status, !.result = result] \in Row
    <2>1. msgs[m] \in Row
      OBVIOUS
    <2> QED
      BY <2>1, UpdatedRow
  <1> QED
    BY <1>1, Pointwise DEF Closed, Ids

LEMMA CrashedRows ==
    ASSUME msgs \in Seq(Row), NEW S, NEW status \in Status, NEW result \in Result
    PROVE  /\ Crashed(S, status, result) \in Seq(Row)
           /\ DOMAIN Crashed(S, status, result) = Ids
  <1>1. ASSUME NEW m \in DOMAIN msgs
        PROVE  Crashed(S, status, result)[m] \in Row
    <2> DEFINE st == IF m \in S THEN status ELSE msgs[m].status
               re == IF m \in S THEN result ELSE msgs[m].result
               ct == IF m \in S \cup InFlight THEN msgs[m].cut + 1 ELSE msgs[m].cut
    <2>1. msgs[m] \in Row
      OBVIOUS
    <2>2. st \in Status /\ re \in Result /\ ct \in Nat
      BY <2>1, Columns
    <2>3. Crashed(S, status, result)[m] =
             [msgs[m] EXCEPT !.status = st, !.result = re, !.cut = ct, !.inject = 0]
      BY DEF Crashed, Ids
    <2> HIDE DEF st, re, ct
    <2>4. [msgs[m] EXCEPT !.status = st, !.result = re, !.cut = ct, !.inject = 0] \in Row
      BY <2>1, <2>2 DEF Row
    <2> QED
      BY <2>3, <2>4
  <1> QED
    BY <1>1, Pointwise DEF Crashed, Ids

LEMMA HandedRow ==
    ASSUME msgs \in Seq(Row), NEW m \in Ids, NEW replyArrives \in BOOLEAN
    PROVE  Handed(m, replyArrives) \in Row
  <1>1. msgs[m] \in Row
    BY DEF Ids
  <1>2. msgs[m].shown + 1 \in Nat /\ msgs[m].cut + 1 \in Nat
    BY <1>1, Columns
  <1>3. {"delivered", "failed"} \subseteq Status /\ "unframable" \in Result
    BY DEF Status, Result
  <1> QED
    BY <1>1, <1>2, <1>3, UpdatedRow DEF Handed

(***************************************************************************)
(* Type correctness.                                                       *)
(***************************************************************************)
LEMMA IdsAreNumbers == ASSUME msgs \in Seq(Row) PROVE Ids \subseteq Nat
  BY DEF Ids

LEMMA SpendType ==
    ASSUME TypeOK, NEW what \in {"posts", "puts", "flips", "crashes", "faults"},
           NEW max \in Nat, Spend(what, max)
    PROVE  spent' \in [{"posts", "puts", "flips", "crashes", "faults"} -> Nat]
  BY DEF TypeOK, Spend

LEMMA BoundsAreNumbers ==
    /\ MaxPosts \in Nat /\ MaxPuts \in Nat /\ MaxFlips \in Nat
    /\ MaxCrashes \in Nat /\ MaxFaults \in Nat /\ MaxClock \in Nat
  BY RouterAssumption

\* The table after a step: well-typed, and no row has gone.
TableOK == msgs' \in Seq(Row) /\ Ids \subseteq DOMAIN msgs'

LEMMA NoticeTable ==
    ASSUME TypeOK, NEW rs \in Seq(Row), DOMAIN rs = Ids, NEW m \in Ids
    PROVE  /\ notifyOrchestratorOfFailedHandoff(rs, m) \in Seq(Row)
           /\ Ids \subseteq DOMAIN notifyOrchestratorOfFailedHandoff(rs, m)
  <1>1. createAgentMessage(System, Main, "handoff-failure", {m}) \in Row
    BY NewRow, IdsAreNumbers DEF TypeOK, Name, Agent, Kind
  <1> QED
    BY <1>1, AppendRow DEF notifyOrchestratorOfFailedHandoff

LEMMA HandlersTable ==
    ASSUME TypeOK, Handlers
    PROVE  TableOK
  <1> USE DEF TypeOK
  <1>1. ASSUME NEW from \in Poster, NEW to \in Addressee, Post(from, to)
        PROVE  TableOK
    <2>1. from \in Name /\ to \in Name
      BY RouterAssumption DEF Name
    <2>2. createAgentMessage(from, to, "work", {}) \in Row
      BY <2>1, NewRow DEF Kind
    <2> QED
      BY <1>1, <2>2, AppendRow DEF Post, TableOK, Ids
  <1>2. ASSUME NEW m \in Ids, NEW status \in {"done", "failed"}, Put(m, status)
        PROVE  TableOK
    <2>1. msgs[m].to \in Name /\ msgs[m].from \in Name
      BY Columns DEF Ids
    <2>2. createAgentMessage(msgs[m].to, msgs[m].from, "report", {m}) \in Row
      BY <2>1, NewRow, IdsAreNumbers DEF Kind
    <2>3. /\ Closed({m}, status, "put") \in Seq(Row)
          /\ DOMAIN Closed({m}, status, "put") = Ids
      BY ClosedRows DEF Status, Result
    <2> QED
      BY <1>2, <2>2, <2>3, AppendRow DEF Put, TableOK
  <1>3. ASSUME NEW replyArrives \in BOOLEAN, Drain(replyArrives)
        PROVE  TableOK
    <2> DEFINE claimed == Oldest(Pending(Main), INBOX_DRAIN_CAP)
               table   == [m \in Ids |-> IF m \in claimed THEN Handed(m, replyArrives) ELSE msgs[m]]
    <2>1. ASSUME NEW m \in DOMAIN msgs
          PROVE  table[m] \in Row
      BY HandedRow DEF Ids
    <2>2. table \in Seq(Row) /\ DOMAIN table = DOMAIN msgs
      <3> HIDE DEF claimed
      <3> QED
        BY <2>1, Pointwise DEF Ids
    <2> QED
      BY <1>3, <2>2 DEF Drain, TableOK, Ids
  <1> QED
    BY <1>1, <1>2, <1>3 DEF Handlers

\* The row of m after its text has been submitted from the box, or wiped from it.
Submitted(m) == [msgs[m] EXCEPT !.box = "none", !.shown = msgs[m].shown + 1]
Wiped(m)     == [msgs[m] EXCEPT !.box = "lost"]

LEMMA BoxRows ==
    ASSUME TypeOK, NEW m \in Ids
    PROVE  /\ msgs[m] \in Row /\ Submitted(m) \in Row /\ Wiped(m) \in Row
           /\ \A where \in {"holds", "lost"} : [msgs[m] EXCEPT !.box = where] \in Row
           /\ Submits(m) => msgs' = [msgs EXCEPT ![m] = Submitted(m)]
           /\ clearStaleParkedInput(m) => msgs' = [msgs EXCEPT ![m] = Wiped(m)]
           /\ \A where \in {"holds", "lost"} :
                 Parks(m, where) => msgs' = [msgs EXCEPT ![m] = [msgs[m] EXCEPT !.box = where]]
  <1>1. msgs[m] \in Row /\ msgs[m].shown + 1 \in Nat
    <2>1. msgs[m] \in Row
      BY DEF TypeOK, Ids
    <2> QED
      BY <2>1, Columns
  <1>2. Submitted(m) \in Row /\ Wiped(m) \in Row
    BY <1>1 DEF Submitted, Wiped, Box, Row
  <1>3. \A where \in {"holds", "lost"} : [msgs[m] EXCEPT !.box = where] \in Row
    BY <1>1 DEF Box, Row
  <1>4. Submits(m) => msgs' = [msgs EXCEPT ![m] = Submitted(m)]
    BY <1>1 DEF Submits, Submitted, Row, TypeOK, Ids
  <1>5. clearStaleParkedInput(m) => msgs' = [msgs EXCEPT ![m] = Wiped(m)]
    BY DEF clearStaleParkedInput, Wiped
  <1> QED
    BY <1>1, <1>2, <1>3, <1>4, <1>5 DEF Parks

LEMMA WorldTable ==
    ASSUME TypeOK, World
    PROVE  TableOK
  <1>1. CASE UNCHANGED msgs
    BY <1>1 DEF TableOK, TypeOK, Ids
  <1>2. ASSUME NEW m \in Ids, Submits(m) \/ clearStaleParkedInput(m)
        PROVE  TableOK
    <2>1. \E q \in Row : msgs' = [msgs EXCEPT ![m] = q]
      BY <1>2, BoxRows
    <2> QED
      BY <2>1 DEF TableOK, TypeOK, Ids
  <1>3. ASSUME NEW a \in Sub, SessionFlips(a)
        PROVE  TableOK
    <2> DEFINE table == [m \in Ids |-> IF msgs[m].to = a /\ msgs[m].box = "holds"
                                       THEN Wiped(m) ELSE msgs[m]]
    <2>1. ASSUME NEW m \in DOMAIN msgs
          PROVE  table[m] \in Row
      BY BoxRows DEF Ids
    <2>2. table \in Seq(Row) /\ DOMAIN table = DOMAIN msgs
      BY <2>1, Pointwise DEF Ids, TypeOK
    <2>3. msgs' = table
      BY <1>3 DEF SessionFlips, Wiped
    <2> HIDE DEF table
    <2> QED
      BY <2>2, <2>3 DEF TableOK, Ids
  <1> QED
    BY <1>1, <1>2, <1>3 DEF World, MainTurn, TimePasses, CooldownElapses, rows

LEMMA RetriedRows ==
    ASSUME msgs \in Seq(Row), NEW m \in Ids
    PROVE  /\ Retried(m) \in Seq(Row) /\ DOMAIN Retried(m) = Ids
           /\ GivenUp(m) \in Seq(Row) /\ DOMAIN GivenUp(m) = Ids
  <1> DEFINE in == msgs[m].inject + 1
             ct == IF pc = "sent" THEN msgs[m].cut + 1 ELSE msgs[m].cut
             row == [msgs[m] EXCEPT !.inject = in, !.cut = ct]
  <1>1. msgs[m] \in Row
    BY DEF Ids
  <1>2. in \in Nat /\ ct \in Nat
    BY <1>1, Columns
  <1>3. Retried(m) = [msgs EXCEPT ![m] = row]
    BY <1>1 DEF Retried, Row
  <1>4. row \in Row
    <2> HIDE DEF in, ct
    <2> QED
      BY <1>1, <1>2 DEF Row
  <1>5. Retried(m) \in Seq(Row) /\ DOMAIN Retried(m) = Ids /\ Retried(m)[m] = row
    <2> HIDE DEF row
    <2> QED
      BY <1>3, <1>4 DEF Ids
  <1>6. GivenUp(m) = [Retried(m) EXCEPT
                         ![m] = [row EXCEPT !.inject = 0, !.status = "failed", !.result = "inject-failed"]]
    <2> HIDE DEF row
    <2> QED
      BY <1>4, <1>5 DEF GivenUp, Row
  <1>7. [row EXCEPT !.inject = 0, !.status = "failed", !.result = "inject-failed"] \in Row
    <2> HIDE DEF row
    <2> QED
      BY <1>4, UpdatedRow DEF Status, Result
  <1> HIDE DEF row
  <1> QED
    BY <1>5, <1>6, <1>7 DEF Ids

LEMMA RouterStepTable ==
    ASSUME TypeOK, NEW m \in work, RouterStep(m)
    PROVE  TableOK
  <1> USE DEF TypeOK
  <1>m. m \in Ids /\ msgs[m] \in Row /\ msgs \in Seq(Row)
    BY DEF Ids
  <1>1. CASE UNCHANGED msgs
    BY <1>1 DEF TableOK, Ids
  <1>2. CASE Abandon(m)
    <2>1. /\ Closed({m}, "failed", "abandoned") \in Seq(Row)
          /\ DOMAIN Closed({m}, "failed", "abandoned") = Ids
      BY <1>m, ClosedRows DEF Status, Result
    <2> HIDE DEF TypeOK
    <2> QED
      BY <1>2, <1>m, <2>1, NoticeTable DEF Abandon, TableOK
  <1>3. ASSUME NEW busy \in BOOLEAN, NotReady(m, busy)
        PROVE  TableOK
    <2>1. msgs[m].to \in Sub
      BY <1>3 DEF NotReady, Ask
    <2>2. createAgentMessage(System, Main, "session-stuck", {msgs[m].to}) \in Row
      BY <2>1, NewRow DEF Name, Agent, Kind
    <2> QED
      BY <1>3, <1>m, <2>2, AppendRow DEF NotReady, TableOK, Ids
  <1>4. CASE Reject(m)
    BY <1>4, <1>m, ClosedRows DEF Reject, TableOK, Status, Result
  <1>5. CASE ProcessingThrows(m)
    BY <1>5, <1>m, ClosedRows DEF ProcessingThrows, TableOK, Status, Result
  <1>6. CASE Land(m)
    <2>1. msgs[m].shown + 1 \in Nat
      BY <1>m, Columns
    <2>2. [msgs[m] EXCEPT !.shown = msgs[m].shown + 1] \in Row
      BY <1>m, <2>1 DEF Row
    <2>3. msgs' = [msgs EXCEPT ![m] = [msgs[m] EXCEPT !.shown = msgs[m].shown + 1]]
      BY <1>6 DEF Land
    <2> QED
      BY <1>m, <2>2, <2>3 DEF TableOK, Ids
  <1>7. CASE markMessageDelivered(m)
    <2> DEFINE st == IF msgs[m].status = "pending" THEN "delivered" ELSE msgs[m].status
    <2>1. st \in Status
      BY <1>m, Columns DEF Status
    <2>2. msgs' = [msgs EXCEPT ![m] = [msgs[m] EXCEPT !.inject = 0, !.status = st]]
      BY <1>7, <1>m DEF markMessageDelivered, Row, Ids
    <2> HIDE DEF st
    <2>3. [msgs[m] EXCEPT !.inject = 0, !.status = st] \in Row
      BY <1>m, <2>1 DEF Row
    <2> QED
      BY <1>m, <2>2, <2>3 DEF TableOK, Ids
  <1>8. CASE InjectThrows(m)
    <2>1. Retried(m) \in Seq(Row) /\ DOMAIN Retried(m) = Ids
      BY <1>m, RetriedRows
    <2>2. GivenUp(m) \in Seq(Row) /\ DOMAIN GivenUp(m) = Ids
      BY <1>m, RetriedRows
    <2> QED
      BY <1>8, <1>m, <2>1, <2>2, NoticeTable DEF InjectThrows, TableOK
  <1>9. ASSUME NEW where \in {"holds", "lost"}, Parks(m, where)
        PROVE  TableOK
    <2> HIDE DEF TypeOK
    <2>1. /\ [msgs[m] EXCEPT !.box = where] \in Row
          /\ msgs' = [msgs EXCEPT ![m] = [msgs[m] EXCEPT !.box = where]]
      BY <1>9, <1>m, BoxRows
    <2> QED
      BY <1>m, <2>1 DEF TableOK, Ids
  <1> QED
    BY <1>1, <1>2, <1>3, <1>4, <1>5, <1>6, <1>7, <1>8, <1>9
    DEF RouterStep, SkipBatched, SkipMain, Wakeup, SkipAbsent, BeginSend, rows

LEMMA RestartTable ==
    ASSUME TypeOK, Restart
    PROVE  TableOK
  <1>1. ASSUME NEW S, NEW status \in Status, NEW result \in Result,
               msgs' = Crashed(S, status, result)
        PROVE  TableOK
    BY <1>1, CrashedRows DEF TypeOK, TableOK
  <1>2. CASE Crash
    BY <1>1, <1>2 DEF Crash, Status, Result
  <1>3. ASSUME NEW m, NEW status \in {"done", "failed"}, PutThenCrash(m, status)
        PROVE  TableOK
    BY <1>1, <1>3 DEF PutThenCrash, Status, Result
  <1>4. ASSUME NEW m, CrashInAbandon(m) \/ CrashInGiveUp(m)
        PROVE  TableOK
    BY <1>1, <1>4 DEF CrashInAbandon, CrashInGiveUp, Status, Result
  <1>5. ASSUME NEW a, NEW S, CrashInBatch(a, S)
        PROVE  TableOK
    BY <1>1, <1>5 DEF CrashInBatch, Status, Result
  <1> QED
    BY <1>2, <1>3, <1>4, <1>5 DEF Restart

LEMMA BatchTable ==
    ASSUME TypeOK, NEW a \in Sub, batchDeliverBacklog(a)
    PROVE  TableOK
  <1>1. createAgentMessage(System, a, "summary", OldRows(a)) \in Row
    <2>1. OldRows(a) \subseteq Nat
      BY DEF OldRows, Pending, Ids, TypeOK
    <2> QED
      BY <2>1, NewRow DEF TypeOK, Name, Agent, Kind
  <1>2. /\ Closed(OldRows(a), "done", "batched") \in Seq(Row)
        /\ DOMAIN Closed(OldRows(a), "done", "batched") = Ids
    BY ClosedRows DEF TypeOK, Status, Result
  <1> QED
    BY <1>1, <1>2, AppendRow DEF batchDeliverBacklog, TableOK

LEMMA TableGrows ==
    ASSUME TypeOK, [Next]_vars
    PROVE  TableOK
  <1>1. CASE Handlers
    BY <1>1, HandlersTable
  <1>2. CASE World
    BY <1>2, WorldTable
  <1>3. CASE Router
    BY <1>3, BatchTable, RouterStepTable DEF Router, BeginTick, EndTick, rows, TableOK, TypeOK, Ids
  <1>4. CASE Restart
    BY <1>4, RestartTable
  <1>5. CASE UNCHANGED vars
    BY <1>5 DEF vars, rows, TableOK, TypeOK, Ids
  <1> QED
    BY <1>1, <1>2, <1>3, <1>4, <1>5 DEF Next

\* The variables other than the table.
MemoryOK ==
    /\ clock \in Nat
    /\ present \subseteq Sub /\ seen \subseteq Sub /\ toBatch \subseteq Sub
    /\ wasAbsent \subseteq Name
    /\ turn \in BOOLEAN /\ cooled \in BOOLEAN
    /\ pc \in {"idle", "prepass", "loop", "send", "sent"}
    /\ stuckSince \in [Sub -> Nat \cup {Never}]

LEMMA MemoryTyped ==
    ASSUME TypeOK, [Next]_vars
    PROVE  MemoryOK'
  <1> USE DEF TypeOK, MemoryOK
  <1>1. CASE Handlers
    BY <1>1 DEF Handlers, Post, Put, Drain, memory
  <1>2. CASE World
    <2>1. CASE MainTurn \/ CooldownElapses
      BY <2>1 DEF MainTurn, CooldownElapses, memory, rows
    <2>2. ASSUME NEW a \in Sub, SessionFlips(a)
          PROVE  MemoryOK'
      BY <2>2 DEF SessionFlips, memory
    <2>3. CASE TimePasses
      BY <2>3 DEF TimePasses, memory
    <2>4. CASE \E m \in Ids : Submits(m) \/ clearStaleParkedInput(m)
      BY <2>4 DEF Submits, clearStaleParkedInput, memory
    <2> QED
      BY <1>2, <2>1, <2>2, <2>3, <2>4 DEF World
  <1>3. CASE Router
    <2>1. CASE BeginTick
      <3>1. Receivers \subseteq Name
        <4>1. \A m \in Snapshot : msgs[m] \in Row
          BY DEF Snapshot, Oldest, LocalPending, Ids
        <4> QED
          BY <4>1, Columns DEF Receivers
      <3> QED
        BY <2>1, <3>1 DEF BeginTick, rows
    <2>2. CASE EndTick
      BY <2>2 DEF EndTick, rows
    <2>3. ASSUME NEW a \in Sub, batchDeliverBacklog(a)
          PROVE  MemoryOK'
      BY <2>3 DEF batchDeliverBacklog
    <2>4. ASSUME NEW m \in work, RouterStep(m)
          PROVE  MemoryOK'
      <3>1. CASE SkipBatched(m) \/ SkipMain(m) \/ SkipAbsent(m)
        BY <3>1 DEF SkipBatched, SkipMain, SkipAbsent, rows, Loop, Continue
      <3>2. ASSUME NEW lands \in BOOLEAN, Wakeup(m, lands)
            PROVE  MemoryOK'
        BY <3>2 DEF Wakeup, Loop, Continue
      <3>3. CASE Abandon(m) \/ ProcessingThrows(m) \/ InjectThrows(m)
        BY <3>3 DEF Abandon, ProcessingThrows, InjectThrows, Loop, Continue
      <3>4. ASSUME NEW busy \in BOOLEAN, NotReady(m, busy)
            PROVE  MemoryOK'
        BY <3>4 DEF NotReady, Loop, Continue
      <3>5. CASE Reject(m) \/ BeginSend(m)
        BY <3>5 DEF Reject, BeginSend, rows, Loop, Continue
      <3>6. CASE Land(m) \/ markMessageDelivered(m) \/ (\E where \in {"holds", "lost"} : Parks(m, where))
        BY <3>6 DEF Land, Parks, markMessageDelivered, Loop, Continue
      <3> QED
        BY <2>4, <3>1, <3>2, <3>3, <3>4, <3>5, <3>6 DEF RouterStep
    <2> QED
      BY <1>3, <2>1, <2>2, <2>3, <2>4 DEF Router
  <1>4. CASE Restart
    <2>1. MemoryLost
      BY <1>4 DEF Restart, Crash, PutThenCrash, CrashInAbandon, CrashInGiveUp, CrashInBatch
    <2> QED
      BY <2>1 DEF MemoryLost
  <1>5. CASE UNCHANGED vars
    BY <1>5 DEF vars, rows, memory
  <1> QED
    BY <1>1, <1>2, <1>3, <1>4, <1>5 DEF Next

LEMMA SpentTyped ==
    ASSUME TypeOK, [Next]_vars
    PROVE  spent' \in [{"posts", "puts", "flips", "crashes", "faults"} -> Nat]
  <1>1. CASE UNCHANGED spent
    BY <1>1 DEF TypeOK
  <1>2. ASSUME NEW what \in {"posts", "puts", "flips", "crashes", "faults"},
               NEW max \in Nat, Spend(what, max)
        PROVE  spent' \in [{"posts", "puts", "flips", "crashes", "faults"} -> Nat]
    BY <1>2 DEF TypeOK, Spend
  <1>3. CASE Handlers
    BY <1>1, <1>2, <1>3, BoundsAreNumbers DEF Handlers, Post, Put, Drain
  <1>4. CASE World
    BY <1>1, <1>2, <1>4, BoundsAreNumbers
    DEF World, MainTurn, SessionFlips, TimePasses, CooldownElapses, Submits, clearStaleParkedInput
  <1>5. CASE Router
    BY <1>1, <1>2, <1>5, BoundsAreNumbers
    DEF Router, BeginTick, EndTick, batchDeliverBacklog, RouterStep, SkipBatched, SkipMain, Wakeup,
        Abandon, SkipAbsent, NotReady, Reject, ProcessingThrows, BeginSend, Land, Parks,
        markMessageDelivered, InjectThrows
  <1>6. CASE Restart
    BY <1>2, <1>6, BoundsAreNumbers
    DEF Restart, Crash, PutThenCrash, CrashInAbandon, CrashInGiveUp, CrashInBatch, MemoryLost
  <1> QED
    BY <1>1, <1>3, <1>4, <1>5, <1>6 DEF Next, vars

\* The tick's work and the rows it has batched are rows of the table.
LEMMA WorkTyped ==
    ASSUME TypeOK, [Next]_vars
    PROVE  work' \subseteq Ids' /\ batched' \subseteq Ids'
  <1>1. Ids \subseteq Ids'
    BY TableGrows DEF TableOK, Ids
  <1>2. work' \subseteq Ids /\ batched' \subseteq Ids
    <2> USE DEF TypeOK
    <2>1. CASE UNCHANGED <<work, batched>>
      BY <2>1
    <2>2. CASE Handlers
      BY <2>1, <2>2 DEF Handlers, Post, Put, Drain, memory
    <2>3. CASE World
      BY <2>1, <2>3 DEF World, MainTurn, SessionFlips, TimePasses, CooldownElapses, Submits,
                        clearStaleParkedInput, memory
    <2>4. CASE Router
      <3>1. CASE BeginTick
        BY <3>1 DEF BeginTick, Snapshot, Oldest, LocalPending
      <3>2. CASE EndTick
        BY <3>2 DEF EndTick
      <3>3. ASSUME NEW a \in Sub, batchDeliverBacklog(a)
            PROVE  work' \subseteq Ids /\ batched' \subseteq Ids
        BY <3>3 DEF batchDeliverBacklog, OldRows, Pending
      <3>4. ASSUME NEW m \in work, RouterStep(m)
            PROVE  work' \subseteq work /\ batched' = batched
        BY <3>4 DEF RouterStep, SkipBatched, SkipMain, Wakeup, Abandon, SkipAbsent, NotReady, Reject,
                    ProcessingThrows, BeginSend, Land, Parks, markMessageDelivered, InjectThrows,
                    Continue, Loop
      <3> QED
        BY <2>4, <3>1, <3>2, <3>3, <3>4 DEF Router
    <2>5. CASE Restart
      BY <2>5 DEF Restart, Crash, PutThenCrash, CrashInAbandon, CrashInGiveUp, CrashInBatch, MemoryLost
    <2> QED
      BY <2>1, <2>2, <2>3, <2>4, <2>5 DEF Next, vars, memory
  <1> QED
    BY <1>1, <1>2

\* The state stays well-typed.  In particular the tick never works on a row that does
\* not exist, and every row the code writes is addressed to a name it knows.
THEOREM TypeCorrect == Spec => []TypeOK
  <1>1. Init => TypeOK
    <2> SUFFICES ASSUME Init PROVE TypeOK
      OBVIOUS
    <2>1. msgs \in Seq(Row)
      BY DEF Init
    <2>2. stuckSince \in [Sub -> Nat \cup {Never}]
      BY DEF Init
    <2>3. spent \in [{"posts", "puts", "flips", "crashes", "faults"} -> Nat]
      BY DEF Init
    <2> QED
      BY <2>1, <2>2, <2>3 DEF Init, TypeOK
  <1>2. TypeOK /\ [Next]_vars => TypeOK'
    BY TableGrows, MemoryTyped, SpentTyped, WorkTyped DEF TableOK, MemoryOK, TypeOK
  <1> QED
    BY <1>1, <1>2, PTL DEF Spec

(***************************************************************************)
(* What one step may do to the table: an existing row keeps its address,   *)
(* sender, kind and subject, its counters never fall, it never becomes     *)
(* pending again, and if the step closes it without an excuse, there is a  *)
(* row that accounts for it.                                               *)
(***************************************************************************)
\* The text of r has been typed.
Touched(r) == r.shown > 0 \/ r.box # "none"

Persists(r, q) ==
    /\ q.to = r.to /\ q.from = r.from /\ q.kind = r.kind /\ q.about = r.about
    /\ q.shown >= r.shown /\ q.cut >= r.cut
    /\ Touched(r) => Touched(q)
    /\ r.status # "pending" => q.status # "pending"

Fresh(r) == /\ r.status = "pending" /\ r.result = "none" /\ r.box = "none"
            /\ r.shown = 0 /\ r.cut = 0

Excused(r, q) ==
    \/ q.status = r.status /\ q.result = r.result
    \/ Touched(q) \/ q.cut > 0
    \/ q.result \in {"put", "unframable", "errored"}

RowStep(m) == /\ Persists(msgs[m], msgs'[m])
              /\ Excused(msgs[m], msgs'[m]) \/ \E n \in Ids' : Accounts(n, m)'

TableStep == /\ \A m \in Ids : RowStep(m)
             /\ \A m \in Ids' \ Ids : Fresh(msgs'[m])

\* The row a send is about: never one for the main agent nor one that was summarized,
\* and typed once the send has returned.
InFlightOK ==
    pc \in {"send", "sent"} =>
        /\ First(work) \in work \ batched
        /\ msgs[First(work)].to # Main
        /\ pc = "sent" => Touched(msgs[First(work)])

LEMMA SameRow == ASSUME NEW r \in Row PROVE Persists(r, r) /\ Excused(r, r)
  BY Columns DEF Persists, Excused

LEMMA RowUntouched ==
    ASSUME TypeOK, NEW m \in Ids, msgs'[m] = msgs[m]
    PROVE  RowStep(m)
  BY SameRow DEF RowStep, TypeOK, Ids

LEMMA SameTable ==
    ASSUME TypeOK, UNCHANGED msgs
    PROVE  TableStep
  BY RowUntouched DEF TableStep, Ids

LEMMA OneMoreRow ==
    ASSUME TypeOK, NEW from \in Name, NEW to \in Name, NEW kind \in Kind,
           NEW about \in SUBSET (Nat \cup Sub),
           msgs' = Append(msgs, createAgentMessage(from, to, kind, about))
    PROVE  TableStep
  <1>1. createAgentMessage(from, to, kind, about) \in Row
    BY NewRow DEF TypeOK
  <1>2. /\ \A m \in Ids : msgs'[m] = msgs[m]
        /\ Ids' = Ids \cup {Len(msgs) + 1}
        /\ msgs'[Len(msgs) + 1] = createAgentMessage(from, to, kind, about)
    BY <1>1, AppendRow DEF TypeOK, Ids
  <1>3. Fresh(msgs'[Len(msgs) + 1])
    BY <1>2 DEF createAgentMessage, Fresh
  <1> QED
    BY <1>2, <1>3, RowUntouched DEF TableStep

LEMMA ClosedStep ==
    ASSUME TypeOK, NEW S, NEW status \in Status \ {"pending"},
           NEW result \in {"put", "unframable", "errored"},
           msgs' = Closed(S, status, result)
    PROVE  TableStep
  <1>1. Ids' = Ids
    BY DEF Closed, Ids
  <1>2. ASSUME NEW m \in Ids
        PROVE  RowStep(m)
    <2>1. msgs[m] \in Row
      BY <1>2 DEF TypeOK, Ids
    <2>2. CASE m \in S
      <3>1. msgs'[m] = [msgs[m] EXCEPT !.status = status, !.result = result]
        BY <1>2, <2>2 DEF Closed
      <3>2. Persists(msgs[m], msgs'[m]) /\ msgs'[m].result = result
        BY <2>1, <3>1, Columns DEF Persists, Touched, Row
      <3> QED
        BY <3>2 DEF RowStep, Excused
    <2>3. CASE m \notin S
      BY <1>2, <2>3, RowUntouched DEF Closed
    <2> QED
      BY <2>2, <2>3
  <1> QED
    BY <1>1, <1>2 DEF TableStep

\* Closing the rows of S and appending a row: of m's notice, report or summary.
LEMMA ClosedAndTold ==
    ASSUME TypeOK, NEW S, NEW status \in Status \ {"pending"}, NEW result \in Result,
           NEW from \in Name, NEW to \in Name, NEW kind \in Kind,
           NEW about \in SUBSET (Nat \cup Sub),
           \/ result \in {"put", "unframable", "errored"}
           \/ kind \in {"handoff-failure", "summary"} /\ S \subseteq about,
           msgs' = Append(Closed(S, status, result), createAgentMessage(from, to, kind, about))
    PROVE  TableStep
  <1> DEFINE new == createAgentMessage(from, to, kind, about)
             rs  == Closed(S, status, result)
  <1>1. new \in Row
    BY NewRow DEF TypeOK
  <1>2. rs \in Seq(Row) /\ DOMAIN rs = Ids
    BY ClosedRows DEF TypeOK
  <1>3. PICK n : /\ Ids' = Ids \cup {n} /\ n \notin Ids
                 /\ \A m \in Ids : msgs'[m] = rs[m]
                 /\ msgs'[n] = new
    <2> HIDE DEF new, rs
    <2>1. msgs' = Append(rs, new)
      BY DEF new, rs
    <2> QED
      BY <1>1, <1>2, <2>1, AppendRow DEF Ids
  <1>4. Fresh(new) /\ new.kind = kind /\ new.about = about
    BY DEF createAgentMessage, Fresh
  <1>5. ASSUME NEW m \in Ids
        PROVE  RowStep(m)
    <2>1. msgs[m] \in Row
      BY <1>5 DEF TypeOK, Ids
    <2>2. CASE m \in S
      <3>1. msgs'[m] = [msgs[m] EXCEPT !.status = status, !.result = result]
        BY <1>3, <2>2 DEF Closed
      <3>2. Persists(msgs[m], msgs'[m]) /\ msgs'[m].result = result
        BY <2>1, <3>1, Columns DEF Persists, Touched, Row
      <3>3. CASE result \in {"put", "unframable", "errored"}
        BY <3>2, <3>3 DEF RowStep, Excused
      <3>4. CASE kind \in {"handoff-failure", "summary"} /\ S \subseteq about
        <4>1. n \in Ids' /\ Accounts(n, m)'
          BY <1>3, <1>4, <2>2, <3>4 DEF Accounts
        <4> QED
          BY <3>2, <4>1 DEF RowStep
      <3> QED
        BY <3>3, <3>4
    <2>3. CASE m \notin S
      BY <1>3, <2>3, RowUntouched DEF Closed
    <2> QED
      BY <2>2, <2>3
  <1> QED
    BY <1>3, <1>4, <1>5 DEF TableStep

LEMMA HandedStep ==
    ASSUME TypeOK, NEW m \in Ids, NEW replyArrives \in BOOLEAN,
           msgs[m].status = "pending", msgs'[m] = Handed(m, replyArrives)
    PROVE  RowStep(m)
  <1>1. msgs[m] \in Row
    BY DEF TypeOK, Ids
  <1>2. msgs[m].shown \in Nat /\ msgs[m].cut \in Nat
    BY <1>1, Columns
  <1>3. CASE ~Framable(m)
    <2>1. msgs'[m] = [msgs[m] EXCEPT !.status = "failed", !.result = "unframable"]
      BY <1>3 DEF Handed
    <2> QED
      BY <1>1, <1>2, <2>1 DEF RowStep, Persists, Excused, Touched, Row
  <1>4. CASE Framable(m) /\ replyArrives
    <2> DEFINE n == msgs[m].shown + 1
    <2>1. n \in Nat /\ n > 0 /\ n >= msgs[m].shown
      BY <1>2
    <2>2. msgs'[m] = [msgs[m] EXCEPT !.status = "delivered", !.shown = n]
      BY <1>1, <1>4 DEF Handed
    <2> HIDE DEF n
    <2> QED
      BY <1>1, <1>2, <2>1, <2>2 DEF RowStep, Persists, Excused, Touched, Row
  <1>5. CASE Framable(m) /\ ~replyArrives
    <2> DEFINE n == msgs[m].cut + 1
    <2>1. n \in Nat /\ n > 0 /\ n >= msgs[m].cut
      BY <1>2
    <2>2. msgs'[m] = [msgs[m] EXCEPT !.status = "delivered", !.cut = n]
      BY <1>1, <1>5 DEF Handed
    <2> HIDE DEF n
    <2> QED
      BY <1>1, <1>2, <2>1, <2>2 DEF RowStep, Persists, Excused, Touched, Row
  <1> QED
    BY <1>3, <1>4, <1>5

LEMMA HandlersStep ==
    ASSUME TypeOK, Handlers
    PROVE  TableStep
  <1>1. ASSUME NEW from \in Poster, NEW to \in Addressee, Post(from, to)
        PROVE  TableStep
    <2>1. from \in Name /\ to \in Name
      BY RouterAssumption DEF Name
    <2> QED
      BY <1>1, <2>1, OneMoreRow DEF Post, Kind
  <1>2. ASSUME NEW m \in Ids, NEW status \in {"done", "failed"}, Put(m, status)
        PROVE  TableStep
    <2>1. msgs[m].to \in Name /\ msgs[m].from \in Name /\ {m} \in SUBSET (Nat \cup Sub)
      BY Columns, IdsAreNumbers DEF TypeOK, Ids
    <2>2. CASE shouldNotifyDelegator(m)
      BY <1>2, <2>1, <2>2, ClosedAndTold DEF Put, Status, Result, Kind
    <2>3. CASE ~shouldNotifyDelegator(m)
      BY <1>2, <2>3, ClosedStep DEF Put, Status
    <2> QED
      BY <2>2, <2>3
  <1>3. ASSUME NEW replyArrives \in BOOLEAN, Drain(replyArrives)
        PROVE  TableStep
    <2>1. Ids' = Ids
      BY <1>3 DEF Drain, Ids
    <2>2. ASSUME NEW m \in Ids
          PROVE  RowStep(m)
      <3>1. msgs[m] \in Row
        BY <2>2 DEF TypeOK, Ids
      <3>2. CASE msgs'[m] = msgs[m]
        BY <3>2, RowUntouched
      <3>3. CASE msgs'[m] = Handed(m, replyArrives) /\ msgs[m].status = "pending"
        BY <3>1, <3>3, HandedStep
      <3> QED
        BY <1>3, <3>2, <3>3 DEF Drain, Oldest, Pending
    <2> QED
      BY <2>1, <2>2 DEF TableStep
  <1> QED
    BY <1>1, <1>2, <1>3 DEF Handlers

LEMMA OneRowChanges ==
    ASSUME TypeOK, NEW m \in Ids, NEW q, msgs' = [msgs EXCEPT ![m] = q],
           Persists(msgs[m], q), Excused(msgs[m], q)
    PROVE  TableStep
  <1>1. Ids' = Ids /\ msgs'[m] = q
    BY DEF Ids
  <1>2. ASSUME NEW k \in Ids
        PROVE  RowStep(k)
    <2>1. CASE k = m
      BY <1>1, <2>1 DEF RowStep
    <2>2. CASE k # m
      BY <2>2, RowUntouched DEF Ids
    <2> QED
      BY <2>1, <2>2
  <1> QED
    BY <1>1, <1>2 DEF TableStep

\* A text in an input box is submitted or wiped.
LEMMA BoxStep ==
    ASSUME TypeOK, NEW m \in Ids
    PROVE  /\ Persists(msgs[m], Submitted(m)) /\ Excused(msgs[m], Submitted(m))
           /\ Persists(msgs[m], Wiped(m)) /\ Excused(msgs[m], Wiped(m))
  <1> DEFINE n == msgs[m].shown + 1
  <1>1. msgs[m] \in Row
    BY DEF TypeOK, Ids
  <1>2. n \in Nat /\ n > 0 /\ n >= msgs[m].shown
    BY <1>1, Columns
  <1>3. Submitted(m) = [msgs[m] EXCEPT !.box = "none", !.shown = n]
    BY DEF Submitted
  <1> HIDE DEF n
  <1> QED
    BY <1>1, <1>2, <1>3, Columns DEF Wiped, Persists, Excused, Touched, Row

LEMMA WorldStep == ASSUME TypeOK, World PROVE TableStep
  <1>1. CASE UNCHANGED msgs
    BY <1>1, SameTable
  <1>2. ASSUME NEW m \in Ids, Submits(m) \/ clearStaleParkedInput(m)
        PROVE  TableStep
    BY <1>2, BoxRows, BoxStep, OneRowChanges
  <1>3. ASSUME NEW a \in Sub, SessionFlips(a)
        PROVE  TableStep
    <2>1. Ids' = Ids
      BY <1>3 DEF SessionFlips, Ids
    <2>2. ASSUME NEW m \in Ids
          PROVE  RowStep(m)
      <3>1. msgs'[m] = msgs[m] \/ msgs'[m] = Wiped(m)
        BY <1>3 DEF SessionFlips, Wiped
      <3> QED
        BY <3>1, BoxStep, RowUntouched DEF RowStep
    <2> QED
      BY <2>1, <2>2 DEF TableStep
  <1> QED
    BY <1>1, <1>2, <1>3 DEF World, MainTurn, TimePasses, CooldownElapses, rows

\* The text is left in the box, or lost from it.
LEMMA ParksStep ==
    ASSUME TypeOK, NEW m \in Ids, NEW where \in {"holds", "lost"}, Parks(m, where)
    PROVE  TableStep /\ Touched(msgs'[m])
  <1> DEFINE q == [msgs[m] EXCEPT !.box = where]
  <1>1. msgs[m] \in Row /\ q \in Row /\ msgs' = [msgs EXCEPT ![m] = q]
    BY BoxRows
  <1>2. Persists(msgs[m], q) /\ Excused(msgs[m], q) /\ Touched(q)
    BY <1>1, Columns DEF Persists, Excused, Touched, Row
  <1> HIDE DEF q
  <1> QED
    BY <1>1, <1>2, OneRowChanges DEF Ids

\* The text lands.
LEMMA LandStep ==
    ASSUME TypeOK, NEW m \in Ids, Land(m)
    PROVE  TableStep /\ Touched(msgs'[m])
  <1> DEFINE n == msgs[m].shown + 1
             q == [msgs[m] EXCEPT !.shown = n]
  <1>1. msgs[m] \in Row
    BY DEF TypeOK, Ids
  <1>2. n \in Nat /\ n > 0 /\ n >= msgs[m].shown
    BY <1>1, Columns
  <1>3. msgs' = [msgs EXCEPT ![m] = q]
    BY DEF Land
  <1>4. Persists(msgs[m], q) /\ Excused(msgs[m], q) /\ Touched(q)
    <2> HIDE DEF n
    <2> QED
      BY <1>1, <1>2, Columns DEF Persists, Excused, Touched, Row
  <1> HIDE DEF q
  <1> QED
    BY <1>3, <1>4, OneRowChanges DEF Ids

\* A row that has been typed may be marked delivered.
LEMMA MarkStep ==
    ASSUME TypeOK, InFlightOK, NEW m \in Ids, markMessageDelivered(m)
    PROVE  TableStep
  <1> DEFINE st == IF msgs[m].status = "pending" THEN "delivered" ELSE msgs[m].status
             q  == [msgs[m] EXCEPT !.inject = 0, !.status = st]
  <1>1. msgs[m] \in Row /\ Touched(msgs[m])
    BY DEF TypeOK, Ids, InFlightOK, markMessageDelivered, At
  <1>2. msgs' = [msgs EXCEPT ![m] = q]
    BY <1>1 DEF markMessageDelivered, Row, TypeOK
  <1>3. msgs[m].status # "pending" => st # "pending"
    OBVIOUS
  <1>4. Persists(msgs[m], q) /\ Excused(msgs[m], q)
    <2> HIDE DEF st
    <2> QED
      BY <1>1, <1>3, Columns DEF Persists, Excused, Touched, Row
  <1> HIDE DEF q
  <1> QED
    BY <1>2, <1>4, OneRowChanges

LEMMA RetriedStep ==
    ASSUME TypeOK, NEW m \in Ids, msgs' = Retried(m)
    PROVE  TableStep
  <1> DEFINE in == msgs[m].inject + 1
             ct == IF pc = "sent" THEN msgs[m].cut + 1 ELSE msgs[m].cut
             q  == [msgs[m] EXCEPT !.inject = in, !.cut = ct]
  <1>1. msgs[m] \in Row
    BY DEF TypeOK, Ids
  <1>2. ct \in Nat /\ ct >= msgs[m].cut
    BY <1>1, Columns
  <1>3. msgs' = [msgs EXCEPT ![m] = q]
    BY <1>1 DEF Retried, Row, TypeOK
  <1>4. Persists(msgs[m], q) /\ Excused(msgs[m], q)
    <2> HIDE DEF in, ct
    <2> QED
      BY <1>1, <1>2, Columns DEF Persists, Excused, Touched, Row
  <1> HIDE DEF q
  <1> QED
    BY <1>3, <1>4, OneRowChanges

\* The router gives up: the row is failed and the main agent is told.
LEMMA GivenUpStep ==
    ASSUME TypeOK, NEW m \in Ids, msgs[m].to # Main,
           msgs' = notifyOrchestratorOfFailedHandoff(GivenUp(m), m)
    PROVE  TableStep
  <1> DEFINE ct  == IF pc = "sent" THEN msgs[m].cut + 1 ELSE msgs[m].cut
             q   == [msgs[m] EXCEPT !.inject = 0, !.cut = ct, !.status = "failed",
                                    !.result = "inject-failed"]
             new == createAgentMessage(System, Main, "handoff-failure", {m})
             rs  == GivenUp(m)
  <1>1. msgs[m] \in Row /\ m \in Nat
    BY DEF TypeOK, Ids
  <1>2. ct \in Nat /\ ct >= msgs[m].cut
    BY <1>1, Columns
  <1>3. rs = [msgs EXCEPT ![m] = q]
    BY <1>1 DEF GivenUp, Retried, Row, TypeOK
  <1>4. rs \in Seq(Row) /\ DOMAIN rs = Ids
    BY RetriedRows DEF TypeOK
  <1>5. new \in Row
    BY <1>1, NewRow DEF TypeOK, Name, Agent, Kind
  <1>6. Persists(msgs[m], q)
    <2> HIDE DEF ct
    <2> QED
      BY <1>1, <1>2, Columns DEF Persists, Touched, Row
  <1>7. Fresh(new) /\ new.kind = "handoff-failure" /\ new.about = {m}
    BY DEF createAgentMessage, Fresh
  <1> HIDE DEF q
  <1>8. PICK n : /\ Ids' = Ids \cup {n} /\ n \notin Ids
                 /\ \A k \in Ids : msgs'[k] = rs[k]
                 /\ msgs'[n] = new
    <2>1. msgs' = Append(rs, new)
      BY DEF notifyOrchestratorOfFailedHandoff
    <2> HIDE DEF new, rs
    <2> QED
      BY <1>4, <1>5, <2>1, AppendRow DEF Ids
  <1>9. ASSUME NEW k \in Ids
        PROVE  RowStep(k)
    <2>1. CASE k # m
      BY <1>3, <1>8, <2>1, RowUntouched DEF Ids
    <2>2. CASE k = m
      <3>1. n \in Ids' /\ Accounts(n, k)'
        BY <1>7, <1>8, <2>2 DEF Accounts
      <3>2. msgs'[k] = q
        BY <1>3, <1>8, <2>2 DEF Ids
      <3> QED
        BY <1>6, <2>2, <3>1, <3>2 DEF RowStep
    <2> QED
      BY <2>1, <2>2
  <1> QED
    BY <1>7, <1>8, <1>9 DEF TableStep

LEMMA RouterRowStep ==
    ASSUME TypeOK, InFlightOK, NEW m \in work, RouterStep(m)
    PROVE  TableStep
  <1>m. m \in Ids /\ msgs[m] \in Row /\ m \in Nat
    BY DEF TypeOK, Ids
  <1>1. CASE UNCHANGED msgs
    BY <1>1, SameTable
  <1>2. CASE Abandon(m)
    <2>1. msgs' = Append(Closed({m}, "failed", "abandoned"),
                         createAgentMessage(System, Main, "handoff-failure", {m}))
      BY <1>2 DEF Abandon, Forwardable, notifyOrchestratorOfFailedHandoff
    <2>2. System \in Name /\ Main \in Name /\ {m} \in SUBSET (Nat \cup Sub)
      BY <1>m DEF Name, Agent
    <2> QED
      BY <2>1, <2>2, ClosedAndTold DEF Status, Result, Kind
  <1>3. ASSUME NEW busy \in BOOLEAN, NotReady(m, busy)
        PROVE  TableStep
    <2>1. msgs[m].to \in Sub
      BY <1>3 DEF NotReady, Ask, TypeOK
    <2>2. System \in Name /\ Main \in Name
      BY DEF Name, Agent
    <2>3. \/ UNCHANGED msgs
          \/ msgs' = Append(msgs, createAgentMessage(System, Main, "session-stuck", {msgs[m].to}))
      BY <1>3 DEF NotReady
    <2> QED
      BY <1>1, <2>1, <2>2, <2>3, OneMoreRow DEF Kind
  <1>4. CASE Reject(m) \/ ProcessingThrows(m)
    BY <1>4, ClosedStep DEF Reject, ProcessingThrows, Status
  <1>5. CASE Land(m)
    BY <1>5, <1>m, LandStep
  <1>6. CASE markMessageDelivered(m)
    BY <1>6, <1>m, MarkStep
  <1>7. CASE InjectThrows(m)
    <2>1. msgs[m].to # Main
      BY <1>7 DEF InjectThrows, At, InFlightOK
    <2> QED
      BY <1>7, <1>m, <2>1, RetriedStep, GivenUpStep DEF InjectThrows
  <1>8. CASE \E where \in {"holds", "lost"} : Parks(m, where)
    BY <1>8, <1>m, ParksStep
  <1> QED
    BY <1>1, <1>2, <1>3, <1>4, <1>5, <1>6, <1>7, <1>8
    DEF RouterStep, SkipBatched, SkipMain, Wakeup, SkipAbsent, BeginSend, rows

LEMMA RouterTableStep ==
    ASSUME TypeOK, InFlightOK, Router
    PROVE  TableStep
  <1>1. CASE BeginTick \/ EndTick
    BY <1>1, SameTable DEF BeginTick, EndTick, rows
  <1>2. ASSUME NEW a \in Sub, batchDeliverBacklog(a)
        PROVE  TableStep
    <2>1. System \in Name /\ a \in Name /\ OldRows(a) \in SUBSET (Nat \cup Sub)
      BY DEF Name, Agent, OldRows, Pending, Ids, TypeOK
    <2>2. msgs' = Append(Closed(OldRows(a), "done", "batched"),
                         createAgentMessage(System, a, "summary", OldRows(a)))
      BY <1>2 DEF batchDeliverBacklog
    <2> QED
      BY <2>1, <2>2, ClosedAndTold DEF Status, Result, Kind
  <1> QED
    BY <1>1, <1>2, RouterRowStep DEF Router

\* A restart: the rows it catches are marked as cut.
LEMMA CrashedStep ==
    ASSUME TypeOK, NEW S, NEW status \in Status \ {"pending"}, NEW result \in Result,
           msgs' = Crashed(S, status, result)
    PROVE  TableStep
  <1>1. Ids' = Ids
    BY DEF Crashed, Ids
  <1>2. ASSUME NEW m \in Ids
        PROVE  RowStep(m)
    <2> DEFINE st == IF m \in S THEN status ELSE msgs[m].status
               re == IF m \in S THEN result ELSE msgs[m].result
               ct == IF m \in S \cup InFlight THEN msgs[m].cut + 1 ELSE msgs[m].cut
               q  == [msgs[m] EXCEPT !.status = st, !.result = re, !.cut = ct, !.inject = 0]
    <2>1. msgs[m] \in Row
      BY DEF TypeOK, Ids
    <2>2. msgs'[m] = q
      BY DEF Crashed
    <2>3. /\ ct \in Nat /\ ct >= msgs[m].cut
          /\ m \in S => ct > 0
          /\ m \notin S => st = msgs[m].status /\ re = msgs[m].result
          /\ msgs[m].status # "pending" => st # "pending"
      BY <2>1, Columns
    <2>4. Persists(msgs[m], q) /\ Excused(msgs[m], q)
      <3> HIDE DEF st, re, ct
      <3> QED
        BY <2>1, <2>3, Columns DEF Persists, Excused, Touched, Row
    <2> HIDE DEF q
    <2> QED
      BY <2>2, <2>4 DEF RowStep
  <1> QED
    BY <1>1, <1>2 DEF TableStep

LEMMA RestartStep ==
    ASSUME TypeOK, Restart
    PROVE  TableStep
  <1>1. CASE Crash
    <2>1. Crashed({}, "pending", "none") = Crashed({}, "failed", "none")
      BY DEF Crashed
    <2> QED
      BY <1>1, <2>1, CrashedStep DEF Crash, Status, Result
  <1>2. ASSUME NEW m, NEW status \in {"done", "failed"}, PutThenCrash(m, status)
        PROVE  TableStep
    BY <1>2, CrashedStep DEF PutThenCrash, Status, Result
  <1>3. ASSUME NEW m, CrashInAbandon(m) \/ CrashInGiveUp(m)
        PROVE  TableStep
    BY <1>3, CrashedStep DEF CrashInAbandon, CrashInGiveUp, Status, Result
  <1>4. ASSUME NEW a, NEW S, CrashInBatch(a, S)
        PROVE  TableStep
    BY <1>4, CrashedStep DEF CrashInBatch, Status, Result
  <1> QED
    BY <1>1, <1>2, <1>3, <1>4 DEF Restart

LEMMA EveryStep ==
    ASSUME TypeOK, InFlightOK, [Next]_vars
    PROVE  TableStep
  BY HandlersStep, WorldStep, RouterTableStep, RestartStep, SameTable DEF Next, vars, rows

LEMMA InFlightKept ==
    ASSUME TypeOK, InFlightOK, [Next]_vars
    PROVE  InFlightOK'
  <1>t. TableStep
    BY EveryStep
  <1>1. CASE pc' \notin {"send", "sent"}
    BY <1>1 DEF InFlightOK
  <1>2. CASE UNCHANGED <<pc, work, batched>>
    <2> SUFFICES ASSUME pc \in {"send", "sent"}
                 PROVE  InFlightOK'
      BY <1>2 DEF InFlightOK
    <2> DEFINE m == First(work)
    <2>1. m \in work \ batched /\ msgs[m].to # Main /\ (pc = "sent" => Touched(msgs[m]))
      BY DEF InFlightOK
    <2>2. m \in Ids /\ msgs[m] \in Row
      BY <2>1 DEF TypeOK, Ids
    <2>3. First(work') = m
      BY <1>2
    <2>4. Persists(msgs[m], msgs'[m])
      BY <1>t, <2>2 DEF TableStep, RowStep
    <2> QED
      <3>1. msgs'[m].to # Main /\ (pc = "sent" => Touched(msgs'[m]))
        BY <2>1, <2>4 DEF Persists
      <3>2. (First(work))' = m
        BY <2>3 DEF First
      <3> QED
        BY <1>2, <2>1, <3>1, <3>2 DEF InFlightOK
  <1>3. ASSUME NEW m \in work, BeginSend(m)
        PROVE  InFlightOK'
    <2>1. m = First(work) /\ msgs[m].to # Main /\ m \notin batched
      BY <1>3 DEF BeginSend, Ask, Forwardable, At
    <2> QED
      BY <1>3, <2>1 DEF BeginSend, InFlightOK, rows, Loop, First
  <1>4. ASSUME NEW m \in work, Land(m) \/ (\E where \in {"holds", "lost"} : Parks(m, where))
        PROVE  InFlightOK'
    <2>1. /\ m = First(work) /\ msgs[m].to # Main /\ m \in Ids \ batched
          /\ UNCHANGED <<work, batched>>
      BY <1>4 DEF Land, Parks, At, InFlightOK, Loop, TypeOK
    <2>2. Touched(msgs'[m]) /\ msgs'[m].to = msgs[m].to
      BY <1>4, <1>t, <2>1, LandStep, ParksStep DEF TableStep, RowStep, Persists
    <2> QED
      BY <2>1, <2>2 DEF InFlightOK, First
  <1> QED
    <2>1. CASE Router
      BY <1>1, <1>3, <1>4, <2>1
      DEF Router, BeginTick, EndTick, batchDeliverBacklog, RouterStep, SkipBatched, SkipMain,
          Wakeup, Abandon, SkipAbsent, NotReady, Reject, ProcessingThrows, markMessageDelivered,
          InjectThrows, Continue
    <2>2. CASE Restart
      BY <1>1, <2>2
      DEF Restart, Crash, PutThenCrash, CrashInAbandon, CrashInGiveUp, CrashInBatch, MemoryLost
    <2>3. CASE Handlers \/ World \/ UNCHANGED vars
      BY <1>2, <2>3
      DEF Handlers, Post, Put, Drain, World, MainTurn, SessionFlips, TimePasses, CooldownElapses,
          Submits, clearStaleParkedInput, vars, memory
    <2> QED
      BY <2>1, <2>2, <2>3 DEF Next

(***************************************************************************)
(* The theorems.                                                           *)
(***************************************************************************)
\* The inductive invariant.
LossInv == TypeOK /\ InFlightOK /\ NoSilentLoss

LEMMA NothingLostInAStep ==
    ASSUME LossInv, [Next]_vars
    PROVE  NoSilentLoss'
  <1>t. TableStep /\ TableOK
    BY EveryStep, TableGrows DEF LossInv
  <1> SUFFICES ASSUME NEW m \in Ids',
                      msgs'[m].status # "pending" /\ msgs'[m].shown = 0 /\ msgs'[m].cut = 0,
                      msgs'[m].box = "none"
               PROVE  \/ msgs'[m].result \in {"put", "unframable", "errored"}
                      \/ \E n \in Ids' : Accounts(n, m)'
    BY DEF NoSilentLoss
  <1>1. m \in Ids
    BY <1>t DEF TableStep, Fresh
  <1>2. Persists(msgs[m], msgs'[m])
    BY <1>t, <1>1 DEF TableStep, RowStep
  <1>3. CASE \E n \in Ids' : Accounts(n, m)'
    BY <1>3
  <1>4. CASE ~\E n \in Ids' : Accounts(n, m)'
    <2>1. Excused(msgs[m], msgs'[m])
      BY <1>t, <1>1, <1>4 DEF TableStep, RowStep
    <2>2. CASE msgs'[m].result \in {"put", "unframable", "errored"}
      BY <2>2
    <2>3. CASE msgs'[m].status = msgs[m].status /\ msgs'[m].result = msgs[m].result
      <3>1. msgs[m].shown \in Nat /\ msgs[m].cut \in Nat
        BY <1>1, Columns DEF LossInv, TypeOK, Ids
      <3>2. /\ msgs[m].status # "pending" /\ msgs[m].shown = 0 /\ msgs[m].cut = 0
            /\ msgs[m].box = "none"
        BY <1>2, <2>3, <3>1 DEF Persists, Touched
      <3>3. \A n \in Ids : n \in Ids' /\ (Accounts(n, m) => Accounts(n, m)')
        BY <1>t DEF TableStep, TableOK, RowStep, Persists, Accounts, Ids
      <3> QED
        BY <1>1, <2>3, <3>2, <3>3 DEF LossInv, NoSilentLoss
    <2>4. ~Touched(msgs'[m]) /\ ~(msgs'[m].cut > 0)
      BY DEF Touched
    <2> QED
      BY <2>1, <2>2, <2>3, <2>4 DEF Excused
  <1> QED
    BY <1>3, <1>4

LEMMA LossInvHolds == Spec => []LossInv
  <1>1. Init => InFlightOK /\ NoSilentLoss
    BY DEF Init, InFlightOK, NoSilentLoss, Ids
  <1>2. LossInv /\ TypeOK' /\ [Next]_vars => LossInv'
    BY InFlightKept, NothingLostInAStep DEF LossInv
  <1> QED
    BY <1>1, <1>2, TypeCorrect, PTL DEF Spec, LossInv

\* No message vanishes silently, whatever the number of agents, the limits and windows
\* of the router and the number of restarts, lost replies, PUTs and failed sends.
THEOREM NothingVanishes == Spec => []NoSilentLoss
  BY LossInvHolds, PTL DEF LossInv

\* No step of anybody makes a closed row pending again or removes a row.
THEOREM ClosedForGood == Spec => NeverReopened
  <1>1. LossInv /\ [Next]_vars =>
           [\A m \in Ids : /\ m \in DOMAIN msgs'
                           /\ msgs[m].status # "pending" => msgs'[m].status # "pending"]_vars
    BY EveryStep, TableGrows DEF LossInv, TableStep, TableOK, RowStep, Persists
  <1> QED
    BY <1>1, LossInvHolds, PTL DEF Spec, NeverReopened

(***************************************************************************)
(* The fate of a row.  A row is live while it may still be handed over or  *)
(* accounted for: it waits, or the tick has yet to process it, whatever    *)
(* has been done to it meanwhile.                                          *)
(***************************************************************************)
Live(m) == \/ msgs[m].status = "pending"
           \/ m \in work \ batched /\ msgs[m].to # Main

\* What one step may do to a row: it never becomes live again; there is one more copy
\* of its text only if it was live, and then it is in flight or dead; a row that comes
\* down again and stays live has been cut; and a row is cut only if its text had been
\* typed or it is dead.
RowFate(m) ==
    /\ Live(m)' => Live(m)
    /\ \/ /\ Copies(m)' <= Copies(m)
          /\ msgs[m].box = "none" => msgs'[m].box = "none"
       \/ /\ Copies(m)' <= Copies(m) + 1 /\ msgs'[m].cut = msgs[m].cut
          /\ Live(m) /\ m \notin InFlight
          /\ m \in InFlight' \/ ~Live(m)'
    /\ m \in InFlight /\ Live(m)' => m \in InFlight' \/ msgs'[m].cut = msgs[m].cut + 1
    /\ msgs'[m].cut > msgs[m].cut => Touched(msgs'[m]) \/ ~Live(m)'

\* A new notice or summary speaks of rows that this very step puts to death.
TellsOfDead(n) ==
    msgs'[n].kind \in {"handoff-failure", "summary"} =>
        \A m \in msgs'[n].about :
            /\ m \in Ids /\ Live(m) /\ ~Live(m)'
            /\ Copies(m)' = Copies(m)
            /\ m \in InFlight => msgs'[m].cut = msgs[m].cut + 1

FateStep == /\ \A m \in Ids : RowFate(m)
            /\ Ids' \ Ids \subseteq {Len(msgs) + 1}
            /\ \A n \in Ids' \ Ids : TellsOfDead(n)

\* The copies of a text, in the next state too.
LEMMA CopiesTyped ==
    /\ TypeOK => \A m \in Ids : Copies(m) \in Nat
    /\ TypeOK' => \A m \in Ids' : Copies(m)' \in Nat
    /\ \A m : /\ Copies(m) = msgs[m].shown + IF msgs[m].box = "holds" THEN 1 ELSE 0
             /\ Copies(m)' = msgs'[m].shown + IF msgs'[m].box = "holds" THEN 1 ELSE 0
  <1>1. /\ TypeOK => \A m \in Ids : msgs[m].shown \in Nat
        /\ TypeOK' => \A m \in Ids' : msgs'[m].shown \in Nat
    BY Columns DEF TypeOK, Ids
  <1> QED
    BY <1>1 DEF Copies

LEMMA CountersStand ==
    ASSUME TypeOK, NEW m \in Ids,
           Copies(m)' <= Copies(m), msgs'[m].cut = msgs[m].cut,
           msgs[m].box = "none" => msgs'[m].box = "none",
           Live(m)' => Live(m),
           m \in InFlight /\ Live(m)' => m \in InFlight'
    PROVE  RowFate(m)
  <1>1. msgs[m].cut \in Nat
    BY Columns DEF TypeOK, Ids
  <1> QED
    BY <1>1 DEF RowFate

LEMMA Appended ==
    ASSUME TypeOK, NEW rs \in Seq(Row), DOMAIN rs = Ids, NEW new \in Row,
           msgs' = Append(rs, new)
    PROVE  /\ Ids' = Ids \cup {Len(msgs) + 1} /\ Len(msgs) + 1 \notin Ids
           /\ \A m \in Ids : msgs'[m] = rs[m]
           /\ msgs'[Len(msgs) + 1] = new
  <1>1. Len(rs) = Len(msgs)
    BY DEF TypeOK, Ids
  <1> QED
    BY <1>1, AppendRow DEF Ids

\* A step that leaves the router's memory and the counters of the rows alone.
LEMMA MemoryStands ==
    ASSUME TypeOK, TableStep, UNCHANGED <<pc, work, batched>>, NEW m \in Ids
    PROVE  /\ Live(m)' => Live(m)
           /\ m \in InFlight <=> m \in InFlight'
  <1>1. Persists(msgs[m], msgs'[m])
    BY DEF TableStep, RowStep
  <1>2. Live(m)' => Live(m)
    BY <1>1 DEF Live, Persists
  <1>3. InFlight' = InFlight
    BY DEF InFlight, First
  <1> QED
    BY <1>2, <1>3

\* A row whose text is where it was.
LEMMA TextStands ==
    ASSUME TypeOK, NEW m \in Ids,
           msgs'[m].shown = msgs[m].shown, msgs'[m].box = msgs[m].box
    PROVE  /\ Copies(m)' = Copies(m) /\ Copies(m)' <= Copies(m)
           /\ msgs[m].box = "none" => msgs'[m].box = "none"
  BY CopiesTyped

LEMMA HandlersFate ==
    ASSUME TypeOK, InFlightOK, Handlers
    PROVE  FateStep
  <1>t. TableStep
    BY HandlersStep
  <1>u. UNCHANGED <<pc, work, batched>>
    BY DEF Handlers, Post, Put, Drain, memory
  <1>1. ASSUME \A m \in Ids : /\ msgs'[m].shown = msgs[m].shown /\ msgs'[m].cut = msgs[m].cut
                              /\ msgs'[m].box = msgs[m].box
        PROVE  \A m \in Ids : RowFate(m)
    BY <1>t, <1>u, <1>1, MemoryStands, TextStands, CountersStand
  <1>2. ASSUME NEW from \in Poster, NEW to \in Addressee, Post(from, to)
        PROVE  FateStep
    <2> DEFINE new == createAgentMessage(from, to, "work", {})
    <2>1. from \in Name /\ to \in Name
      BY RouterAssumption DEF Name
    <2>2. new \in Row
      BY <2>1, NewRow DEF TypeOK, Kind
    <2>3. new.kind = "work" /\ msgs' = Append(msgs, new)
      BY <1>2 DEF createAgentMessage, Post
    <2> HIDE DEF new
    <2>4. /\ Ids' = Ids \cup {Len(msgs) + 1} /\ \A m \in Ids : msgs'[m] = msgs[m]
          /\ msgs'[Len(msgs) + 1].kind = "work"
      BY <2>2, <2>3, Appended DEF TypeOK, Ids
    <2> QED
      BY <1>1, <2>4 DEF FateStep, TellsOfDead
  <1>3. ASSUME NEW m \in Ids, NEW status \in {"done", "failed"}, Put(m, status)
        PROVE  FateStep
    <2> DEFINE rs  == Closed({m}, status, "put")
               new == createAgentMessage(msgs[m].to, msgs[m].from, "report", {m})
    <2>1. rs \in Seq(Row) /\ DOMAIN rs = Ids
      BY ClosedRows DEF TypeOK, Status, Result
    <2>2. \A k \in Ids : /\ rs[k].shown = msgs[k].shown /\ rs[k].cut = msgs[k].cut
                         /\ rs[k].box = msgs[k].box
      <3> SUFFICES ASSUME NEW k \in Ids
                   PROVE  /\ rs[k].shown = msgs[k].shown /\ rs[k].cut = msgs[k].cut
                          /\ rs[k].box = msgs[k].box
        OBVIOUS
      <3>1. msgs[k] \in Row
        BY DEF TypeOK, Ids
      <3> QED
        BY <3>1 DEF Closed, Row
    <2>3. CASE ~shouldNotifyDelegator(m)
      BY <1>1, <1>3, <2>1, <2>2, <2>3 DEF Put, FateStep, Ids
    <2>4. CASE shouldNotifyDelegator(m)
      <3>1. new \in Row
        BY Columns, NewRow, IdsAreNumbers DEF TypeOK, Ids, Kind
      <3>2. new.kind = "report" /\ msgs' = Append(rs, new)
        BY <1>3, <2>4 DEF createAgentMessage, Put
      <3> HIDE DEF rs, new
      <3>3. /\ Ids' = Ids \cup {Len(msgs) + 1} /\ \A k \in Ids : msgs'[k] = rs[k]
            /\ msgs'[Len(msgs) + 1].kind = "report"
        BY <2>1, <3>1, <3>2, Appended
      <3> QED
        BY <1>1, <2>2, <3>3 DEF FateStep, TellsOfDead
    <2> QED
      BY <2>3, <2>4
  <1>4. ASSUME NEW replyArrives \in BOOLEAN, Drain(replyArrives)
        PROVE  FateStep
    <2>1. Ids' = Ids
      BY <1>4 DEF Drain, Ids
    <2>2. ASSUME NEW m \in Ids
          PROVE  RowFate(m)
      <3>1. msgs[m] \in Row /\ msgs[m].shown \in Nat /\ msgs[m].cut \in Nat
        BY Columns DEF TypeOK, Ids
      <3>2. (Live(m)' => Live(m)) /\ (m \in InFlight <=> m \in InFlight')
        BY <1>t, <1>u, MemoryStands
      <3>3. CASE msgs'[m] = msgs[m]
        BY <3>2, <3>3, TextStands, CountersStand
      <3>4. CASE msgs'[m] = Handed(m, replyArrives) /\ msgs[m].status = "pending" /\ msgs[m].to = Main
        <4>1. m \notin InFlight /\ Live(m)
          BY <3>4 DEF InFlight, InFlightOK, Live
        <4>2. msgs'[m].status # "pending" /\ msgs'[m].to = Main
          BY <3>1, <3>4 DEF Handed, Row
        <4>3. ~Live(m)'
          BY <4>2 DEF Live
        <4>4. /\ msgs'[m].box = msgs[m].box
              /\ \/ msgs'[m].shown = msgs[m].shown
                 \/ msgs'[m].shown = msgs[m].shown + 1 /\ msgs'[m].cut = msgs[m].cut
          BY <3>1, <3>4 DEF Handed, Row
        <4>5. \/ /\ Copies(m)' <= Copies(m)
                 /\ msgs[m].box = "none" => msgs'[m].box = "none"
              \/ Copies(m)' <= Copies(m) + 1 /\ msgs'[m].cut = msgs[m].cut
          BY <3>1, <4>4, CopiesTyped
        <4> QED
          BY <4>1, <4>3, <4>5 DEF RowFate
      <3> QED
        BY <1>4, <3>3, <3>4 DEF Drain, Oldest, Pending
    <2> QED
      BY <2>1, <2>2 DEF FateStep
  <1> QED
    BY <1>2, <1>3, <1>4 DEF Handlers

\* A text submitted from the box is counted there already; one wiped is counted no more.
LEMMA BoxFate ==
    ASSUME TypeOK, NEW m \in Ids, msgs[m].box = "holds",
           msgs'[m] = Submitted(m) \/ msgs'[m] = Wiped(m)
    PROVE  /\ Copies(m)' <= Copies(m) /\ msgs'[m].cut = msgs[m].cut
           /\ msgs[m].box = "none" => msgs'[m].box = "none"
  <1>1. msgs[m] \in Row /\ msgs[m].shown \in Nat
    BY Columns DEF TypeOK, Ids
  <1>2. /\ Submitted(m).shown = msgs[m].shown + 1 /\ Submitted(m).box = "none"
        /\ Submitted(m).cut = msgs[m].cut
        /\ Wiped(m).shown = msgs[m].shown /\ Wiped(m).box = "lost"
        /\ Wiped(m).cut = msgs[m].cut
    BY <1>1 DEF Submitted, Wiped, Row
  <1> QED
    BY <1>1, <1>2, CopiesTyped

\* The world changes rows by their boxes only.
BoxesMove == Ids' = Ids /\ \A m \in Ids :
    \/ msgs'[m] = msgs[m]
    \/ /\ msgs[m].box = "holds"
       /\ msgs'[m] = Submitted(m) \/ msgs'[m] = Wiped(m)

LEMMA WorldMoves ==
    ASSUME TypeOK, World \/ UNCHANGED vars
    PROVE  BoxesMove
  <1>1. CASE UNCHANGED msgs
    BY <1>1 DEF Ids, BoxesMove
  <1>2. ASSUME NEW m \in Ids, Submits(m) \/ clearStaleParkedInput(m)
        PROVE  BoxesMove
    <2>1. \/ msgs' = [msgs EXCEPT ![m] = Submitted(m)]
          \/ msgs' = [msgs EXCEPT ![m] = Wiped(m)]
      BY <1>2, BoxRows
    <2> QED
      BY <1>2, <2>1 DEF Submits, clearStaleParkedInput, Ids, BoxesMove
  <1>3. ASSUME NEW a \in Sub, SessionFlips(a)
        PROVE  BoxesMove
    BY <1>3 DEF SessionFlips, Wiped, Ids, BoxesMove
  <1> QED
    BY <1>1, <1>2, <1>3 DEF World, MainTurn, TimePasses, CooldownElapses, rows, vars

LEMMA WorldFate ==
    ASSUME TypeOK, World \/ UNCHANGED vars
    PROVE  FateStep
  <1>u. UNCHANGED <<pc, work, batched>>
    BY DEF World, MainTurn, SessionFlips, TimePasses, CooldownElapses, Submits,
           clearStaleParkedInput, rows, memory, vars
  <1>t. TableStep
    BY WorldStep, SameTable DEF vars, rows
  <1>1. BoxesMove
    BY WorldMoves
  <1>2. ASSUME NEW m \in Ids
        PROVE  RowFate(m)
    <2>1. (Live(m)' => Live(m)) /\ (m \in InFlight <=> m \in InFlight')
      BY <1>t, <1>u, MemoryStands
    <2>2. CASE msgs'[m] = msgs[m]
      BY <2>1, <2>2, TextStands, CountersStand
    <2>3. CASE msgs[m].box = "holds" /\ (msgs'[m] = Submitted(m) \/ msgs'[m] = Wiped(m))
      BY <2>1, <2>3, BoxFate, CountersStand
    <2> QED
      BY <1>1, <2>2, <2>3 DEF BoxesMove
  <1> QED
    BY <1>1, <1>2 DEF FateStep, BoxesMove

\* A restart: the rows it cuts are in flight, or closed by the handler it cuts short.
LEMMA CrashedFate ==
    ASSUME TypeOK, InFlightOK, NEW S, NEW status, NEW result,
           S = {} \/ status # "pending",
           msgs' = Crashed(S, status, result), MemoryLost
    PROVE  FateStep
  <1>1. Ids' = Ids
    BY DEF Crashed, Ids
  <1>2. work' = {} /\ InFlight' = {}
    BY DEF MemoryLost, InFlight
  <1>3. ASSUME NEW m \in Ids
        PROVE  RowFate(m)
    <2> DEFINE st == IF m \in S THEN status ELSE msgs[m].status
               re == IF m \in S THEN result ELSE msgs[m].result
               ct == IF m \in S \cup InFlight THEN msgs[m].cut + 1 ELSE msgs[m].cut
               q  == [msgs[m] EXCEPT !.status = st, !.result = re, !.cut = ct, !.inject = 0]
    <2>1. msgs[m] \in Row /\ msgs[m].cut \in Nat /\ msgs[m].shown \in Nat
      BY Columns DEF TypeOK, Ids
    <2>2. msgs'[m] = q
      BY DEF Crashed
    <2>3. q.shown = msgs[m].shown /\ q.box = msgs[m].box /\ q.status = st /\ q.cut = ct
      BY <2>1 DEF Row
    <2> HIDE DEF q
    <2>c. /\ Copies(m)' <= Copies(m)
          /\ msgs[m].box = "none" => msgs'[m].box = "none"
      BY <2>2, <2>3, TextStands
    <2>4. Live(m)' => msgs[m].status = "pending" /\ m \notin S
      BY <1>2, <2>2, <2>3 DEF Live
    <2>5. m \in InFlight => Touched(msgs'[m])
      BY <2>2, <2>3 DEF InFlight, InFlightOK, Touched
    <2>6. CASE m \in InFlight
      BY <2>1, <2>2, <2>3, <2>c, <2>4, <2>5, <2>6 DEF RowFate, Live
    <2>7. CASE m \notin InFlight
      BY <2>1, <2>2, <2>3, <2>c, <2>4, <2>7 DEF RowFate, Live
    <2> QED
      BY <2>6, <2>7
  <1> QED
    BY <1>1, <1>3 DEF FateStep

LEMMA RestartFate ==
    ASSUME TypeOK, InFlightOK, Restart
    PROVE  FateStep
  <1>1. CASE Crash
    BY <1>1, CrashedFate DEF Crash
  <1>2. ASSUME NEW m, NEW status \in {"done", "failed"}, PutThenCrash(m, status)
        PROVE  FateStep
    BY <1>2, CrashedFate DEF PutThenCrash
  <1>3. ASSUME NEW m, CrashInAbandon(m) \/ CrashInGiveUp(m)
        PROVE  FateStep
    BY <1>3, CrashedFate DEF CrashInAbandon, CrashInGiveUp
  <1>4. ASSUME NEW a, NEW S, CrashInBatch(a, S)
        PROVE  FateStep
    BY <1>4, CrashedFate DEF CrashInBatch
  <1> QED
    BY <1>1, <1>2, <1>3, <1>4 DEF Restart

\* The tick moves past row m: what it does there does not concern another row.
LEMMA PassedBy ==
    ASSUME TypeOK, NEW m \in Ids, m = First(work), Continue(m), UNCHANGED batched,
           NEW k \in Ids \ {m}, msgs'[k] = msgs[k]
    PROVE  RowFate(k)
  <1>1. k \notin InFlight
    BY DEF InFlight
  <1>2. Live(k)' => Live(k)
    BY DEF Live, Continue
  <1> QED
    BY <1>1, <1>2, TextStands, CountersStand

\* It only moves past m, possibly after writing another row.
LEMMA LeftAlone ==
    ASSUME TypeOK, NEW m \in Ids, At("loop", m), Continue(m), UNCHANGED batched,
           \A k \in Ids : msgs'[k] = msgs[k]
    PROVE  \A k \in Ids : RowFate(k)
  <1>1. Live(m)' => Live(m)
    BY DEF Live, Continue
  <1>2. m \notin InFlight
    BY DEF InFlight, At
  <1> QED
    BY <1>1, <1>2, TextStands, CountersStand, PassedBy DEF At

\* It closes m, unsent.
LEMMA ClosedFate ==
    ASSUME TypeOK, NEW m \in Ids, At("loop", m), Continue(m), UNCHANGED batched,
           NEW status \in Status \ {"pending"}, NEW result \in Result,
           \A k \in Ids : msgs'[k] = Closed({m}, status, result)[k]
    PROVE  /\ \A k \in Ids : RowFate(k)
           /\ ~Live(m)' /\ Copies(m)' = Copies(m)
  <1>1. msgs[m] \in Row
    BY DEF TypeOK, Ids
  <1>2. /\ msgs'[m].status = status /\ msgs'[m].box = msgs[m].box
        /\ msgs'[m].shown = msgs[m].shown /\ msgs'[m].cut = msgs[m].cut
    BY <1>1 DEF Closed, Row
  <1>3. ~Live(m)'
    BY <1>2 DEF Live, Continue
  <1>4. \A k \in Ids \ {m} : msgs'[k] = msgs[k]
    BY DEF Closed
  <1> QED
    BY <1>2, <1>3, <1>4, TextStands, CountersStand, PassedBy DEF At

LEMMA AbandonFate ==
    ASSUME TypeOK, NEW m \in work, Abandon(m)
    PROVE  FateStep
  <1> DEFINE rs  == Closed({m}, "failed", "abandoned")
             new == createAgentMessage(System, Main, "handoff-failure", {m})
  <1>1. m \in Ids /\ m \in Nat /\ Live(m) /\ m \notin InFlight
    BY DEF TypeOK, Ids, Abandon, Forwardable, Live, InFlight, At
  <1>2. rs \in Seq(Row) /\ DOMAIN rs = Ids
    BY ClosedRows DEF TypeOK, Status, Result
  <1>3. new \in Row
    BY <1>1, NewRow DEF TypeOK, Name, Agent, Kind
  <1>4. msgs' = Append(rs, new) /\ new.about = {m}
    BY DEF Abandon, Forwardable, notifyOrchestratorOfFailedHandoff, createAgentMessage
  <1> HIDE DEF new
  <1>5. /\ Ids' = Ids \cup {Len(msgs) + 1}
        /\ \A k \in Ids : msgs'[k] = Closed({m}, "failed", "abandoned")[k]
        /\ msgs'[Len(msgs) + 1].about = {m}
    BY <1>2, <1>3, <1>4, Appended
  <1>6. At("loop", m) /\ Continue(m) /\ UNCHANGED batched
    BY DEF Abandon, Forwardable, Loop
  <1>7. /\ \A k \in Ids : RowFate(k)
        /\ ~Live(m)' /\ Copies(m)' = Copies(m)
    BY <1>1, <1>5, <1>6, ClosedFate DEF Status, Result
  <1> QED
    BY <1>1, <1>5, <1>7 DEF FateStep, TellsOfDead

LEMMA NotReadyFate ==
    ASSUME TypeOK, NEW m \in work, NEW busy \in BOOLEAN, NotReady(m, busy)
    PROVE  FateStep
  <1>1. m \in Ids /\ At("loop", m) /\ Continue(m) /\ UNCHANGED batched /\ msgs[m].to \in Sub
    BY DEF TypeOK, NotReady, Ask, Forwardable, Loop
  <1>2. CASE UNCHANGED msgs
    BY <1>1, <1>2, LeftAlone DEF FateStep, Ids
  <1>3. CASE msgs' = Append(msgs, createAgentMessage(System, Main, "session-stuck", {msgs[m].to}))
    <2> DEFINE new == createAgentMessage(System, Main, "session-stuck", {msgs[m].to})
    <2>1. new \in Row
      BY <1>1, NewRow DEF TypeOK, Name, Agent, Kind
    <2>2. new.kind = "session-stuck" /\ msgs' = Append(msgs, new)
      BY <1>3 DEF createAgentMessage
    <2> HIDE DEF new
    <2>3. /\ Ids' = Ids \cup {Len(msgs) + 1} /\ \A k \in Ids : msgs'[k] = msgs[k]
          /\ msgs'[Len(msgs) + 1].kind = "session-stuck"
      BY <2>1, <2>2, Appended DEF TypeOK, Ids
    <2> QED
      BY <1>1, <2>3, LeftAlone DEF FateStep, TellsOfDead
  <1> QED
    BY <1>2, <1>3 DEF NotReady

\* The text is typed: submitted, or left in the box.
LEMMA LandFate ==
    ASSUME TypeOK, InFlightOK, NEW m \in work,
           Land(m) \/ (\E where \in {"holds", "lost"} : Parks(m, where))
    PROVE  FateStep
  <1>1. /\ m \in Ids /\ msgs[m] \in Row /\ m = First(work)
        /\ Live(m) /\ UNCHANGED <<work, batched>>
    BY DEF TypeOK, Ids, Land, Parks, At, InFlightOK, Live, Loop
  <1>2. Ids' = Ids /\ InFlight = {} /\ m \in InFlight'
    BY <1>1 DEF Land, Parks, At, InFlight, Ids, First
  <1>3. /\ msgs'[m].cut = msgs[m].cut /\ msgs'[m].status = msgs[m].status
        /\ \/ msgs'[m].shown = msgs[m].shown + 1 /\ msgs'[m].box = msgs[m].box
           \/ msgs'[m].shown = msgs[m].shown
    <2>1. CASE Land(m)
      BY <1>1, <2>1 DEF Land, Row, TypeOK, Ids
    <2>2. ASSUME NEW where \in {"holds", "lost"}, Parks(m, where)
          PROVE  msgs'[m] = [msgs[m] EXCEPT !.box = where]
      <3>1. msgs' = [msgs EXCEPT ![m] = [msgs[m] EXCEPT !.box = where]]
        BY <1>1, <2>2, BoxRows
      <3>2. m \in DOMAIN msgs
        BY <1>1 DEF Ids
      <3> QED
        BY <3>1, <3>2
    <2> QED
      BY <1>1, <2>1, <2>2 DEF Row
  <1>4. RowFate(m)
    <2>1. msgs[m].cut \in Nat /\ msgs[m].shown \in Nat
      BY <1>1, Columns
    <2>2. Copies(m)' <= Copies(m) + 1
      BY <1>3, <2>1, CopiesTyped
    <2> QED
      BY <1>1, <1>2, <1>3, <2>1, <2>2 DEF RowFate
  <1>5. ASSUME NEW k \in Ids \ {m}
        PROVE  RowFate(k)
    <2>1. msgs'[k] = msgs[k]
      BY DEF Land, Parks, Ids
    <2>2. Live(k)' => Live(k)
      BY <1>1, <2>1 DEF Live
    <2> QED
      BY <1>2, <2>1, <2>2, TextStands, CountersStand
  <1> QED
    BY <1>2, <1>4, <1>5 DEF FateStep

LEMMA MarkFate ==
    ASSUME TypeOK, InFlightOK, NEW m \in work, markMessageDelivered(m)
    PROVE  FateStep
  <1>1. m \in Ids /\ msgs[m] \in Row /\ m = First(work) /\ Continue(m) /\ UNCHANGED batched
    BY DEF TypeOK, Ids, markMessageDelivered, At, Loop
  <1>2. Ids' = Ids
    BY DEF markMessageDelivered, Ids
  <1>3. /\ msgs'[m].shown = msgs[m].shown /\ msgs'[m].cut = msgs[m].cut
        /\ msgs'[m].status # "pending" /\ msgs'[m].box = msgs[m].box
    BY <1>1 DEF markMessageDelivered, Row, TypeOK, Ids
  <1>4. ~Live(m)'
    BY <1>1, <1>3 DEF Live, Continue
  <1>5. RowFate(m)
    BY <1>1, <1>3, <1>4, TextStands, CountersStand
  <1>6. ASSUME NEW k \in Ids \ {m}
        PROVE  RowFate(k)
    BY <1>1, PassedBy DEF markMessageDelivered, Ids
  <1> QED
    BY <1>2, <1>5, <1>6 DEF FateStep

LEMMA InjectThrowsFate ==
    ASSUME TypeOK, InFlightOK, NEW m \in work, InjectThrows(m)
    PROVE  FateStep
  <1> DEFINE in  == msgs[m].inject + 1
             ct  == IF pc = "sent" THEN msgs[m].cut + 1 ELSE msgs[m].cut
             q   == [msgs[m] EXCEPT !.inject = in, !.cut = ct]
             g   == [msgs[m] EXCEPT !.inject = 0, !.cut = ct, !.status = "failed",
                                    !.result = "inject-failed"]
             new == createAgentMessage(System, Main, "handoff-failure", {m})
  <1>1. m \in Ids /\ msgs[m] \in Row /\ m \in Nat /\ msgs[m].cut \in Nat /\ msgs[m].shown \in Nat
    BY Columns DEF TypeOK, Ids
  <1>2. m = First(work) /\ msgs[m].to # Main /\ Continue(m) /\ UNCHANGED batched /\ Live(m)
    BY DEF InjectThrows, At, InFlightOK, Loop, Live
  <1>3. m \in InFlight <=> pc = "sent"
    BY <1>2 DEF InFlight
  <1>4. pc = "sent" => Touched(msgs[m])
    BY <1>2 DEF InFlightOK
  <1>5. Retried(m) = [msgs EXCEPT ![m] = q] /\ GivenUp(m) = [msgs EXCEPT ![m] = g]
    BY <1>1 DEF Retried, GivenUp, Row, TypeOK, Ids
  <1>6. /\ q.shown = msgs[m].shown /\ q.box = msgs[m].box /\ q.cut = ct
        /\ g.shown = msgs[m].shown /\ g.box = msgs[m].box /\ g.cut = ct
        /\ g.status = "failed"
    BY <1>1 DEF Row
  <1> HIDE DEF q, g
  <1>7. ASSUME msgs'[m].shown = msgs[m].shown, msgs'[m].box = msgs[m].box, msgs'[m].cut = ct
        PROVE  RowFate(m)
    <2>1. /\ Copies(m)' <= Copies(m)
          /\ msgs[m].box = "none" => msgs'[m].box = "none"
      BY <1>1, <1>7, TextStands
    <2>2. pc = "sent" => Touched(msgs'[m])
      BY <1>4, <1>7 DEF Touched
    <2> QED
      BY <1>1, <1>2, <1>3, <1>7, <2>1, <2>2 DEF RowFate
  <1>8. CASE msgs' = Retried(m)
    <2>1. Ids' = Ids /\ msgs'[m] = q /\ \A k \in Ids \ {m} : msgs'[k] = msgs[k]
      BY <1>1, <1>5, <1>8 DEF Ids
    <2> QED
      BY <1>1, <1>2, <1>6, <1>7, <2>1, PassedBy DEF FateStep
  <1>9. CASE msgs' = notifyOrchestratorOfFailedHandoff(GivenUp(m), m)
    <2>1. GivenUp(m) \in Seq(Row) /\ DOMAIN GivenUp(m) = Ids
      BY <1>1, RetriedRows DEF TypeOK
    <2>2. new \in Row
      BY <1>1, NewRow DEF TypeOK, Name, Agent, Kind
    <2>3. msgs' = Append(GivenUp(m), new) /\ new.about = {m}
      BY <1>2, <1>9 DEF notifyOrchestratorOfFailedHandoff, createAgentMessage
    <2> HIDE DEF new
    <2>4. /\ Ids' = Ids \cup {Len(msgs) + 1}
          /\ \A k \in Ids : msgs'[k] = GivenUp(m)[k]
          /\ msgs'[Len(msgs) + 1].about = {m}
      BY <2>1, <2>2, <2>3, Appended
    <2>5. msgs'[m] = g /\ \A k \in Ids \ {m} : msgs'[k] = msgs[k]
      BY <1>1, <1>5, <2>4 DEF Ids
    <2>6. ~Live(m)'
      BY <1>2, <1>6, <2>5 DEF Live, Continue
    <2>7. \A k \in Ids : RowFate(k)
      BY <1>1, <1>2, <1>6, <1>7, <2>5, PassedBy
    <2>8. Copies(m)' = Copies(m) /\ (m \in InFlight => msgs'[m].cut = msgs[m].cut + 1)
      BY <1>1, <1>3, <1>6, <2>5, TextStands
    <2> QED
      BY <1>1, <1>2, <2>4, <2>6, <2>7, <2>8 DEF FateStep, TellsOfDead
  <1> QED
    BY <1>8, <1>9 DEF InjectThrows

LEMMA RouterStepFate ==
    ASSUME TypeOK, InFlightOK, NEW m \in work, RouterStep(m)
    PROVE  FateStep
  <1>m. m \in Ids
    BY DEF TypeOK
  <1>1. CASE SkipBatched(m) \/ SkipMain(m) \/ (\E lands \in BOOLEAN : Wakeup(m, lands))
             \/ SkipAbsent(m)
    <2>1. At("loop", m) /\ Continue(m) /\ UNCHANGED batched /\ UNCHANGED msgs
      BY <1>1 DEF SkipBatched, SkipMain, Wakeup, SkipAbsent, Forwardable, Loop, rows
    <2> QED
      BY <1>m, <2>1, LeftAlone DEF FateStep, Ids
  <1>2. CASE Reject(m) \/ ProcessingThrows(m)
    <2>1. /\ At("loop", m) /\ Continue(m) /\ UNCHANGED batched
          /\ \/ msgs' = Closed({m}, "failed", "unframable")
             \/ msgs' = Closed({m}, "failed", "errored")
      BY <1>2 DEF Reject, ProcessingThrows, Ask, Forwardable, Loop
    <2>2. Ids' = Ids
      BY <2>1 DEF Closed, Ids
    <2> QED
      BY <1>m, <2>1, <2>2, ClosedFate DEF FateStep, Status, Result
  <1>3. CASE BeginSend(m)
    <2>1. UNCHANGED <<msgs, work, batched>> /\ InFlight = {}
      BY <1>3 DEF BeginSend, Ask, Forwardable, At, Loop, rows, InFlight
    <2>2. \A k \in Ids : Live(k)' => Live(k)
      BY <2>1 DEF Live
    <2> QED
      BY <2>1, <2>2, TextStands, CountersStand DEF FateStep, Ids
  <1> QED
    BY <1>1, <1>2, <1>3, AbandonFate, NotReadyFate, LandFate, MarkFate, InjectThrowsFate
    DEF RouterStep

LEMMA BatchFate ==
    ASSUME TypeOK, NEW a \in Sub, batchDeliverBacklog(a)
    PROVE  FateStep
  <1> DEFINE old == OldRows(a)
             rs  == Closed(old, "done", "batched")
             new == createAgentMessage(System, a, "summary", old)
  <1>1. old \subseteq Ids /\ old \subseteq Nat /\ \A m \in old : Live(m)
    BY DEF OldRows, Pending, Live, TypeOK, Ids
  <1>2. rs \in Seq(Row) /\ DOMAIN rs = Ids
    BY ClosedRows DEF TypeOK, Status, Result
  <1>3. new \in Row
    <2>1. System \in Name /\ a \in Name /\ old \in SUBSET (Nat \cup Sub)
      BY <1>1 DEF Name, Agent
    <2> HIDE DEF old
    <2> QED
      BY <2>1, NewRow DEF TypeOK, Kind
  <1>4. msgs' = Append(rs, new) /\ new.about = old
    BY DEF batchDeliverBacklog, createAgentMessage
  <1>5. /\ batched' = batched \cup old /\ work' = work
        /\ InFlight = {} /\ InFlight' = {}
    BY DEF batchDeliverBacklog, InFlight
  <1> HIDE DEF old, new
  <1>6. /\ Ids' = Ids \cup {Len(msgs) + 1}
        /\ \A m \in Ids : msgs'[m] = Closed(old, "done", "batched")[m]
        /\ msgs'[Len(msgs) + 1].about = old
    BY <1>2, <1>3, <1>4, Appended
  <1>7. ASSUME NEW m \in Ids
        PROVE  /\ msgs'[m].shown = msgs[m].shown /\ msgs'[m].box = msgs[m].box
               /\ msgs'[m].cut = msgs[m].cut
               /\ m \in old => ~Live(m)'
               /\ Live(m)' => Live(m)
    <2>1. msgs[m] \in Row
      BY DEF TypeOK, Ids
    <2>2. CASE m \in old
      <3>1. msgs'[m] = [msgs[m] EXCEPT !.status = "done", !.result = "batched"]
        BY <1>6, <2>2 DEF Closed
      <3> QED
        BY <1>5, <2>1, <2>2, <3>1 DEF Live, Row
    <2>3. CASE m \notin old
      <3>1. msgs'[m] = msgs[m]
        BY <1>6, <2>3 DEF Closed
      <3> QED
        BY <1>5, <2>3, <3>1 DEF Live
    <2> QED
      BY <2>2, <2>3
  <1>8. \A m \in Ids : RowFate(m) /\ Copies(m)' = Copies(m)
    BY <1>5, <1>7, TextStands, CountersStand
  <1> QED
    BY <1>1, <1>5, <1>6, <1>7, <1>8 DEF FateStep, TellsOfDead

\* What every step does to every row.
LEMMA EveryFate ==
    ASSUME TypeOK, InFlightOK, [Next]_vars
    PROVE  FateStep
  <1>1. CASE BeginTick \/ EndTick
    <2>1. UNCHANGED msgs /\ InFlight = {}
      BY <1>1 DEF BeginTick, EndTick, InFlight, rows
    <2>2. \A k \in Ids : Live(k)' => Live(k)
      BY <1>1, <2>1 DEF BeginTick, EndTick, Live, Snapshot, Oldest, LocalPending
    <2> QED
      BY <2>1, <2>2, TextStands, CountersStand DEF FateStep, Ids
  <1> QED
    BY <1>1, HandlersFate, WorldFate, RestartFate, RouterStepFate, BatchFate DEF Next, Router

(***************************************************************************)
(* Deliveries and accounts.                                                *)
(***************************************************************************)
\* How many copies of a text there are, by what may still happen to its row.
ShownOK ==
    \A m \in Ids : /\ Copies(m) <= 1 + msgs[m].cut
                   /\ Live(m) /\ m \notin InFlight => Copies(m) <= msgs[m].cut
                   /\ Live(m) /\ ~Touched(msgs[m]) => msgs[m].cut = 0

\* Notices and summaries speak of rows that are dead.
AccountsOK ==
    \A n \in Ids : msgs[n].kind \in {"handoff-failure", "summary"} =>
        \A m \in msgs[n].about : /\ m \in Ids /\ ~Live(m)
                                 /\ Copies(m) <= msgs[m].cut

FateInv == LossInv /\ ShownOK /\ AccountsOK /\ AccountedOnce

\* The facts about one step that the inductive proofs use.
LEMMA StepFacts ==
    ASSUME LossInv, [Next]_vars
    PROVE  /\ TypeOK /\ InFlightOK /\ NoSilentLoss
           /\ TypeOK' /\ InFlightOK' /\ NoSilentLoss'
           /\ Ids \subseteq Ids' /\ TableStep /\ FateStep
  <1>1. TypeOK /\ InFlightOK /\ NoSilentLoss
    BY DEF LossInv
  <1>2. TypeOK'
    BY <1>1, TableGrows, MemoryTyped, SpentTyped, WorkTyped DEF TableOK, MemoryOK, TypeOK
  <1> QED
    BY <1>1, <1>2, InFlightKept, NothingLostInAStep, TableGrows, EveryStep, EveryFate
    DEF TableOK, Ids

LEMMA CountersTyped ==
    /\ TypeOK => \A m \in Ids : /\ msgs[m].shown \in Nat /\ msgs[m].cut \in Nat
                               /\ Copies(m) \in Nat
    /\ TypeOK' => \A m \in Ids' : /\ msgs'[m].shown \in Nat /\ msgs'[m].cut \in Nat
                                 /\ Copies(m)' \in Nat
  <1>1. /\ TypeOK => \A m \in Ids : msgs[m].shown \in Nat /\ msgs[m].cut \in Nat
        /\ TypeOK' => \A m \in Ids' : msgs'[m].shown \in Nat /\ msgs'[m].cut \in Nat
    BY Columns DEF TypeOK, Ids
  <1>2. /\ TypeOK => \A m \in Ids : Copies(m) \in Nat
        /\ TypeOK' => \A m \in Ids' : Copies(m)' \in Nat
    BY CopiesTyped
  <1> QED
    BY <1>1, <1>2

LEMMA ShownKept ==
    ASSUME LossInv, ShownOK, [Next]_vars
    PROVE  ShownOK'
  <1>f. /\ TypeOK /\ InFlightOK /\ TypeOK' /\ InFlightOK'
        /\ TableStep /\ FateStep
    BY StepFacts
  <1> SUFFICES ASSUME NEW m \in Ids'
               PROVE  /\ Copies(m)' <= 1 + msgs'[m].cut
                      /\ Live(m)' /\ m \notin InFlight' => Copies(m)' <= msgs'[m].cut
                      /\ Live(m)' /\ ~Touched(msgs'[m]) => msgs'[m].cut = 0
    BY DEF ShownOK
  <1>1. Copies(m)' \in Nat /\ msgs'[m].cut \in Nat
    BY <1>f, CountersTyped
  <1>2. CASE m \notin Ids
    BY <1>1, <1>2, <1>f, CopiesTyped DEF TableStep, Fresh
  <1>3. CASE m \in Ids
    <2>1. Copies(m) \in Nat /\ msgs[m].cut \in Nat
      BY <1>f, <1>3, CountersTyped
    <2>2. /\ Copies(m) <= 1 + msgs[m].cut
          /\ Live(m) /\ m \notin InFlight => Copies(m) <= msgs[m].cut
          /\ Live(m) /\ ~Touched(msgs[m]) => msgs[m].cut = 0
      BY <1>3 DEF ShownOK
    <2>3. /\ RowFate(m) /\ msgs'[m].cut >= msgs[m].cut
          /\ Touched(msgs[m]) => Touched(msgs'[m])
      BY <1>f, <1>3 DEF FateStep, TableStep, RowStep, Persists
    <2> QED
      BY <1>1, <2>1, <2>2, <2>3 DEF RowFate
  <1> QED
    BY <1>2, <1>3

\* An account of a row that was dead before: an older one.  An account of a row that
\* dies in this step: a new one.
LEMMA AccountsKept ==
    ASSUME FateInv, [Next]_vars
    PROVE  AccountsOK' /\ AccountedOnce'
  <1>f. /\ TypeOK /\ InFlightOK /\ TypeOK' /\ InFlightOK'
        /\ Ids \subseteq Ids' /\ TableStep /\ FateStep
    BY StepFacts DEF FateInv
  <1>1. ASSUME NEW n \in Ids, NEW m, Accounts(n, m)'
        PROVE  /\ Accounts(n, m) /\ m \in Ids /\ ~Live(m) /\ ~Live(m)'
               /\ Copies(m)' <= msgs'[m].cut
    <2>1. Accounts(n, m)
      BY <1>f, <1>1 DEF Accounts, TableStep, RowStep, Persists
    <2>2. m \in Ids /\ ~Live(m) /\ Copies(m) <= msgs[m].cut
      BY <2>1 DEF FateInv, AccountsOK, Accounts
    <2>3. RowFate(m) /\ msgs'[m].cut >= msgs[m].cut
      BY <1>f, <2>2 DEF FateStep, TableStep, RowStep, Persists
    <2>4. /\ Copies(m) \in Nat /\ msgs[m].cut \in Nat
          /\ Copies(m)' \in Nat /\ msgs'[m].cut \in Nat
      BY <1>f, <2>2, CountersTyped
    <2> QED
      BY <2>1, <2>2, <2>3, <2>4 DEF RowFate
  <1>2. ASSUME NEW n \in Ids' \ Ids, NEW m, Accounts(n, m)'
        PROVE  /\ m \in Ids /\ Live(m) /\ ~Live(m)'
               /\ Copies(m)' <= msgs'[m].cut
    <2>1. /\ m \in Ids /\ Live(m) /\ ~Live(m)'
          /\ Copies(m)' = Copies(m)
          /\ m \in InFlight => msgs'[m].cut = msgs[m].cut + 1
      BY <1>f, <1>2 DEF FateStep, TellsOfDead, Accounts
    <2>2. /\ Copies(m) <= 1 + msgs[m].cut
          /\ m \notin InFlight => Copies(m) <= msgs[m].cut
      BY <2>1 DEF FateInv, ShownOK
    <2>3. msgs'[m].cut >= msgs[m].cut
      BY <1>f, <2>1 DEF TableStep, RowStep, Persists
    <2>4. /\ Copies(m) \in Nat /\ msgs[m].cut \in Nat
          /\ Copies(m)' \in Nat /\ msgs'[m].cut \in Nat
      BY <1>f, <2>1, CountersTyped
    <2> QED
      BY <2>1, <2>2, <2>3, <2>4
  <1>3. AccountsOK'
    BY <1>1, <1>2, <1>f DEF AccountsOK, Accounts
  <1>4. ASSUME NEW m, NEW n \in Ids', NEW k \in Ids', Accounts(n, m)', Accounts(k, m)'
        PROVE  n = k
    <2>1. CASE n \in Ids /\ k \in Ids
      BY <1>1, <1>4, <2>1 DEF FateInv, AccountedOnce
    <2>2. CASE n \notin Ids /\ k \notin Ids
      BY <1>f, <2>2 DEF FateStep
    <2> QED
      BY <1>1, <1>2, <1>4, <2>1, <2>2
  <1> QED
    BY <1>3, <1>4 DEF AccountedOnce

LEMMA FateInvHolds == Spec => []FateInv
  <1>1. Init => ShownOK /\ AccountsOK /\ AccountedOnce
    BY DEF Init, ShownOK, AccountsOK, AccountedOnce, Ids
  <1>2. FateInv /\ LossInv' /\ [Next]_vars => FateInv'
    BY ShownKept, AccountsKept DEF FateInv
  <1> QED
    BY <1>1, <1>2, LossInvHolds, PTL DEF Spec, FateInv

\* Only a fault between the text landing and the row being marked delivers twice:
\* snapshots, PUTs in the middle of a send, retries, drains and restarts do not.
THEOREM DeliveredOnce == Spec => []NoDuplicateDelivery
  <1>1. FateInv => NoDuplicateDelivery
    BY DEF FateInv, ShownOK, NoDuplicateDelivery
  <1> QED
    BY <1>1, FateInvHolds, PTL

\* No message is given up, abandoned or summarized a second time.
THEOREM ReportedOnce == Spec => []AccountedOnce
  BY FateInvHolds, PTL DEF FateInv

\* A notice or a summary never speaks of a row whose text had arrived unharmed.
THEOREM AlarmsAreTrue == Spec => []NoFalseAlarm
  <1>1. FateInv => NoFalseAlarm
    BY DEF FateInv, AccountsOK, NoFalseAlarm, Accounts
  <1> QED
    BY <1>1, FateInvHolds, PTL

(***************************************************************************)
(* Reports.                                                                *)
(***************************************************************************)
\* The table after a step that is no PUT: no row has become closed by a PUT.
NoneByPut(rs) == \A m \in Ids : rs[m].result = "put" => msgs[m].result = "put"

LEMMA AppendKeeps ==
    ASSUME NEW rs \in Seq(Row), NEW new, NEW m \in DOMAIN rs
    PROVE  Append(rs, new)[m] = rs[m]
  OBVIOUS

LEMMA ClosedReason ==
    ASSUME TypeOK, NEW S, NEW status \in Status, NEW result \in Result \ {"put"}, NEW new
    PROVE  /\ NoneByPut(Closed(S, status, result))
           /\ NoneByPut(Append(Closed(S, status, result), new))
  <1> DEFINE rs == Closed(S, status, result)
  <1>1. rs \in Seq(Row) /\ DOMAIN rs = Ids
    BY ClosedRows DEF TypeOK
  <1>2. ASSUME NEW m \in Ids, rs[m].result = "put"
        PROVE  msgs[m].result = "put"
    <2>1. msgs[m] \in Row
      BY DEF TypeOK, Ids
    <2> QED
      BY <1>2, <2>1 DEF Closed, Row
  <1> HIDE DEF rs
  <1>3. \A m \in Ids : Append(rs, new)[m] = rs[m]
    BY <1>1, AppendKeeps
  <1> QED
    BY <1>2, <1>3 DEF NoneByPut, rs

LEMMA RouterReason ==
    ASSUME TypeOK, NEW m \in work, RouterStep(m)
    PROVE  NoneByPut(msgs')
  <1>m. m \in Ids /\ msgs[m] \in Row
    BY DEF TypeOK, Ids
  <1>1. CASE UNCHANGED msgs
    BY <1>1 DEF NoneByPut
  <1>2. CASE Abandon(m) \/ Reject(m) \/ ProcessingThrows(m)
    <2>1. PICK result \in {"abandoned", "unframable", "errored"} :
             \/ msgs' = Closed({m}, "failed", result)
             \/ \E new : msgs' = Append(Closed({m}, "failed", result), new)
      BY <1>2 DEF Abandon, Reject, ProcessingThrows, notifyOrchestratorOfFailedHandoff
    <2>2. result \in Result \ {"put"} /\ "failed" \in Status
      BY DEF Status, Result
    <2> QED
      BY <2>1, <2>2, ClosedReason
  <1>3. ASSUME NEW busy \in BOOLEAN, NotReady(m, busy)
        PROVE  NoneByPut(msgs')
    BY <1>1, <1>3, AppendKeeps DEF NotReady, NoneByPut, TypeOK, Ids
  <1>4. CASE Land(m) \/ markMessageDelivered(m) \/ (\E where \in {"holds", "lost"} : Parks(m, where))
    <2>1. msgs'[m].result = msgs[m].result
      BY <1>4, <1>m DEF Land, Parks, markMessageDelivered, Row, TypeOK, Ids
    <2>2. \A k \in Ids \ {m} : msgs'[k] = msgs[k]
      BY <1>4 DEF Land, Parks, markMessageDelivered, Ids
    <2> QED
      BY <2>1, <2>2 DEF NoneByPut
  <1>5. CASE InjectThrows(m)
    <2>1. /\ Retried(m)[m].result = msgs[m].result
          /\ GivenUp(m)[m].result = "inject-failed"
      BY <1>m DEF Retried, GivenUp, Row, TypeOK, Ids
    <2>2. \A k \in Ids \ {m} : Retried(m)[k] = msgs[k] /\ GivenUp(m)[k] = msgs[k]
      BY DEF Retried, GivenUp, Ids
    <2>3. GivenUp(m) \in Seq(Row) /\ DOMAIN GivenUp(m) = Ids
      BY <1>m, RetriedRows DEF TypeOK
    <2>4. \A new : \A k \in Ids : Append(GivenUp(m), new)[k] = GivenUp(m)[k]
      BY <2>3, AppendKeeps
    <2> QED
      BY <1>5, <2>1, <2>2, <2>4
      DEF InjectThrows, notifyOrchestratorOfFailedHandoff, NoneByPut
  <1> QED
    BY <1>1, <1>2, <1>3, <1>4, <1>5
    DEF RouterStep, SkipBatched, SkipMain, Wakeup, SkipAbsent, BeginSend, rows

LEMMA CrashedReason ==
    ASSUME TypeOK, NEW S, NEW status, NEW result, S = {} \/ result # "put"
    PROVE  NoneByPut(Crashed(S, status, result))
  <1> SUFFICES ASSUME NEW m \in Ids, Crashed(S, status, result)[m].result = "put"
               PROVE  msgs[m].result = "put"
    BY DEF NoneByPut
  <1>1. msgs[m] \in Row
    BY DEF TypeOK, Ids
  <1>2. Crashed(S, status, result)[m].result = IF m \in S THEN result ELSE msgs[m].result
    BY <1>1 DEF Crashed, Row
  <1> QED
    BY <1>2

\* The report about m that its delegator gets.
Reported(m) == \E n \in Ids : /\ msgs[n].kind = "report" /\ msgs[n].to = msgs[m].from
                              /\ m \in msgs[n].about

\* A row that a step closes by a PUT has been reported, or the PUT was cut short.
LEMMA PutReason ==
    ASSUME TypeOK, [Next]_vars, NEW m \in Ids, msgs'[m].result = "put"
    PROVE  \/ msgs[m].result = "put" \/ msgs'[m].cut > 0
           \/ ~shouldNotifyDelegator(m) \/ Reported(m)'
  <1>m. msgs[m] \in Row /\ msgs[m].cut \in Nat
    BY Columns DEF TypeOK, Ids
  <1>1. CASE NoneByPut(msgs')
    BY <1>1 DEF NoneByPut
  <1>2. ASSUME NEW k \in Ids, NEW status \in {"done", "failed"}, Put(k, status)
        PROVE  \/ msgs[m].result = "put" \/ ~shouldNotifyDelegator(m) \/ Reported(m)'
    <2> DEFINE rs  == Closed({k}, status, "put")
               new == createAgentMessage(msgs[k].to, msgs[k].from, "report", {k})
    <2>1. rs \in Seq(Row) /\ DOMAIN rs = Ids
      BY ClosedRows DEF TypeOK, Status, Result
    <2>2. \A i \in Ids \ {k} : rs[i] = msgs[i]
      BY DEF Closed
    <2>3. rs[k].from = msgs[k].from
      <3>1. msgs[k] \in Row
        BY DEF TypeOK, Ids
      <3> QED
        BY <3>1 DEF Closed, Row
    <2>4. CASE ~shouldNotifyDelegator(k)
      BY <1>2, <2>2, <2>4 DEF Put
    <2>5. CASE shouldNotifyDelegator(k)
      <3>1. new \in Row
        BY Columns, NewRow, IdsAreNumbers DEF TypeOK, Ids, Kind
      <3>2. /\ new.kind = "report" /\ new.to = msgs[k].from /\ new.about = {k}
            /\ msgs' = Append(rs, new)
        BY <1>2, <2>5 DEF createAgentMessage, Put
      <3> HIDE DEF rs, new
      <3>3. /\ Ids' = Ids \cup {Len(msgs) + 1} /\ \A i \in Ids : msgs'[i] = rs[i]
            /\ msgs'[Len(msgs) + 1] = new
        BY <2>1, <3>1, <3>2, Appended
      <3>4. CASE m = k
        <4>1. /\ Len(msgs) + 1 \in Ids' /\ msgs'[Len(msgs) + 1].kind = "report"
              /\ msgs'[Len(msgs) + 1].to = msgs'[m].from
              /\ m \in msgs'[Len(msgs) + 1].about
          BY <2>3, <3>2, <3>3, <3>4
        <4> QED
          BY <4>1 DEF Reported
      <3>5. CASE m # k
        BY <2>2, <3>3, <3>5
      <3> QED
        BY <3>4, <3>5
    <2> QED
      BY <2>4, <2>5
  <1>3. ASSUME NEW k \in Ids, NEW status \in {"done", "failed"}, PutThenCrash(k, status)
        PROVE  msgs[m].result = "put" \/ msgs'[m].cut > 0
    <2>1. /\ msgs'[m].result = IF m = k THEN "put" ELSE msgs[m].result
          /\ m = k => msgs'[m].cut = msgs[m].cut + 1
      BY <1>3, <1>m DEF PutThenCrash, Crashed, Row
    <2> QED
      BY <1>m, <2>1
  <1>4. CASE \E from \in Poster, to \in Addressee : Post(from, to)
    BY <1>1, <1>4, AppendKeeps DEF Post, NoneByPut, TypeOK, Ids
  <1>5. ASSUME NEW replyArrives \in BOOLEAN, Drain(replyArrives)
        PROVE  msgs[m].result = "put"
    BY <1>5, <1>m DEF Drain, Handed, Row
  <1>6. CASE World \/ BeginTick \/ EndTick \/ UNCHANGED vars
    <2>1. CASE UNCHANGED msgs
      BY <1>1, <2>1 DEF NoneByPut
    <2>2. CASE World
      <3>1. msgs'[m] = msgs[m] \/ msgs'[m] = Submitted(m) \/ msgs'[m] = Wiped(m)
        BY <2>2, WorldMoves DEF BoxesMove
      <3>2. Submitted(m).result = msgs[m].result /\ Wiped(m).result = msgs[m].result
        BY <1>m DEF Submitted, Wiped, Row
      <3>3. msgs'[m].result = msgs[m].result
        BY <3>1, <3>2
      <3> QED
        BY <3>3
    <2> QED
      BY <1>6, <2>1, <2>2 DEF BeginTick, EndTick, rows, vars
  <1>7. ASSUME NEW a \in Sub, batchDeliverBacklog(a)
        PROVE  NoneByPut(msgs')
    BY <1>7, ClosedReason DEF batchDeliverBacklog, Status, Result
  <1>8. CASE Crash \/ (\E k \in work : CrashInAbandon(k) \/ CrashInGiveUp(k))
             \/ (\E a \in Sub : \E S \in SUBSET OldRows(a) : CrashInBatch(a, S))
    BY <1>1, <1>8, CrashedReason DEF Crash, CrashInAbandon, CrashInGiveUp, CrashInBatch
  <1> QED
    BY <1>1, <1>2, <1>3, <1>4, <1>5, <1>6, <1>7, <1>8, RouterReason
    DEF Next, Handlers, Router, Restart

\* A delegator hears of every completion that no restart cut short.
THEOREM DelegatorsHear == Spec => []ReportFollows
  <1>1. Init => ReportFollows
    BY DEF Init, ReportFollows, Ids
  <1>2. LossInv /\ ReportFollows /\ [Next]_vars => ReportFollows'
    <2> SUFFICES ASSUME LossInv, ReportFollows, [Next]_vars, NEW m \in Ids',
                        msgs'[m].result = "put", msgs'[m].cut = 0, msgs'[m].kind # "report",
                        msgs'[m].from \in Agent \ {msgs'[m].to}
                 PROVE  Reported(m)'
      BY DEF ReportFollows, Reported
    <2>f. TypeOK /\ Ids \subseteq Ids' /\ TableStep
      BY StepFacts
    <2>1. m \in Ids
      BY <2>f DEF TableStep, Fresh
    <2>2. Persists(msgs[m], msgs'[m]) /\ msgs[m].cut \in Nat
      BY <2>f, <2>1, CountersTyped DEF TableStep, RowStep
    <2>3. shouldNotifyDelegator(m) /\ msgs[m].cut = 0
      BY <2>2 DEF Persists, shouldNotifyDelegator
    <2>4. CASE msgs[m].result = "put"
      <3>1. Reported(m)
        BY <2>1, <2>3, <2>4 DEF ReportFollows, Reported, shouldNotifyDelegator
      <3> QED
        BY <2>2, <2>f, <3>1 DEF Reported, TableStep, RowStep, Persists
    <2> QED
      BY <2>1, <2>3, <2>4, <2>f, PutReason
  <1> QED
    BY <1>1, <1>2, LossInvHolds, PTL DEF Spec

(***************************************************************************)
(* The refinement of Handoff.                                              *)
(***************************************************************************)
Told(m) == \E n \in Ids : Accounts(n, m)

\* The outcome of a row, read off its columns.
Settled(m) ==
    /\ msgs[m].shown > 0 => outcome(m) = "shown"
    /\ msgs[m].shown = 0 /\ Told(m) => outcome(m) = "accounted"
    /\ msgs[m].shown = 0 /\ ~Told(m) =>
          outcome(m) = IF msgs[m].status = "pending" THEN "open"
                       ELSE IF msgs[m].box # "none" THEN "parked"
                       ELSE IF msgs[m].cut > 0 THEN "cut" ELSE "withdrawn"

LEMMA Outcomes == ASSUME TypeOK, NoSilentLoss, NEW m \in Ids PROVE Settled(m)
  <1>1. msgs[m].shown \in Nat /\ msgs[m].cut \in Nat
    BY CountersTyped
  <1>2. CASE msgs[m].shown > 0
    BY <1>1, <1>2 DEF outcome, Settled
  <1>3. CASE msgs[m].shown = 0 /\ Told(m)
    BY <1>1, <1>3 DEF outcome, Settled, Told
  <1>4. CASE msgs[m].shown = 0 /\ ~Told(m)
    BY <1>1, <1>4 DEF outcome, Settled, Told, NoSilentLoss
  <1> QED
    BY <1>1, <1>2, <1>3, <1>4

AllSettled == \A m \in Ids : Settled(m)

LEMMA OutcomesNext == (FateInv => AllSettled) /\ (FateInv' => AllSettled')
  <1>1. FateInv => AllSettled
    BY Outcomes DEF FateInv, LossInv, AllSettled
  <1> QED
    BY <1>1, PTL

\* A notice or a summary, once written, stays; a row without one gets it only in a step
\* that adds a row, while it is live.
LEMMA ToldStep ==
    ASSUME FateInv, [Next]_vars, NEW m \in Ids
    PROVE  /\ Told(m) => Told(m)'
           /\ Told(m)' /\ ~Told(m) => Live(m) /\ Ids' # Ids
  <1>f. TypeOK /\ InFlightOK /\ Ids \subseteq Ids' /\ TableStep /\ FateStep
    BY StepFacts DEF FateInv
  <1>1. ASSUME NEW n \in Ids
        PROVE  Accounts(n, m)' <=> Accounts(n, m)
    BY <1>f DEF TableStep, RowStep, Persists, Accounts
  <1>2. CASE Told(m)
    BY <1>1, <1>2, <1>f DEF Told
  <1>3. CASE ~Told(m) /\ Told(m)'
    <2>1. PICK n \in Ids' : Accounts(n, m)'
      BY <1>3 DEF Told
    <2>2. n \notin Ids
      BY <1>1, <1>3, <2>1 DEF Told
    <2> QED
      BY <1>3, <1>f, <2>1, <2>2 DEF FateStep, TellsOfDead, Accounts
  <1> QED
    BY <1>2, <1>3

LEMMA OutcomeFollows ==
    ASSUME FateInv, FateInv', [Next]_vars, NEW m \in Ids
    PROVE  outcome(m)' \in Promise!Follows(outcome(m))
  <1>f. /\ TypeOK /\ NoSilentLoss /\ TypeOK' /\ InFlightOK
        /\ m \in Ids' /\ TableStep /\ FateStep
    BY StepFacts DEF FateInv
  <1>1. Settled(m) /\ Settled(m)'
    BY <1>f, OutcomesNext DEF AllSettled
  <1>2. /\ msgs[m].shown \in Nat /\ msgs[m].cut \in Nat
        /\ msgs'[m].shown \in Nat /\ msgs'[m].cut \in Nat
    BY <1>f, CountersTyped
  <1>3. RowFate(m) /\ Persists(msgs[m], msgs'[m])
    BY <1>f DEF FateStep, TableStep, RowStep
  <1>4. Live(m) /\ ~Touched(msgs[m]) => msgs[m].cut = 0
    BY DEF FateInv, ShownOK
  <1>5. outcome(m)' \in Promise!Outcome
    BY <1>1, <1>2 DEF Settled, Promise!Outcome
  <1>6. CASE msgs[m].shown > 0
    <2>1. outcome(m) = "shown" /\ outcome(m)' = "shown"
      BY <1>1, <1>2, <1>3, <1>6 DEF Settled, Persists
    <2> QED
      BY <2>1 DEF Promise!Follows
  <1>7. CASE msgs[m].shown = 0 /\ Told(m)
    <2>1. outcome(m) = "accounted" /\ outcome(m)' \in {"accounted", "shown"}
      BY <1>1, <1>2, <1>7, ToldStep DEF Settled
    <2> QED
      BY <2>1 DEF Promise!Follows
  <1>8. CASE msgs[m].shown = 0 /\ ~Told(m) /\ msgs[m].status = "pending"
    BY <1>1, <1>5, <1>8 DEF Settled, Promise!Follows
  <1>9. CASE msgs[m].shown = 0 /\ ~Told(m) /\ msgs[m].status # "pending"
    <2>p. msgs'[m].status # "pending"
      BY <1>3, <1>9 DEF Persists
    <2>1. CASE msgs[m].box # "none"
      <3>1. outcome(m) = "parked"
        BY <1>1, <1>9, <2>1 DEF Settled
      <3>2. msgs'[m].shown > 0 \/ msgs'[m].box # "none"
        BY <1>3, <2>1 DEF Persists, Touched
      <3>3. outcome(m)' \in {"parked", "accounted", "shown"}
        BY <1>1, <1>2, <2>p, <3>2 DEF Settled
      <3> QED
        BY <3>1, <3>3 DEF Promise!Follows
    <2>2. CASE msgs[m].box = "none" /\ msgs[m].cut > 0
      <3>1. ~Live(m) /\ Copies(m) = 0
        BY <1>2, <1>4, <1>9, <2>2, CopiesTyped DEF Touched
      <3>2. Copies(m)' <= Copies(m) /\ msgs'[m].box = "none"
        BY <1>3, <2>2, <3>1 DEF RowFate
      <3>3. msgs'[m].shown = 0 /\ ~Told(m)' /\ msgs'[m].cut > 0
        BY <1>2, <1>3, <1>9, <2>2, <3>1, <3>2, ToldStep, CopiesTyped DEF Persists
      <3>4. outcome(m) = "cut" /\ outcome(m)' = "cut"
        BY <1>1, <1>9, <2>p, <2>2, <3>2, <3>3 DEF Settled
      <3> QED
        BY <3>4 DEF Promise!Follows
    <2>3. CASE msgs[m].box = "none" /\ ~(msgs[m].cut > 0)
      <3>1. outcome(m) = "withdrawn"
        BY <1>1, <1>9, <2>3 DEF Settled
      <3>2. outcome(m)' # "open"
        BY <1>1, <1>2, <2>p DEF Settled
      <3> QED
        BY <1>5, <3>1, <3>2 DEF Promise!Follows
    <2> QED
      BY <2>1, <2>2, <2>3
  <1> QED
    BY <1>2, <1>6, <1>7, <1>8, <1>9

\* A step of the message system is a step of Handoff, or changes no outcome.
LEMMA PromiseStep ==
    ASSUME FateInv, FateInv', [Next]_vars
    PROVE  Promise!Next
  <1> DEFINE L == [m \in Ids |-> outcome(m)]
             n == IF Ids' = Ids THEN 0 ELSE 1
  <1>f. /\ TypeOK /\ NoSilentLoss /\ TypeOK' /\ InFlightOK
        /\ Ids \subseteq Ids' /\ TableStep /\ FateStep
    BY StepFacts DEF FateInv
  <1>1. /\ Len(msgs) \in Nat /\ Ids = 1 .. Len(msgs)
        /\ Len(msgs') \in Nat /\ Ids' = 1 .. Len(msgs')
    BY <1>f DEF TypeOK, Ids
  <1>2. L' = [m \in Ids' |-> outcome(m)'] /\ DOMAIN L = Ids /\ DOMAIN L' = Ids'
    OBVIOUS
  <1>3. Len(L) = Len(msgs)
    <2>1. L \in [1 .. Len(msgs) -> {outcome(m) : m \in Ids}]
      BY <1>1
    <2> HIDE DEF L
    <2> QED
      BY <1>1, <1>2, <2>1
  <1>4. Ids' = 1 .. Len(msgs) + n
    <2>1. CASE Ids' = Ids
      BY <1>1, <2>1
    <2>2. CASE Ids' # Ids
      <3>1. Ids' = Ids \cup {Len(msgs) + 1}
        BY <1>f, <2>2 DEF FateStep
      <3>2. \A N \in Nat : 1 .. N + 1 = (1 .. N) \cup {N + 1}
        OBVIOUS
      <3>3. n = 1
        BY <2>2
      <3> QED
        BY <1>1, <3>1, <3>2, <3>3
    <2> QED
      BY <2>1, <2>2
  <1>5. \A m \in DOMAIN L : L'[m] \in Promise!Follows(L[m])
    BY <1>2, <1>f, OutcomeFollows
  <1>6. n = 1 => L'[Len(L) + 1] = "open"
    <2> SUFFICES ASSUME n = 1 PROVE L'[Len(msgs) + 1] = "open"
      BY <1>3
    <2>k. PICK k : k = Len(msgs) + 1
      OBVIOUS
    <2>1. k \in Ids' /\ k \notin Ids
      BY <1>1, <1>4, <2>k
    <2>2. Fresh(msgs'[k])
      BY <1>f, <2>1 DEF TableStep
    <2>3. ~Told(k)'
      <3>1. ASSUME NEW i \in Ids', Accounts(i, k)'
            PROVE  k \in Ids
        <4>1. CASE i \in Ids
          <5>1. Accounts(i, k)
            BY <1>f, <3>1, <4>1 DEF TableStep, RowStep, Persists, Accounts
          <5> QED
            BY <4>1, <5>1 DEF FateInv, AccountsOK, Accounts
        <4>2. CASE i \notin Ids
          BY <1>f, <3>1, <4>2 DEF FateStep, TellsOfDead, Accounts
        <4> QED
          BY <4>1, <4>2
      <3> QED
        BY <2>1, <3>1 DEF Told
    <2>4. Settled(k)'
      BY <2>1, OutcomesNext DEF AllSettled
    <2>5. outcome(k)' = "open"
      BY <2>2, <2>3, <2>4 DEF Settled, Fresh
    <2> QED
      BY <1>2, <2>k, <2>1, <2>5
  <1>7. n = 0 => {m \in DOMAIN L' : L'[m] = "accounted"} \subseteq {m \in DOMAIN L : L[m] = "accounted"}
    <2> SUFFICES ASSUME Ids' = Ids, NEW m \in Ids, outcome(m)' = "accounted"
                 PROVE  outcome(m) = "accounted"
      BY <1>2
    <2>1. Settled(m) /\ Settled(m)'
      BY <1>f, OutcomesNext DEF AllSettled
    <2>2. Told(m)' <=> Told(m)
      BY ToldStep
    <2>3. /\ msgs[m].shown \in Nat /\ msgs[m].cut \in Nat
          /\ msgs'[m].shown \in Nat /\ msgs'[m].cut \in Nat
      BY <1>f, CountersTyped
    <2>4. msgs'[m].shown >= msgs[m].shown
      BY <1>f DEF TableStep, RowStep, Persists
    <2> QED
      BY <2>1, <2>2, <2>3, <2>4 DEF Settled
  <1> HIDE DEF L
  <1>8. /\ n \in {0, 1} /\ DOMAIN L' = 1 .. Len(L) + n
        /\ n = 0 => Promise!Accounted' \subseteq Promise!Accounted
    BY <1>2, <1>3, <1>4, <1>7 DEF Promise!Accounted, L
  <1> QED
    BY <1>5, <1>6, <1>8 DEF Promise!Next, L

\* The message system implements Handoff.
THEOREM PromiseKept == Spec => KeepsPromise
  <1>1. Init => Promise!Init
    BY DEF Init, Promise!Init, Ids
  <1>2. FateInv /\ FateInv' /\ [Next]_vars => [Promise!Next]_([m \in Ids |-> outcome(m)])
    BY PromiseStep
  <1> QED
    BY <1>1, <1>2, FateInvHolds, PTL DEF Spec, KeepsPromise, Promise!Spec
============================================================================
