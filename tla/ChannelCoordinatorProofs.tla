---------------------- MODULE ChannelCoordinatorProofs ----------------------
(* Theorems about ChannelCoordinator, for any number of updates and faults.   *)
EXTENDS ChannelCoordinator, TLAPS, FiniteSetTheorems

(***************************************************************************)
(* The inductive invariant.  The loop works on a batch it has stored so    *)
(* far only in part; the offset may move over the batch because whatever   *)
(* of it is not kept yet is still to be processed.                         *)
(***************************************************************************)
Kept(u) == u \in seen \cup stored \cup skipped \cup dropped

Working ==
  /\ at \in {"handOff", "mark"} => batch # {} /\ Oldest(batch) \in stored
  /\ at = "replayMark" => todo # {}

Covered ==
  /\ \A u \in 1 .. confirmed : Kept(u)
  /\ \A u \in 1 .. offset : Kept(u)
  /\ at \in {"reply", "store", "handOff", "mark"} => \A u \in 1 .. high : Kept(u) \/ u \in batch

IInv == CCTypeOK /\ Working /\ Covered

LEMMA OldestIsIn ==
    ASSUME NEW n \in Nat, NEW S \in SUBSET (1 .. n), S # {}
    PROVE  Oldest(S) \in S
  <1> DEFINE Upto(m) == {x \in S : x <= m}
             T == {A \in SUBSET S : A # {} /\ \E m \in S : A = Upto(m)}
             R == StrictSubsetOrdering(S)
  <1>1. IsFiniteSet(S)
    <2>1. 1 \in Int /\ n \in Int
      OBVIOUS
    <2>2. IsFiniteSet(1 .. n)
      BY <2>1, FS_Interval
    <2> QED
      BY <2>2, FS_Subset
  <1>2. IsWellFoundedOn(R, FiniteSubsetsOf(S))
    BY FS_StrictSubsetOrderingWellFounded
  <1>3. T \subseteq FiniteSubsetsOf(S)
    BY <1>1, FS_Subset DEF FiniteSubsetsOf
  <1>4. T # {}
    <2>1. PICK m \in S : TRUE
      OBVIOUS
    <2>2. m \in Upto(m) /\ Upto(m) \in SUBSET S
      OBVIOUS
    <2> QED
      BY <2>1, <2>2
  <1> HIDE DEF R
  <1>5. PICK A \in T : \A B \in T : <<B, A>> \notin R
    <2> HIDE DEF T
    <2> QED
      BY <1>2, <1>3, <1>4, WFMin
  <1>6. PICK m \in S : A = Upto(m)
    OBVIOUS
  <1>7. ASSUME NEW v \in S, v < m
        PROVE  FALSE
    <2>0. v \in Nat /\ m \in Nat /\ \A x \in S : x \in Nat
      OBVIOUS
    <2>1a. v \in Upto(v) /\ m \notin Upto(v)
      BY <2>0, <1>7
    <2>1b. m \in A
      BY <2>0, <1>6
    <2>1c. ASSUME NEW x \in Upto(v)
           PROVE  x \in Upto(m)
      BY <2>0, <1>7
    <2>1. v \in Upto(v) /\ m \notin Upto(v) /\ m \in A /\ Upto(v) \subseteq A
      BY <2>1a, <2>1b, <2>1c, <1>6
    <2>2. Upto(v) \in T /\ <<Upto(v), A>> \in R
      BY <2>1 DEF R, StrictSubsetOrdering
    <2> QED
      BY <1>5, <2>2
  <1>8. \A v \in S : m <= v
    BY <1>7
  <1> QED
    BY <1>8 DEF Oldest

Row(S) == [update : S, status : {"pending", "delivered", "failed"}]

LEMMA SeqGrows ==
    ASSUME NEW S, NEW T, S \subseteq T, NEW s \in Seq(Row(S))
    PROVE  s \in Seq(Row(T))
  <1>1. Row(S) \subseteq Row(T)
    BY DEF Row
  <1> QED
    BY <1>1

LEMMA InitInv == CCInit => IInv
  <1> SUFFICES ASSUME CCInit PROVE IInv
    OBVIOUS
  <1>1. CCTypeOK
    <2>1. link \in [Updates -> 0 .. Len(msgs)] /\ Len(msgs) = 0
      BY DEF CCInit
    <2>2. msgs \in Seq([update : stored, status : {"pending", "delivered", "failed"}])
      BY DEF CCInit
    <2>3. /\ last \in 0 .. MaxUpdate /\ confirmed \in 0 .. last /\ high \in 0 .. last /\ offset \in 0 .. last
          /\ events \in 0 .. MaxEvents /\ downStreak \in 0 .. DownDebounce /\ cut \in Nat
      BY CoordinatorAssumption DEF CCInit
    <2> QED
      BY <2>1, <2>2, <2>3 DEF CCInit, CCTypeOK
  <1>2. Working /\ Covered
    BY DEF CCInit, Working, Covered, Kept
  <1> QED
    BY <1>1, <1>2 DEF IInv

(***************************************************************************)
(* Every step keeps the invariant.                                         *)
(***************************************************************************)
LEMMA UserSendsInv ==
    ASSUME IInv, UserSends
    PROVE  IInv'
  <1>1. CCTypeOK'
    BY CoordinatorAssumption DEF inbox, IInv, CCTypeOK, Working, UserSends, loop, tables, history
  <1>2. Working'
    BY DEF inbox, IInv, CCTypeOK, Working, UserSends, loop, tables, history
  <1>3. Covered'
    BY DEF inbox, IInv, CCTypeOK, Working, Covered, Kept, UserSends, loop, tables, history
  <1> QED
    BY <1>1, <1>2, <1>3 DEF IInv

LEMMA NativeFlipsInv ==
    ASSUME IInv, NativeFlips
    PROVE  IInv'
  <1>1. CCTypeOK'
    BY CoordinatorAssumption DEF inbox, IInv, CCTypeOK, Working, NativeFlips, Event, loop, tables, history
  <1>2. Working'
    BY DEF inbox, IInv, CCTypeOK, Working, NativeFlips, Event, loop, tables, history
  <1>3. Covered'
    BY DEF inbox, IInv, CCTypeOK, Working, Covered, Kept, NativeFlips, Event, loop, tables, history
  <1> QED
    BY <1>1, <1>2, <1>3 DEF IInv

LEMMA NativeDeliversInv ==
    ASSUME IInv, NativeDelivers
    PROVE  IInv'
  <1>1. CCTypeOK'
    <2>1. last \in Nat /\ (confirmed + 1) .. last \ seen \subseteq 1 .. last
      BY DEF inbox, IInv, CCTypeOK
    <2>2. Oldest((confirmed + 1) .. last \ seen) \in 1 .. last
      BY <2>1, OldestIsIn DEF NativeDelivers
    <2> QED
      BY <2>2 DEF inbox, IInv, CCTypeOK, NativeDelivers, loop, tables, history, Oldest
  <1>2. Working'
    BY DEF inbox, IInv, CCTypeOK, Working, NativeDelivers, loop, tables, history, Oldest
  <1>3. Covered'
    BY DEF inbox, IInv, CCTypeOK, Working, Covered, Kept, NativeDelivers, loop, tables, history, Oldest
  <1> QED
    BY <1>1, <1>2, <1>3 DEF IInv

LEMMA NativeConfirmsInv ==
    ASSUME IInv, NativeConfirms
    PROVE  IInv'
  <1>1. CCTypeOK'
    BY CoordinatorAssumption DEF inbox, IInv, CCTypeOK, Working, NativeConfirms, loop, tables, history
  <1>2. Working'
    BY DEF inbox, IInv, CCTypeOK, Working, NativeConfirms, loop, tables, history
  <1>3. Covered'
    BY DEF inbox, IInv, CCTypeOK, Working, Covered, Kept, NativeConfirms, loop, tables, history
  <1> QED
    BY <1>1, <1>2, <1>3 DEF IInv

\* the rows a claim or a PUT leaves, with the updates they speak of
LEMMA Rows ==
    ASSUME msgs \in Seq(Row(stored)), NEW i \in DOMAIN msgs
    PROVE  /\ Waiting(i) \subseteq DOMAIN msgs /\ \A k \in Waiting(i) : msgs[k].update \in stored
           /\ msgs[i].update \in stored
           /\ \A status \in {"delivered", "failed"} :
                 /\ [msgs EXCEPT ![i].status = status] \in Seq(Row(stored))
                 /\ Len([msgs EXCEPT ![i].status = status]) = Len(msgs)
  <1>1. i \in 1 .. Len(msgs) /\ Len(msgs) \in Nat /\ DOMAIN msgs = 1 .. Len(msgs)
    OBVIOUS
  <1>2. \A k \in DOMAIN msgs : msgs[k] \in Row(stored)
    BY <1>1
  <1>3. Waiting(i) \subseteq DOMAIN msgs
    BY <1>1 DEF Waiting
  <1>4. ASSUME NEW status \in {"delivered", "failed"}
        PROVE  /\ [msgs EXCEPT ![i].status = status] \in Seq(Row(stored))
               /\ Len([msgs EXCEPT ![i].status = status]) = Len(msgs)
    <2>1. [msgs[i] EXCEPT !.status = status] \in Row(stored)
      BY <1>2 DEF Row
    <2> QED
      BY <1>1, <2>1
  <1> QED
    BY <1>2, <1>3, <1>4 DEF Row

LEMMA ClaimRows ==
    ASSUME msgs \in Seq(Row(stored)), NEW n \in DOMAIN msgs, Claim(n)
    PROVE  /\ msgs' \in Seq(Row(stored)) /\ Len(msgs') = Len(msgs) /\ DOMAIN msgs' = DOMAIN msgs
           /\ \A k \in DOMAIN msgs : /\ msgs'[k].update = msgs[k].update
                                     /\ (msgs'[k].status = "failed") <=> (msgs[k].status = "failed")
  <1> DEFINE table == [i \in DOMAIN msgs |-> IF i \in Waiting(n)
                                              THEN [msgs[i] EXCEPT !.status = "delivered"] ELSE msgs[i]]
  <1>1. Len(msgs) \in Nat /\ DOMAIN msgs = 1 .. Len(msgs)
    OBVIOUS
  <1>2. \A k \in DOMAIN msgs : msgs[k] \in Row(stored)
    BY <1>1
  <1>3. ASSUME NEW k \in DOMAIN msgs
        PROVE  /\ table[k] \in Row(stored) /\ table[k].update = msgs[k].update
               /\ (table[k].status = "failed") <=> (msgs[k].status = "failed")
    BY <1>2 DEF Row, Waiting
  <1>4. DOMAIN table = 1 .. Len(msgs) /\ table \in [1 .. Len(msgs) -> Row(stored)]
    BY <1>1, <1>3
  <1>5. table \in Seq(Row(stored)) /\ Len(table) = Len(msgs)
    BY <1>1, <1>4
  <1>6. msgs' = table
    BY DEF Claim
  <1> QED
    BY <1>1, <1>3, <1>4, <1>5, <1>6

LEMMA InboxInv ==
    ASSUME IInv, NEW i \in DOMAIN msgs,
           Drain(i) \/ DrainLost(i) \/ PutDone(i) \/ PutFailed(i)
    PROVE  IInv'
  <1>0. msgs \in Seq(Row(stored))
    BY DEF inbox, IInv, CCTypeOK, Row
  <1>1. msgs' \in Seq(Row(stored)) /\ Len(msgs') = Len(msgs)
    <2>1. CASE Drain(i) \/ DrainLost(i)
      BY <1>0, <2>1, ClaimRows DEF Drain, DrainLost
    <2>2. CASE PutDone(i) \/ PutFailed(i)
      <3>1. PICK status \in {"delivered", "failed"} : msgs' = [msgs EXCEPT ![i].status = status]
        BY <2>2 DEF PutDone, PutFailed
      <3> QED
        BY <1>0, <3>1, Rows
    <2> QED
      BY <2>1, <2>2
  <1>2. read' \subseteq stored /\ lost' \subseteq stored
    BY <1>0, Rows DEF Drain, DrainLost, PutDone, PutFailed, history, inbox, IInv, CCTypeOK
  <1>3. events' \in 0 .. MaxEvents
    BY CoordinatorAssumption DEF inbox, IInv, CCTypeOK, Drain, DrainLost, PutDone, PutFailed, Event
  <1>4. UNCHANGED <<external, loop, offset, stored, link, skipped, dropped, cut>>
    BY DEF Drain, DrainLost, PutDone, PutFailed, Claim, history
  <1>5. CCTypeOK'
    BY <1>1, <1>2, <1>3, <1>4 DEF inbox, IInv, CCTypeOK, Row, external, loop
  <1>6. Working' /\ Covered'
    BY <1>4 DEF IInv, Working, Covered, Kept, external, loop
  <1> QED
    BY <1>5, <1>6 DEF IInv

LEMMA ReconcileInv ==
    ASSUME IInv, Reconcile
    PROVE  IInv'
  <1>1. CCTypeOK'
    BY CoordinatorAssumption DEF inbox, IInv, CCTypeOK, Working, Reconcile, At, external, tables, history, NeedsHandoff
  <1>2. Working'
    BY DEF inbox, IInv, CCTypeOK, Working, Reconcile, At, external, tables, history, NeedsHandoff
  <1>3. Covered'
    BY DEF inbox, IInv, CCTypeOK, Working, Covered, Kept, Reconcile, At, external, tables, history, NeedsHandoff
  <1> QED
    BY <1>1, <1>2, <1>3 DEF IInv

LEMMA ReplayHandsOffInv ==
    ASSUME IInv, ReplayHandsOff
    PROVE  IInv'
  <1>1. CCTypeOK'
    <2>1. last \in Nat /\ todo # {} /\ todo \subseteq stored /\ todo \in SUBSET (1 .. last)
      BY DEF inbox, IInv, CCTypeOK, ReplayHandsOff
    <2>2. Oldest(todo) \in stored
      BY <2>1, OldestIsIn
    <2> DEFINE m == [update |-> Oldest(todo), status |-> "pending"]
    <2>3. m \in [update : stored, status : {"pending", "delivered", "failed"}]
      BY <2>2
    <2>4. msgs' = Append(msgs, m)
      BY DEF ReplayHandsOff, HandOff
    <2>5. /\ msgs' \in Seq([update : stored, status : {"pending", "delivered", "failed"}])
          /\ Len(msgs') = Len(msgs) + 1 /\ Len(msgs) \in Nat
      BY <2>3, <2>4 DEF inbox, IInv, CCTypeOK
    <2> QED
      BY <2>5 DEF inbox, IInv, CCTypeOK, ReplayHandsOff, At, external, history, HandOff
  <1>2. Working'
    BY DEF inbox, IInv, CCTypeOK, Working, ReplayHandsOff, At, external, history, HandOff
  <1>3. Covered'
    BY DEF inbox, IInv, CCTypeOK, Working, Covered, Kept, ReplayHandsOff, At, external, history, HandOff
  <1> QED
    BY <1>1, <1>2, <1>3 DEF IInv

LEMMA ReplayMarksInv ==
    ASSUME IInv, ReplayMarks
    PROVE  IInv'
  <1>1. CCTypeOK'
    <2>0. msgs \in Seq(Row(stored)) /\ link \in [Updates -> 0 .. Len(msgs)]
      BY DEF inbox, IInv, CCTypeOK, Row
    <2>1. Len(msgs) \in Nat
      BY <2>0
    <2>2. link' \in [Updates -> 0 .. Len(msgs)]
      <3>1. \E u : link' = [link EXCEPT ![u] = Len(msgs)]
        BY DEF ReplayMarks, Mark
      <3> DEFINE n == Len(msgs)
      <3>2. n \in 0 .. n
        BY <2>1
      <3>3. link \in [Updates -> 0 .. n] /\ \E u : link' = [link EXCEPT ![u] = n]
        BY <2>0, <3>1
      <3> QED
        <4> HIDE DEF n
        <4>1. link' \in [Updates -> 0 .. n]
          BY <3>2, <3>3
        <4> QED
          BY <4>1 DEF n
    <2> QED
      BY <2>1, <2>2 DEF inbox, IInv, CCTypeOK, ReplayMarks, At, external, history, Mark
  <1>2. Working'
    BY DEF inbox, IInv, CCTypeOK, Working, ReplayMarks, At, external, history, Mark
  <1>3. Covered'
    BY DEF inbox, IInv, CCTypeOK, Working, Covered, Kept, ReplayMarks, At, external, history, Mark
  <1> QED
    BY <1>1, <1>2, <1>3 DEF IInv

LEMMA ReplayDoneInv ==
    ASSUME IInv, ReplayDone
    PROVE  IInv'
  <1>1. CCTypeOK'
    BY CoordinatorAssumption DEF inbox, IInv, CCTypeOK, Working, ReplayDone, At, external, tables, history
  <1>2. Working'
    BY DEF inbox, IInv, CCTypeOK, Working, ReplayDone, At, external, tables, history
  <1>3. Covered'
    BY DEF inbox, IInv, CCTypeOK, Working, Covered, Kept, ReplayDone, At, external, tables, history
  <1> QED
    BY <1>1, <1>2, <1>3 DEF IInv

LEMMA IdleTickInv ==
    ASSUME IInv, NEW down \in BOOLEAN, IdleTick(down)
    PROVE  IInv'
  <1>1. CCTypeOK'
    BY CoordinatorAssumption DEF inbox, IInv, CCTypeOK, Working, IdleTick, At, Event, external, tables, history, Probe
  <1>2. Working'
    BY DEF inbox, IInv, CCTypeOK, Working, IdleTick, At, Event, external, tables, history, Probe
  <1>3. Covered'
    BY DEF inbox, IInv, CCTypeOK, Working, Covered, Kept, IdleTick, At, Event, external, tables, history, Probe
  <1> QED
    BY <1>1, <1>2, <1>3 DEF IInv

LEMMA SeedInv ==
    ASSUME IInv, Seed
    PROVE  IInv'
  <1>1. CCTypeOK'
    BY CoordinatorAssumption DEF inbox, IInv, CCTypeOK, Working, Seed, At, external
  <1>2. Working'
    BY DEF inbox, IInv, CCTypeOK, Working, Seed, At, external
  <1>3. Covered'
    BY DEF inbox, IInv, CCTypeOK, Working, Covered, Kept, Seed, At, external
  <1> QED
    BY <1>1, <1>2, <1>3 DEF IInv

LEMMA SeedConflictInv ==
    ASSUME IInv, SeedConflict
    PROVE  IInv'
  <1>1. CCTypeOK'
    BY CoordinatorAssumption DEF inbox, IInv, CCTypeOK, Working, SeedConflict, At, external, tables, history
  <1>2. Working'
    BY DEF inbox, IInv, CCTypeOK, Working, SeedConflict, At, external, tables, history
  <1>3. Covered'
    BY DEF inbox, IInv, CCTypeOK, Working, Covered, Kept, SeedConflict, At, external, tables, history
  <1> QED
    BY <1>1, <1>2, <1>3 DEF IInv

LEMMA CooldownEndsInv ==
    ASSUME IInv, CooldownEnds
    PROVE  IInv'
  <1>1. CCTypeOK'
    BY CoordinatorAssumption DEF inbox, IInv, CCTypeOK, Working, CooldownEnds, external, tables, history
  <1>2. Working'
    BY DEF inbox, IInv, CCTypeOK, Working, CooldownEnds, external, tables, history
  <1>3. Covered'
    BY DEF inbox, IInv, CCTypeOK, Working, Covered, Kept, CooldownEnds, external, tables, history
  <1> QED
    BY <1>1, <1>2, <1>3 DEF IInv

LEMMA ProbeBeforePollInv ==
    ASSUME IInv, NEW down \in BOOLEAN, ProbeBeforePoll(down)
    PROVE  IInv'
  <1>1. CCTypeOK'
    <2>1. events' \in 0 .. MaxEvents
      BY CoordinatorAssumption DEF inbox, IInv, CCTypeOK, ProbeBeforePoll, Probe, Event
    <2>2. /\ downStreak' \in 0 .. DownDebounce /\ state' \in {"idle", "backfilling"}
          /\ at' \in {"poll", "store", "top"} /\ batch' \subseteq batch
      BY CoordinatorAssumption DEF inbox, IInv, CCTypeOK, ProbeBeforePoll, Yield
    <2> QED
      BY <2>1, <2>2 DEF inbox, IInv, CCTypeOK, ProbeBeforePoll, external, tables, history
  <1>2. Working'
    BY DEF inbox, IInv, CCTypeOK, Working, ProbeBeforePoll, At, Event, external, tables, history, Probe, Yield
  <1>3. Covered'
    BY DEF inbox, IInv, CCTypeOK, Working, Covered, Kept, ProbeBeforePoll, At, Event, external, tables, history, Probe, Yield
  <1> QED
    BY <1>1, <1>2, <1>3 DEF IInv

LEMMA PollInv ==
    ASSUME IInv, Poll
    PROVE  IInv'
  <1>1. CCTypeOK'
    BY CoordinatorAssumption DEF inbox, IInv, CCTypeOK, Working, Poll, At, tables, history
  <1>2. Working'
    BY DEF inbox, IInv, CCTypeOK, Working, Poll, At, tables, history
  <1>3. Covered'
    BY DEF inbox, IInv, CCTypeOK, Working, Covered, Kept, Poll, At, tables, history
  <1> QED
    BY <1>1, <1>2, <1>3 DEF IInv

LEMMA PollConflictInv ==
    ASSUME IInv, PollConflict
    PROVE  IInv'
  <1>1. CCTypeOK'
    BY CoordinatorAssumption DEF inbox, IInv, CCTypeOK, Working, PollConflict, At, external, tables, history, Yield
  <1>2. Working'
    BY DEF inbox, IInv, CCTypeOK, Working, PollConflict, At, external, tables, history, Yield
  <1>3. Covered'
    BY DEF inbox, IInv, CCTypeOK, Working, Covered, Kept, PollConflict, At, external, tables, history, Yield
  <1> QED
    BY <1>1, <1>2, <1>3 DEF IInv

LEMMA CallFailsInv ==
    ASSUME IInv, CallFails
    PROVE  IInv'
  <1>1. CCTypeOK'
    BY CoordinatorAssumption DEF inbox, IInv, CCTypeOK, Working, CallFails, At, Event, external, tables, history
  <1>2. Working'
    BY DEF inbox, IInv, CCTypeOK, Working, CallFails, At, Event, external, tables, history
  <1>3. Covered'
    BY DEF inbox, IInv, CCTypeOK, Working, Covered, Kept, CallFails, At, Event, external, tables, history
  <1> QED
    BY <1>1, <1>2, <1>3 DEF IInv

LEMMA ProbeBeforeHandOffInv ==
    ASSUME IInv, NEW down \in BOOLEAN, ProbeBeforeHandOff(down)
    PROVE  IInv'
  <1>1. CCTypeOK'
    <2>1. events' \in 0 .. MaxEvents
      BY CoordinatorAssumption DEF inbox, IInv, CCTypeOK, ProbeBeforeHandOff, Probe, Event
    <2>2. /\ downStreak' \in 0 .. DownDebounce /\ state' \in {"idle", "backfilling"}
          /\ at' \in {"poll", "store", "top"} /\ batch' \subseteq batch
      BY CoordinatorAssumption DEF inbox, IInv, CCTypeOK, ProbeBeforeHandOff, Yield
    <2> QED
      BY <2>1, <2>2 DEF inbox, IInv, CCTypeOK, ProbeBeforeHandOff, external, tables, history
  <1>2. Working'
    BY DEF inbox, IInv, CCTypeOK, Working, ProbeBeforeHandOff, At, Event, external, tables, history, Probe, Yield
  <1>3. Covered'
    BY DEF inbox, IInv, CCTypeOK, Working, Covered, Kept, ProbeBeforeHandOff, At, Event, external, tables, history, Probe, Yield
  <1> QED
    BY <1>1, <1>2, <1>3 DEF IInv

LEMMA StoreInv ==
    ASSUME IInv, Store
    PROVE  IInv'
  <1>1. CCTypeOK'
    <2>1. last \in Nat /\ batch # {} /\ batch \in SUBSET (1 .. last)
      BY DEF inbox, IInv, CCTypeOK, Store
    <2>2. Oldest(batch) \in 1 .. last
      BY <2>1, OldestIsIn
    <2>3. stored \subseteq stored' /\ stored' \subseteq 1 .. last
      BY <2>2 DEF inbox, IInv, CCTypeOK, Store, Current
    <2>4. msgs' \in Seq([update : stored', status : {"pending", "delivered", "failed"}])
      <3>1. msgs' \in Seq(Row(stored))
        BY DEF inbox, IInv, CCTypeOK, Row, Store
      <3>2. msgs' \in Seq(Row(stored'))
        BY <2>3, <3>1, SeqGrows
      <3> QED
        BY <3>2 DEF Row
    <2> QED
      BY <2>3, <2>4 DEF inbox, IInv, CCTypeOK, Store, At, external, history, Current
  <1>2. Working'
    BY DEF inbox, IInv, CCTypeOK, Working, Store, At, external, history, Current
  <1>3. Covered'
    BY DEF inbox, IInv, CCTypeOK, Working, Covered, Kept, Store, At, external, history, Current
  <1> QED
    BY <1>1, <1>2, <1>3 DEF IInv

LEMMA StoreFailsInv ==
    ASSUME IInv, StoreFails
    PROVE  IInv'
  <1>1. CCTypeOK'
    <2>1. last \in Nat /\ batch # {} /\ batch \in SUBSET (1 .. last)
      BY DEF inbox, IInv, CCTypeOK, StoreFails
    <2>2. Oldest(batch) \in 1 .. last
      BY <2>1, OldestIsIn
    <2>3. events' \in 0 .. MaxEvents
      BY CoordinatorAssumption DEF inbox, IInv, CCTypeOK, StoreFails, Event
    <2>4. dropped' \subseteq 1 .. last
      BY <2>2 DEF inbox, IInv, CCTypeOK, StoreFails, Current
    <2> QED
      BY <2>3, <2>4 DEF inbox, IInv, CCTypeOK, StoreFails, external, tables
  <1>2. Working'
    BY DEF inbox, IInv, CCTypeOK, Working, StoreFails, At, Event, external, tables, Current
  <1>3. Covered'
    BY DEF inbox, IInv, CCTypeOK, Working, Covered, Kept, StoreFails, At, Event, external, tables, Current
  <1> QED
    BY <1>1, <1>2, <1>3 DEF IInv

LEMMA BatchHandsOffInv ==
    ASSUME IInv, BatchHandsOff
    PROVE  IInv'
  <1>1. CCTypeOK'
    BY CoordinatorAssumption DEF inbox, IInv, CCTypeOK, Working, BatchHandsOff, At, external, history, HandOff, Current
  <1>2. Working'
    BY DEF inbox, IInv, CCTypeOK, Working, BatchHandsOff, At, external, history, HandOff, Current
  <1>3. Covered'
    BY DEF inbox, IInv, CCTypeOK, Working, Covered, Kept, BatchHandsOff, At, external, history, HandOff, Current
  <1> QED
    BY <1>1, <1>2, <1>3 DEF IInv

LEMMA BatchMarksInv ==
    ASSUME IInv, BatchMarks
    PROVE  IInv'
  <1>1. CCTypeOK'
    <2>0. msgs \in Seq(Row(stored)) /\ link \in [Updates -> 0 .. Len(msgs)]
      BY DEF inbox, IInv, CCTypeOK, Row
    <2>1. Len(msgs) \in Nat
      BY <2>0
    <2>2. link' \in [Updates -> 0 .. Len(msgs)]
      <3>1. \E u : link' = [link EXCEPT ![u] = Len(msgs)]
        BY DEF BatchMarks, Mark
      <3> DEFINE n == Len(msgs)
      <3>2. n \in 0 .. n
        BY <2>1
      <3>3. link \in [Updates -> 0 .. n] /\ \E u : link' = [link EXCEPT ![u] = n]
        BY <2>0, <3>1
      <3> QED
        <4> HIDE DEF n
        <4>1. link' \in [Updates -> 0 .. n]
          BY <3>2, <3>3
        <4> QED
          BY <4>1 DEF n
    <2> QED
      BY <2>1, <2>2 DEF inbox, IInv, CCTypeOK, BatchMarks, At, external, history, Mark, Current
  <1>2. Working'
    BY DEF inbox, IInv, CCTypeOK, Working, BatchMarks, At, external, history, Mark, Current
  <1>3. Covered'
    BY DEF inbox, IInv, CCTypeOK, Working, Covered, Kept, BatchMarks, At, external, history, Mark, Current
  <1> QED
    BY <1>1, <1>2, <1>3 DEF IInv

LEMMA HandOffFailsInv ==
    ASSUME IInv, HandOffFails
    PROVE  IInv'
  <1>1. CCTypeOK'
    <2>1. events' \in 0 .. MaxEvents
      BY CoordinatorAssumption DEF inbox, IInv, CCTypeOK, HandOffFails, Event
    <2>2. at' \in {"store", "replay"} /\ batch' \subseteq batch /\ todo' \subseteq todo
      BY DEF HandOffFails, At
    <2> QED
      BY <2>1, <2>2 DEF inbox, IInv, CCTypeOK, HandOffFails, external, tables, history
  <1>2. Working'
    BY DEF inbox, IInv, CCTypeOK, Working, HandOffFails, At, Event, external, tables, history, Current
  <1>3. Covered'
    BY DEF inbox, IInv, CCTypeOK, Working, Covered, Kept, HandOffFails, At, Event, external, tables, history, Current
  <1> QED
    BY <1>1, <1>2, <1>3 DEF IInv

LEMMA AdvanceInv ==
    ASSUME IInv, Advance
    PROVE  IInv'
  <1>1. CCTypeOK'
    BY CoordinatorAssumption DEF inbox, IInv, CCTypeOK, Working, Advance, At, external, history
  <1>2. Working'
    BY DEF inbox, IInv, CCTypeOK, Working, Advance, At, external, history
  <1>3. Covered'
    BY DEF inbox, IInv, CCTypeOK, Working, Covered, Kept, Advance, At, external, history
  <1> QED
    BY <1>1, <1>2, <1>3 DEF IInv

LEMMA MarkFailsInv ==
    ASSUME IInv, MarkFails
    PROVE  IInv'
  <1>1. CCTypeOK'
    <2>1. events' \in 0 .. MaxEvents /\ cut' \in Nat
      BY CoordinatorAssumption DEF inbox, IInv, CCTypeOK, MarkFails, Event
    <2>2. at' \in {"store", "replay"} /\ batch' \subseteq batch /\ todo' \subseteq todo
      BY DEF MarkFails, At
    <2> QED
      BY <2>1, <2>2 DEF inbox, IInv, CCTypeOK, MarkFails, external, tables
  <1>2. Working'
    BY DEF inbox, IInv, CCTypeOK, Working, MarkFails, At, Event, external, tables, Current
  <1>3. Covered'
    BY DEF inbox, IInv, CCTypeOK, Working, Covered, Kept, MarkFails, At, Event, external, tables, Current
  <1> QED
    BY <1>1, <1>2, <1>3 DEF IInv

LEMMA CrashInv ==
    ASSUME IInv, Crash
    PROVE  IInv'
  <1>1. CCTypeOK'
    <2>1. events' \in 0 .. MaxEvents /\ cut' \in Nat
      BY CoordinatorAssumption DEF inbox, IInv, CCTypeOK, Crash, Event
    <2>2. high' \in 0 .. last /\ downStreak' \in 0 .. DownDebounce
      BY CoordinatorAssumption DEF inbox, IInv, CCTypeOK, Crash
    <2> QED
      BY <2>1, <2>2 DEF inbox, IInv, CCTypeOK, Crash, external, tables
  <1>2. Working'
    BY DEF inbox, IInv, CCTypeOK, Working, Crash, Event, external, tables
  <1>3. Covered'
    BY DEF inbox, IInv, CCTypeOK, Working, Covered, Kept, Crash, Event, external, tables
  <1> QED
    BY <1>1, <1>2, <1>3 DEF IInv

LEMMA RestartInv ==
    ASSUME IInv, Restart
    PROVE  IInv'
  <1>1. CCTypeOK'
    BY CoordinatorAssumption DEF inbox, IInv, CCTypeOK, Working, Restart, external, tables, history
  <1>2. Working'
    BY DEF inbox, IInv, CCTypeOK, Working, Restart, external, tables, history
  <1>3. Covered'
    BY DEF inbox, IInv, CCTypeOK, Working, Covered, Kept, Restart, external, tables, history
  <1> QED
    BY <1>1, <1>2, <1>3 DEF IInv

LEMMA StutterInv == IInv /\ UNCHANGED ccVars => IInv'
  BY DEF inbox, IInv, CCTypeOK, Working, Covered, Kept, ccVars, external, loop, tables, history

LEMMA NextInv == IInv /\ [CCNext]_ccVars => IInv'
  <1> SUFFICES ASSUME IInv, CCNext PROVE IInv'
    BY StutterInv
  <1> QED
    BY UserSendsInv, NativeFlipsInv, NativeDeliversInv, NativeConfirmsInv,
       InboxInv, ReconcileInv, ReplayHandsOffInv,
       ReplayMarksInv, ReplayDoneInv, IdleTickInv, SeedInv, SeedConflictInv,
       CooldownEndsInv, ProbeBeforePollInv, PollInv, PollConflictInv,
       CallFailsInv, ProbeBeforeHandOffInv, StoreInv, StoreFailsInv,
       BatchHandsOffInv, BatchMarksInv, HandOffFailsInv, AdvanceInv,
       MarkFailsInv, CrashInv, RestartInv
    DEF CCNext, Round, MainReads, Faults

THEOREM Invariant == CCSpec => []IInv
  BY InitInv, NextInv, PTL DEF CCSpec

(***************************************************************************)
(* Every variable keeps its type: in particular the offset never passes    *)
(* what Telegram has, and every message is for a stored update.            *)
(***************************************************************************)
THEOREM TypeCorrect == CCSpec => []CCTypeOK
  <1>1. IInv => CCTypeOK
    BY DEF IInv
  <1> QED
    BY Invariant, <1>1, PTL

(***************************************************************************)
(* However many updates, crashes, outages and wrong probes there are, what *)
(* Telegram has forgotten was delivered by the plugin or is in the table,  *)
(* apart from what a seed jumped over and what an insert lost.             *)
(***************************************************************************)
THEOREM NothingIsForgotten == CCSpec => []NothingForgotten
  <1>1. IInv => NothingForgotten
    BY DEF IInv, Covered, Kept, NothingForgotten
  <1> QED
    BY Invariant, <1>1, PTL

-----------------------------------------------------------------------------
(***************************************************************************)
(* How often an update is handed off.  The message between its insert and  *)
(* its link counts as linked; then an update has one message that did not  *)
(* fail if its link says so, none otherwise, and one more for each handoff *)
(* that was cut before its link.  The loop hands off only what the links   *)
(* say is owed, and nobody else writes the links meanwhile.                *)
(***************************************************************************)
Marks == {"mark", "replayMark"}
Marking(u) == \/ at = "mark" /\ u = Oldest(batch)
              \/ at = "replayMark" /\ u = Oldest(todo)
Linked(u) == IF Marking(u) THEN Len(msgs) ELSE link[u]
Needs(u) == Linked(u) = 0 \/ msgs[Linked(u)].status = "failed"
LiveMsgs(u) == {i \in DOMAIN msgs : msgs[i].update = u /\ msgs[i].status # "failed"}

Counted ==
  \A u \in Updates :
    /\ \A i \in {link[u], Linked(u)} : i # 0 => msgs[i].update = u
    /\ Cardinality(LiveMsgs(u)) <= (IF Needs(u) THEN cut ELSE 1 + cut)

Owed ==
  /\ at \in {"replay", "replayMark"} => \A u \in todo : Marking(u) \/ Needs(u)
  /\ at = "handOff" => Needs(Oldest(batch))

OnceInv == IInv /\ Counted /\ Owed

\* what the proofs below need of the types
LEMMA OnceTyped ==
    ASSUME IInv
    PROVE  /\ Len(msgs) \in Nat /\ DOMAIN msgs = 1 .. Len(msgs) /\ cut \in Nat
           /\ \A i \in 1 .. Len(msgs) : msgs[i] \in Row(stored)
           /\ link \in [Updates -> 0 .. Len(msgs)] /\ stored \subseteq Updates /\ todo \subseteq Updates
           /\ (at \in {"mark", "handOff"} => Oldest(batch) \in Updates)
           /\ (todo # {} => Oldest(todo) \in todo)
  <1>1. last \in Nat /\ stored \subseteq Updates /\ todo \subseteq stored /\ todo \subseteq 1 .. last
    BY CoordinatorAssumption DEF inbox, IInv, CCTypeOK, Updates
  <1>2. todo # {} => Oldest(todo) \in todo
    BY <1>1, OldestIsIn
  <1>3. msgs \in Seq(Row(stored))
    BY DEF inbox, IInv, CCTypeOK, Row
  <1>4. at \in {"mark", "handOff"} => Oldest(batch) \in stored
    BY DEF IInv, Working
  <1>5. Len(msgs) \in Nat /\ DOMAIN msgs = 1 .. Len(msgs) /\ \A i \in 1 .. Len(msgs) : msgs[i] \in Row(stored)
    BY <1>3
  <1>6. cut \in Nat /\ link \in [Updates -> 0 .. Len(msgs)]
    BY DEF inbox, IInv, CCTypeOK
  <1> QED
    BY <1>1, <1>2, <1>4, <1>5, <1>6

LEMMA LiveFinite ==
    ASSUME IInv, NEW u
    PROVE  IsFiniteSet(LiveMsgs(u)) /\ Cardinality(LiveMsgs(u)) \in Nat
  <1>1. IsFiniteSet(1 .. Len(msgs))
    BY OnceTyped, FS_Interval
  <1>2. IsFiniteSet(LiveMsgs(u))
    BY <1>1, OnceTyped, FS_Subset DEF LiveMsgs
  <1> QED
    BY <1>2, FS_CardinalityType

\* steps that write no message and no link, and have none to write
LEMMA SameCount ==
    ASSUME Counted, UNCHANGED <<link, msgs, cut>>, at \notin Marks, at' \notin Marks
    PROVE  Counted' /\ \A u \in Updates : Needs(u)' = Needs(u)
  <1>1. \A u \in Updates : Linked(u)' = Linked(u) /\ LiveMsgs(u)' = LiveMsgs(u)
    BY DEF Linked, Marking, Marks, LiveMsgs
  <1>2. \A u \in Updates : Needs(u)' = Needs(u)
    BY <1>1 DEF Needs
  <1> QED
    BY <1>1, <1>2 DEF Counted

LEMMA Unmoved ==
    ASSUME OnceInv, IInv', UNCHANGED <<link, msgs, cut, at, batch, todo>>
    PROVE  OnceInv'
  <1>1. \A u : Linked(u)' = Linked(u) /\ LiveMsgs(u)' = LiveMsgs(u) /\ Marking(u)' = Marking(u)
    BY DEF Linked, Marking, LiveMsgs
  <1>2. \A u : Needs(u)' = Needs(u)
    BY <1>1 DEF Needs
  <1> QED
    BY <1>1, <1>2 DEF OnceInv, Counted, Owed

LEMMA Elsewhere ==
    ASSUME OnceInv, IInv', UNCHANGED <<link, msgs, cut>>, at \notin Marks,
           at' \notin {"replay", "replayMark", "handOff", "mark"}
    PROVE  OnceInv'
  BY SameCount DEF OnceInv, Owed, Marks

LEMMA ReconcileOnce == ASSUME OnceInv, IInv', Reconcile PROVE OnceInv'
  <1>1. at = "top" /\ at' = "replay" /\ todo' = NeedsHandoff /\ UNCHANGED <<link, msgs, cut>>
    BY DEF Reconcile, At, tables, history
  <1>2. Counted' /\ \A u \in Updates : Needs(u)' = Needs(u)
    BY <1>1, SameCount DEF OnceInv, Marks
  <1>3. \A u \in todo' : u \in Updates /\ Needs(u)
    BY <1>1, OnceTyped DEF NeedsHandoff, Needs, Linked, Marking, OnceInv
  <1> QED
    BY <1>1, <1>2, <1>3 DEF OnceInv, Owed

LEMMA StoreOnce == ASSUME OnceInv, IInv', Store PROVE OnceInv'
  <1>1. at = "store" /\ at' \in {"store", "handOff"} /\ UNCHANGED <<link, msgs, cut>>
    BY DEF Store, At, history
  <1>2. Counted' /\ \A u \in Updates : Needs(u)' = Needs(u)
    BY <1>1, SameCount DEF OnceInv, Marks
  <1>3. ASSUME at' = "handOff" PROVE Needs(Oldest(batch))'
    <2>1. Current \notin stored /\ batch' = batch
      BY <1>1, <1>3 DEF Store
    <2>2. Oldest(batch') \in Updates /\ Oldest(batch') = Current
      <3>1. Oldest(batch') = Current
        BY <2>1 DEF Current
      <3>2. Oldest(batch') \in stored' /\ stored' \subseteq 1 .. last' /\ last' \in 0 .. MaxUpdate
        BY <1>3 DEF IInv, Working, CCTypeOK
      <3>3. 1 .. last' \subseteq Updates
        BY <3>2, CoordinatorAssumption DEF Updates
      <3> QED
        BY <3>1, <3>2, <3>3
    <2>3. link[Current] = 0
      BY <1>1, <2>1, <2>2, OnceTyped DEF OnceInv, Counted, Linked, Marking, Row
    <2>4. Needs(Current)
      BY <1>1, <2>3 DEF Needs, Linked, Marking
    <2>5. PICK u \in Updates : u = Current
      BY <2>2
    <2>6. Needs(u)'
      BY <1>2, <2>4, <2>5
    <2> QED
      BY <2>2, <2>5, <2>6 DEF Needs, Linked, Marking
  <1> QED
    BY <1>1, <1>2, <1>3 DEF OnceInv, Owed

LEMMA HandOffFailsOnce == ASSUME OnceInv, IInv', HandOffFails PROVE OnceInv'
  <1>0. UNCHANGED <<link, msgs, cut>>
    BY DEF HandOffFails, tables, history
  <1>1. CASE at = "handOff" /\ at' = "store"
    BY <1>0, <1>1, Elsewhere DEF Marks
  <1>2. CASE at = "replay" /\ at' = "replay" /\ todo' \subseteq todo
    <2>1. Counted' /\ \A u \in Updates : Needs(u)' = Needs(u)
      BY <1>0, <1>2, SameCount DEF OnceInv, Marks
    <2>2. \A u \in todo : u \in Updates /\ Needs(u)
      BY <1>2, OnceTyped DEF OnceInv, Owed, Marking
    <2> QED
      BY <1>2, <2>1, <2>2 DEF OnceInv, Owed
  <1> QED
    BY <1>1, <1>2 DEF HandOffFails, At

\* the new message counts as linked at once
LEMMA HandOffCounts ==
    ASSUME OnceInv, NEW u \in Updates, Needs(u), HandOff(u), UNCHANGED cut, at \notin Marks,
           \A v \in Updates : Marking(v)' <=> v = u
    PROVE  Counted' /\ \A v \in Updates : v # u => Needs(v)' = Needs(v)
  <1>1. /\ msgs' = Append(msgs, [update |-> u, status |-> "pending"]) /\ link' = link
        /\ Len(msgs') = Len(msgs) + 1 /\ DOMAIN msgs' = 1 .. Len(msgs')
        /\ \A i \in 1 .. Len(msgs) : msgs'[i] = msgs[i]
        /\ msgs'[Len(msgs')] = [update |-> u, status |-> "pending"]
    <2>1. msgs \in Seq(Row(stored))
      BY DEF OnceInv, IInv, CCTypeOK, Row
    <2>2. msgs' = Append(msgs, [update |-> u, status |-> "pending"]) /\ link' = link
      BY DEF HandOff
    <2> QED
      BY <2>1, <2>2
  <1>2. \A v \in Updates : v # u => Linked(v)' = Linked(v) /\ LiveMsgs(v)' = LiveMsgs(v)
    BY <1>1, OnceTyped DEF OnceInv, Linked, Marking, Marks, LiveMsgs
  <1>3. \A v \in Updates : v # u => Needs(v)' = Needs(v) /\ (Linked(v) # 0 => msgs'[Linked(v)] = msgs[Linked(v)])
    BY <1>1, <1>2, OnceTyped DEF OnceInv, Needs, Linked, Marking, Marks
  <1>4. LiveMsgs(u)' = LiveMsgs(u) \cup {Len(msgs')} /\ Len(msgs') \notin LiveMsgs(u)
    BY <1>1, OnceTyped DEF OnceInv, LiveMsgs
  <1>5. Cardinality(LiveMsgs(u)') = Cardinality(LiveMsgs(u)) + 1
    BY <1>4, LiveFinite, FS_AddElement DEF OnceInv
  <1>6. Linked(u)' = Len(msgs') /\ ~Needs(u)' /\ msgs'[Linked(u)'].update = u
    BY <1>1, OnceTyped DEF OnceInv, Linked, Needs
  <1>7. Cardinality(LiveMsgs(u)) <= cut /\ cut \in Nat /\ Cardinality(LiveMsgs(u)) \in Nat
    BY LiveFinite, OnceTyped DEF OnceInv, Counted
  <1>8. ASSUME NEW v \in Updates
        PROVE  /\ \A i \in {link'[v], Linked(v)'} : i # 0 => msgs'[i].update = v
               /\ Cardinality(LiveMsgs(v)') <= (IF Needs(v)' THEN cut ELSE 1 + cut)
    <2>0. link'[v] # 0 => msgs'[link'[v]].update = v
      BY <1>1, OnceTyped DEF OnceInv, Counted
    <2>1. CASE v = u
      BY <1>5, <1>6, <1>7, <2>0, <2>1
    <2>2. CASE v # u
      BY <1>2, <1>3, <2>0, <2>2 DEF OnceInv, Counted
    <2> QED
      BY <2>1, <2>2
  <1> QED
    BY <1>3, <1>8 DEF Counted

LEMMA ReplayHandsOffOnce == ASSUME OnceInv, IInv', ReplayHandsOff PROVE OnceInv'
  <1>1. at = "replay" /\ at' = "replayMark" /\ todo # {} /\ HandOff(Oldest(todo)) /\ UNCHANGED <<batch, todo, cut>>
    BY DEF ReplayHandsOff, At, history
  <1>2. PICK u \in todo : u = Oldest(todo)
    BY <1>1, OnceTyped DEF OnceInv
  <1>3. u \in Updates /\ \A v \in todo : v \in Updates /\ Needs(v)
    BY <1>1, <1>2, OnceTyped DEF OnceInv, Owed, Marking
  <1>4. \A v : Marking(v)' <=> v = u
    BY <1>1, <1>2 DEF Marking
  <1>5. Counted' /\ \A v \in Updates : v # u => Needs(v)' = Needs(v)
    BY <1>1, <1>2, <1>3, <1>4, HandOffCounts DEF Marks
  <1> QED
    BY <1>1, <1>3, <1>4, <1>5 DEF OnceInv, Owed

LEMMA BatchHandsOffOnce == ASSUME OnceInv, IInv', BatchHandsOff PROVE OnceInv'
  <1>1. at = "handOff" /\ at' = "mark" /\ HandOff(Oldest(batch)) /\ UNCHANGED <<batch, cut>>
    BY DEF BatchHandsOff, At, history, Current
  <1>2. PICK u \in Updates : u = Oldest(batch)
    BY <1>1, OnceTyped DEF OnceInv
  <1>3. Needs(u)
    BY <1>1, <1>2 DEF OnceInv, Owed
  <1>4. \A v : Marking(v)' <=> v = u
    BY <1>1, <1>2 DEF Marking
  <1>5. Counted'
    BY <1>1, <1>2, <1>3, <1>4, HandOffCounts DEF Marks
  <1> QED
    BY <1>1, <1>5 DEF OnceInv, Owed

\* the link now says what counted already
LEMMA MarkCounts ==
    ASSUME OnceInv, NEW u \in Updates, Mark(u), UNCHANGED cut, \A v \in Updates : Marking(v) <=> v = u,
           at' \notin Marks
    PROVE  Counted' /\ \A v \in Updates : Needs(v)' = Needs(v)
  <1>1. link' = [link EXCEPT ![u] = Len(msgs)] /\ msgs' = msgs
    BY DEF Mark
  <1>2. \A v \in Updates : Linked(v)' = Linked(v) /\ LiveMsgs(v)' = LiveMsgs(v)
    BY <1>1, OnceTyped DEF OnceInv, Linked, Marking, Marks, LiveMsgs
  <1>3. \A v \in Updates : Needs(v)' = Needs(v)
    BY <1>1, <1>2 DEF Needs
  <1>4. \A v \in Updates : link'[v] \in {link[v], Linked(v)}
    BY <1>1, OnceTyped DEF OnceInv, Linked
  <1> QED
    BY <1>1, <1>2, <1>3, <1>4 DEF OnceInv, Counted

LEMMA ReplayMarksOnce == ASSUME OnceInv, IInv', ReplayMarks PROVE OnceInv'
  <1>1. at = "replayMark" /\ at' = "replay" /\ todo' = todo \ {Oldest(todo)} /\ Mark(Oldest(todo)) /\ UNCHANGED cut
    BY DEF ReplayMarks, At, history
  <1>2. PICK u \in Updates : u = Oldest(todo)
    BY <1>1, OnceTyped DEF OnceInv, IInv, Working
  <1>3. \A v : Marking(v) <=> v = u
    BY <1>1, <1>2 DEF Marking
  <1>4. Counted' /\ \A v \in Updates : Needs(v)' = Needs(v)
    BY <1>1, <1>2, <1>3, MarkCounts DEF Marks
  <1>5. \A v \in todo' : v \in Updates /\ Needs(v)
    BY <1>1, <1>2, <1>3, OnceTyped DEF OnceInv, Owed
  <1> QED
    BY <1>1, <1>4, <1>5 DEF OnceInv, Owed

LEMMA BatchMarksOnce == ASSUME OnceInv, IInv', BatchMarks PROVE OnceInv'
  <1>1. at = "mark" /\ at' = "store" /\ Mark(Oldest(batch)) /\ UNCHANGED cut
    BY DEF BatchMarks, At, history, Current
  <1>2. PICK u \in Updates : u = Oldest(batch)
    BY <1>1, OnceTyped DEF OnceInv
  <1>3. \A v : Marking(v) <=> v = u
    BY <1>1, <1>2 DEF Marking
  <1>4. Counted'
    BY <1>1, <1>2, <1>3, MarkCounts DEF Marks
  <1> QED
    BY <1>1, <1>4 DEF OnceInv, Owed

\* the message stays without its link, and "cut" counts it
LEMMA CutCounts ==
    ASSUME OnceInv, NEW u \in Updates, \A v \in Updates : Marking(v) <=> v = u,
           at' \notin Marks, cut' = cut + 1, UNCHANGED <<link, msgs>>
    PROVE  Counted' /\ \A v \in Updates : v # u => Needs(v)' = Needs(v)
  <1>1. \A v \in Updates : LiveMsgs(v)' = LiveMsgs(v) /\ (v # u => Linked(v)' = Linked(v))
    BY DEF Linked, Marking, Marks, LiveMsgs
  <1>2. \A v \in Updates : v # u => Needs(v)' = Needs(v)
    BY <1>1 DEF Needs
  <1>3. \A v \in Updates : Cardinality(LiveMsgs(v)) <= 1 + cut /\ Cardinality(LiveMsgs(v)) \in Nat /\ cut \in Nat
    BY LiveFinite, OnceTyped DEF OnceInv, Counted
  <1>4. \A v \in Updates : Cardinality(LiveMsgs(v)') <= (IF Needs(v)' THEN cut' ELSE 1 + cut')
    BY <1>1, <1>3
  <1>5. \A v \in Updates : Linked(v)' = link[v]
    BY DEF Linked, Marking, Marks
  <1> QED
    BY <1>2, <1>4, <1>5 DEF OnceInv, Counted

LEMMA MarkFailsOnce == ASSUME OnceInv, IInv', MarkFails PROVE OnceInv'
  <1>1. cut' = cut + 1 /\ UNCHANGED <<link, msgs>>
    BY DEF MarkFails, tables
  <1>2. CASE At("mark")
    <2>1. at = "mark" /\ at' = "store"
      BY <1>2 DEF MarkFails, At
    <2>2. PICK u \in Updates : u = Oldest(batch)
      BY <2>1, OnceTyped DEF OnceInv
    <2>3. \A v : Marking(v) <=> v = u
      BY <2>1, <2>2 DEF Marking
    <2> QED
      BY <1>1, <2>1, <2>3, CutCounts DEF Marks, OnceInv, Owed
  <1>3. CASE At("replayMark")
    <2>1. at = "replayMark" /\ at' = "replay" /\ todo' = todo \ {Oldest(todo)}
      BY <1>3 DEF MarkFails, At
    <2>2. PICK u \in Updates : u = Oldest(todo)
      BY <2>1, OnceTyped DEF OnceInv, IInv, Working
    <2>3. \A v : Marking(v) <=> v = u
      BY <2>1, <2>2 DEF Marking
    <2>4. Counted' /\ \A v \in Updates : v # u => Needs(v)' = Needs(v)
      BY <1>1, <2>1, <2>3, CutCounts DEF Marks
    <2>5. \A v \in todo' : v # u /\ v \in Updates /\ Needs(v)
      BY <2>1, <2>2, <2>3, OnceTyped DEF OnceInv, Owed
    <2> QED
      BY <2>1, <2>4, <2>5 DEF OnceInv, Owed
  <1> QED
    BY <1>2, <1>3 DEF MarkFails

LEMMA CrashOnce == ASSUME OnceInv, IInv', Crash PROVE OnceInv'
  <1>1. at' = "top" /\ UNCHANGED <<link, msgs>> /\ cut' = IF at \in Marks THEN cut + 1 ELSE cut
    BY DEF Crash, tables, Marks
  <1>2. CASE at \notin Marks
    BY <1>1, <1>2, Elsewhere
  <1>3. CASE at \in Marks
    <2>1. PICK u \in Updates : u = IF at = "mark" THEN Oldest(batch) ELSE Oldest(todo)
      BY <1>3, OnceTyped DEF OnceInv, IInv, Working, Marks
    <2>2. \A v : Marking(v) <=> v = u
      BY <1>3, <2>1 DEF Marking, Marks
    <2>3. Counted'
      BY <1>1, <1>3, <2>2, CutCounts DEF Marks
    <2> QED
      BY <1>1, <2>3 DEF OnceInv, Owed
  <1> QED
    BY <1>2, <1>3

\* a message that fails no longer counts, and its update is owed again
LEMMA PutOnce ==
    ASSUME OnceInv, IInv', NEW i \in DOMAIN msgs, PutDone(i) \/ PutFailed(i)
    PROVE  OnceInv'
  <1>1. PICK s \in {"delivered", "failed"} : msgs' = [msgs EXCEPT ![i].status = s]
    BY DEF PutDone, PutFailed
  <1>2. UNCHANGED <<link, cut, at, batch, todo>> /\ msgs[i].status # "failed"
    BY DEF PutDone, PutFailed, loop, history
  <1>3. /\ Len(msgs') = Len(msgs) /\ DOMAIN msgs' = DOMAIN msgs
        /\ \A j \in DOMAIN msgs : j # i => msgs'[j] = msgs[j]
        /\ msgs'[i].status = s /\ msgs'[i].update = msgs[i].update
    <2>1. msgs \in Seq(Row(stored)) /\ msgs[i] \in Row(stored)
      BY OnceTyped DEF OnceInv, IInv, CCTypeOK, Row
    <2> QED
      BY <1>1, <2>1 DEF Row
  <1>4. \A u : Linked(u)' = Linked(u) /\ Marking(u)' = Marking(u)
    BY <1>2, <1>3 DEF Linked, Marking
  <1>5. \A u \in Updates : Linked(u) \in 0 .. Len(msgs) /\ link[u] \in 0 .. Len(msgs)
    BY OnceTyped DEF OnceInv, Linked
  <1>6. \A u \in Updates : Needs(u) => Needs(u)'
    BY <1>2, <1>3, <1>4, <1>5, OnceTyped DEF OnceInv, Needs
  <1>7. ASSUME NEW u \in Updates
        PROVE  Cardinality(LiveMsgs(u)') <= (IF Needs(u)' THEN cut ELSE 1 + cut)
    <2>0. IsFiniteSet(LiveMsgs(u)) /\ Cardinality(LiveMsgs(u)) \in Nat /\ cut \in Nat
          /\ Cardinality(LiveMsgs(u)) <= (IF Needs(u) THEN cut ELSE 1 + cut)
      BY LiveFinite, OnceTyped DEF OnceInv, Counted
    <2>1. LiveMsgs(u)' \subseteq LiveMsgs(u)
      BY <1>2, <1>3 DEF LiveMsgs
    <2>2. Cardinality(LiveMsgs(u)') <= Cardinality(LiveMsgs(u)) /\ Cardinality(LiveMsgs(u)') \in Nat
      BY <2>0, <2>1, FS_Subset, FS_CardinalityType
    <2>3. CASE Needs(u)' = Needs(u)
      BY <2>0, <2>2, <2>3
    <2>4. CASE Needs(u)' # Needs(u)
      <3>1. Needs(u)' /\ ~Needs(u) /\ Linked(u) = i
        BY <1>3, <1>4, <1>5, <1>6, <2>4, OnceTyped DEF OnceInv, Needs
      <3>2. msgs[i].update = u /\ s = "failed"
        BY <1>3, <1>4, <1>5, <3>1, OnceTyped DEF OnceInv, Counted, Needs
      <3>3. i \in LiveMsgs(u) /\ LiveMsgs(u)' = LiveMsgs(u) \ {i}
        BY <1>2, <1>3, <3>2 DEF LiveMsgs
      <3>4. Cardinality(LiveMsgs(u)') = Cardinality(LiveMsgs(u)) - 1
        BY <2>0, <3>3, FS_RemoveElement
      <3> QED
        BY <2>0, <3>1, <3>4
    <2> QED
      BY <2>3, <2>4
  <1>8. Counted'
    <2>1. \A u \in Updates : \A j \in {link[u], Linked(u)} : j # 0 => msgs'[j].update = u
      BY <1>3, <1>5, OnceTyped DEF OnceInv, Counted
    <2> QED
      BY <1>2, <1>4, <1>7, <2>1 DEF Counted
  <1>9. Owed'
    <2>1. at = "handOff" => Oldest(batch) \in Updates
      BY OnceTyped DEF OnceInv
    <2>2. todo \subseteq Updates
      BY OnceTyped DEF OnceInv
    <2> QED
      BY <1>2, <1>4, <1>6, <2>1, <2>2 DEF OnceInv, Owed
  <1> QED
    BY <1>8, <1>9 DEF OnceInv

\* a claim makes no message fail and none of those that failed live
LEMMA ClaimOnce == ASSUME OnceInv, IInv', NEW n \in DOMAIN msgs, Claim(n) PROVE OnceInv'
  <1>1. UNCHANGED <<link, cut, at, batch, todo>>
    BY DEF Claim, loop
  <1>2. /\ Len(msgs') = Len(msgs) /\ DOMAIN msgs' = DOMAIN msgs
        /\ \A k \in DOMAIN msgs : /\ msgs'[k].update = msgs[k].update
                                  /\ (msgs'[k].status = "failed") <=> (msgs[k].status = "failed")
    BY ClaimRows DEF OnceInv, IInv, CCTypeOK, Row
  <1>3. \A u : Linked(u)' = Linked(u) /\ Marking(u)' = Marking(u)
    BY <1>1, <1>2 DEF Linked, Marking
  <1>4. \A u : LiveMsgs(u)' = LiveMsgs(u)
    BY <1>2 DEF LiveMsgs
  <1>5. \A u \in Updates : Linked(u) \in 0 .. Len(msgs) /\ link[u] \in 0 .. Len(msgs)
    BY OnceTyped DEF OnceInv, Linked
  <1>6. \A u \in Updates : Needs(u)' <=> Needs(u)
    BY <1>2, <1>3, <1>5, OnceTyped DEF OnceInv, Needs
  <1>7. ASSUME NEW u \in Updates
        PROVE  /\ \A k \in {link[u], Linked(u)} : k # 0 => msgs'[k].update = u
               /\ Cardinality(LiveMsgs(u)') <= (IF Needs(u)' THEN cut ELSE 1 + cut)
    <2>1. \A k \in {link[u], Linked(u)} : k # 0 => msgs'[k].update = u
      BY <1>2, <1>5, OnceTyped DEF OnceInv, Counted
    <2>2. Cardinality(LiveMsgs(u)) <= (IF Needs(u) THEN cut ELSE 1 + cut)
      BY DEF OnceInv, Counted
    <2> QED
      BY <1>4, <1>6, <2>1, <2>2
  <1>8. Counted'
    BY <1>1, <1>3, <1>7 DEF Counted
  <1>9. Owed'
    <2>1. (at = "handOff" => Oldest(batch) \in Updates) /\ todo \subseteq Updates
      BY OnceTyped DEF OnceInv
    <2> QED
      BY <1>1, <1>3, <1>6, <2>1 DEF OnceInv, Owed
  <1> QED
    BY <1>8, <1>9 DEF OnceInv

LEMMA NextOnce == ASSUME OnceInv, [CCNext]_ccVars PROVE OnceInv'
  <1>1. IInv'
    BY NextInv DEF OnceInv
  <1>2. CASE \/ UserSends \/ NativeFlips \/ NativeDelivers \/ NativeConfirms \/ CooldownEnds \/ Restart
             \/ UNCHANGED ccVars
    <2>1. UNCHANGED <<link, msgs, cut, at, batch, todo>>
      BY <1>2 DEF UserSends, NativeFlips, NativeDelivers, NativeConfirms, CooldownEnds, Restart,
                  ccVars, loop, tables, history
    <2> QED
      BY <1>1, <2>1, Unmoved
  <1>3. CASE \/ \E down \in BOOLEAN : IdleTick(down) \/ ProbeBeforePoll(down) \/ ProbeBeforeHandOff(down)
             \/ ReplayDone \/ Seed \/ SeedConflict \/ Poll \/ PollConflict \/ CallFails \/ StoreFails \/ Advance
    <2>1. UNCHANGED <<link, msgs, cut>> /\ at \notin Marks
      BY <1>3 DEF ReplayDone, IdleTick, ProbeBeforePoll, ProbeBeforeHandOff, Seed, SeedConflict, Poll,
                  PollConflict, CallFails, StoreFails, Advance, At, Marks, tables, history
    <2>2. at' \notin {"replay", "replayMark", "handOff", "mark"}
      BY <1>3 DEF ReplayDone, IdleTick, ProbeBeforePoll, ProbeBeforeHandOff, Seed, SeedConflict, Poll,
                  PollConflict, CallFails, StoreFails, Advance, At, Yield, OnceInv, IInv, CCTypeOK
    <2> QED
      BY <1>1, <2>1, <2>2, Elsewhere
  <1> QED
    BY <1>1, <1>2, <1>3, ReconcileOnce, StoreOnce, HandOffFailsOnce, ReplayHandsOffOnce, BatchHandsOffOnce,
       ReplayMarksOnce, BatchMarksOnce, MarkFailsOnce, CrashOnce, PutOnce, ClaimOnce
    DEF Drain, DrainLost, CCNext, Round, MainReads, Faults

(***************************************************************************)
(* Through any number of crashes and errors an update has no second        *)
(* message that did not fail, but for those whose link was cut.            *)
(***************************************************************************)
THEOREM OnceHandedOff == CCSpec => []HandedOffOnce
  <1>1. CCInit => OnceInv
    <2> SUFFICES ASSUME CCInit PROVE OnceInv
      OBVIOUS
    <2>1. \A u : LiveMsgs(u) = {}
      BY DEF CCInit, LiveMsgs
    <2>2. Counted
      BY <2>1, FS_EmptySet DEF CCInit, Counted, Linked, Marking, Needs
    <2> QED
      BY <2>2, InitInv DEF CCInit, OnceInv, Owed
  <1>2. OnceInv => HandedOffOnce
    <2> SUFFICES ASSUME OnceInv, NEW u \in stored PROVE Cardinality(LiveMsgs(u)) <= 1 + cut
      BY DEF HandedOffOnce, LiveMsgs
    <2>1. u \in Updates /\ cut \in Nat /\ Cardinality(LiveMsgs(u)) \in Nat
      BY OnceTyped, LiveFinite DEF OnceInv
    <2> QED
      BY <2>1 DEF OnceInv, Counted
  <1> QED
    BY <1>1, <1>2, NextOnce, PTL DEF CCSpec
=============================================================================
