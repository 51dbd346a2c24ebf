----------------------- MODULE SessionSendLockProofs -----------------------
(* Theorems about SessionSendLock, for any number of callers. *)
EXTENDS SessionSendLock, TLAPS

(***************************************************************************)
(* Queues without repetition.                                              *)
(***************************************************************************)
In(s, x)     == \E i \in DOMAIN s : s[i] = x
Distinct(s)  == \A i, j \in DOMAIN s : s[i] = s[j] => i = j

LEMMA WithoutQueue ==
    ASSUME NEW S, NEW s \in Seq(S), Distinct(s), NEW i \in DOMAIN s
    PROVE  /\ Without(s, i) \in Seq(S)
           /\ Distinct(Without(s, i))
           /\ \A x : In(Without(s, i), x) <=> In(s, x) /\ x # s[i]
  <1>1. Len(s) \in Nat \ {0} /\ DOMAIN s = 1 .. Len(s) /\ i \in 1 .. Len(s)
    OBVIOUS
  <1>2. Without(s, i) \in [1 .. Len(s) - 1 -> S]
    BY <1>1 DEF Without
  <1>3. Len(s) - 1 \in Nat /\ Without(s, i) \in Seq(S) /\ DOMAIN Without(s, i) = 1 .. Len(s) - 1
    BY <1>1, <1>2
  <1>4. Distinct(Without(s, i))
    BY <1>1, <1>3 DEF Distinct, Without
  <1>5. ASSUME NEW x
        PROVE  In(Without(s, i), x) <=> In(s, x) /\ x # s[i]
    <2>1. ASSUME In(Without(s, i), x)
          PROVE  In(s, x) /\ x # s[i]
      BY <1>1, <1>3, <2>1 DEF In, Without, Distinct
    <2>2. ASSUME In(s, x), x # s[i]
          PROVE  In(Without(s, i), x)
      <3>1. PICK k \in DOMAIN s : s[k] = x
        BY <2>2 DEF In
      <3>2. CASE k < i
        BY <1>1, <1>3, <3>1, <3>2 DEF In, Without
      <3>3. CASE k > i
        <4>1. k - 1 \in 1 .. Len(s) - 1 /\ Without(s, i)[k - 1] = x
          BY <1>1, <3>1, <3>3 DEF Without
        <4> QED
          BY <1>3, <4>1 DEF In
      <3> QED
        BY <1>1, <2>2, <3>1, <3>2, <3>3
    <2> QED
      BY <2>1, <2>2
  <1> QED
    BY <1>3, <1>4, <1>5

LEMMA TailQueue ==
    ASSUME NEW S, NEW s \in Seq(S), Distinct(s), s # <<>>
    PROVE  /\ Tail(s) \in Seq(S) /\ Head(s) \in S /\ In(s, Head(s))
           /\ Distinct(Tail(s))
           /\ \A x : In(Tail(s), x) <=> In(s, x) /\ x # Head(s)
  <1>1. /\ Len(s) \in Nat \ {0} /\ DOMAIN s = 1 .. Len(s) /\ Head(s) = s[1]
        /\ DOMAIN Tail(s) = 1 .. Len(s) - 1
        /\ \A k \in 1 .. Len(s) - 1 : Tail(s)[k] = s[k + 1]
    OBVIOUS
  <1>2. Tail(s) \in Seq(S) /\ Head(s) \in S /\ In(s, Head(s))
    BY <1>1 DEF In
  <1>3. Distinct(Tail(s))
    BY <1>1 DEF Distinct
  <1>4. ASSUME NEW x
        PROVE  In(Tail(s), x) <=> In(s, x) /\ x # Head(s)
    <2>1. ASSUME In(Tail(s), x)
          PROVE  In(s, x) /\ x # Head(s)
      BY <1>1, <2>1 DEF In, Distinct
    <2>2. ASSUME In(s, x), x # Head(s)
          PROVE  In(Tail(s), x)
      <3>1. PICK k \in DOMAIN s : s[k] = x
        BY <2>2 DEF In
      <3>2. k - 1 \in 1 .. Len(s) - 1 /\ Tail(s)[k - 1] = x
        BY <1>1, <2>2, <3>1
      <3> QED
        BY <1>1, <3>2 DEF In
    <2> QED
      BY <2>1, <2>2
  <1> QED
    BY <1>2, <1>3, <1>4

LEMMA LongerQueue ==
    ASSUME NEW S, NEW s \in Seq(S), Distinct(s), NEW c \in S, ~In(s, c)
    PROVE  /\ Append(s, c) \in Seq(S) /\ Append(s, c) # <<>>
           /\ Distinct(Append(s, c))
           /\ \A x : In(Append(s, c), x) <=> In(s, x) \/ x = c
  <1>1. /\ DOMAIN Append(s, c) = 1 .. Len(s) + 1 /\ Len(s) \in Nat /\ DOMAIN s = 1 .. Len(s)
        /\ \A k \in 1 .. Len(s) : Append(s, c)[k] = s[k]
        /\ Append(s, c)[Len(s) + 1] = c
    OBVIOUS
  <1>2. Distinct(Append(s, c))
    BY <1>1 DEF Distinct, In
  <1>3. ASSUME NEW x
        PROVE  In(Append(s, c), x) <=> In(s, x) \/ x = c
    BY <1>1 DEF In
  <1> QED
    BY <1>1, <1>2, <1>3

(***************************************************************************)
(* The inductive invariant.                                                *)
(***************************************************************************)
LockInv ==
    /\ TypeOK /\ SoleOwner /\ QueueIsWaiters
    /\ busy <=> Owners # {}
    /\ queue # <<>> => busy

LEMMA Types == TypeOK /\ [Next]_vars => TypeOK'
  <1> SUFFICES ASSUME TypeOK, [Next]_vars PROVE TypeOK'
    OBVIOUS
  <1> USE DEF TypeOK, Goto, Caller, Place
  <1>h. handOff => busy' \in BOOLEAN /\ queue' \in Seq(Sender) /\ acquired' \in [Caller -> BOOLEAN]
    <2>1. queue # <<>> => Tail(queue) \in Seq(Sender)
      OBVIOUS
    <2>2. [acquired EXCEPT ![Head(queue)] = TRUE] \in [Caller -> BOOLEAN]
      OBVIOUS
    <2> QED
      BY <2>1, <2>2 DEF handOff
  <1>1. ASSUME NEW c \in Sender, SendPrompt(c)
        PROVE  TypeOK'
    BY <1>1 DEF SendPrompt, Take
  <1>2. ASSUME NEW c \in Caller,
               ModalsDismissed(c) \/ Emitted(c) \/ Healed(c)
        PROVE  TypeOK'
    BY <1>2, <1>h DEF ModalsDismissed, Emitted, Healed, Release
  <1>3. ASSUME NEW c \in Sender, AbortBusy(c) \/ BudgetElapses(c) \/ Granted(c) \/ EmittedOpen(c)
        PROVE  TypeOK'
    BY <1>3 DEF AbortBusy, BudgetElapses, Granted, EmittedOpen
  <1>4. ASSUME NEW c \in Sender, Deliver(c)
        PROVE  TypeOK'
    <2>1. CASE Take(c, "emit")
      BY <2>1 DEF Take
    <2>2. CASE queue' = Append(queue, c)
      <3>1. queue' \in Seq(Sender)
        BY <2>2
      <3>2. CASE ~Take(c, "emit")
        BY <1>4, <3>1, <3>2 DEF Deliver
      <3> QED
        BY <2>1, <3>2
    <2> QED
      BY <1>4, <2>1, <2>2 DEF Deliver
  <1>5. ASSUME NEW c \in Sender, FailOpen(c)
        PROVE  TypeOK'
    <2>1. PICK i \in DOMAIN queue : queue' = Without(queue, i)
      BY <1>5 DEF FailOpen
    <2>2. Len(queue) - 1 \in Nat /\ Without(queue, i) \in [1 .. Len(queue) - 1 -> Sender]
      BY DEF Without
    <2> QED
      BY <1>5, <2>1, <2>2 DEF FailOpen
  <1>6. ASSUME NEW c \in Healer, Recover(c)
        PROVE  TypeOK'
    BY <1>6 DEF Recover, Take
  <1>7. CASE UNCHANGED vars
    BY <1>7 DEF vars
  <1> QED
    BY <1>1, <1>2, <1>3, <1>4, <1>5, <1>6, <1>7 DEF Next

\* How a step changes who owns the lane, who waits and who writes without it.
Outside == {c \in Caller : pc[c] = "open"}

TakesLane(c)  == /\ Owners = {} /\ Owners' = {c} /\ ~busy /\ busy'
                 /\ UNCHANGED <<queue, Outside>>

PassesLane(c) == /\ Owners = {c}
                 /\ IF queue = <<>>
                    THEN Owners' = {} /\ ~busy' /\ UNCHANGED queue
                    ELSE Owners' = {Head(queue)} /\ queue' = Tail(queue) /\ busy'
                 /\ UNCHANGED Outside

JoinsQueue(c) == /\ busy /\ ~In(queue, c) /\ c \notin Owners
                 /\ queue' = Append(queue, c)
                 /\ UNCHANGED <<Owners, busy, Outside>>

LeavesQueue(c) == /\ \E i \in DOMAIN queue : queue[i] = c /\ queue' = Without(queue, i)
                  /\ Outside' = Outside \cup {c}
                  /\ UNCHANGED <<Owners, busy>>

LeavesOutside(c) == Outside' = Outside \ {c} /\ UNCHANGED <<Owners, busy, queue>>

LEMMA TakeStep ==
    ASSUME LockInv, NEW c \in Caller, NEW place \in {"dismiss", "emit", "heal"},
           pc[c] \in {"out", "settle"}, Take(c, place)
    PROVE  TakesLane(c)
  <1>1. Owners = {}
    BY DEF LockInv, Take
  <1>2. Owners' = {c}
    BY <1>1 DEF LockInv, TypeOK, Take, Goto, Owners
  <1>3. Outside' = Outside
    BY DEF LockInv, TypeOK, Take, Goto, Outside
  <1> QED
    BY <1>1, <1>2, <1>3 DEF TakesLane, Take

LEMMA ReleaseStep ==
    ASSUME LockInv, NEW c \in Caller, NEW place \in {"out", "settle"},
           pc[c] \in {"dismiss", "emit", "heal"}, Release(c, place)
    PROVE  PassesLane(c)
  <1> USE DEF LockInv, TypeOK
  <1>1. Owners = {c}
    BY DEF Owners, SoleOwner
  <1>2. Outside' = Outside
    BY DEF Release, Goto, Outside
  <1>3. CASE queue = <<>>
    BY <1>1, <1>2, <1>3 DEF Release, handOff, Goto, Owners, PassesLane
  <1>4. CASE queue # <<>>
    <2> DEFINE d == Head(queue)
    <2>1. d \in Caller /\ In(queue, d)
      BY <1>4, TailQueue DEF QueueIsWaiters, Distinct, Caller
    <2>2. pc[d] = "queued"
      BY <2>1 DEF QueueIsWaiters, In
    <2>3. /\ pc' = [pc EXCEPT ![c] = place] /\ acquired' = [acquired EXCEPT ![d] = TRUE]
          /\ queue' = Tail(queue) /\ busy' = busy
      BY <1>4 DEF Release, handOff, Goto
    <2>4. busy
      BY <1>4
    <2> HIDE DEF d
    <2>5. Owners' = {d}
      BY <1>1, <2>1, <2>2, <2>3 DEF Owners
    <2> QED
      BY <1>1, <1>2, <1>4, <2>3, <2>4, <2>5 DEF PassesLane, d
  <1> QED
    BY <1>3, <1>4

LEMMA QueueStep ==
    ASSUME LockInv, NEW c \in Sender, Deliver(c), busy
    PROVE  JoinsQueue(c)
  <1> USE DEF LockInv, TypeOK
  <1>1. /\ pc' = [pc EXCEPT ![c] = "queued"] /\ acquired' = [acquired EXCEPT ![c] = FALSE]
        /\ queue' = Append(queue, c) /\ busy' = busy
    BY DEF Deliver, Take, Goto
  <1>2. pc[c] \in {"out", "settle"} /\ c \in Caller
    BY DEF Deliver, Caller
  <1>3. Owners' = Owners /\ Outside' = Outside /\ c \notin Owners
    BY <1>1, <1>2 DEF Owners, Outside
  <1>4. ~In(queue, c)
    BY <1>2 DEF QueueIsWaiters, In
  <1> QED
    BY <1>1, <1>3, <1>4 DEF JoinsQueue

LEMMA OpenStep ==
    ASSUME LockInv, NEW c \in Sender, FailOpen(c)
    PROVE  LeavesQueue(c)
  <1> USE DEF LockInv, TypeOK
  <1>1. /\ pc' = [pc EXCEPT ![c] = "open"] /\ c \in Caller
        /\ acquired' = acquired /\ busy' = busy /\ pc[c] = "queued" /\ ~acquired[c]
    BY DEF FailOpen, Goto, Caller
  <1>2. Owners' = Owners /\ Outside' = Outside \cup {c}
    BY <1>1 DEF Owners, Outside
  <1> QED
    BY <1>1, <1>2 DEF LeavesQueue, FailOpen

\* The steps that touch neither the lane nor the queue.
LEMMA QuietStep ==
    ASSUME LockInv, NEW c \in Sender,
           \/ AbortBusy(c) \/ BudgetElapses(c) \/ Granted(c)
           \/ SendPrompt(c) /\ busy
    PROVE  UNCHANGED <<Owners, busy, queue, Outside>>
  <1> USE DEF LockInv, TypeOK
  <1>1. UNCHANGED <<busy, queue, acquired>> /\ c \in Caller
    BY DEF AbortBusy, BudgetElapses, Granted, SendPrompt, Take, Caller
  <1>2. CASE BudgetElapses(c)
    BY <1>1, <1>2 DEF BudgetElapses, Owners, Outside
  <1>3. CASE AbortBusy(c)
    BY <1>1, <1>3 DEF AbortBusy, Goto, Owners, Outside
  <1>4. CASE Granted(c)
    BY <1>1, <1>4 DEF Granted, Goto, Owners, Outside
  <1>5. CASE SendPrompt(c) /\ busy
    BY <1>1, <1>5 DEF SendPrompt, Take, Goto, Owners, Outside
  <1> QED
    BY <1>2, <1>3, <1>4, <1>5

LEMMA LeaveOpenStep ==
    ASSUME LockInv, NEW c \in Sender, EmittedOpen(c)
    PROVE  LeavesOutside(c)
  <1> USE DEF LockInv, TypeOK
  <1>1. UNCHANGED <<busy, queue, acquired>> /\ pc' = [pc EXCEPT ![c] = "out"] /\ c \in Caller
    BY DEF EmittedOpen, Goto, Caller
  <1>2. pc[c] = "open"
    BY DEF EmittedOpen
  <1> QED
    BY <1>1, <1>2 DEF LeavesOutside, Owners, Outside

\* Every step is one of these.
LaneStep == \/ \E c \in Caller : TakesLane(c) \/ PassesLane(c) \/ JoinsQueue(c)
                                 \/ LeavesQueue(c) \/ LeavesOutside(c)
            \/ UNCHANGED <<Owners, busy, queue, Outside>>

LEMMA EveryLockStep ==
    ASSUME LockInv, [Next]_vars
    PROVE  LaneStep
  <1>1. ASSUME NEW c \in Sender, SendPrompt(c)
        PROVE  LaneStep
    <2>1. CASE busy
      BY <1>1, <2>1, QuietStep DEF LaneStep
    <2>2. CASE ~busy
      BY <1>1, <2>2, TakeStep DEF SendPrompt, LaneStep, Caller
    <2> QED
      BY <2>1, <2>2
  <1>2. ASSUME NEW c \in Sender, ModalsDismissed(c) \/ Emitted(c)
        PROVE  LaneStep
    BY <1>2, ReleaseStep DEF ModalsDismissed, Emitted, LaneStep, Caller
  <1>3. ASSUME NEW c \in Sender, Deliver(c)
        PROVE  LaneStep
    <2>1. CASE busy
      BY <1>3, <2>1, QueueStep DEF LaneStep, Caller
    <2>2. CASE ~busy
      BY <1>3, <2>2, TakeStep DEF Deliver, LaneStep, Caller
    <2> QED
      BY <2>1, <2>2
  <1>4. ASSUME NEW c \in Sender, AbortBusy(c) \/ BudgetElapses(c) \/ Granted(c)
        PROVE  LaneStep
    BY <1>4, QuietStep DEF LaneStep
  <1>5. ASSUME NEW c \in Sender, FailOpen(c)
        PROVE  LaneStep
    BY <1>5, OpenStep DEF LaneStep, Caller
  <1>6. ASSUME NEW c \in Sender, EmittedOpen(c)
        PROVE  LaneStep
    BY <1>6, LeaveOpenStep DEF LaneStep, Caller
  <1>7. ASSUME NEW c \in Healer, Recover(c) \/ Healed(c)
        PROVE  LaneStep
    BY <1>7, TakeStep, ReleaseStep DEF Recover, Healed, LaneStep, Caller
  <1>8. CASE UNCHANGED vars
    BY <1>8 DEF vars, LaneStep, Owners, Outside
  <1> QED
    BY <1>1, <1>2, <1>3, <1>4, <1>5, <1>6, <1>7, <1>8 DEF Next

\* Waits(c): c has not been granted the lane it queued for.
Waits(c) == pc[c] = "queued" /\ ~acquired[c]

QueueOK == Distinct(queue) /\ \A c \in Caller : In(queue, c) <=> Waits(c)

LEMMA QueueOKIsQueueIsWaiters == QueueOK <=> QueueIsWaiters
  BY DEF QueueOK, QueueIsWaiters, Distinct, In, Waits

LEMMA SameQueue ==
    ASSUME QueueOK, queue' = queue, \A c \in Caller : Waits(c)' <=> Waits(c)
    PROVE  QueueOK'
  BY DEF QueueOK, Distinct, In

LEMMA HandOffQueue ==
    ASSUME LockInv, QueueOK, NEW c \in Caller, NEW place \in {"out", "settle"},
           pc[c] \in {"dismiss", "emit", "heal"}, Release(c, place)
    PROVE  QueueOK'
  <1> USE DEF LockInv, TypeOK
  <1>1. CASE queue = <<>>
    BY <1>1, SameQueue DEF Release, handOff, Goto, Waits
  <1>2. CASE queue # <<>>
    <2> DEFINE d == Head(queue)
    <2>1. /\ In(queue, d) /\ d \in Caller /\ Distinct(Tail(queue))
          /\ \A x : In(Tail(queue), x) <=> In(queue, x) /\ x # d
      BY <1>2, TailQueue DEF QueueOK, Caller
    <2>2. /\ pc' = [pc EXCEPT ![c] = place] /\ acquired' = [acquired EXCEPT ![d] = TRUE]
          /\ queue' = Tail(queue)
      BY <1>2 DEF Release, handOff, Goto
    <2> HIDE DEF d
    <2>3. ASSUME NEW x \in Caller
          PROVE  In(queue', x) <=> Waits(x)'
      BY <2>1, <2>2 DEF QueueOK, Waits
    <2> QED
      BY <2>1, <2>2, <2>3 DEF QueueOK, Distinct, In
  <1> QED
    BY <1>1, <1>2

LEMMA DeliverQueue ==
    ASSUME LockInv, QueueOK, NEW c \in Sender, Deliver(c), busy
    PROVE  QueueOK'
  <1> USE DEF LockInv, TypeOK
  <1>1. /\ pc' = [pc EXCEPT ![c] = "queued"] /\ acquired' = [acquired EXCEPT ![c] = FALSE]
        /\ queue' = Append(queue, c)
    BY DEF Deliver, Take, Goto
  <1>2. ~In(queue, c) /\ c \in Caller
    BY QueueStep DEF JoinsQueue, Caller
  <1>3. Distinct(queue') /\ \A x : In(queue', x) <=> In(queue, x) \/ x = c
    BY <1>1, <1>2, LongerQueue DEF QueueOK
  <1>4. ASSUME NEW x \in Caller
        PROVE  In(queue', x) <=> Waits(x)'
    BY <1>1, <1>2, <1>3 DEF QueueOK, Waits
  <1> QED
    BY <1>3, <1>4 DEF QueueOK, Distinct, In

LEMMA FailOpenQueue ==
    ASSUME LockInv, QueueOK, NEW c \in Sender, FailOpen(c)
    PROVE  QueueOK'
  <1> USE DEF LockInv, TypeOK
  <1>1. PICK i \in DOMAIN queue : queue[i] = c /\ queue' = Without(queue, i)
    BY DEF FailOpen
  <1>2. Distinct(queue') /\ \A x : In(queue', x) <=> In(queue, x) /\ x # c
    BY <1>1, WithoutQueue DEF QueueOK
  <1>3. pc' = [pc EXCEPT ![c] = "open"] /\ acquired' = acquired /\ c \in Caller
    BY DEF FailOpen, Goto, Caller
  <1>4. ASSUME NEW x \in Caller
        PROVE  In(queue', x) <=> Waits(x)'
    BY <1>2, <1>3 DEF QueueOK, Waits
  <1> QED
    BY <1>2, <1>4 DEF QueueOK, Distinct, In

LEMMA QueueKept ==
    ASSUME LockInv, [Next]_vars
    PROVE  QueueIsWaiters'
  <1>q. QueueOK
    BY QueueOKIsQueueIsWaiters DEF LockInv
  <1> SUFFICES QueueOK'
    BY DEF QueueOK, QueueIsWaiters, Distinct, In, Waits
  <1>t. ASSUME NEW c \in Caller, NEW place \in {"dismiss", "emit", "heal"},
               pc[c] \in {"out", "settle"}, Take(c, place)
        PROVE  QueueOK'
    <2>1. \A x \in Caller : Waits(x)' <=> Waits(x)
      BY <1>t DEF LockInv, TypeOK, Take, Goto, Waits
    <2> QED
      BY <1>q, <1>t, <2>1, SameQueue DEF Take
  <1>1. ASSUME NEW c \in Sender, SendPrompt(c)
        PROVE  QueueOK'
    <2>1. CASE Take(c, "dismiss")
      BY <1>1, <1>t, <2>1 DEF SendPrompt, Caller
    <2>2. CASE ~Take(c, "dismiss")
      <3>1. UNCHANGED <<queue, acquired>> /\ pc' = [pc EXCEPT ![c] = "settle"] /\ pc[c] = "out"
        BY <1>1, <2>2 DEF SendPrompt, Goto
      <3>2. \A x \in Caller : Waits(x)' <=> Waits(x)
        BY <3>1 DEF LockInv, TypeOK, Waits
      <3> QED
        BY <1>q, <3>1, <3>2, SameQueue
    <2> QED
      BY <2>1, <2>2
  <1>2. ASSUME NEW c \in Sender, ModalsDismissed(c) \/ Emitted(c)
        PROVE  QueueOK'
    BY <1>2, <1>q, HandOffQueue DEF ModalsDismissed, Emitted, Caller
  <1>3. ASSUME NEW c \in Sender, Deliver(c)
        PROVE  QueueOK'
    <2>1. CASE busy
      BY <1>3, <1>q, <2>1, DeliverQueue
    <2>2. CASE ~busy
      BY <1>3, <1>t, <2>2 DEF Deliver, Caller
    <2> QED
      BY <2>1, <2>2
  <1>4. ASSUME NEW c \in Sender,
               AbortBusy(c) \/ BudgetElapses(c) \/ Granted(c) \/ EmittedOpen(c)
        PROVE  QueueOK'
    <2>1. UNCHANGED <<queue, acquired>>
      BY <1>4 DEF AbortBusy, BudgetElapses, Granted, EmittedOpen
    <2>2. \A x \in Caller : Waits(x)' <=> Waits(x)
      BY <1>4, <2>1 DEF AbortBusy, BudgetElapses, Granted, EmittedOpen, Goto, LockInv, TypeOK, Waits
    <2> QED
      BY <1>q, <2>1, <2>2, SameQueue
  <1>5. ASSUME NEW c \in Sender, FailOpen(c)
        PROVE  QueueOK'
    BY <1>5, <1>q, FailOpenQueue
  <1>6. ASSUME NEW c \in Healer, Recover(c)
        PROVE  QueueOK'
    BY <1>6, <1>t DEF Recover, Caller
  <1>7. ASSUME NEW c \in Healer, Healed(c)
        PROVE  QueueOK'
    BY <1>7, <1>q, HandOffQueue DEF Healed, Caller
  <1>8. CASE UNCHANGED vars
    BY <1>8, <1>q, SameQueue DEF vars, Waits
  <1> QED
    BY <1>1, <1>2, <1>3, <1>4, <1>5, <1>6, <1>7, <1>8 DEF Next

LEMMA LockStep == LockInv /\ [Next]_vars => LockInv'
  <1> SUFFICES ASSUME LockInv, [Next]_vars PROVE LockInv'
    OBVIOUS
  <1>1. TypeOK' /\ QueueIsWaiters'
    BY Types, QueueKept DEF LockInv
  <1>2. SoleOwner' /\ (busy' <=> Owners' # {}) /\ (queue' # <<>> => busy')
    <2> USE DEF LockInv, SoleOwner
    <2>1. ASSUME NEW c \in Caller, TakesLane(c) \/ PassesLane(c)
          PROVE  SoleOwner' /\ (busy' <=> Owners' # {}) /\ (queue' # <<>> => busy')
      BY <2>1 DEF TakesLane, PassesLane
    <2>2. ASSUME NEW c \in Caller, JoinsQueue(c)
          PROVE  SoleOwner' /\ (busy' <=> Owners' # {}) /\ (queue' # <<>> => busy')
      BY <2>2 DEF JoinsQueue
    <2>3. ASSUME NEW c \in Caller, LeavesQueue(c)
          PROVE  SoleOwner' /\ (busy' <=> Owners' # {}) /\ (queue' # <<>> => busy')
      <3>1. queue # <<>>
        BY <2>3 DEF LeavesQueue
      <3> QED
        BY <2>3, <3>1 DEF LeavesQueue
    <2>4. CASE UNCHANGED <<Owners, busy, queue>>
      BY <2>4
    <2> QED
      BY EveryLockStep, <2>1, <2>2, <2>3, <2>4 DEF LaneStep, LeavesOutside
  <1> QED
    BY <1>1, <1>2 DEF LockInv

LEMMA LockInvHolds == Spec => []LockInv
  <1>1. Init => LockInv
    <2> SUFFICES ASSUME Init PROVE LockInv
      OBVIOUS
    <2>1. TypeOK
      <3>1. queue \in Seq(Sender)
        BY DEF Init
      <3> QED
        BY <3>1 DEF Init, TypeOK, Place
    <2>2. Owners = {} /\ QueueIsWaiters
      BY DEF Init, Owners, QueueIsWaiters
    <2> QED
      BY <2>1, <2>2 DEF Init, LockInv, SoleOwner
  <1> QED
    BY <1>1, LockStep, PTL DEF Spec

\* At any time at most one caller owns the pane, whoever times out or fails.
THEOREM MutualExclusion == Spec => []SoleOwner
  BY LockInvHolds, PTL DEF LockInv

\* A busy lane always has an owner.
THEOREM NoPhantom == Spec => []NoPhantomHolder
  <1>1. LockInv => NoPhantomHolder
    BY DEF LockInv, NoPhantomHolder
  <1> QED
    BY <1>1, LockInvHolds, PTL

\* The queue holds exactly the waiters that are still to be granted the lane.
THEOREM NoLostWaiter == Spec => []QueueIsWaiters
  BY LockInvHolds, PTL DEF LockInv

\* The lock implements the abstract lane: owners map to the holder, the resolvers to the
\* line, deliveries that failed open to those outside.
THEOREM LockImplementsLane == Spec => KeepsLane
  <1>1. Init => Lane!Init
    BY DEF Init, Lane!Init, Owners
  <1>2. LockInv /\ [Next]_vars => [Lane!Next]_<<Owners, queue, {c \in Caller : pc[c] = "open"}>>
    <2> SUFFICES ASSUME LockInv, [Next]_vars
                 PROVE  Lane!Next \/ UNCHANGED <<Owners, queue, Outside>>
      BY DEF Outside
    <2>1. ASSUME NEW c \in Caller, TakesLane(c)
          PROVE  Lane!Next
      <3>1. Lane!Enter(c)
        BY <2>1 DEF LockInv, TakesLane, Outside, Lane!Enter
      <3> QED
        BY <3>1 DEF Lane!Next
    <2>2. ASSUME NEW c \in Caller, PassesLane(c)
          PROVE  Lane!Next
      <3>1. Lane!Leave(c)
        BY <2>2 DEF PassesLane, Outside, Lane!Leave
      <3> QED
        BY <3>1 DEF Lane!Next
    <2>3. ASSUME NEW c \in Caller, JoinsQueue(c)
          PROVE  Lane!Next
      <3>1. Lane!Join(c)
        BY <2>3 DEF LockInv, JoinsQueue, In, Outside, Lane!Join, Lane!Waiting
      <3> QED
        BY <3>1 DEF Lane!Next
    <2>4. ASSUME NEW c \in Caller, LeavesQueue(c)
          PROVE  Lane!Next
      <3>1. PICK i \in DOMAIN queue : queue[i] = c /\ queue' = Without(queue, i)
        BY <2>4 DEF LeavesQueue
      <3>2. Lane!GiveUp(i)
        BY <2>4, <3>1 DEF LeavesQueue, Outside, Lane!GiveUp, Lane!Without, Without
      <3> QED
        BY <3>2 DEF Lane!Next
    <2>5. ASSUME NEW c \in Caller, LeavesOutside(c)
          PROVE  Lane!Next
      <3>1. Lane!Finish(c)
        BY <2>5 DEF LeavesOutside, Outside, Lane!Finish
      <3> QED
        BY <3>1 DEF Lane!Next
    <2> QED
      BY EveryLockStep, <2>1, <2>2, <2>3, <2>4, <2>5 DEF LaneStep
  <1> QED
    BY <1>1, <1>2, LockInvHolds, PTL DEF Spec, KeepsLane, Lane!Spec
=============================================================================
