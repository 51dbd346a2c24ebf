-------------------------- MODULE SessionSendLock --------------------------
(***************************************************************************)
(* The per-pane send lock (src/web/session-send-lock.ts) with the callers  *)
(* that take it: sendPromptToSession (src/web/agent-process.ts), which     *)
(* dismisses modals under a try-acquire and then emits in deliver mode;    *)
(* dispatchers that only deliver; and healers that act in recover mode.    *)
(* One lane; lanes of different sessions share nothing.                    *)
(*                                                                         *)
(* An action is what runs between two awaits.  A grant by handOff, the     *)
(* firing of the budget timer and the continuation after the race are      *)
(* three different moments.                                                *)
(***************************************************************************)
EXTENDS Naturals, Sequences

CONSTANTS Sender,     \* callers of sendPromptToSession and of deliver mode
          Healer      \* callers of recover mode and of tryAcquireSessionSendLane

ASSUME LockAssumption == Sender \cap Healer = {}

Caller == Sender \cup Healer

VARIABLES
    busy,        \* lane.busy
    queue,       \* lane.queue, the waiters' resolvers
    pc,          \* where each caller stands
    acquired,    \* the waiter's resolver has been called
    timedOut     \* the waiter's budget has elapsed

vars == <<busy, queue, pc, acquired, timedOut>>

\* dismiss: pressing keys at a modal; settle: waiting for an idle pane; queued: in the
\* race of resolver and budget; emit: typing, with the lane; open: typing, without it;
\* heal: mutating the input box, with the lane.
Place == {"out", "dismiss", "settle", "queued", "emit", "open", "heal"}

Without(s, i) == [k \in 1 .. Len(s) - 1 |-> IF k < i THEN s[k] ELSE s[k + 1]]

Init ==
    /\ busy = FALSE /\ queue = <<>>
    /\ pc = [c \in Caller |-> "out"]
    /\ acquired = [c \in Caller |-> FALSE]
    /\ timedOut = [c \in Caller |-> FALSE]

Goto(c, place) == pc' = [pc EXCEPT ![c] = place]

\* A free lane is taken at once.
Take(c, place) ==
    /\ ~busy
    /\ busy' = TRUE
    /\ Goto(c, place)
    /\ UNCHANGED <<queue, acquired, timedOut>>

\* Mutant: the lane is marked free even when it is handed to a waiter.
handOff_freed ==
    IF queue = <<>>
    THEN busy' = FALSE /\ UNCHANGED <<queue, acquired>>
    ELSE /\ acquired' = [acquired EXCEPT ![Head(queue)] = TRUE]
         /\ queue' = Tail(queue)
         /\ busy' = FALSE

\* Mutant: the newest waiter is served first.
handOff_lifo ==
    IF queue = <<>>
    THEN busy' = FALSE /\ UNCHANGED <<queue, acquired>>
    ELSE /\ acquired' = [acquired EXCEPT ![queue[Len(queue)]] = TRUE]
         /\ queue' = Without(queue, Len(queue))
         /\ UNCHANGED busy

\* handOff: to the next waiter, or free.
handOff ==
    IF queue = <<>>
    THEN busy' = FALSE /\ UNCHANGED <<queue, acquired>>
    ELSE /\ acquired' = [acquired EXCEPT ![Head(queue)] = TRUE]
         /\ queue' = Tail(queue)
         /\ UNCHANGED busy

\* fn has returned or thrown: the finally block.
Release(c, place) == handOff /\ Goto(c, place) /\ UNCHANGED timedOut
----------------------------------------------------------------------------
(***************************************************************************)
(* sendPromptToSession.                                                    *)
(***************************************************************************)
\* Modals are dismissed under a try-acquire; on a busy lane that is skipped.
SendPrompt(c) ==
    /\ pc[c] = "out"
    /\ \/ Take(c, "dismiss")
       \/ busy /\ Goto(c, "settle") /\ UNCHANGED <<busy, queue, acquired, timedOut>>

ModalsDismissed(c) == pc[c] = "dismiss" /\ Release(c, "settle")

\* The pane stays busy past the idle budget and the caller asked to abort.
AbortBusy(c) == /\ pc[c] = "settle"
                /\ Goto(c, "out")
                /\ UNCHANGED <<busy, queue, acquired, timedOut>>

\* withSessionSendLock in deliver mode; a dispatcher calls it directly.
Deliver(c) ==
    /\ pc[c] \in {"out", "settle"}
    /\ \/ Take(c, "emit")
       \/ /\ busy
          /\ queue' = Append(queue, c)
          /\ Goto(c, "queued")
          /\ acquired' = [acquired EXCEPT ![c] = FALSE]
          /\ timedOut' = [timedOut EXCEPT ![c] = FALSE]
          /\ UNCHANGED busy

\* The wait budget elapses: the race is decided, its continuation is yet to run.
BudgetElapses(c) ==
    /\ pc[c] = "queued" /\ ~timedOut[c]
    /\ timedOut' = [timedOut EXCEPT ![c] = TRUE]
    /\ UNCHANGED <<busy, queue, pc, acquired>>

\* Mutant: the test of the grant is the wrong way round.
FailOpen_swapped(c) ==
    /\ pc[c] = "queued" /\ timedOut[c] /\ acquired[c]
    /\ Goto(c, "open")
    /\ UNCHANGED <<busy, queue, acquired, timedOut>>

\* The continuation finds the lane not granted: splice the resolver out, run without it.
FailOpen(c) ==
    /\ pc[c] = "queued" /\ timedOut[c] /\ ~acquired[c]
    /\ \E i \in DOMAIN queue : queue[i] = c /\ queue' = Without(queue, i)
    /\ Goto(c, "open")
    /\ UNCHANGED <<busy, acquired, timedOut>>

\* The continuation finds the lane granted, even if the timer won the race.
Granted(c) ==
    /\ pc[c] = "queued" /\ acquired[c]
    /\ Goto(c, "emit")
    /\ UNCHANGED <<busy, queue, acquired, timedOut>>

Emitted(c) == pc[c] = "emit" /\ Release(c, "out")

EmittedOpen(c) == /\ pc[c] = "open"
                  /\ Goto(c, "out")
                  /\ UNCHANGED <<busy, queue, acquired, timedOut>>
----------------------------------------------------------------------------
(***************************************************************************)
(* Recover mode, and the synchronous healers' tryAcquireSessionSendLane:   *)
(* on a busy lane the caller skips its round, which changes nothing.       *)
(***************************************************************************)
Recover(c) == pc[c] = "out" /\ Take(c, "heal")

Healed(c) == pc[c] = "heal" /\ Release(c, "out")

Next ==
    \/ \E c \in Sender :
          \/ SendPrompt(c) \/ ModalsDismissed(c) \/ AbortBusy(c) \/ Deliver(c)
          \/ BudgetElapses(c) \/ FailOpen(c) \/ Granted(c) \/ Emitted(c) \/ EmittedOpen(c)
    \/ \E c \in Healer : Recover(c) \/ Healed(c)

Spec == Init /\ [][Next]_vars

\* Timers fire and continuations run; a holder may be stuck for ever.
Fairness == \A c \in Sender : WF_vars(BudgetElapses(c)) /\ WF_vars(FailOpen(c)) /\ WF_vars(Granted(c))

FairSpec == Spec /\ Fairness
----------------------------------------------------------------------------
TypeOK ==
    /\ busy \in BOOLEAN
    /\ queue \in Seq(Sender)
    /\ pc \in [Caller -> Place]
    /\ acquired \in [Caller -> BOOLEAN]
    /\ timedOut \in [Caller -> BOOLEAN]

\* Those the lane belongs to: they type under it, or have been granted it.
Owners == {c \in Caller : \/ pc[c] \in {"dismiss", "emit", "heal"}
                          \/ pc[c] = "queued" /\ acquired[c]}

\* One writer at a time owns the pane: text is spliced into another writer's frame only
\* by a delivery that failed open.
SoleOwner == \A c, d \in Owners : c = d

\* A busy lane has an owner, who will release it: no phantom holder is left behind by a
\* waiter that failed open, whenever the grant and the budget crossed.
NoPhantomHolder == busy => Owners # {}

\* A waiter that has not been granted the lane stands in the queue, once, and nobody else
\* does: no wake-up is lost and none goes to a caller that has left.
QueueIsWaiters ==
    /\ \A i, j \in DOMAIN queue : queue[i] = queue[j] => i = j
    /\ \A c \in Caller : (\E i \in DOMAIN queue : queue[i] = c)
                         <=> pc[c] = "queued" /\ ~acquired[c]

\* The lane is what SendLane promises: served in order, never free while somebody waits.
Lane == INSTANCE SendLane WITH holder <- Owners, line <- queue,
                               outside <- {c \in Caller : pc[c] = "open"}
KeepsLane == Lane!Spec

\* A stuck holder never silences the others: a queued delivery is eventually written,
\* even if no holder ever releases the lane.  (session-send-lock.ts:93-96.)
DeliveryRuns == \A c \in Sender : pc[c] = "queued" ~> pc[c] \in {"emit", "open"}
=============================================================================
