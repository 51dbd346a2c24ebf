------------------------------ MODULE Approvals ------------------------------
(* Requests for approval: table approvals of db.ts and its routes             *)
(* (src/src/web/routes/approvals.ts).  A request is made by an agent, told to *)
(* the owner over Telegram and to the main agent in its queue, answered once, *)
(* or expired by a sweep that runs every minute of the dashboard's life.      *)
(*                                                                            *)
(* Time is counted in ticks, finer than the period of the sweep; a timer that *)
(* is due fires before time goes on.                                          *)
EXTENDS Integers

CONSTANTS
  Request,
  ByMain,      \* the requests the main agent makes itself
  MaxDelay,    \* bound on a request's time to answer
  SweepEvery,  \* ticks between two sweeps
  MaxOutages   \* bound on crashes and on sweeps that fail
ASSUME ApprovalsAssumption ==
  ByMain \subseteq Request /\ MaxDelay \in Nat \ {0} /\ SweepEvery \in Nat \ {0} /\ MaxOutages \in Nat

VARIABLES
  status,   \* the request's row
  left,     \* ticks to its timeout_at, negative once that has passed
  notice,   \* how far its creation has come: "inserted", "sending", "over", "lost" in a crash
  owner,    \* the requests Telegram has taken for the owner
  main,     \* the requests put into the main agent's queue
  unsaid,   \* the requests a message for that queue could not be written of
  running,  \* the dashboard's process
  sweepIn,  \* ticks to the next sweep
  uptime,   \* ticks since the start or since a sweep that failed, as far as a period
  outages

apVars == <<status, left, notice, owner, main, unsaid, running, sweepIn, uptime, outages>>
apClock == <<sweepIn, uptime>>

LongPast == -(SweepEvery + 1)   \* older is all the same
Verdicts == {"approved", "rejected", "timeout"}
Pending(r) == status[r] = "pending"

APInit ==
  /\ status = [r \in Request |-> "none"] /\ left = [r \in Request |-> MaxDelay]
  /\ notice = [r \in Request |-> "none"] /\ owner = {} /\ main = {} /\ unsaid = {}
  /\ running = TRUE /\ sweepIn = SweepEvery /\ uptime = 0 /\ outages = 0

Busy == \E r \in Request : notice[r] = "inserted"
Idling == running /\ ~Busy
SetNotice(r, n) == notice' = [notice EXCEPT ![r] = n]

(* POST: createApproval with the timeout of computeTimeoutAt, never without one *)
Ask(r, delay) ==
  /\ Idling /\ status[r] = "none"
  /\ status' = [status EXCEPT ![r] = "pending"] /\ left' = [left EXCEPT ![r] = delay]
  /\ SetNotice(r, "inserted")
  /\ UNCHANGED <<owner, main, unsaid, running, apClock, outages>>

\* Mutant: the main agent's request falls back to nothing.
FallbackInBand_none(r) == {}

\* what fallbackInBand adds: only the main agent's own request is told in band
FallbackInBand(r) == IF r \in ByMain THEN {r} ELSE {}

\* createAgentMessage, whose exception is caught and only logged
InBand(requests) ==
  \E said \in SUBSET requests : main' = main \cup said /\ unsaid' = unsaid \cup (requests \ said)

(* notifyOwner up to its await (no token, no owner chat: nothing to send) and notifyMainAgent *)
Notify(r) ==
  /\ running /\ notice[r] = "inserted"
  /\ \E reachable \in BOOLEAN :
       /\ SetNotice(r, IF reachable THEN "sending" ELSE "over")
       /\ InBand((IF r \in ByMain THEN {} ELSE {r}) \cup (IF reachable THEN {} ELSE FallbackInBand(r)))
  /\ UNCHANGED <<status, left, owner, running, apClock, outages>>

(* sendTelegramMessage returns, or throws; so may the note of the message's id, *)
(* which the owner has by then                                                  *)
TelegramAnswers(r) ==
  /\ Idling /\ notice[r] = "sending" /\ SetNotice(r, "over")
  /\ \/ owner' = owner \cup {r} /\ UNCHANGED <<main, unsaid>>
     \/ owner' \in {owner, owner \cup {r}} /\ InBand(FallbackInBand(r))
  /\ UNCHANGED <<status, left, running, apClock, outages>>

(* PATCH by anyone but the requester: resolveApproval, which asks whether the  *)
(* row is pending and not whether its time has passed                         *)
Answer(r, verdict) ==
  /\ Idling /\ Pending(r) /\ status' = [status EXCEPT ![r] = verdict]
  /\ UNCHANGED <<left, notice, owner, main, unsaid, running, apClock, outages>>

\* Mutant: a sweep never takes a request whose time is just over.
Sweep_strict ==
  /\ Idling /\ sweepIn = 0 /\ sweepIn' = SweepEvery
  /\ status' = [r \in Request |-> IF Pending(r) /\ left[r] < -SweepEvery THEN "timeout" ELSE status[r]]
  /\ UNCHANGED <<left, notice, owner, main, unsaid, running, uptime, outages>>

\* Mutant: a sweep takes only what is due at that moment.
Sweep_exact ==
  /\ Idling /\ sweepIn = 0 /\ sweepIn' = SweepEvery
  /\ status' = [r \in Request |-> IF Pending(r) /\ left[r] = 0 THEN "timeout" ELSE status[r]]
  /\ UNCHANGED <<left, notice, owner, main, unsaid, running, uptime, outages>>

(* startApprovalTimeoutSweeper: expireTimedOutApprovals *)
SweepApprovals ==
  /\ Idling /\ sweepIn = 0 /\ sweepIn' = SweepEvery
  /\ status' = [r \in Request |-> IF Pending(r) /\ left[r] <= 0 THEN "timeout" ELSE status[r]]
  /\ UNCHANGED <<left, notice, owner, main, unsaid, running, uptime, outages>>

\* its exception is caught: the next one comes a period later
SweepFails ==
  /\ Idling /\ sweepIn = 0 /\ outages < MaxOutages /\ outages' = outages + 1
  /\ sweepIn' = SweepEvery /\ uptime' = 0
  /\ UNCHANGED <<status, left, notice, owner, main, unsaid, running>>

APTick ==
  /\ running => sweepIn > 0 /\ ~Busy
  /\ left' = [r \in Request |-> IF Pending(r) /\ left[r] > LongPast THEN left[r] - 1 ELSE left[r]]
  /\ sweepIn' = IF running THEN sweepIn - 1 ELSE sweepIn
  /\ uptime' = IF running /\ uptime <= SweepEvery THEN uptime + 1 ELSE uptime
  /\ UNCHANGED <<status, notice, owner, main, unsaid, running, outages>>

APCrash ==
  /\ running /\ outages < MaxOutages /\ outages' = outages + 1 /\ running' = FALSE
  /\ notice' = [r \in Request |-> IF notice[r] \in {"inserted", "sending"} THEN "lost" ELSE notice[r]]
  /\ UNCHANGED <<status, left, owner, main, unsaid, apClock>>

\* the interval begins anew: the first sweep comes a period after the start
APRestart ==
  /\ ~running /\ running' = TRUE /\ sweepIn' = SweepEvery /\ uptime' = 0
  /\ UNCHANGED <<status, left, notice, owner, main, unsaid, outages>>

APNext ==
  \/ \E r \in Request :
       \/ \E delay \in 1..MaxDelay : Ask(r, delay)
       \/ Notify(r) \/ TelegramAnswers(r)
       \/ \E verdict \in Verdicts : Answer(r, verdict)
  \/ SweepApprovals \/ SweepFails \/ APTick \/ APCrash \/ APRestart

APSpec == APInit /\ [][APNext]_apVars
\* Time passes, timers fire, and a crashed dashboard is started again.
APFairness ==
  /\ WF_apVars(APTick) /\ WF_apVars(SweepApprovals) /\ WF_apVars(APRestart)
  /\ \A r \in Request : WF_apVars(Notify(r))
APFairSpec == APSpec /\ APFairness

-----------------------------------------------------------------------------
APTypeOK ==
  /\ status \in [Request -> Verdicts \cup {"none", "pending"}] /\ left \in [Request -> LongPast..MaxDelay]
  /\ notice \in [Request -> {"none", "inserted", "sending", "over", "lost"}]
  /\ owner \subseteq Request /\ main \subseteq Request /\ unsaid \subseteq Request /\ running \in BOOLEAN
  /\ sweepIn \in 0..SweepEvery /\ uptime \in 0..(SweepEvery + 1) /\ outages \in 0..MaxOutages

\* "losing even that would rebuild the closed loop": once the sends of a
\* request are over, the owner or the main agent knows of it, whatever becomes
\* of Telegram; nobody may know of it only if the row of the message in band
\* could not be written either, or the dashboard crashed while it told them.
SomebodyKnows == \A r \in Request : notice[r] = "over" => r \in owner \cup main \cup unsaid

\* Nobody approves what has long expired: the row is closed within one period
\* of the sweep after its time, or after the dashboard's last start or a sweep that failed.
NoStaleApproval ==
  [][\A r \in Request : Pending(r) /\ status'[r] = "approved" =>
       left[r] >= -SweepEvery \/ uptime <= SweepEvery]_apVars

\* Every request reaches a verdict, so the agent that polls for it stops.
EveryRequestEnds == \A r \in Request : Pending(r) ~> status[r] \in Verdicts
=============================================================================
