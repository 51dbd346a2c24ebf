--------------------------- MODULE ServicesProofs ----------------------------
(* Theorems about three parts of the dashboard that share no state:           *)
(* ProcessLock, Approvals and BackgroundTasks, each for any value of its      *)
(* constants.                                                                 *)
EXTENDS ProcessLock, Approvals, BackgroundTasks, FiniteSetTheorems, TLAPS

(***************************************************************************)
(* Whoever scans last has signalled all who scanned before it and are      *)
(* still there; a process that handles the signal leaves.                  *)
(***************************************************************************)
Past == Asleep \cup Claiming \cup Owning

Signalled ==
  misses = 0 =>
    \A p, q \in Pid : p # q /\ phase[p] \in Past /\ phase[q] \in Past => p \in signalled \/ q \in signalled

LockTyped == phase \in [Pid -> Phases] /\ misses \in Nat /\ DOMAIN victims = Pid

LockInv == LockTyped /\ Signalled

LEMMA LockInitInv == PLInit => LockInv
  BY DEF PLInit, LockInv, LockTyped, Signalled, Past, Phases, Asleep, Claiming, Owning

LEMMA StartInv ==
    ASSUME LockInv, NEW p \in Pid, Start(p)
    PROVE  LockInv'
  <1>1. LockTyped'
    BY DEF LockInv, LockTyped, Phases, Asleep, Claiming, Owning, Leaving, Start, Goto, plCounters
  <1>2. Signalled'
    BY DEF LockInv, LockTyped, Signalled, Past, Asleep, Claiming, Owning, Leaving, Start, Goto, plCounters
  <1> QED
    BY <1>1, <1>2 DEF LockInv

LEMMA CheckReadInv ==
    ASSUME LockInv, NEW p \in Pid, CheckRead(p)
    PROVE  LockInv'
  <1>1. LockTyped'
    BY DEF LockInv, LockTyped, Phases, Asleep, Claiming, Owning, Leaving, CheckRead, Goto, plCounters
  <1>2. Signalled'
    BY DEF LockInv, LockTyped, Signalled, Past, Asleep, Claiming, Owning, Leaving, CheckRead, Goto, plCounters
  <1> QED
    BY <1>1, <1>2 DEF LockInv

LEMMA CheckJudgeInv ==
    ASSUME LockInv, NEW p \in Pid, CheckJudge(p)
    PROVE  LockInv'
  <1>1. LockTyped'
    BY DEF LockInv, LockTyped, Phases, Asleep, Claiming, Owning, Leaving, CheckJudge, Looks, Kill, Defer, Goto
  <1>2. Signalled'
    BY DEF LockInv, LockTyped, Signalled, Past, Asleep, Claiming, Owning, Leaving, CheckJudge, Looks, Kill, Defer, Goto
  <1> QED
    BY <1>1, <1>2 DEF LockInv

LEMMA ScanInv ==
    ASSUME LockInv, NEW p \in Pid, Scan(p)
    PROVE  LockInv'
  <1>1. LockTyped'
    BY DEF LockInv, LockTyped, Phases, Asleep, Claiming, Owning, Leaving, Scan, Looks, Goto, Others
  <1>2. Signalled'
    <2> SUFFICES ASSUME misses' = 0, NEW q \in Pid, NEW r \in Pid, q # r, phase'[q] \in Past, phase'[r] \in Past
                 PROVE  q \in signalled' \/ r \in signalled'
      BY DEF Signalled
    <2>1. misses = 0 /\ signalled' = signalled \cup Others(p)
      BY DEF Scan, Looks, LockInv, LockTyped
    <2>2. phase' = [phase EXCEPT ![p] = phase'[p]]
      BY DEF Scan, Goto, LockInv, LockTyped
    <2>3. \A x \in Pid : x # p => phase'[x] = phase[x]
      BY <2>2 DEF LockInv, LockTyped
    <2>4. \A x \in Pid : x # p /\ phase'[x] \in Past => x \in Others(p)
      BY <2>3 DEF Others, Alive, Past, Asleep, Claiming, Owning
    <2> QED
      BY <2>1, <2>4
  <1> QED
    BY <1>1, <1>2 DEF LockInv

LEMMA GraceOverInv ==
    ASSUME LockInv, NEW p \in Pid, GraceOver(p)
    PROVE  LockInv'
  <1>1. LockTyped'
    BY DEF LockInv, LockTyped, Phases, Asleep, Claiming, Owning, Leaving, GraceOver, Kill, plCounters, Survivors, Forget
  <1>2. Signalled'
    BY DEF LockInv, LockTyped, Signalled, Past, Asleep, Claiming, Owning, Leaving, GraceOver, Kill, plCounters, Survivors, Forget
  <1> QED
    BY <1>1, <1>2 DEF LockInv

LEMMA DrainOverInv ==
    ASSUME LockInv, NEW p \in Pid, DrainOver(p)
    PROVE  LockInv'
  <1>1. LockTyped'
    BY DEF LockInv, LockTyped, Phases, Asleep, Claiming, Owning, Leaving, DrainOver, Goto, plCounters
  <1>2. Signalled'
    BY DEF LockInv, LockTyped, Signalled, Past, Asleep, Claiming, Owning, Leaving, DrainOver, Goto, plCounters
  <1> QED
    BY <1>1, <1>2 DEF LockInv

LEMMA CreateInv ==
    ASSUME LockInv, NEW p \in Pid, Create(p)
    PROVE  LockInv'
  <1>1. LockTyped'
    BY DEF LockInv, LockTyped, Phases, Asleep, Claiming, Owning, Leaving, Create, Goto, plCounters
  <1>2. Signalled'
    BY DEF LockInv, LockTyped, Signalled, Past, Asleep, Claiming, Owning, Leaving, Create, Goto, plCounters
  <1> QED
    BY <1>1, <1>2 DEF LockInv

LEMMA AttemptsUsedUpInv ==
    ASSUME LockInv, NEW p \in Pid, AttemptsUsedUp(p)
    PROVE  LockInv'
  <1>1. LockTyped'
    BY DEF LockInv, LockTyped, Phases, Asleep, Claiming, Owning, Leaving, AttemptsUsedUp, Goto, plCounters
  <1>2. Signalled'
    BY DEF LockInv, LockTyped, Signalled, Past, Asleep, Claiming, Owning, Leaving, AttemptsUsedUp, Goto, plCounters
  <1> QED
    BY <1>1, <1>2 DEF LockInv

LEMMA WriteInv ==
    ASSUME LockInv, NEW p \in Pid, Write(p)
    PROVE  LockInv'
  <1>1. LockTyped'
    BY DEF LockInv, LockTyped, Phases, Asleep, Claiming, Owning, Leaving, Write, Goto, plCounters
  <1>2. Signalled'
    BY DEF LockInv, LockTyped, Signalled, Past, Asleep, Claiming, Owning, Leaving, Write, Goto, plCounters
  <1> QED
    BY <1>1, <1>2 DEF LockInv

LEMMA ReadInv ==
    ASSUME LockInv, NEW p \in Pid, Read(p)
    PROVE  LockInv'
  <1>1. LockTyped'
    BY DEF LockInv, LockTyped, Phases, Asleep, Claiming, Owning, Leaving, Read, Goto, plCounters
  <1>2. Signalled'
    BY DEF LockInv, LockTyped, Signalled, Past, Asleep, Claiming, Owning, Leaving, Read, Goto, plCounters
  <1> QED
    BY <1>1, <1>2 DEF LockInv

LEMMA JudgeInv ==
    ASSUME LockInv, NEW p \in Pid, Judge(p)
    PROVE  LockInv'
  <1>1. LockTyped'
    BY DEF LockInv, LockTyped, Phases, Asleep, Claiming, Owning, Leaving, Judge, Looks, Kill, Defer, Goto
  <1>2. Signalled'
    BY DEF LockInv, LockTyped, Signalled, Past, Asleep, Claiming, Owning, Leaving, Judge, Looks, Kill, Defer, Goto
  <1> QED
    BY <1>1, <1>2 DEF LockInv

LEMMA RereadInv ==
    ASSUME LockInv, NEW p \in Pid, Reread(p)
    PROVE  LockInv'
  <1>1. LockTyped'
    BY DEF LockInv, LockTyped, Phases, Asleep, Claiming, Owning, Leaving, Reread, Goto, plCounters
  <1>2. Signalled'
    BY DEF LockInv, LockTyped, Signalled, Past, Asleep, Claiming, Owning, Leaving, Reread, Goto, plCounters
  <1> QED
    BY <1>1, <1>2 DEF LockInv

LEMMA UnlinkInv ==
    ASSUME LockInv, NEW p \in Pid, Unlink(p)
    PROVE  LockInv'
  <1>1. LockTyped'
    BY DEF LockInv, LockTyped, Phases, Asleep, Claiming, Owning, Leaving, Unlink, Goto, plCounters
  <1>2. Signalled'
    BY DEF LockInv, LockTyped, Signalled, Past, Asleep, Claiming, Owning, Leaving, Unlink, Goto, plCounters
  <1> QED
    BY <1>1, <1>2 DEF LockInv

LEMMA ListenInv ==
    ASSUME LockInv, NEW p \in Pid, Listen(p)
    PROVE  LockInv'
  <1>1. LockTyped'
    BY DEF LockInv, LockTyped, Phases, Asleep, Claiming, Owning, Leaving, Listen, Goto, plCounters
  <1>2. Signalled'
    BY DEF LockInv, LockTyped, Signalled, Past, Asleep, Claiming, Owning, Leaving, Listen, Goto, plCounters
  <1> QED
    BY <1>1, <1>2 DEF LockInv

LEMMA PortInUseInv ==
    ASSUME LockInv, NEW p \in Pid, PortInUse(p)
    PROVE  LockInv'
  <1>1. LockTyped'
    BY DEF LockInv, LockTyped, Phases, Asleep, Claiming, Owning, Leaving, PortInUse, Goto, plCounters
  <1>2. Signalled'
    BY DEF LockInv, LockTyped, Signalled, Past, Asleep, Claiming, Owning, Leaving, PortInUse, Goto, plCounters
  <1> QED
    BY <1>1, <1>2 DEF LockInv

LEMMA PortInUseUnseenInv ==
    ASSUME LockInv, NEW p \in Pid, PortInUseUnseen(p)
    PROVE  LockInv'
  <1>1. LockTyped'
    BY DEF LockInv, LockTyped, Phases, Asleep, Claiming, Owning, Leaving, PortInUseUnseen, Looks, Kill
  <1>2. Signalled'
    BY DEF LockInv, LockTyped, Signalled, Past, Asleep, Claiming, Owning, Leaving, PortInUseUnseen, Looks, Kill
  <1> QED
    BY <1>1, <1>2 DEF LockInv

LEMMA ReclaimOverInv ==
    ASSUME LockInv, NEW p \in Pid, ReclaimOver(p)
    PROVE  LockInv'
  <1>1. LockTyped'
    BY DEF LockInv, LockTyped, Phases, Asleep, Claiming, Owning, Leaving, ReclaimOver, Kill, plCounters, Survivors, Forget
  <1>2. Signalled'
    BY DEF LockInv, LockTyped, Signalled, Past, Asleep, Claiming, Owning, Leaving, ReclaimOver, Kill, plCounters, Survivors, Forget
  <1> QED
    BY <1>1, <1>2 DEF LockInv

LEMMA HandleTermInv ==
    ASSUME LockInv, NEW p \in Pid, HandleTerm(p)
    PROVE  LockInv'
  <1>1. LockTyped'
    BY DEF LockInv, LockTyped, Phases, Asleep, Claiming, Owning, Leaving, HandleTerm, Goto, plCounters
  <1>2. Signalled'
    BY DEF LockInv, LockTyped, Signalled, Past, Asleep, Claiming, Owning, Leaving, HandleTerm, Goto, plCounters
  <1> QED
    BY <1>1, <1>2 DEF LockInv

LEMMA ClosedInv ==
    ASSUME LockInv, NEW p \in Pid, Closed(p)
    PROVE  LockInv'
  <1>1. LockTyped'
    BY DEF LockInv, LockTyped, Phases, Asleep, Claiming, Owning, Leaving, Closed, Goto, plCounters
  <1>2. Signalled'
    BY DEF LockInv, LockTyped, Signalled, Past, Asleep, Claiming, Owning, Leaving, Closed, Goto, plCounters
  <1> QED
    BY <1>1, <1>2 DEF LockInv

LEMMA ReleaseReadInv ==
    ASSUME LockInv, NEW p \in Pid, ReleaseRead(p)
    PROVE  LockInv'
  <1>1. LockTyped'
    BY DEF LockInv, LockTyped, Phases, Asleep, Claiming, Owning, Leaving, ReleaseRead, Goto, plCounters
  <1>2. Signalled'
    BY DEF LockInv, LockTyped, Signalled, Past, Asleep, Claiming, Owning, Leaving, ReleaseRead, Goto, plCounters
  <1> QED
    BY <1>1, <1>2 DEF LockInv

LEMMA ReleaseUnlinkInv ==
    ASSUME LockInv, NEW p \in Pid, ReleaseUnlink(p)
    PROVE  LockInv'
  <1>1. LockTyped'
    BY DEF LockInv, LockTyped, Phases, Asleep, Claiming, Owning, Leaving, ReleaseUnlink, Kill, plCounters
  <1>2. Signalled'
    BY DEF LockInv, LockTyped, Signalled, Past, Asleep, Claiming, Owning, Leaving, ReleaseUnlink, Kill, plCounters
  <1> QED
    BY <1>1, <1>2 DEF LockInv

LEMMA DieInv ==
    ASSUME LockInv, NEW p \in Pid, Die(p)
    PROVE  LockInv'
  <1>1. LockTyped'
    BY DEF LockInv, LockTyped, Phases, Asleep, Claiming, Owning, Leaving, Die, Kill
  <1>2. Signalled'
    BY DEF LockInv, LockTyped, Signalled, Past, Asleep, Claiming, Owning, Leaving, Die, Kill
  <1> QED
    BY <1>1, <1>2 DEF LockInv

LEMMA StutterInv == LockInv /\ UNCHANGED plVars => LockInv'
  BY DEF LockInv, LockTyped, Signalled, plVars

THEOREM LockInvariant == PLSpec => []LockInv
  <1>1. LockInv /\ [PLNext]_plVars => LockInv'
    <2> SUFFICES ASSUME LockInv, NEW p \in Pid, Start(p) \/ StepOf(p) \/ Die(p) PROVE LockInv'
      BY StutterInv DEF PLNext
    <2> QED
      BY StartInv, CheckReadInv, CheckJudgeInv, ScanInv, GraceOverInv,
         DrainOverInv, CreateInv, AttemptsUsedUpInv, WriteInv, ReadInv,
         JudgeInv, RereadInv, UnlinkInv, ListenInv, PortInUseInv,
         PortInUseUnseenInv, ReclaimOverInv, HandleTermInv, ClosedInv, ReleaseReadInv,
         ReleaseUnlinkInv, DieInv
      DEF StepOf
  <1> QED
    BY LockInitInv, <1>1, PTL DEF PLSpec

(***************************************************************************)
(* As long as every lookup answers, of two dashboards past the lock at     *)
(* least one has been told to go.                                          *)
(***************************************************************************)
THEOREM AtMostOneOwner == PLSpec => []OneOwner
  <1>1. LockInv => OneOwner
    BY DEF LockInv, Signalled, OneOwner, Sole, Owner, Past
  <1> QED
    BY LockInvariant, <1>1, PTL

-----------------------------------------------------------------------------
(***************************************************************************)
(* Approvals.  While a request is being told to the owner the main agent   *)
(* has it already, or the message to it failed, unless the request is its  *)
(* own; the fallback tells it of that one when Telegram fails.             *)
(***************************************************************************)
Told ==
  /\ notice \in [Request -> {"none", "inserted", "sending", "over", "lost"}]
  /\ \A r \in Request : notice[r] = "sending" => r \in ByMain \/ r \in main \cup unsaid
  /\ SomebodyKnows

(***************************************************************************)
(* The clock of the sweep.  It has swept since the start exactly when      *)
(* the dashboard is up for longer than the period, or for the period with  *)
(* the next sweep a period away; then what is pending is no older than     *)
(* that last sweep.                                                        *)
(***************************************************************************)
Swept == uptime > SweepEvery \/ (uptime = SweepEvery /\ sweepIn = SweepEvery)

SweptFresh ==
  running /\ Swept => \A r \in Request : Pending(r) => left[r] >= 1 + sweepIn - SweepEvery

Clock ==
  running /\ uptime <= SweepEvery => uptime + sweepIn = SweepEvery \/ Swept

ApprovalsInv == APTypeOK /\ Told /\ Clock /\ SweptFresh

LEMMA InitApproves == APInit => ApprovalsInv
  BY ApprovalsAssumption
  DEF APInit, ApprovalsInv, APTypeOK, Told, SomebodyKnows, Clock, Swept, SweptFresh, LongPast, Verdicts, Pending

LEMMA AskApproves ==
    ASSUME ApprovalsInv, NEW r \in Request, NEW delay \in 1..MaxDelay, Ask(r, delay)
    PROVE  ApprovalsInv'
  <1>1. UNCHANGED <<owner, main, unsaid, running, sweepIn, uptime, outages>> /\ status[r] = "none"
    BY DEF Ask, apClock
  <1>2. APTypeOK'
    BY <1>1, ApprovalsAssumption DEF Ask, ApprovalsInv, APTypeOK, SetNotice, LongPast, Verdicts
  <1>3. Told'
    BY <1>1 DEF Ask, ApprovalsInv, Told, SomebodyKnows, SetNotice
  <1>4. Clock'
    BY <1>1 DEF ApprovalsInv, Clock, Swept
  <1>5. SweptFresh'
    <2>1. \A q \in Request : q # r => status'[q] = status[q] /\ left'[q] = left[q]
      BY DEF Ask, ApprovalsInv, APTypeOK
    <2>2. left'[r] >= 1
      BY DEF Ask, ApprovalsInv, APTypeOK
    <2>3. sweepIn \in 0..SweepEvery /\ SweepEvery \in Nat
      BY ApprovalsAssumption DEF ApprovalsInv, APTypeOK
    <2>4. \A q \in Request : left'[q] \in Int
      BY <1>2, ApprovalsAssumption DEF APTypeOK, LongPast
    <2> QED
      BY <1>1, <2>1, <2>2, <2>3, <2>4 DEF ApprovalsInv, SweptFresh, Swept, Pending
  <1> QED
    BY <1>2, <1>3, <1>4, <1>5 DEF ApprovalsInv

\* who is told, with the row and the clock left alone
LEMMA TellApproves ==
    ASSUME ApprovalsInv, NEW r \in Request, Notify(r) \/ TelegramAnswers(r)
    PROVE  ApprovalsInv'
  <1>1. UNCHANGED <<status, left, running, sweepIn, uptime, outages>>
    BY DEF Notify, TelegramAnswers, apClock
  <1>2. /\ notice' \in [Request -> {"none", "inserted", "sending", "over", "lost"}]
        /\ owner \subseteq owner' /\ main \subseteq main' /\ unsaid \subseteq unsaid'
        /\ owner' \subseteq Request /\ main' \subseteq Request /\ unsaid' \subseteq Request
        /\ \A q \in Request : q # r => notice'[q] = notice[q]
    BY DEF Notify, TelegramAnswers, SetNotice, FallbackInBand, InBand, ApprovalsInv, APTypeOK
  <1>3. notice'[r] \in {"sending", "over"}
    BY DEF Notify, TelegramAnswers, SetNotice, ApprovalsInv, APTypeOK
  <1>4. notice'[r] = "sending" => r \in ByMain \/ r \in main' \cup unsaid'
    BY DEF Notify, TelegramAnswers, SetNotice, InBand, ApprovalsInv, APTypeOK
  <1>5. notice'[r] = "over" => r \in owner' \cup main' \cup unsaid'
    BY DEF Notify, TelegramAnswers, SetNotice, FallbackInBand, InBand, ApprovalsInv, APTypeOK, Told
  <1>6. Told'
    BY <1>2, <1>4, <1>5 DEF ApprovalsInv, Told, SomebodyKnows
  <1>7. APTypeOK' /\ Clock' /\ SweptFresh'
    BY <1>1, <1>2 DEF ApprovalsInv, APTypeOK, Clock, SweptFresh, Swept, Pending
  <1> QED
    BY <1>6, <1>7 DEF ApprovalsInv

LEMMA AnswerApproves ==
    ASSUME ApprovalsInv, NEW r \in Request, NEW verdict \in Verdicts, Answer(r, verdict)
    PROVE  ApprovalsInv'
  <1>1. UNCHANGED <<left, notice, owner, main, unsaid, running, sweepIn, uptime, outages>>
    BY DEF Answer, apClock
  <1>2. \A q \in Request : Pending(q)' => Pending(q)
    BY DEF Answer, ApprovalsInv, APTypeOK, Pending, Verdicts
  <1>3. APTypeOK'
    BY <1>1 DEF Answer, ApprovalsInv, APTypeOK
  <1> QED
    BY <1>1, <1>2, <1>3 DEF ApprovalsInv, Told, SomebodyKnows, Clock, SweptFresh, Swept

LEMMA SweepApproves ==
    ASSUME ApprovalsInv, SweepApprovals
    PROVE  ApprovalsInv'
  <1>1. UNCHANGED <<left, notice, owner, main, unsaid, running, uptime, outages>> /\ sweepIn = 0 /\ sweepIn' = SweepEvery
    BY DEF SweepApprovals
  <1>2. \A q \in Request : Pending(q)' => Pending(q) /\ ~(left[q] <= 0)
    BY DEF SweepApprovals, ApprovalsInv, APTypeOK, Pending
  <1>3. APTypeOK'
    BY <1>1, ApprovalsAssumption DEF SweepApprovals, ApprovalsInv, APTypeOK, Verdicts
  <1>4. Clock'
    BY <1>1, ApprovalsAssumption DEF ApprovalsInv, APTypeOK, Clock, Swept
  <1>5. SweptFresh'
    <2>1. \A q \in Request : left[q] \in Int
      BY ApprovalsAssumption DEF ApprovalsInv, APTypeOK, LongPast
    <2> QED
      BY <1>1, <1>2, <2>1, ApprovalsAssumption DEF SweptFresh
  <1> QED
    BY <1>1, <1>3, <1>4, <1>5 DEF ApprovalsInv, Told, SomebodyKnows

LEMMA TickApproves ==
    ASSUME ApprovalsInv, APTick
    PROVE  ApprovalsInv'
  <1>1. UNCHANGED <<status, notice, owner, main, unsaid, running, outages>>
    BY DEF APTick
  <1>2. sweepIn \in 0..SweepEvery /\ uptime \in 0..(SweepEvery + 1) /\ SweepEvery \in Nat \ {0}
        /\ \A q \in Request : left[q] \in LongPast..MaxDelay /\ LongPast \in Int /\ MaxDelay \in Nat
    BY ApprovalsAssumption DEF ApprovalsInv, APTypeOK, LongPast
  <1>3. \A q \in Request : left'[q] = IF Pending(q) /\ left[q] > LongPast THEN left[q] - 1 ELSE left[q]
    BY DEF APTick
  <1>4. APTypeOK'
    <2>1. left' \in [Request -> LongPast..MaxDelay]
      BY <1>2 DEF APTick
    <2>2. sweepIn' \in 0..SweepEvery /\ uptime' \in 0..(SweepEvery + 1)
      BY <1>2 DEF APTick
    <2> QED
      BY <1>1, <2>1, <2>2 DEF ApprovalsInv, APTypeOK
  <1>5. CASE running
    <2>1. sweepIn' = sweepIn - 1 /\ sweepIn > 0 /\ uptime' = IF uptime <= SweepEvery THEN uptime + 1 ELSE uptime
      BY <1>5 DEF APTick
    <2>2. Clock'
      BY <1>2, <1>5, <2>1 DEF ApprovalsInv, Clock, Swept
    <2>3. SweptFresh'
      <3> SUFFICES ASSUME Swept', NEW q \in Request, Pending(q)' PROVE left'[q] >= 1 + sweepIn' - SweepEvery
        BY DEF SweptFresh
      <3>1. Pending(q)
        BY <1>1 DEF Pending
      <3>2. Swept
        BY <1>2, <1>5, <2>1 DEF ApprovalsInv, Clock, Swept
      <3>3. left[q] >= 1 + sweepIn - SweepEvery
        BY <1>5, <3>1, <3>2 DEF ApprovalsInv, SweptFresh
      <3> QED
        BY <1>2, <1>3, <2>1, <3>1, <3>3 DEF LongPast
    <2> QED
      BY <1>1, <1>4, <2>2, <2>3 DEF ApprovalsInv, Told, SomebodyKnows
  <1>6. CASE ~running
    BY <1>1, <1>4, <1>6 DEF ApprovalsInv, Told, SomebodyKnows, Clock, SweptFresh
  <1> QED
    BY <1>5, <1>6

LEMMA OutageApproves ==
    ASSUME ApprovalsInv, APCrash \/ APRestart \/ SweepFails
    PROVE  ApprovalsInv'
  <1>1. CASE APCrash
    <2>1. ~running' /\ UNCHANGED <<status, left, owner, main, unsaid, sweepIn, uptime>>
          /\ notice' = [r \in Request |-> IF notice[r] \in {"inserted", "sending"} THEN "lost" ELSE notice[r]]
      BY <1>1 DEF APCrash, apClock
    <2>2. outages' \in 0..MaxOutages
      BY <1>1, ApprovalsAssumption DEF APCrash, ApprovalsInv, APTypeOK
    <2>3. APTypeOK'
      BY <1>1, <2>1, <2>2 DEF APCrash, ApprovalsInv, APTypeOK
    <2>4. Told'
      BY <2>1 DEF ApprovalsInv, Told, SomebodyKnows
    <2> QED
      BY <2>1, <2>3, <2>4 DEF ApprovalsInv, Clock, SweptFresh
  <1>2. CASE APRestart \/ SweepFails
    <2>1. running' /\ sweepIn' = SweepEvery /\ uptime' = 0 /\ UNCHANGED <<status, left, notice, owner, main, unsaid>>
      BY <1>2 DEF APRestart, SweepFails, Idling
    <2>1a. outages' \in 0..MaxOutages /\ running' \in BOOLEAN
      <3>1. outages \in 0..MaxOutages /\ running \in BOOLEAN /\ MaxOutages \in Nat
        BY ApprovalsAssumption DEF ApprovalsInv, APTypeOK
      <3>2. CASE APRestart
        BY <3>1, <3>2 DEF APRestart
      <3>3. CASE SweepFails
        BY <3>1, <3>3 DEF SweepFails
      <3> QED
        BY <1>2, <3>2, <3>3
    <2>2. APTypeOK'
      BY <2>1a, <2>1, ApprovalsAssumption DEF ApprovalsInv, APTypeOK
    <2>3. ~Swept' /\ Clock'
      BY <2>1, ApprovalsAssumption DEF Swept, Clock
    <2> QED
      BY <2>1, <2>2, <2>3 DEF ApprovalsInv, Told, SomebodyKnows, SweptFresh
  <1> QED
    BY <1>1, <1>2

LEMMA NextApproves == ASSUME ApprovalsInv, [APNext]_apVars PROVE ApprovalsInv'
  <1>1. CASE UNCHANGED apVars
    BY <1>1 DEF apVars, ApprovalsInv, APTypeOK, Told, SomebodyKnows, Clock, Swept, SweptFresh, Pending
  <1> QED
    BY <1>1, AskApproves, TellApproves, AnswerApproves, SweepApproves, TickApproves, OutageApproves DEF APNext

LEMMA ApprovalsInvariant == APSpec => []ApprovalsInv
  BY InitApproves, NextApproves, PTL DEF APSpec

\* Once the sends of a request are over the owner or the main agent knows of
\* it, unless the row of the message in band could not be written, for any
\* number of requests, delays and crashes.
THEOREM AlwaysKnown == APSpec => [](APTypeOK /\ SomebodyKnows)
  <1>1. ApprovalsInv => APTypeOK /\ SomebodyKnows
    BY DEF ApprovalsInv, Told
  <1> QED
    BY <1>1, ApprovalsInvariant, PTL

\* Nobody approves what expired more than a period of the sweep ago, unless
\* the dashboard has just been started or a sweep has failed, for any period and delay.
THEOREM NeverStale == APSpec => NoStaleApproval
  <1>1. ASSUME ApprovalsInv, [APNext]_apVars
        PROVE  [\A r \in Request : Pending(r) /\ status'[r] = "approved" =>
                  left[r] >= -SweepEvery \/ uptime <= SweepEvery]_apVars
    <2> SUFFICES ASSUME APNext, NEW r \in Request, Pending(r), status'[r] = "approved"
                 PROVE  left[r] >= -SweepEvery \/ uptime <= SweepEvery
      BY <1>1
    <2>1. running
      <3>1. ~SweepApprovals /\ ~SweepFails /\ ~APTick /\ ~APCrash /\ ~APRestart
        BY <1>1 DEF SweepApprovals, SweepFails, APTick, APCrash, APRestart, Pending, ApprovalsInv, APTypeOK
      <3> QED
        BY <3>1 DEF APNext, Ask, Notify, TelegramAnswers, Answer, Idling
    <2>2. sweepIn \in 0..SweepEvery /\ uptime \in 0..(SweepEvery + 1) /\ SweepEvery \in Nat \ {0} /\ left[r] \in Int
      BY <1>1, ApprovalsAssumption DEF ApprovalsInv, APTypeOK, LongPast
    <2>3. CASE uptime > SweepEvery
      BY <1>1, <2>1, <2>2, <2>3 DEF ApprovalsInv, SweptFresh, Swept
    <2> QED
      BY <2>2, <2>3
  <1> QED
    BY <1>1, ApprovalsInvariant, PTL DEF APSpec, NoStaleApproval

-----------------------------------------------------------------------------
TasksTyped ==
  /\ row \in [Task -> Statuses] /\ session \in [Task -> {"none", "working", "finished"}]
  /\ doing \in Handlers \cup {Free, Down, Sweeping} /\ stray \subseteq Task

(***************************************************************************)
(* A handler that has still to make a session, or to end one, finds the    *)
(* row running; one that has only to write the row has seen to the session. *)
(* The sweep of the startup has rows to look at that run, and nobody else   *)
(* writes one until it is over.                                             *)
(***************************************************************************)
Promised ==
  /\ doing.op \in {"write", "spawn", "cancel"} => row[doing.task] = "running"
  /\ doing.op \in {"finish", "orphan"} => session[doing.task] # "working" \/ doing.task \in stray
  /\ orphans \subseteq InRow("running")
  /\ orphans # {} => doing.op \in {"sweep", "orphan"}
  /\ doing.op = "orphan" => doing.task \notin orphans

CountInv == TasksTyped /\ Promised /\ WorkIsCounted

USE DEF TasksTyped, Promised, WorkIsCounted, Statuses, Handlers, Free, Down, Sweeping, Doing, Finish, Session, InRow,
        bgFile

LEMMA InitCounts == BGInit => CountInv
  BY DEF BGInit, CountInv

LEMMA SpawnCounts == ASSUME CountInv, NEW t \in Task, Spawn(t) PROVE CountInv'
  BY DEF CountInv, Spawn

LEMMA WritePromptCounts == ASSUME CountInv, WritePrompt PROVE CountInv'
  BY DEF CountInv, WritePrompt

LEMMA NewSessionCounts == ASSUME CountInv, NewSession PROVE CountInv'
  BY DEF CountInv, NewSession

LEMMA ClaudeEndsCounts == ASSUME CountInv, NEW t \in Task, ClaudeEnds(t) PROVE CountInv'
  BY DEF CountInv, ClaudeEnds

LEMMA SessionEndsCounts == ASSUME CountInv, NEW t \in Task, SessionEnds(t) PROVE CountInv'
  BY DEF CountInv, SessionEnds

LEMMA SessionDiesCounts == ASSUME CountInv, NEW t \in Task, SessionDies(t) PROVE CountInv'
  BY DEF CountInv, SessionDies

LEMMA PollCounts == ASSUME CountInv, NEW t \in Task, PollUntilDone(t) PROVE CountInv'
  BY DEF CountInv, PollUntilDone

LEMMA ExpireCounts ==
    ASSUME CountInv, NEW t \in Task, Expire(t)
    PROVE  CountInv'
  <1>1. PICK saw \in BOOLEAN :
          \/ saw /\ row' = [row EXCEPT ![t] = "done"] /\ doing' = Doing("kill", t, FALSE)
          \/ ~saw /\ row' = row /\ doing' = Doing("late", t, FALSE)
    BY DEF Expire
  <1>2. TasksTyped'
    <2>1. UNCHANGED session /\ stray' \subseteq stray \cup {t}
      BY DEF Expire
    <2>2. row' \in [Task -> Statuses]
      BY <1>1 DEF CountInv
    <2>3. Doing("kill", t, FALSE) \in Handlers /\ Doing("late", t, FALSE) \in Handlers
      OBVIOUS
    <2>4. doing' \in Handlers \cup {Free, Down, Sweeping}
      BY <1>1, <2>3 DEF CountInv
    <2> QED
      BY <2>1, <2>2, <2>4 DEF CountInv
  <1>3. Promised'
    BY <1>1 DEF CountInv, Expire
  <1>4. WorkIsCounted'
    BY <1>1 DEF CountInv, Expire
  <1> QED
    BY <1>2, <1>3, <1>4 DEF CountInv

LEMMA KillAfterCounts == ASSUME CountInv, KillAfter PROVE CountInv'
  BY DEF CountInv, KillAfter, Kills

LEMMA CancelCounts == ASSUME CountInv, NEW t \in Task, Cancel(t) PROVE CountInv'
  BY DEF CountInv, Cancel

LEMMA CancelKillCounts == ASSUME CountInv, CancelKill PROVE CountInv'
  BY DEF CountInv, CancelKill, Kills

LEMMA CancelFinishCounts == ASSUME CountInv, CancelFinish PROVE CountInv'
  BY DEF CountInv, CancelFinish

LEMMA CrashCounts == ASSUME CountInv, BGCrash PROVE CountInv'
  BY DEF CountInv, BGCrash

LEMMA RestartCounts == ASSUME CountInv, BGRestart PROVE CountInv'
  BY DEF CountInv, BGRestart

LEMMA ArmsCounts == ASSUME CountInv, NEW t \in Task, SweepArms(t) PROVE CountInv'
  BY DEF CountInv, SweepArms

LEMMA SweepReadsCounts ==
    ASSUME CountInv, NEW t \in Task, SweepReads(t)
    PROVE  CountInv'
  <1>1. PICK saw \in BOOLEAN :
          \/ saw /\ row' = [row EXCEPT ![t] = "done"] /\ doing' = doing
          \/ ~saw /\ row' = row /\ doing' = Doing("orphan", t, FALSE)
    BY DEF SweepReads
  <1>2. TasksTyped'
    <2>1. UNCHANGED session /\ stray' \subseteq stray \cup {t}
      BY DEF SweepReads
    <2>2. row' \in [Task -> Statuses]
      BY <1>1 DEF CountInv
    <2>3. Doing("orphan", t, FALSE) \in Handlers /\ Doing("orphan", t, FALSE) \in Handlers
      OBVIOUS
    <2>4. doing' \in Handlers \cup {Free, Down, Sweeping}
      BY <1>1, <2>3 DEF CountInv
    <2> QED
      BY <2>1, <2>2, <2>4 DEF CountInv
  <1>3. Promised'
    BY <1>1 DEF CountInv, SweepReads
  <1>4. WorkIsCounted'
    BY <1>1 DEF CountInv, SweepReads
  <1> QED
    BY <1>2, <1>3, <1>4 DEF CountInv

LEMMA OrphanCounts == ASSUME CountInv, OrphanFinish PROVE CountInv'
  BY DEF CountInv, OrphanFinish

LEMMA SweepOverCounts == ASSUME CountInv, SweepOver PROVE CountInv'
  BY DEF CountInv, SweepOver

LEMMA ExpireFinishCounts == ASSUME CountInv, ExpireFinish PROVE CountInv'
  BY DEF CountInv, ExpireFinish

LEMMA NextCounts ==
    ASSUME CountInv, [BGNext]_bgVars
    PROVE  CountInv'
  <1>1. CASE UNCHANGED bgVars
    BY <1>1 DEF CountInv, bgVars
  <1> QED
    BY <1>1, SpawnCounts, WritePromptCounts, NewSessionCounts, ClaudeEndsCounts, SessionEndsCounts,
       SessionDiesCounts, PollCounts, ExpireCounts, KillAfterCounts, CancelCounts, CancelKillCounts,
       CancelFinishCounts, CrashCounts, RestartCounts, ArmsCounts, SweepReadsCounts, OrphanCounts, SweepOverCounts,
       ExpireFinishCounts
    DEF BGNext, Handler, SweepStep

\* A session that works is counted against the limit of its agent, or is about
\* to be killed, or is one the dashboard has lost sight of by a failed call.
THEOREM WorkCounted == BGSpec => []WorkIsCounted
  <1>1. CountInv => WorkIsCounted
    BY DEF CountInv
  <1> QED
    BY <1>1, InitCounts, NextCounts, PTL DEF BGSpec

(***************************************************************************)
(* A task that has never run has no session and no marker, and neither has *)
(* one whose session is still to be made: so a session that cannot be made *)
(* never counts as failed a task whose result is there already.  A handler  *)
(* that has read the file either saw the result or the result is missed.    *)
(***************************************************************************)
Untouched(t) == session[t] = "none" /\ t \notin marker
Unmade ==
  /\ \A t \in Task : row[t] = "none" => Untouched(t)
  /\ doing.op \in {"write", "spawn"} => Untouched(doing.task)
  /\ doing.op \in {"late", "cancel", "finish", "orphan"} /\ ~doing.saw /\ doing.task \in marker => doing.task \in missed
  /\ doing.op \in {"late", "orphan"} => ~doing.saw

\* what ResultKept says of a step, and the invariant after it
Keeps ==
  /\ Unmade'
  /\ \A t \in Task : t \in marker /\ row'[t] # row[t] => row'[t] = "done" \/ t \in missed

\* every step but Spawn
KeepsFewer == Keeps /\ InRow("running")' \subseteq InRow("running")

LEMMA WritePromptKeeps == ASSUME CountInv, Unmade, WritePrompt PROVE KeepsFewer
  BY DEF CountInv, Unmade, Untouched, KeepsFewer, Keeps, WritePrompt

LEMMA NewSessionKeeps == ASSUME CountInv, Unmade, NewSession PROVE KeepsFewer
  BY DEF CountInv, Unmade, Untouched, KeepsFewer, Keeps, NewSession, Call

LEMMA ClaudeEndsKeeps == ASSUME CountInv, Unmade, NEW t \in Task, ClaudeEnds(t) PROVE KeepsFewer
  BY DEF CountInv, Unmade, Untouched, KeepsFewer, Keeps, ClaudeEnds, ReadFor

LEMMA SessionEndsKeeps == ASSUME CountInv, Unmade, NEW t \in Task, SessionEnds(t) PROVE KeepsFewer
  BY DEF CountInv, Unmade, Untouched, KeepsFewer, Keeps, SessionEnds

LEMMA SessionDiesKeeps == ASSUME CountInv, Unmade, NEW t \in Task, SessionDies(t) PROVE KeepsFewer
  BY DEF CountInv, Unmade, Untouched, KeepsFewer, Keeps, SessionDies

LEMMA PollUntilDoneKeeps == ASSUME CountInv, Unmade, NEW t \in Task, PollUntilDone(t) PROVE KeepsFewer
  BY DEF CountInv, Unmade, Untouched, KeepsFewer, Keeps, PollUntilDone

LEMMA ExpireKeeps == ASSUME CountInv, Unmade, NEW t \in Task, Expire(t) PROVE KeepsFewer
  BY DEF CountInv, Unmade, Untouched, KeepsFewer, Keeps, Expire, Reads

LEMMA ExpireFinishKeeps == ASSUME CountInv, Unmade, ExpireFinish PROVE KeepsFewer
  BY DEF CountInv, Unmade, Untouched, KeepsFewer, Keeps, ExpireFinish

LEMMA KillAfterKeeps == ASSUME CountInv, Unmade, KillAfter PROVE KeepsFewer
  BY DEF CountInv, Unmade, Untouched, KeepsFewer, Keeps, KillAfter, Kills

LEMMA CancelKeeps == ASSUME CountInv, Unmade, NEW t \in Task, Cancel(t) PROVE KeepsFewer
  BY DEF CountInv, Unmade, Untouched, KeepsFewer, Keeps, Cancel, Reads

LEMMA CancelKillKeeps == ASSUME CountInv, Unmade, CancelKill PROVE KeepsFewer
  BY DEF CountInv, Unmade, Untouched, KeepsFewer, Keeps, CancelKill, Kills

LEMMA CancelFinishKeeps == ASSUME CountInv, Unmade, CancelFinish PROVE KeepsFewer
  BY DEF CountInv, Unmade, Untouched, KeepsFewer, Keeps, CancelFinish

LEMMA BGCrashKeeps == ASSUME CountInv, Unmade, BGCrash PROVE KeepsFewer
  BY DEF CountInv, Unmade, Untouched, KeepsFewer, Keeps, BGCrash

LEMMA BGRestartKeeps == ASSUME CountInv, Unmade, BGRestart PROVE KeepsFewer
  BY DEF CountInv, Unmade, Untouched, KeepsFewer, Keeps, BGRestart

LEMMA SweepArmsKeeps == ASSUME CountInv, Unmade, NEW t \in Task, SweepArms(t) PROVE KeepsFewer
  BY DEF CountInv, Unmade, Untouched, KeepsFewer, Keeps, SweepArms

LEMMA SweepReadsKeeps == ASSUME CountInv, Unmade, NEW t \in Task, SweepReads(t) PROVE KeepsFewer
  BY DEF CountInv, Unmade, Untouched, KeepsFewer, Keeps, SweepReads

LEMMA OrphanFinishKeeps == ASSUME CountInv, Unmade, OrphanFinish PROVE KeepsFewer
  BY DEF CountInv, Unmade, Untouched, KeepsFewer, Keeps, OrphanFinish

LEMMA SweepOverKeeps == ASSUME CountInv, Unmade, SweepOver PROVE KeepsFewer
  BY DEF CountInv, Unmade, Untouched, KeepsFewer, Keeps, SweepOver

LEMMA SpawnKeeps == ASSUME CountInv, Unmade, NEW t \in Task, Spawn(t)
                    PROVE  Keeps /\ InRow("running")' = InRow("running") \cup {t}
  BY DEF CountInv, Unmade, Untouched, Keeps, Spawn

LEMMA NextKeeps ==
    ASSUME CountInv, Unmade, [BGNext]_bgVars
    PROVE  KeepsFewer \/ (Keeps /\ \E t \in Task : Spawn(t))
  <1>1. CASE UNCHANGED bgVars
    BY <1>1 DEF CountInv, Unmade, Untouched, KeepsFewer, Keeps, bgVars, InRow
  <1> QED
    BY <1>1, SpawnKeeps, WritePromptKeeps, NewSessionKeeps, ClaudeEndsKeeps, SessionEndsKeeps, SessionDiesKeeps,
       PollUntilDoneKeeps, ExpireKeeps, ExpireFinishKeeps, KillAfterKeeps, CancelKeeps, CancelKillKeeps,
       CancelFinishKeeps, BGCrashKeeps, BGRestartKeeps, SweepArmsKeeps, SweepReadsKeeps, OrphanFinishKeeps, SweepOverKeeps
    DEF BGNext, Handler, SweepStep

\* A result that is in its file is not lost when the task ends, by whatever
\* route, but for one that was written after the handler that ends the task
\* had read the file, or whose file could not be read.
THEOREM ResultsKept == BGSpec => ResultKept
  <1>1. BGInit => CountInv /\ Unmade
    BY InitCounts DEF BGInit, Unmade, Untouched
  <1>2. CountInv /\ Unmade /\ [BGNext]_bgVars => CountInv' /\ Unmade'
    BY NextCounts, NextKeeps DEF KeepsFewer, Keeps
  <1>3. CountInv /\ Unmade /\ [BGNext]_bgVars =>
          [\A t \in Task : t \in marker /\ row'[t] # row[t] => row'[t] = "done" \/ t \in missed]_bgVars
    BY NextKeeps DEF KeepsFewer, Keeps
  <1> QED
    BY <1>1, <1>2, <1>3, PTL DEF BGSpec, ResultKept

(***************************************************************************)
(* The limit: only a new task adds to the rows that run, and it looks at   *)
(* their number in the same transaction.                                   *)
(***************************************************************************)
Limited == IsFiniteSet(InRow("running")) /\ Cardinality(InRow("running")) <= MaxConcurrent

Rest ==
  /\ marker \subseteq Task /\ armed \subseteq Task /\ stuck \subseteq Task /\ missed \subseteq Task /\ orphans \subseteq Task
  /\ faults \in 0..MaxFaults

LEMMA FewerLimited ==
    ASSUME Limited, InRow("running")' \subseteq InRow("running")
    PROVE  Limited'
  <1>1. IsFiniteSet(InRow("running")') /\ Cardinality(InRow("running")') <= Cardinality(InRow("running"))
    BY FS_Subset DEF Limited
  <1>2. Cardinality(InRow("running")') \in Nat /\ Cardinality(InRow("running")) \in Nat /\ MaxConcurrent \in Nat
    BY <1>1, FS_CardinalityType, BackgroundTasksAssumption DEF Limited
  <1> QED
    BY <1>1, <1>2 DEF Limited

LEMMA SpawnLimited == ASSUME CountInv, Unmade, Limited, NEW t \in Task, Spawn(t) PROVE Limited'
  <1>1. t \notin InRow("running") /\ Cardinality(InRow("running")) < MaxConcurrent
    BY DEF Spawn, InRow
  <1>2. InRow("running")' = InRow("running") \cup {t}
    BY SpawnKeeps
  <1>3. IsFiniteSet(InRow("running")') /\ Cardinality(InRow("running")') = Cardinality(InRow("running")) + 1
    BY <1>1, <1>2, FS_AddElement DEF Limited
  <1>4. Cardinality(InRow("running")) \in Nat /\ MaxConcurrent \in Nat
    BY FS_CardinalityType, BackgroundTasksAssumption DEF Limited
  <1> QED
    BY <1>1, <1>3, <1>4 DEF Limited

LEMMA NextLimited == ASSUME CountInv, Unmade, Limited, [BGNext]_bgVars PROVE Limited'
  BY NextKeeps, SpawnLimited, FewerLimited DEF KeepsFewer

LEMMA NextRest == ASSUME CountInv, Rest, [BGNext]_bgVars PROVE Rest'
  <1>1. faults' = faults \/ Fails
    BY DEF BGNext, Handler, SweepStep, bgVars, Spawn, WritePrompt, NewSession, ClaudeEnds, SessionEnds, SessionDies,
           PollUntilDone, Expire, ExpireFinish, Reads, KillAfter, Kills, Cancel, CancelKill, CancelFinish, BGCrash,
           BGRestart, SweepArms, SweepReads, OrphanFinish, SweepOver, Call
  <1>2. faults' \in 0..MaxFaults
    BY <1>1, BackgroundTasksAssumption DEF Rest, Fails
  <1>3. CASE WritePrompt \/ NewSession \/ BGCrash \/ BGRestart
    <2>1. doing.op \in {"write", "spawn"} => doing.task \in Task
      BY DEF CountInv
    <2> QED
      BY <1>2, <1>3, <2>1 DEF Rest, WritePrompt, NewSession, BGCrash, BGRestart
  <1>4. ASSUME NEW t \in Task, ClaudeEnds(t) \/ Expire(t) \/ Cancel(t) \/ SweepArms(t) \/ SweepReads(t) PROVE Rest'
    BY <1>2, <1>4 DEF Rest, ClaudeEnds, Expire, Cancel, Reads, SweepArms, SweepReads
  <1>5. CASE \/ UNCHANGED bgVars \/ ExpireFinish \/ KillAfter \/ CancelKill \/ CancelFinish \/ OrphanFinish \/ SweepOver
             \/ \E t \in Task : Spawn(t) \/ SessionEnds(t) \/ SessionDies(t) \/ PollUntilDone(t)
    <2>1. UNCHANGED <<marker, armed, stuck, missed, orphans>>
      BY <1>5 DEF bgVars, ExpireFinish, KillAfter, CancelKill, CancelFinish, OrphanFinish, SweepOver, Spawn, SessionEnds,
                  SessionDies, PollUntilDone
    <2> QED
      BY <1>2, <2>1 DEF Rest
  <1> QED
    BY <1>3, <1>4, <1>5 DEF BGNext, Handler, SweepStep

\* No agent has more running tasks than the limit, and every variable keeps
\* its type, through crashes and failed calls.
THEOREM TasksLimited == BGSpec => []BGTypeOK
  <1> DEFINE All == CountInv /\ Unmade /\ Limited /\ Rest
  <1>1. ASSUME BGInit PROVE All
    <2>1. InRow("running") = {}
      BY <1>1 DEF BGInit, InRow
    <2>2. Limited
      BY <2>1, FS_EmptySet, BackgroundTasksAssumption DEF Limited
    <2> QED
      BY <1>1, <2>2, InitCounts, BackgroundTasksAssumption DEF BGInit, Unmade, Untouched, Rest
  <1>2. All /\ [BGNext]_bgVars => All'
    BY NextCounts, NextKeeps, NextLimited, NextRest DEF KeepsFewer, Keeps
  <1>3. All => BGTypeOK
    BY DEF CountInv, Limited, Rest, BGTypeOK
  <1> QED
    BY <1>1, <1>2, <1>3, PTL DEF BGSpec
=============================================================================
