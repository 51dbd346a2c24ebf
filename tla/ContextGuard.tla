---------------------------- MODULE ContextGuard -----------------------------
(* What is done about a session whose context fills: the context guard        *)
(* (src/src/context-guard.ts and its runner), which asks for a HANDOFF.md,    *)
(* restarts the session with a new conversation and points that one at the    *)
(* file, and the restart gate (src/src/context-restart-gate.ts and its        *)
(* runner), which types /clear into a heavy session that has no work in hand. *)
(*                                                                            *)
(* One agent, a sub-agent or the main one.  A sweep decides on what it reads  *)
(* in one synchronous step, stores the new state of the guard and only then   *)
(* acts; its awaits are "acting".  Deadlines are "late", which comes some     *)
(* time after the phase has begun.  The sizes of a context are ordered by the *)
(* thresholds they pass.                                                      *)
EXTENDS Integers

CONSTANTS
  Settings,     \* the settings to begin with: the tiers of the guard, and the gate
  Edits,        \* the settings the operator may change them to
  Heavy,        \* the size at which a session is worth flushing, and the gate's threshold
  Act, Hard,    \* the sizes of actPct and hardPct
  Saturated,    \* the size at which the footer reads "100% context used"
  MaxTroubles   \* bound on dying sessions, failing calls, crashes and edits of the settings
ASSUME GuardAssumption ==
  /\ Settings \cup Edits \subseteq [enabled : BOOLEAN, net : BOOLEAN, flush : BOOLEAN, gate : BOOLEAN]
  /\ Heavy \in Nat \ {0} /\ Act \in Nat \ {0} /\ Hard \in Nat /\ Saturated \in Nat
  /\ Act <= Hard /\ Hard <= Saturated /\ Heavy <= Saturated /\ MaxTroubles \in Nat

None == -1        \* no reading
Light == 0

VARIABLES
  isMain,    \* whether this is the main agent
  cfg,       \* the settings
  pane,      \* the session: "gone", "boot", "idle", "busy", "banner" (an error shown above the
             \* footer), or "modal" (a dialog that takes the place of prompt and footer)
  load,      \* the size of its context
  reading,   \* the size the newest transcript shows
  handoff,   \* HANDOFF.md: "none", "current", or "behind" the newest transcript by more than the slack
  told,      \* the guard's last prompt to the conversation: "nothing", "ask", or a claim
  guard,     \* the entry of guardStates; "newer": the file was written after the request
  acting,    \* the await of the sweep: "no", "asking", "restarting", "resuming"
  claim,     \* what the resume prompt under way says of the file, "missing" at other times
  grace,     \* the main session was respawned less than six minutes ago
  gate,      \* the gate: its timer is armed, /clear waits in the send lane, how long it is blocked
  doomed,    \* history: the guard has decided to end this conversation
  spoilt,    \* history: the last restart failed or somebody else started the session
  ended,     \* history: "handoff" when the guard ended the last conversation
  troubles

agent == <<isMain, cfg>>
past == <<spoilt, ended>>
cgSession == <<pane, load, reading, told, doomed>>
cgVars == <<agent, cgSession, handoff, guard, acting, claim, grace, gate, past, troubles>>

Claims == {"current", "behind", "unverified", "missing"}
Resting == [phase |-> "idle", late |-> FALSE, streak |-> 0, stale |-> "current", newer |-> FALSE]
In(phase) == [Resting EXCEPT !.phase = phase]
NoStreak == [guard EXCEPT !.streak = 0]

CGInit ==
  /\ isMain \in BOOLEAN /\ cfg \in Settings
  /\ pane = "idle" /\ load = Light /\ reading = Light /\ told = "nothing" /\ doomed = FALSE
  /\ handoff = "none"
  /\ guard = Resting /\ acting = "no" /\ claim = "missing" /\ grace = FALSE
  /\ gate = [armed |-> cfg.gate, lane |-> FALSE, blocked |-> "no"]
  /\ spoilt = FALSE /\ ended = "none" /\ troubles = 0

Trouble == troubles < MaxTroubles /\ troubles' = troubles + 1
Forget == spoilt' = FALSE /\ ended' = "none"
NewConversation == load' = Light /\ told' = "nothing" /\ doomed' = FALSE /\ reading' = reading

-----------------------------------------------------------------------------
(* The session and the people around it                                       *)

TurnBegins ==
  /\ pane = "idle" /\ load < Saturated /\ pane' = "busy"
  /\ reading' = IF reading > load THEN None ELSE reading   \* the first line of a new transcript
  /\ UNCHANGED <<agent, load, told, doomed, handoff, guard, acting, claim, grace, gate, past, troubles>>

Works ==
  /\ pane = "busy"
  /\ \E size \in {load, load + 1} : size <= Saturated /\ load' = size /\ reading' = size
  /\ handoff' = IF handoff = "current" THEN "behind" ELSE handoff
  /\ UNCHANGED <<agent, pane, told, doomed, guard, acting, claim, grace, gate, past, troubles>>

WritesHandoff ==
  /\ pane = "busy" /\ told = "ask" /\ handoff' = "current"
  /\ guard' = [guard EXCEPT !.newer = (guard.phase = "await-handoff")]
  /\ UNCHANGED <<agent, cgSession, acting, claim, grace, gate, past, troubles>>

TurnEnds ==
  /\ pane \in {"boot", "busy", "banner", "modal"} /\ pane' \in {"idle", "banner", "modal"} \ {pane}
  /\ reading' = IF pane = "busy" THEN load ELSE reading
  /\ UNCHANGED <<agent, load, told, doomed, handoff, guard, acting, claim, grace, gate, past, troubles>>

Dies ==
  /\ Trouble /\ pane # "gone" /\ pane' = "gone" /\ told' = "nothing"
  /\ UNCHANGED <<agent, load, reading, doomed, handoff, guard, acting, claim, grace, gate, past>>

(* The watchdogs, the operator: with --continue the newest transcript goes on *)
StartedByOthers ==
  /\ pane = "gone" /\ pane' = "boot" /\ grace' = isMain
  /\ \/ NewConversation
     \/ load' = (IF reading = None THEN Light ELSE reading) /\ UNCHANGED <<reading, told, doomed>>
  /\ spoilt' = (spoilt \/ guard.phase = "await-ready" \/ acting = "resuming")
  /\ UNCHANGED <<agent, handoff, guard, acting, claim, gate, ended, troubles>>

Configure ==
  /\ Trouble /\ cfg' \in Edits
  /\ UNCHANGED <<isMain, cgSession, handoff, guard, acting, claim, grace, gate, past>>

(* The dashboard restarts: guardStates is empty, every agent's gate timer set *)
DashboardRestarts ==
  /\ Trouble /\ guard' = Resting /\ acting' = "no"
  /\ gate' = [gate EXCEPT !.armed = TRUE, !.lane = FALSE]
  /\ claim' = "missing" /\ Forget
  /\ UNCHANGED <<agent, cgSession, handoff, grace>>

DeadlinePasses ==
  /\ guard.phase # "idle" /\ ~guard.late /\ guard' = [guard EXCEPT !.late = TRUE]
  /\ UNCHANGED <<agent, cgSession, handoff, acting, claim, grace, gate, past, troubles>>

GraceEnds ==
  /\ grace /\ grace' = FALSE
  /\ UNCHANGED <<agent, cgSession, handoff, guard, acting, claim, gate, past, troubles>>

-----------------------------------------------------------------------------
(* The guard's sweep over this agent: checkAgent and decideGuard, a branch an *)
(* action                                                                     *)

Sweeping(phase) == acting = "no" /\ guard.phase = phase /\ (cfg.enabled \/ cfg.net \/ cfg.flush)
Live == pane \notin {"gone", "boot"}

\* Mutant: the net, too, leaves a turn that is under way alone.
Full_deferring == cfg.net /\ pane \in {"idle", "banner"} /\ load = Saturated

\* what the net acts on, a turn under way or not: it reads the footer, which a modal hides
Full == cfg.net /\ Live /\ pane # "modal" /\ load = Saturated
Share == IF cfg.enabled THEN reading ELSE None          \* pct, measured for the proactive tiers alone

(* handoffStaleMinutes: how far the file lags behind the transcript, if its clock can be read *)
Staleness(clock) ==
  IF handoff = "none" THEN "current" ELSE IF ~clock THEN "unverified" ELSE handoff

Becomes(g) ==
  /\ guard' = g
  /\ UNCHANGED <<agent, cgSession, handoff, acting, claim, grace, gate, past, troubles>>

(* handoffRequest and the request for a refresh: the file's mtime is recorded *)
AsksFor(g) ==
  /\ guard' = g /\ acting' = "asking"
  /\ UNCHANGED <<agent, cgSession, handoff, claim, grace, gate, past, troubles>>

\* Mutant: the decision is stored although the restart is put off.
Defers_committed ==
  /\ isMain /\ grace /\ doomed' = TRUE /\ guard' = In("await-ready")
  /\ UNCHANGED <<agent, pane, load, reading, told, handoff, acting, claim, grace, gate, past, troubles>>

(* A respawn of the main session within the grace: the decision is dropped *)
Defers ==
  /\ isMain /\ grace /\ doomed' = TRUE
  /\ UNCHANGED <<agent, pane, load, reading, told, handoff, guard, acting, claim, grace, gate, past, troubles>>

(* performRestart: the main session is respawned at once; a sub-agent's is    *)
(* killed and started after two seconds; either call may fail, and the state  *)
(* is stored before                                                           *)
Restarts(clock) ==
  /\ ~(isMain /\ grace)
  /\ guard' = [In("await-ready") EXCEPT !.stale = Staleness(clock)] /\ ended' = handoff
  /\ \/ isMain /\ pane' = "boot" /\ NewConversation /\ grace' = TRUE /\ spoilt' = FALSE
        /\ UNCHANGED <<acting, troubles>>
     \/ ~isMain /\ pane' = "gone" /\ told' = "nothing" /\ doomed' = TRUE /\ spoilt' = FALSE
        /\ acting' = "restarting" /\ UNCHANGED <<load, reading, grace, troubles>>
     \/ Trouble /\ doomed' = TRUE /\ spoilt' = TRUE /\ UNCHANGED <<pane, load, reading, told, acting, grace>>
  /\ UNCHANGED <<agent, handoff, claim, gate>>

EndsOn(clock) == Defers \/ Restarts(clock)
Ends == \E clock \in BOOLEAN : EndsOn(clock)

SwitchedOff ==
  /\ acting = "no" /\ ~(cfg.enabled \/ cfg.net \/ cfg.flush) /\ Becomes(Resting)

CoolsDown ==
  /\ Sweeping("cooldown") /\ guard.late /\ guard' = Resting /\ Forget
  /\ UNCHANGED <<agent, cgSession, handoff, acting, claim, grace, gate, troubles>>

\* phase idle: the net first, which wants two sweeps in a row to agree
SeesSaturation ==
  /\ Sweeping("idle") /\ Full
  /\ IF guard.streak = 0 THEN Becomes([guard EXCEPT !.streak = 1]) ELSE Ends

\* the hard tier, which leaves a turn that is under way alone
SeesHard ==
  /\ Sweeping("idle") /\ pane # "gone" /\ ~Full /\ Share >= Hard
  /\ IF pane = "busy" THEN Becomes(NoStreak) ELSE Ends

WantsHandoff == \/ Share \in Act..(Hard - 1)
                \/ cfg.flush /\ Share < Act /\ reading >= Heavy /\ pane = "idle"   \* and long quiet

AsksHandoff ==
  /\ Sweeping("idle") /\ pane # "gone" /\ ~Full /\ WantsHandoff /\ AsksFor(In("await-handoff"))

SeesNothing ==
  /\ Sweeping("idle") /\ (pane = "gone" \/ (~Full /\ Share < Act)) /\ Becomes(NoStreak)

\* phase await-handoff
Wanted == (cfg.enabled \/ cfg.flush) /\ pane # "gone"
StandsDown == Sweeping("await-handoff") /\ ~Wanted /\ Becomes(In("cooldown"))
Waiting == Sweeping("await-handoff") /\ Wanted
Written == guard.newer /\ handoff # "none" /\ pane = "idle"

TipsOver == Waiting /\ Full /\ Ends

HandoffWritten ==
  /\ Waiting /\ ~Full /\ Written
  /\ \E clock \in BOOLEAN :
       IF Staleness(clock) = "behind" /\ ~guard.late /\ Share < Hard
       THEN AsksFor([guard EXCEPT !.newer = FALSE])
       ELSE EndsOn(clock)

HandoffOverdue ==
  /\ Waiting /\ ~Full /\ ~Written /\ (Share >= Hard \/ guard.late) /\ pane # "busy" /\ Ends

\* phase await-ready
Ready == pane = "idle" /\ load < Saturated      \* isSessionReadyForPrompt

SeesReady ==
  /\ Sweeping("await-ready") /\ Ready
  /\ guard' = In("cooldown") /\ acting' = "resuming"
  /\ claim' = IF handoff = "none" THEN "missing" ELSE guard.stale
  /\ UNCHANGED <<agent, cgSession, handoff, grace, gate, past, troubles>>

GivesUp == Sweeping("await-ready") /\ ~Ready /\ guard.late /\ Becomes(In("cooldown"))

GuardSweeps ==
  \/ SwitchedOff \/ CoolsDown
  \/ SeesSaturation \/ SeesHard \/ AsksHandoff \/ SeesNothing
  \/ StandsDown \/ TipsOver \/ HandoffWritten \/ HandoffOverdue
  \/ SeesReady \/ GivesUp

(* sendPromptToSession: the prompt reaches whatever runs in the pane by then *)
Types(prompt) ==
  /\ acting' = "no" /\ claim' = "missing"
  /\ \/ Live /\ told' = prompt /\ troubles' = troubles
     \/ pane \notin {"idle", "busy"} /\ UNCHANGED <<told, troubles>>
     \/ Trouble /\ told' = told
  /\ UNCHANGED <<agent, pane, load, reading, doomed, handoff, guard, grace, gate, past>>

Asked == acting = "asking" /\ Types("ask")
Resumed == acting = "resuming" /\ Types(claim)

(* restartAgentProcess after its two seconds: it starts a new conversation,   *)
(* unless the start fails or somebody else has been faster                    *)
StartsAgain ==
  /\ acting = "restarting" /\ acting' = "no"
  /\ \/ pane = "gone" /\ pane' = "boot" /\ NewConversation /\ UNCHANGED <<spoilt, troubles>>
     \/ pane = "gone" /\ Trouble /\ spoilt' = TRUE /\ UNCHANGED cgSession
     \/ pane # "gone" /\ UNCHANGED <<cgSession, spoilt, troubles>>
  /\ UNCHANGED <<agent, handoff, guard, claim, grace, gate, ended>>

-----------------------------------------------------------------------------
(* The gate: checkAgent and decideGate of context-restart-gate                *)

GateBecomes(g) ==
  /\ gate' = g
  /\ UNCHANGED <<agent, cgSession, handoff, guard, acting, claim, grace, past, troubles>>
Gating == gate.armed /\ ~gate.lane /\ cfg.gate

\* a sweep that finds the gate switched off sets no further timer
GateDisarms == gate.armed /\ ~gate.lane /\ ~cfg.gate /\ GateBecomes([gate EXCEPT !.armed = FALSE])

(* nextBlockClock: below the threshold nobody waits for the gate *)
GateBelow ==
  /\ Gating /\ reading \in Light..(Heavy - 1) /\ GateBecomes([gate EXCEPT !.blocked = "no"])

(* Above it something is in hand: the guard, the pane, a child process, an    *)
(* unanswered message or question, a fresh task record                        *)
GateBlocks ==
  /\ Gating /\ reading >= Heavy /\ gate.blocked = "no"
  /\ GateBecomes([gate EXCEPT !.blocked = "counting"])

GateAlerts ==
  /\ Gating /\ reading >= Heavy /\ gate.blocked = "long" /\ GateBecomes([gate EXCEPT !.blocked = "alerted"])

\* two hours of it
BlockedLong == gate.blocked = "counting" /\ GateBecomes([gate EXCEPT !.blocked = "long"])

GateOpens ==
  /\ Gating /\ reading >= Heavy /\ guard.phase \notin {"await-handoff", "await-ready"} /\ pane = "idle"
  /\ GateBecomes([gate EXCEPT !.lane = TRUE])

(* withSessionSendLock grants the lane, or fails open: nothing is looked at   *)
(* again.  A session behind a modal does not take the command, one that shows *)
(* a banner may.                                                              *)
GateClears ==
  /\ gate.lane
  /\ \/ /\ pane # "gone" /\ gate' = [gate EXCEPT !.lane = FALSE, !.blocked = "no"]
        /\ \/ pane \in {"idle", "busy", "banner"} /\ pane' = "idle" /\ NewConversation
           \/ pane \notin {"idle", "busy"} /\ UNCHANGED cgSession
        /\ troubles' = troubles
     \/ /\ gate' = [gate EXCEPT !.lane = FALSE] /\ UNCHANGED cgSession     \* send-keys fails
        /\ IF pane = "gone" THEN troubles' = troubles ELSE Trouble
  /\ UNCHANGED <<agent, handoff, guard, acting, claim, grace, past>>

-----------------------------------------------------------------------------
People ==
  \/ TurnBegins \/ Works \/ WritesHandoff \/ TurnEnds
  \/ Dies \/ StartedByOthers \/ Configure \/ DashboardRestarts
Time == DeadlinePasses \/ GraceEnds \/ BlockedLong
Gate == GateDisarms \/ GateBelow \/ GateBlocks \/ GateAlerts \/ GateOpens \/ GateClears
Loop == GuardSweeps \/ Asked \/ Resumed \/ StartsAgain
CGNext == People \/ Time \/ Loop \/ Gate

CGSpec == CGInit /\ [][CGNext]_cgVars

(* Both sweeps are timers and their awaits end, time passes, and a command    *)
(* that is typed again and again is typed at last while the pane takes it.    *)
CGFairness ==
  /\ WF_cgVars(Loop) /\ WF_cgVars(Time) /\ WF_cgVars(Gate)
  /\ SF_cgVars(GateClears /\ pane \in {"idle", "busy"})
CGFairSpec == CGSpec /\ CGFairness

CGTypeOK ==
  /\ isMain \in BOOLEAN /\ cfg \in Settings \cup Edits
  /\ pane \in {"gone", "boot", "idle", "busy", "banner", "modal"} /\ load \in Light..Saturated
  /\ reading \in None..Saturated /\ told \in Claims \cup {"nothing", "ask"} /\ doomed \in BOOLEAN
  /\ handoff \in {"none", "current", "behind"}
  /\ guard \in [phase : {"idle", "await-handoff", "await-ready", "cooldown"}, late : BOOLEAN,
                streak : 0..1, stale : {"current", "behind", "unverified"}, newer : BOOLEAN]
  /\ acting \in {"no", "asking", "restarting", "resuming"} /\ claim \in Claims
  /\ grace \in BOOLEAN
  /\ gate \in [armed : BOOLEAN, lane : BOOLEAN, blocked : {"no", "counting", "long", "alerted"}]
  /\ spoilt \in BOOLEAN /\ ended \in {"none", "current", "behind"} /\ troubles \in 0..MaxTroubles

(* The state "must NOT advance" without the restart, and "a missing           *)
(* measurement must not impersonate a fresh one": unless the restart failed   *)
(* or somebody else started the session, the prompt that tells a conversation *)
(* that it begins anew never reaches the one the guard meant to end, and says *)
(* of HANDOFF.md only what held when that one ended.                          *)
HonestResume ==
  [][Resumed /\ told' # told /\ ~spoilt =>
       /\ ~doomed
       /\ told' = "current" => ended = "current"
       /\ told' = "missing" => ended = "none"]_cgVars

(* "a saturated pane can NEVER recover on its own", "a wedged pane still gets *)
(* the restart that is its only way out", and a gate that stays shut "is      *)
(* itself a signal": again and again the session is not full while the net is *)
(* on and can see its footer, not wedged above the hard share while the       *)
(* proactive tiers measure it, and not heavy while a gate that has a timer    *)
(* has said nothing - whichever of them, or somebody else, has seen to it.    *)
(* (Behind a modal the net is blind: with the net alone a full session there  *)
(* is not ended.)                                                             *)
HeavyUnreported ==
  /\ cfg.gate /\ gate.armed /\ gate.blocked # "alerted"
  /\ pane # "gone" /\ load >= Heavy /\ reading >= Heavy
Overfull == cfg.net /\ pane \in {"idle", "busy", "banner"} /\ load = Saturated
Wedged == cfg.enabled /\ pane \in {"banner", "modal"} /\ reading >= Hard
NobodyStaysFull == []<>~(Overfull \/ Wedged \/ HeavyUnreported)
=============================================================================
