--------------------------- MODULE BackgroundTasks ---------------------------
(* Background tasks: a row of background_tasks (db.ts), a detached tmux       *)
(* session that runs the prompt and ends by writing a marker into the task's  *)
(* output file, and the dashboard that watches both                           *)
(* (src/src/web/routes/background-tasks.ts).  The tasks of one agent: the     *)
(* limit is per agent, and nothing else relates two tasks.                    *)
(*                                                                            *)
(* The handlers are synchronous, so they interleave with the sessions and     *)
(* with crashes but not with one another: "doing" is the rest of the handler  *)
(* at work.  A task's half hour may be over at any time.                      *)
EXTENDS Integers, FiniteSets

CONSTANTS
  Task,
  MaxConcurrent,  \* MAX_CONCURRENT
  MaxFaults       \* bound on crashes and on calls to tmux or the file system that fail
ASSUME BackgroundTasksAssumption == MaxConcurrent \in Nat /\ MaxFaults \in Nat /\ IsFiniteSet(Task)

VARIABLES
  row,      \* status of the task's row
  session,  \* "none", "working", or "finished": asleep after the marker
  marker,   \* the tasks whose output file ends with the marker
  armed,    \* the tasks this dashboard polls and will time out
  doing,    \* the rest of the handler at work
  stray,    \* the tasks whose session the dashboard has lost sight of
  stuck,    \* the tasks whose prompt could not be written
  missed,   \* the tasks whose result the handler that ends them has not seen: it
            \* came after the file was read, or the file could not be read
  orphans,  \* the rows the sweep of the startup has still to look at
  faults

bgVars == <<row, session, marker, armed, doing, stray, stuck, missed, orphans, faults>>

Statuses == {"none", "running", "done", "failed", "timeout"}
Doing(op, t, saw) == [op |-> op, task |-> t, saw |-> saw]
Free == [op |-> "free"]
Down == [op |-> "down"]
Sweeping == [op |-> "sweep"]
Handlers == [op : {"write", "spawn", "late", "kill", "cancel", "finish", "orphan"}, task : Task, saw : BOOLEAN]

InRow(status) == {t \in Task : row[t] = status}
Fails == faults < MaxFaults /\ faults' = faults + 1
\* a call that fails or works
Call(ok) == IF ok THEN faults' = faults ELSE Fails

BGInit ==
  /\ row = [t \in Task |-> "none"] /\ session = [t \in Task |-> "none"]
  /\ marker = {} /\ armed = {} /\ doing = Free /\ stray = {} /\ stuck = {}
  /\ missed = {} /\ orphans = {} /\ faults = 0

bgFile == <<missed, orphans>>
Finish(t, status) == row' = [row EXCEPT ![t] = status]
Session(t, s) == session' = [session EXCEPT ![t] = s]

\* readOutputFile: a file that cannot be read is one without the marker
Reads(t, saw) ==
  /\ saw => t \in marker
  /\ Call(saw \/ t \notin marker)
  /\ missed' = IF t \in marker /\ ~saw THEN missed \cup {t} ELSE missed
\* the file is read, and what follows from it is still to be written
ReadFor(t) == doing.op \in {"late", "cancel", "finish", "orphan"} /\ doing.task = t

(* spawnBackgroundTask: the row in a transaction, the prompt file, the session *)
Spawn(t) ==
  /\ doing = Free /\ row[t] = "none" /\ Cardinality(InRow("running")) < MaxConcurrent
  /\ Finish(t, "running") /\ doing' = Doing("write", t, FALSE)
  /\ UNCHANGED <<session, marker, armed, stray, stuck, bgFile, faults>>

\* an exception of writeFileSync leaves the row as it is, and nobody watches it
WritePrompt ==
  /\ doing.op = "write"
  /\ \/ doing' = [doing EXCEPT !.op = "spawn"] /\ UNCHANGED <<stuck, faults>>
     \/ doing' = Free /\ stuck' = stuck \cup {doing.task} /\ Fails
  /\ UNCHANGED <<row, session, marker, armed, stray, bgFile>>

\* a call that timed out may have made the session all the same
NewSession ==
  /\ doing.op = "spawn" /\ doing' = Free
  /\ \E ok, made \in BOOLEAN :
       /\ ok => made
       /\ Call(ok)
       /\ Session(doing.task, IF made THEN "working" ELSE "none")
       /\ Finish(doing.task, IF ok THEN "running" ELSE "failed")
       /\ armed' = IF ok THEN armed \cup {doing.task} ELSE armed
       /\ stray' = IF made /\ ~ok THEN stray \cup {doing.task} ELSE stray
  /\ UNCHANGED <<marker, stuck, bgFile>>

(* The session *)
ClaudeEnds(t) ==
  /\ session[t] = "working" /\ Session(t, "finished") /\ marker' = marker \cup {t}
  /\ missed' = IF ReadFor(t) THEN missed \cup {t} ELSE missed
  /\ UNCHANGED <<row, armed, doing, stray, stuck, orphans, faults>>

SessionEnds(t) ==
  /\ session[t] = "finished" /\ Session(t, "none")
  /\ UNCHANGED <<row, marker, armed, doing, stray, stuck, bgFile, faults>>

SessionDies(t) ==
  /\ session[t] = "working" /\ Session(t, "none") /\ Fails
  /\ UNCHANGED <<row, marker, armed, doing, stray, stuck, bgFile>>

(* pollUntilDone, every ten seconds *)
PollUntilDone(t) ==
  /\ doing = Free /\ t \in armed /\ row[t] = "running" /\ t \in marker
  /\ Finish(t, "done") /\ doing' = Doing("kill", t, FALSE)
  /\ UNCHANGED <<session, marker, armed, stray, stuck, bgFile, faults>>

\* Mutant: a task whose time is over is late, whatever its file says.
Expire_blunt(t) ==
  /\ doing = Free /\ t \in armed /\ row[t] = "running" /\ doing' = Doing("late", t, FALSE)
  /\ UNCHANGED <<row, session, marker, armed, stray, stuck, bgFile, faults>>

(* checkAndFinalize, half an hour after the timer was set, reads the file ... *)
Expire(t) ==
  /\ doing = Free /\ t \in armed /\ row[t] = "running"
  /\ \E saw \in BOOLEAN :
       /\ Reads(t, saw)
       /\ IF saw THEN Finish(t, "done") /\ doing' = Doing("kill", t, FALSE)
                 ELSE row' = row /\ doing' = Doing("late", t, FALSE)
  /\ UNCHANGED <<session, marker, armed, stray, stuck, orphans>>

\* Mutant: a task that is late keeps its session.
ExpireFinish_spares ==
  /\ doing.op = "late" /\ Finish(doing.task, "timeout") /\ doing' = Free
  /\ UNCHANGED <<session, marker, armed, stray, stuck, bgFile, faults>>

\* ... captures the pane, for seconds perhaps, and writes the row
ExpireFinish ==
  /\ doing.op = "late" /\ Finish(doing.task, "timeout") /\ doing' = Doing("kill", doing.task, FALSE)
  /\ UNCHANGED <<session, marker, armed, stray, stuck, bgFile, faults>>

\* killSession swallows its errors
Kills(t) ==
  \E ok \in BOOLEAN :
    /\ Call(ok)
    /\ IF ok THEN Session(t, "none") /\ stray' = stray \ {t}
             ELSE session' = session /\ stray' = stray \cup {t}

KillAfter ==
  /\ doing.op = "kill" /\ Kills(doing.task) /\ doing' = Free
  /\ UNCHANGED <<row, marker, armed, stuck, bgFile>>

(* DELETE: read the file, kill the session, then write the row - of any status *)
Cancel(t) ==
  /\ doing = Free /\ row[t] # "none"
  /\ \E saw \in BOOLEAN :
       Reads(t, saw) /\ doing' = Doing(IF row[t] = "running" THEN "cancel" ELSE "finish", t, saw)
  /\ UNCHANGED <<row, session, marker, armed, stray, stuck, orphans>>

CancelKill ==
  /\ doing.op = "cancel" /\ Kills(doing.task) /\ doing' = [doing EXCEPT !.op = "finish"]
  /\ UNCHANGED <<row, marker, armed, stuck, bgFile>>

CancelFinish ==
  /\ doing.op = "finish" /\ Finish(doing.task, IF doing.saw THEN "done" ELSE "failed")
  /\ doing' = Free
  /\ UNCHANGED <<session, marker, armed, stray, stuck, bgFile, faults>>

\* in the middle of new-session it may leave the session behind
BGCrash ==
  /\ doing # Down /\ Fails /\ doing' = Down /\ armed' = {} /\ orphans' = {}
  /\ stray' = IF doing.op = "kill" THEN stray \cup {doing.task} ELSE stray
  /\ \/ session' = session
     \/ doing.op = "spawn" /\ Session(doing.task, "working")
  /\ UNCHANGED <<row, marker, stuck, missed>>

(* sweepOrphanedBackgroundTasks, at startup *)
BGRestart ==
  /\ doing = Down /\ doing' = Sweeping /\ orphans' = InRow("running")
  /\ UNCHANGED <<row, session, marker, armed, stray, stuck, missed, faults>>

\* Mutant: a session that outlived the dashboard gets no new timer.
SweepArms_not(t) ==
  /\ doing = Sweeping /\ t \in orphans /\ orphans' = orphans \ {t} /\ session[t] # "none"
  /\ UNCHANGED <<row, session, marker, armed, doing, stray, stuck, missed, faults>>

\* isBgSessionAlive sees the session: it gets a new timer and a new poll
SweepArms(t) ==
  /\ doing = Sweeping /\ t \in orphans /\ orphans' = orphans \ {t}
  /\ session[t] # "none" /\ armed' = armed \cup {t} /\ stray' = stray \ {t}
  /\ UNCHANGED <<row, session, marker, doing, stuck, missed, faults>>

(* It does not see it - a list that fails shows no session - and reads the file *)
SweepReads(t) ==
  /\ doing = Sweeping /\ t \in orphans /\ orphans' = orphans \ {t}
  /\ \E saw \in BOOLEAN :
       /\ saw => t \in marker
       /\ Call(session[t] = "none" /\ (saw \/ t \notin marker))
       /\ missed' = IF t \in marker /\ ~saw THEN missed \cup {t} ELSE missed
       /\ IF saw THEN Finish(t, "done") /\ doing' = doing
                 ELSE row' = row /\ doing' = Doing("orphan", t, FALSE)
  /\ stray' = IF session[t] # "none" THEN stray \cup {t} ELSE stray
  /\ UNCHANGED <<session, marker, armed, stuck>>

\* after the capture of its pane
OrphanFinish ==
  /\ doing.op = "orphan" /\ Finish(doing.task, "failed") /\ doing' = Sweeping
  /\ UNCHANGED <<session, marker, armed, stray, stuck, bgFile, faults>>

SweepOver ==
  /\ doing = Sweeping /\ orphans = {} /\ doing' = Free
  /\ UNCHANGED <<row, session, marker, armed, stray, stuck, bgFile, faults>>

SweepStep == SweepOver \/ \E t \in Task : SweepArms(t) \/ SweepReads(t)
Handler ==
  WritePrompt \/ NewSession \/ ExpireFinish \/ KillAfter \/ CancelKill \/ CancelFinish \/ OrphanFinish \/ SweepStep
BGNext ==
  \/ Handler \/ BGCrash \/ BGRestart
  \/ \E t \in Task :
       Spawn(t) \/ ClaudeEnds(t) \/ SessionEnds(t) \/ SessionDies(t) \/ PollUntilDone(t) \/ Expire(t) \/ Cancel(t)

BGSpec == BGInit /\ [][BGNext]_bgVars
\* A handler goes on, a crashed dashboard is started again, and a timer fires.
BGFairness == WF_bgVars(Handler) /\ WF_bgVars(BGRestart) /\ \A t \in Task : SF_bgVars(Expire(t))
BGFairSpec == BGSpec /\ BGFairness

-----------------------------------------------------------------------------
BGTypeOK ==
  /\ row \in [Task -> Statuses] /\ session \in [Task -> {"none", "working", "finished"}]
  /\ marker \subseteq Task /\ armed \subseteq Task /\ doing \in Handlers \cup {Free, Down, Sweeping}
  /\ stray \subseteq Task /\ stuck \subseteq Task /\ missed \subseteq Task /\ orphans \subseteq Task
  /\ faults \in 0..MaxFaults
  /\ Cardinality(InRow("running")) <= MaxConcurrent

\* Work is counted: a session that works belongs to a row the limit counts, or
\* is about to be killed - but for the sessions the dashboard lost sight of by
\* a failed call or a crash just before the kill.
WorkIsCounted ==
  \A t \in Task : session[t] = "working" /\ t \notin stray =>
    row[t] = "running" \/ (doing.op = "kill" /\ doing.task = t)

\* A task whose marker is in the file ends as done, by whatever route it ends,
\* and stays so.  The result is lost only if it was not to be seen when the
\* handler that ended the task read the file: written later, while the handler
\* captured the pane or killed the session, or in a file that could not be read.
ResultKept ==
  [][\A t \in Task : t \in marker /\ row'[t] # row[t] => row'[t] = "done" \/ t \in missed]_bgVars

\* Every task ends, through crashes and failed calls, so the slot it takes is
\* given back; the one that is never watched is that with no prompt file.
TaskEnds == \A t \in Task : row[t] = "running" ~> row[t] # "running" \/ t \in stuck
=============================================================================
