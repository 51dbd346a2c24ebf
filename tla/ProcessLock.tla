----------------------------- MODULE ProcessLock -----------------------------
(* How one dashboard process takes over from another at startup:              *)
(* src/src/process-lock.ts with its callers in src/src/index.ts and the       *)
(* listener of src/src/web.ts.  A starting process looks at the pidfile,      *)
(* terminates the dashboards it finds, claims the pidfile and binds the port. *)
(*                                                                            *)
(* Every process starts once, so a process is its pid; a pid that is recycled *)
(* to another program is to this code the same as a dead one.  Processes      *)
(* interleave between any two system calls.  The handler of SIGTERM runs only *)
(* where the code awaits: a signal is kept in "signalled" until then.         *)
EXTENDS Integers, FiniteSets

CONSTANTS
  Pid,          \* the dashboards that are started
  MaxAttempts,  \* maxAttempts of acquirePidfileLock
  MaxCrashes,   \* bound on processes killed from outside
  MaxMisses     \* bound on lookups (pgrep, ps, lsof) that fail
ASSUME ProcessLockAssumption == MaxAttempts \in Nat /\ MaxCrashes \in Nat /\ MaxMisses \in Nat

NoPid == "nobody"
NoFile == [by |-> NoPid, written |-> FALSE]

VARIABLES
  file,       \* the pidfile: who created it, and is the pid in it?
  port,       \* who listens on WEB_PORT
  phase,      \* where each process is
  signalled,  \* the processes with a SIGTERM they have not handled
  recorded,   \* the pid each process has read from the file (NoPid: none, or no number)
  victims,    \* whom each process will SIGKILL after the grace period
  attempt,    \* attempts of acquirePidfileLock
  crashes, misses

plVars == <<file, port, phase, signalled, recorded, victims, attempt, crashes, misses>>
plCounters == <<crashes, misses>>

\* asleep in acquirePortLock; in acquirePidfileLock (no await); owner of the lock; on the way out
Asleep == {"grace", "drain"}
Claiming == {"create", "write", "read", "judge", "reread", "unlink"}
Owning == {"init", "reclaim", "serving"}
Leaving == {"closing", "release", "releaseUnlink"}
Phases == {"none", "check", "checkJudge", "scan", "dead"} \cup Asleep \cup Claiming \cup Owning \cup Leaving

Alive(p) == phase[p] \notin {"none", "dead"}
Recorded == IF file.written THEN file.by ELSE NoPid

\* a lookup tool answers, or it fails and the caller sees nothing
Looks(ok) == IF ok THEN UNCHANGED misses ELSE misses < MaxMisses /\ misses' = misses + 1

PLInit ==
  /\ file = NoFile /\ port = NoPid /\ signalled = {}
  /\ phase = [p \in Pid |-> "none"] /\ recorded = [p \in Pid |-> NoPid]
  /\ victims = [p \in Pid |-> {}] /\ attempt = [p \in Pid |-> 0]
  /\ crashes = 0 /\ misses = 0

Goto(p, where) == phase' = [phase EXCEPT ![p] = where]

\* the state in which everyone in S is gone and p goes on at "where"
Kill(p, S, where) ==
  /\ phase' = [q \in Pid |-> IF q \in S THEN "dead" ELSE IF q = p THEN where ELSE phase[q]]
  /\ port' = IF port \in S THEN NoPid ELSE port
  /\ signalled' = signalled \ S

\* DeferToPeerError: process.exit(0), nothing to release
Defer(p) == Kill(p, {p}, "dead")

Start(p) ==
  /\ phase[p] = "none" /\ Goto(p, "check")
  /\ UNCHANGED <<file, port, signalled, recorded, victims, attempt, plCounters>>

(* checkFreshStartupRace: read the pidfile, then look at the process and the port *)
CheckRead(p) ==
  /\ phase[p] = "check" /\ recorded' = [recorded EXCEPT ![p] = Recorded]
  /\ Goto(p, IF Recorded = NoPid THEN "scan" ELSE "checkJudge")
  /\ UNCHANGED <<file, port, signalled, victims, attempt, plCounters>>

(* A live dashboard that does not listen yet is the winner of the race: defer. *)
(* It is not known for one if ps fails, and not seen to listen if lsof fails.  *)
CheckJudge(p) ==
  /\ phase[p] = "checkJudge"
  /\ \E known, listens \in BOOLEAN :
       /\ known => Alive(recorded[p])
       /\ listens => known /\ port = recorded[p]
       /\ Looks(known = Alive(recorded[p]) /\ (known => listens = (port = recorded[p])))
       /\ IF known /\ ~listens THEN Defer(p)
          ELSE Goto(p, "scan") /\ UNCHANGED <<port, signalled>>
  /\ UNCHANGED <<file, recorded, victims, attempt, crashes>>

Others(p) == {q \in Pid \ {p} : Alive(q)}

\* Mutant: only the process on the port counts.
Scan_portOnly(p) ==
  /\ phase[p] = "scan"
  /\ \E ok \in BOOLEAN :
       /\ Looks(ok)
       /\ victims' = [victims EXCEPT ![p] = IF ok THEN Others(p) \cap {port} ELSE {}]
  /\ signalled' = signalled \cup victims'[p]
  /\ Goto(p, IF victims'[p] = {} THEN "create" ELSE "grace")
  /\ UNCHANGED <<file, port, recorded, attempt, crashes>>

(* acquirePortLock: SIGTERM whoever listens or runs the dashboard's binary *)
Scan(p) ==
  /\ phase[p] = "scan"
  /\ \E ok \in BOOLEAN :
       /\ Looks(ok)
       /\ victims' = [victims EXCEPT ![p] = IF ok THEN Others(p) ELSE {}]
  /\ signalled' = signalled \cup victims'[p]
  /\ Goto(p, IF victims'[p] = {} THEN "create" ELSE "grace")
  /\ UNCHANGED <<file, port, recorded, attempt, crashes>>

Survivors(p) == {q \in victims[p] : Alive(q)}
\* terminateProcesses returns
Forget(p) == victims' = [victims EXCEPT ![p] = {}]

GraceOver(p) ==
  /\ phase[p] = "grace" /\ Kill(p, Survivors(p), "drain") /\ Forget(p)
  /\ UNCHANGED <<file, recorded, attempt, plCounters>>

\* the port is free, or the drain window has passed
DrainOver(p) ==
  /\ phase[p] = "drain" /\ Goto(p, "create")
  /\ UNCHANGED <<file, port, signalled, recorded, victims, attempt, plCounters>>

(* acquirePidfileLock *)
Create(p) ==
  /\ phase[p] = "create" /\ attempt[p] < MaxAttempts
  /\ attempt' = [attempt EXCEPT ![p] = @ + 1]
  /\ IF file = NoFile THEN file' = [by |-> p, written |-> FALSE] /\ Goto(p, "write")
                      ELSE file' = file /\ Goto(p, "read")
  /\ UNCHANGED <<port, signalled, recorded, victims, plCounters>>

\* main().catch: shutdown, nothing to drain
AttemptsUsedUp(p) ==
  /\ phase[p] = "create" /\ attempt[p] = MaxAttempts /\ Goto(p, "release")
  /\ UNCHANGED <<file, port, signalled, recorded, victims, attempt, plCounters>>

\* the descriptor may be that of a file somebody has unlinked
Write(p) ==
  /\ phase[p] = "write" /\ Goto(p, "init")
  /\ file' = IF file.by = p THEN [file EXCEPT !.written = TRUE] ELSE file
  /\ UNCHANGED <<port, signalled, recorded, victims, attempt, plCounters>>

Read(p) ==
  /\ phase[p] = "read" /\ recorded' = [recorded EXCEPT ![p] = Recorded]
  /\ Goto(p, IF Recorded = NoPid THEN "reread" ELSE "judge")
  /\ UNCHANGED <<file, port, signalled, victims, attempt, plCounters>>

\* a live dashboard: DeferToPeerError; a dead pid, or one not known for a dashboard: stale
Judge(p) ==
  /\ phase[p] = "judge"
  /\ \E ok \in BOOLEAN :
       /\ Looks(ok)
       /\ IF ok /\ Alive(recorded[p]) THEN Defer(p)
          ELSE Goto(p, "reread") /\ UNCHANGED <<port, signalled>>
  /\ UNCHANGED <<file, recorded, victims, attempt, crashes>>

(* unlinkIfMatches: read again, then unlink *)
Reread(p) ==
  /\ phase[p] = "reread"
  /\ Goto(p, IF file # NoFile /\ Recorded = recorded[p] THEN "unlink" ELSE "create")
  /\ UNCHANGED <<file, port, signalled, recorded, victims, attempt, plCounters>>

Unlink(p) ==
  /\ phase[p] = "unlink" /\ file' = NoFile /\ Goto(p, "create")
  /\ UNCHANGED <<port, signalled, recorded, victims, attempt, plCounters>>

(* startWebServer: bind, or on EADDRINUSE terminate the listener and bind again *)
Listen(p) ==
  /\ phase[p] = "init" /\ port = NoPid /\ port' = p /\ Goto(p, "serving")
  /\ UNCHANGED <<file, signalled, recorded, victims, attempt, plCounters>>

\* Mutant: the listener is left alone.
PortInUse_spares(p) ==
  /\ phase[p] = "init" /\ port # NoPid
  /\ victims' = [victims EXCEPT ![p] = {}] /\ signalled' = signalled
  /\ Goto(p, "reclaim")
  /\ UNCHANGED <<file, port, recorded, attempt, plCounters>>

PortInUse(p) ==
  /\ phase[p] = "init" /\ port # NoPid
  /\ victims' = [victims EXCEPT ![p] = {port}] /\ signalled' = signalled \cup {port}
  /\ Goto(p, "reclaim")
  /\ UNCHANGED <<file, port, recorded, attempt, plCounters>>

\* nobody found on the port: process.exit(1)
PortInUseUnseen(p) ==
  /\ phase[p] = "init" /\ port # NoPid /\ Looks(FALSE) /\ Kill(p, {p}, "dead")
  /\ UNCHANGED <<file, recorded, victims, attempt, crashes>>

ReclaimOver(p) ==
  /\ phase[p] = "reclaim" /\ Kill(p, Survivors(p), "init") /\ Forget(p)
  /\ UNCHANGED <<file, recorded, attempt, plCounters>>

(* shutdown: close the listener, release the lock, exit *)
HandleTerm(p) ==
  /\ p \in signalled /\ phase[p] \in Asleep \cup Owning
  /\ signalled' = signalled \ {p}
  /\ port' = IF port = p THEN NoPid ELSE port
  /\ Goto(p, IF phase[p] \in {"reclaim", "serving"} THEN "closing" ELSE "release")
  /\ UNCHANGED <<file, recorded, victims, attempt, plCounters>>

Closed(p) ==
  /\ phase[p] = "closing" /\ Goto(p, "release")
  /\ UNCHANGED <<file, port, signalled, recorded, victims, attempt, plCounters>>

(* releaseLock *)
ReleaseRead(p) ==
  /\ phase[p] = "release" /\ Goto(p, IF Recorded = p THEN "releaseUnlink" ELSE "dead")
  /\ signalled' = signalled \ {p}
  /\ UNCHANGED <<file, port, recorded, victims, attempt, plCounters>>

ReleaseUnlink(p) ==
  /\ phase[p] = "releaseUnlink" /\ file' = NoFile /\ Kill(p, {p}, "dead")
  /\ UNCHANGED <<recorded, victims, attempt, plCounters>>

(* Killed from outside: launchd, the operator, out of memory *)
Die(p) ==
  /\ Alive(p) /\ crashes < MaxCrashes /\ crashes' = crashes + 1 /\ Kill(p, {p}, "dead")
  /\ UNCHANGED <<file, recorded, victims, attempt, misses>>

StepOf(p) ==
  \/ CheckRead(p) \/ CheckJudge(p) \/ Scan(p) \/ GraceOver(p) \/ DrainOver(p)
  \/ Create(p) \/ AttemptsUsedUp(p) \/ Write(p) \/ Read(p) \/ Judge(p) \/ Reread(p) \/ Unlink(p)
  \/ Listen(p) \/ PortInUse(p) \/ PortInUseUnseen(p) \/ ReclaimOver(p)
  \/ HandleTerm(p) \/ Closed(p) \/ ReleaseRead(p) \/ ReleaseUnlink(p)

PLNext == \E p \in Pid : Start(p) \/ StepOf(p) \/ Die(p)

PLSpec == PLInit /\ [][PLNext]_plVars

\* a running process goes on
PLFairSpec == PLSpec /\ \A p \in Pid : WF_plVars(StepOf(p))

-----------------------------------------------------------------------------
PLTypeOK ==
  /\ file \in [by : Pid \cup {NoPid}, written : BOOLEAN] /\ port \in Pid \cup {NoPid}
  /\ phase \in [Pid -> Phases] /\ signalled \subseteq {p \in Pid : Alive(p)}
  /\ recorded \in [Pid -> Pid \cup {NoPid}] /\ victims \in [Pid -> SUBSET Pid]
  /\ attempt \in [Pid -> 0..MaxAttempts] /\ crashes \in 0..MaxCrashes /\ misses \in 0..MaxMisses

Owner(p) == phase[p] \in Owning /\ p \notin signalled
Sole == \A p, q \in Pid : Owner(p) /\ Owner(q) => p = q

\* "let two dashboards run concurrently" is what the takeover has to prevent:
\* of two processes past the lock at least one has been told to go - as long as
\* no lookup has failed, whatever starts, dies or is killed meanwhile.
OneOwner == misses = 0 => Sole

\* Startups end: every process serves or is gone, and nobody keeps killing.
StartupsEnd == <>[](\A p \in Pid : phase[p] \in {"none", "serving", "dead"})
=============================================================================
