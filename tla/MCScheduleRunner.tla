-------------------------- MODULE MCScheduleRunner --------------------------
(* Instances of ScheduleRunner for TLC. *)
EXTENDS ScheduleRunner

Plain == [agent |-> "main", all |-> FALSE, forceSend |-> FALSE, skipIfBusy |-> FALSE, heartbeat |-> FALSE,
          command |-> FALSE, gated |-> FALSE, output |-> FALSE, mcp |-> FALSE, maxAge |-> 2, due |-> {}]

\* a briefing that must be sent and prepares a file, a short heartbeat that
\* needs an MCP server, and a shell command
MCTask == [brief |-> [Plain EXCEPT !.forceSend = TRUE, !.output = TRUE, !.due = {2, 3}],
           beat  |-> [Plain EXCEPT !.skipIfBusy = TRUE, !.heartbeat = TRUE, !.gated = TRUE, !.mcp = TRUE,
                                   !.maxAge = 0, !.due = {2}],
           watch |-> [Plain EXCEPT !.command = TRUE, !.due = {3}]]
MCAgents == {"main"}

\* a broadcast, unless its check says no
MCBroadcast == [report |-> [Plain EXCEPT !.all = TRUE, !.gated = TRUE, !.maxAge = 0, !.due = {2}]]
MCFleet == {"main", "scout"}

\* one task, due twice
MCTwice == [brief |-> [Plain EXCEPT !.due = {3, 5}]]
=============================================================================
