-------------------------------- MODULE MCWork --------------------------------
(* Where agents get their work from, for TLC: the schedule, the kanban board  *)
(* and the idea box.  The three share no state, so a behaviour is that of one *)
(* of them: "part" says which, and the others stay as they begin.             *)
EXTENDS MCScheduleRunner, Kanban, IdeaBox

CONSTANTS c1, c2, dev, mail, a1

\* Rows an upgraded or imported database holds: running in and outside a lane,
\* running and archived, out of repairs, and ready with a stamp already on it.
ImportedRow(state, repairs, lane, archived, dispatched) ==
  [state |-> state, repairs |-> repairs, lane |-> lane, archived |-> archived,
   assignee |-> a1, dispatched |-> dispatched]
MCSnapshot ==
  {ImportedRow("running", 0, dev, FALSE, FALSE), ImportedRow("running", 0, NoLane, FALSE, FALSE),
   ImportedRow("running", 0, dev, TRUE, FALSE),
   ImportedRow("repair", 2, dev, FALSE, FALSE), ImportedRow("ready", 0, dev, FALSE, TRUE)}

VARIABLE part
parts == <<vars, kbVars, ibVars, part>>

\* one initial state of the board will do while another part moves
MCInit ==
  /\ part \in {"schedule", "board", "ideas"} /\ Init /\ KBInit /\ IBInit
  /\ part # "board" => enforce = FALSE /\ online = {} /\ limit = [l \in Lane |-> 0]

OfSchedule(A) == part = "schedule" /\ A /\ UNCHANGED <<kbVars, ibVars, part>>
OfBoard(A) == part = "board" /\ A /\ UNCHANGED <<vars, ibVars, part>>
OfIdeas(A) == part = "ideas" /\ A /\ UNCHANGED <<vars, kbVars, part>>

MCSpec == MCInit /\ [][OfSchedule(Next) \/ OfBoard(KBNext) \/ OfIdeas(IBNext)]_parts
=============================================================================
