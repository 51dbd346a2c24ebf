------------------------------ MODULE SendLane ------------------------------
(***************************************************************************)
(* What the send lane of one tmux pane promises its callers: a single      *)
(* holder, a line of waiters served in order, and the right to leave the   *)
(* line and write outside the lane.                                        *)
(***************************************************************************)
EXTENDS Naturals, Sequences

CONSTANT Caller
VARIABLES holder,     \* the set of those who own the lane
          line,       \* those who wait, in order of arrival
          outside     \* those who write without the lane

Waiting == {line[i] : i \in DOMAIN line}

\* s without its i-th element.
Without(s, i) == [k \in 1 .. Len(s) - 1 |-> IF k < i THEN s[k] ELSE s[k + 1]]

Init == holder = {} /\ line = <<>> /\ outside = {}

\* A free lane is taken by a newcomer only if nobody waits.
Enter(c) == holder = {} /\ line = <<>> /\ holder' = {c} /\ UNCHANGED <<line, outside>>

Join(c) == /\ holder # {} /\ c \notin holder \cup Waiting
           /\ line' = Append(line, c)
           /\ UNCHANGED <<holder, outside>>

\* The holder leaves; the first in line, if any, is the new holder in the same step.
Leave(c) ==
    /\ holder = {c}
    /\ IF line = <<>> THEN holder' = {} /\ UNCHANGED line
                      ELSE holder' = {Head(line)} /\ line' = Tail(line)
    /\ UNCHANGED outside

GiveUp(i) == /\ line' = Without(line, i)
             /\ outside' = outside \cup {line[i]}
             /\ UNCHANGED holder

Finish(c) == outside' = outside \ {c} /\ UNCHANGED <<holder, line>>

Next == \/ \E c \in Caller : Enter(c) \/ Join(c) \/ Leave(c) \/ Finish(c)
        \/ \E i \in DOMAIN line : GiveUp(i)

Spec == Init /\ [][Next]_<<holder, line, outside>>
=============================================================================
