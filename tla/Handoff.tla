------------------------------ MODULE Handoff ------------------------------
(***************************************************************************)
(* What the message system promises, with the database, the router and the *)
(* restarts left out.  Every accepted message has an outcome.  "open": it  *)
(* waits.  "shown": its text has reached the recipient.  "accounted": the  *)
(* system has given it up, and another message says so.  "withdrawn":      *)
(* somebody closed it, or it could not be processed.  "cut": the process   *)
(* died, or the reply was lost, in the middle of handing it over.          *)
(* "parked": its text was left in an input box, or wiped from there, and   *)
(* nothing says so.                                                        *)
(***************************************************************************)
EXTENDS Naturals, Sequences

VARIABLE ledger      \* the outcome of each accepted message, in order of acceptance

Outcome == {"open", "withdrawn", "cut", "parked", "accounted", "shown"}

\* Only an open message gets an outcome.  A message withdrawn while it is on its way
\* may still arrive, or still be reported.  A text in an input box may be submitted at
\* any time, even after the message has been given up.
Follows(o) == CASE o = "open"      -> Outcome
                [] o = "withdrawn" -> Outcome \ {"open"}
                [] o = "parked"    -> {"parked", "accounted", "shown"}
                [] o = "accounted" -> {"accounted", "shown"}
                [] OTHER           -> {o}

Accounted == {m \in DOMAIN ledger : ledger[m] = "accounted"}

Init == ledger = <<>>

\* One step settles any number of messages and accepts at most one.  Messages become
\* accounted only in a step that accepts the message accounting for them, so a chain
\* of accounts always ends in a message still open, shown, withdrawn, cut or parked.
Next == \E accepted \in {0, 1} :
    /\ DOMAIN ledger' = 1 .. Len(ledger) + accepted
    /\ \A m \in DOMAIN ledger : ledger'[m] \in Follows(ledger[m])
    /\ accepted = 1 => ledger'[Len(ledger) + 1] = "open"
    /\ accepted = 0 => Accounted' \subseteq Accounted

Spec == Init /\ [][Next]_ledger
============================================================================
