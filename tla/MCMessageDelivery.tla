------------------------- MODULE MCMessageDelivery -------------------------
(* Small instances of MessageDelivery for TLC. *)
EXTENDS MessageDelivery

CONSTANTS Responsive,   \* the sub-agents whose session becomes ready again and again
          Tracked       \* the rows whose progress is checked

FairSpec == Spec /\ Fairness(Responsive)

\* Every row for the main agent, for a responsive agent or for a name without a
\* session eventually leaves the queue: delivered, drained, failed or summarized
\* (message-router.ts:431-434, 590-640).
EveryRowSettles ==
    \A m \in Tracked : Settles(m, Responsive \cup {Main} \cup Outsider)
============================================================================
