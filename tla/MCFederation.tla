----------------------------- MODULE MCFederation -----------------------------
(* Instances of Federation for model checking. *)
EXTENDS Federation, TLC

CONSTANT p

Windows == [x \in Peer |-> 1]
Small == {FALSE}
=============================================================================
