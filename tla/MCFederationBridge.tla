-------------------------- MODULE MCFederationBridge --------------------------
(* Instances of FederationBridge for model checking. *)
EXTENDS FederationBridge, TLC

CONSTANT p

Windows == [x \in Peer |-> 1]
BothSizes == BOOLEAN
Small == {FALSE}
=============================================================================
