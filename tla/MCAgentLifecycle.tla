--------------------------- MODULE MCAgentLifecycle ---------------------------
(* One agent and its watchdog for TLC.                                        *)
EXTENDS AgentLifecycle
=============================================================================
