---------------------------- MODULE MCAgentLock ----------------------------
(* A small instance of AgentLock for TLC.                                  *)
EXTENDS AgentLock

CONSTANTS a1, a2, c1, c2, c3

Agents == {a1, a2}
Calls == {c1, c2, c3}
=============================================================================
