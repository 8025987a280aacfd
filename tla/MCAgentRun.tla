----------------------------- MODULE MCAgentRun -----------------------------
(* Two run ids on one session: what the gate decides and which calls fail  *)
(* is left to each configuration.                                          *)
EXTENDS AgentRun

CONSTANTS first, second

Decided == Make("completed", "turn")
GoesOn == Make("incomplete", "turn")
MayGoOn == {Decided, GoesOn}
=============================================================================
