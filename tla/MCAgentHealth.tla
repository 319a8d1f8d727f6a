---------------------------- MODULE MCAgentHealth ---------------------------
(* AgentHealth for TLC: the hooks of one session (or two), the board and   *)
(* one MCP caller.                                                         *)
EXTENDS AgentHealth, TLC
=============================================================================
