---------------------------- MODULE MCAgentHooks ----------------------------
(* AgentHooks for TLC: two subagents and a shell over two sessions.        *)
EXTENDS AgentHooks, TLC

AgentSymmetry == Permutations(AgentIds)
=============================================================================
