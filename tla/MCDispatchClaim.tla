-------------------------- MODULE MCDispatchClaim ---------------------------
(* DispatchClaim for TLC: two board attempts (a slow one and the next), two *)
(* MCP calls and an epic chain.                                            *)
EXTENDS DispatchClaim, TLC

CallSymmetry == Permutations(BoardCalls) \cup Permutations(McpCalls)
=============================================================================
