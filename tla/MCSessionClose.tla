--------------------------- MODULE MCSessionClose ---------------------------
(* Instances of SessionClose for TLC.                                      *)
EXTENDS SessionClose, TLC

(* A task that is not flagged goes through the steps of a flagged one whose *)
(* respawns all fail (TestFlag, RespawnFails); only the latter is explored. *)
Flagged == phoenix \/ copies > 0
(* A second token is presented, or refused, only by exit_session; it is    *)
(* explored with the other exit_session and without the other calls.       *)
TwoTokens == issued = 2 => \A c \in Calls \ Exits : At(c, "idle")

CallSymmetry == Permutations(Exits) \cup Permutations(Watchers)
=============================================================================
