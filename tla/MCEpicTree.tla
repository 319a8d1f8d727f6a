----------------------------- MODULE MCEpicTree -----------------------------
(* Instances of EpicTree for TLC.                                          *)
EXTENDS EpicTree, TLC

TreeSymmetry == Permutations(Calls) \cup Permutations(Tasks) \cup Permutations(Repos)
=============================================================================
