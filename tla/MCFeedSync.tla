----------------------------- MODULE MCFeedSync -----------------------------
(* Instances of FeedSync for TLC.                                          *)
EXTENDS FeedSync, TLC

FeedSymmetry == Permutations(Items) \cup Permutations(Cycles)
=============================================================================
