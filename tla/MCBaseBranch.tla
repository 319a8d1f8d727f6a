---------------------------- MODULE MCBaseBranch ----------------------------
(* Instances of BaseBranch for TLC.                                        *)
EXTENDS BaseBranch, TLC

TaskSymmetry == Permutations(Tasks)

(* Bound: wrap-ups and outside acts together, two of one and one of the    *)
(* other.                                                                  *)
ActsBound == tries + outside <= 3
=============================================================================
