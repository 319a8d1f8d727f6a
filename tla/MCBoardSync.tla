---------------------------- MODULE MCBoardSync -----------------------------
(* Instances of BoardSync for TLC.                                         *)
EXTENDS BoardSync, TLC
=============================================================================
