---------------------------- MODULE MCLocalStage ----------------------------
(* Small instances of LocalStage for TLC. *)
EXTENDS LocalStage, TLC

StageSymmetry == Permutations(Threads) \cup Permutations(Values)
=============================================================================
