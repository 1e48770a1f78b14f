---------------------------- MODULE MCStageoutIndex ----------------------------
(* Small instances of StageoutIndex for TLC.                               *)
EXTENDS StageoutIndex, TLC

CONSTANTS k1, k2, n1

MCKeys    == {k1, k2}
KeysAlike == Permutations(MCKeys)
===============================================================================
