---------------------------- MODULE MCStageoutGuard ----------------------------
(* Small instances of StageoutGuard for TLC.                               *)
EXTENDS StageoutGuard, TLC

CONSTANTS a1, a2

MCKeyIds  == {a1, a2}
KeysAlike == Permutations(MCKeyIds)
===============================================================================
