----------------------------- MODULE MCSweepSpool -----------------------------
(* Small instances of SweepSpool for TLC.                                  *)
EXTENDS SweepSpool

CONSTANTS r1, r2, cron, hand

MCRecords    == {r1, r2}
MCAppliers   == {cron, hand}
MCScheduled  == {cron}

\* One ordinary record and one the view refuses.
MCRefusedShape == [r \in {r1, r2} |-> IF r = r1 THEN "good" ELSE "refused"]

\* One ordinary record and one that only apply_passes cannot digest.
MCOddShape   == [r \in {r1, r2} |-> IF r = r1 THEN "good" ELSE "misshapen"]

MCTwoIds     == 1..2
===============================================================================
