\* Two web workers, cron and an operator on one spool; processes die, the
\* host does not.
SPECIFICATION FairSpec
CONSTANTS
    r1 = r1
    r2 = r2
    cron = cron
    hand = hand
    Records <- MCRecords
    Shape <- MCRefusedShape
    PassIds <- MCTwoIds
    Workers = {w1, w2}
    Appliers <- MCAppliers
    Scheduled <- MCScheduled
    HostMayCrash = FALSE
    MaxFaults = 2
INVARIANTS TypeOK AcceptedKept AsideOnlyOnFault
PROPERTIES ImplementsLedger AcceptedSettles
