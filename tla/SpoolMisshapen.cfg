\* A record the view accepts and apply_passes cannot digest.
SPECIFICATION FairSpec
CONSTANTS
    r1 = r1
    r2 = r2
    cron = cron
    hand = hand
    Records <- MCRecords
    Shape <- MCOddShape
    PassIds <- MCTwoIds
    Workers = {w1, w2}
    Appliers <- MCAppliers
    Scheduled <- MCScheduled
    HostMayCrash = FALSE
    MaxFaults = 0
PROPERTIES AcceptedSettles
