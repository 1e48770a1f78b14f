\* The host loses power between any two steps.
SPECIFICATION Spec
CONSTANTS
    r1 = r1
    r2 = r2
    cron = cron
    hand = hand
    Records <- MCRecords
    Shape <- MCOddShape
    PassIds <- MCTwoIds
    Workers = {w1}
    Appliers <- MCAppliers
    Scheduled <- MCScheduled
    HostMayCrash = TRUE
    MaxFaults = 2
INVARIANTS JournaledKept NoPartialRecord
PROPERTIES ImplementsCrashLedger
