\* Drain, pass records and cross-check against each other, two keys.
SPECIFICATION Spec
CONSTANTS
    k1 = k1
    k2 = k2
    n1 = n1
    ReportKeys <- MCKeys
    Status = status
    Noise = noise
    PassIds = {n1}
    NoPass = none
    MaxPuts = 2
    MaxFaults = 1
    BatchSize = 2
    MayExpire = FALSE
    MayWipe = FALSE
SYMMETRY KeysAlike
INVARIANTS NoEventLost StatusNeverUnderCounted
PROPERTIES PruneSparesStanding RetiresOnlyTaken CalmKeysSettle
