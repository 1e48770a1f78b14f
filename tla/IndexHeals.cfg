\* After the last write the index comes to agree with the bucket.
SPECIFICATION FairSpec
CONSTANTS
    k1 = k1
    k2 = k2
    n1 = n1
    ReportKeys = {k1}
    Status = status
    Noise = noise
    PassIds = {n1}
    NoPass = none
    MaxPuts = 2
    MaxFaults = 1
    BatchSize = 1
    MayExpire = TRUE
    MayWipe = FALSE
PROPERTIES EventuallyAgrees WarningClears
