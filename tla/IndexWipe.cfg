\* A wipe by hand beside drain and reconcile.
SPECIFICATION Spec
CONSTANTS
    k1 = k1
    k2 = k2
    n1 = n1
    ReportKeys <- MCKeys
    Status = status
    Noise = noise
    PassIds = {}
    NoPass = none
    MaxPuts = 2
    MaxFaults = 1
    BatchSize = 1
    MayExpire = FALSE
    MayWipe = TRUE
SYMMETRY KeysAlike

PROPERTIES WipeKeepsSurvivors
