\* Guard runs against failing AWS calls, an operator at the keys and moving counts.
SPECIFICATION FairSpec
CONSTANTS
    a1 = a1
    a2 = a2
    KeyIds <- MCKeyIds
    Day = 1
    Week = 3
    HardCeiling = 1
    Floor = 1
    Multiple = 1
    MaxRows = 2
    MaxOperator = 2
    MaxFaults = 1

INVARIANTS RecordedStopHolds
PROPERTIES BreachBeforeCommit BreachStops
