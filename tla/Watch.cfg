\* Passes, wipes, the declaration and the other signals in every order.
SPECIFICATION FairSpec
CONSTANTS
    Stall = 2
    RateCeiling = 1
    MaxHour = 2
INVARIANTS StallIsSilence VerdictIsWorst
PROPERTIES SilenceIsNoticed
