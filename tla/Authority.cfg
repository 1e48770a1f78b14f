\* One account, two sign-ins at once, the backfill beside them, one late write.
SPECIFICATION Spec
CONSTANTS
    Accounts = {a1}
    Checks = {c1, c2}
    Decisions = {"read"}
    Backfill = Backfill
    Nobody = Nobody
    MaxLate = 1
SYMMETRY ChecksAlike
INVARIANTS EicIsObserved GrantsStand LoneCheckSettles NeverSilent
PROPERTIES ImplementsRecord
