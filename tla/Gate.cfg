\* One request of any kind beside changing accounts.
SPECIFICATION GateSpec
CONSTANTS
    Users = {u1, u2}
    Tokens = {t1}
    Sessions = {s1}
    Nobody = Nobody
    Requests = {q1}
    Visits <- SiteOnly
    MaxEntering = 1
SYMMETRY UsersAlike
INVARIANTS RelayedAsCaller AnonymousStaysOut
