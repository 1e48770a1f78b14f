\* Two TeamComms requests, two users, one token, one session.
SPECIFICATION Spec
CONSTANTS
    Users = {u1, u2}
    Tokens = {t1}
    Sessions = {s1}
    Nobody = Nobody
    Requests = {q1, q2}
    Visits <- CommsOnly
    MaxEntering = 1
SYMMETRY UsersAlike
INVARIANTS TypeOK NoLeak AttestsTheCurrent AttestsTheCaller
