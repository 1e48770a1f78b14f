------------------------------- MODULE Accounts -------------------------------
(***************************************************************************)
(* The devcloud's own accounts: users, API tokens and browser sessions, as *)
(* the Django database holds them.  Every request reads them and nobody    *)
(* locks them, so they change between any two steps of a request.          *)
(***************************************************************************)
EXTENDS Naturals, FiniteSets

CONSTANTS Users, Tokens, Sessions, Nobody

ASSUME NobodyIsNoUser == Nobody \notin Users
ASSUME SessionStatesDiffer == {"unborn", "ended"} \cap Users = {}

VARIABLES active,    \* the users whose is_active is set
          token,     \* token[t]: its owner, and whether it is revoked
          session    \* session[s]: a user, "unborn", or "ended" for good

accounts == <<active, token, session>>

Unissued == [owner |-> Nobody, revoked |-> FALSE]

AccountsTypeOK ==
    /\ active \subseteq Users
    /\ token \in [Tokens -> [owner : Users \cup {Nobody}, revoked : BOOLEAN]]
    /\ session \in [Sessions -> Users \cup {"unborn", "ended"}]

AccountsInit ==
    /\ active = Users
    /\ token = [t \in Tokens |-> Unissued]
    /\ session = [s \in Sessions |-> "unborn"]

-------------------------------------------------------------------------------
\* A token speaks for its owner: issued, not revoked, owner active.
Resolves(t, u) ==
    /\ token[t].owner = u
    /\ ~token[t].revoked
    /\ u \in active

\* A session is signed in as an active user.
SignedIn(s, u) == session[s] = u /\ u \in active

\* The account page, or the admin, makes a token; the page of a signed-in
\* user only for that user.  The TeamComms kind it may have shapes an
\* attestation's wording and is left out.
Issue(u, t) ==
    /\ u \in active
    /\ token[t] = Unissued
    /\ token' = [token EXCEPT ![t].owner = u]
    /\ UNCHANGED <<active, session>>

\* Only one's own tokens, and only once.
Revoke(u, t) ==
    /\ u \in active
    /\ token[t].owner = u /\ ~token[t].revoked
    /\ token' = [token EXCEPT ![t].revoked = TRUE]
    /\ UNCHANGED <<active, session>>

Login(s, u) ==
    /\ u \in active
    /\ session[s] = "unborn"
    /\ session' = [session EXCEPT ![s] = u]
    /\ UNCHANGED <<active, token>>

\* A slip: the session is kept, for an anonymous user.
LogoutKeeping(s) ==
    /\ session[s] \in Users
    /\ session' = [session EXCEPT ![s] = Nobody]
    /\ UNCHANGED <<active, token>>

\* auth_logout flushes the session; its key never comes back.
Logout(s) ==
    /\ session[s] \in Users
    /\ session' = [session EXCEPT ![s] = "ended"]
    /\ UNCHANGED <<active, token>>

\* The site's admin; an account that was switched off stays off.
Deactivate(u) ==
    /\ u \in active
    /\ active' = active \ {u}
    /\ UNCHANGED <<token, session>>

AccountStep ==
    \/ \E u \in Users, t \in Tokens : Issue(u, t)
    \/ \E u \in Users, t \in Tokens : Revoke(u, t)
    \/ \E s \in Sessions, u \in Users : Login(s, u)
    \/ \E s \in Sessions : Logout(s)
    \/ \E u \in Users : Deactivate(u)
===============================================================================
