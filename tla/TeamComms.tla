------------------------------- MODULE TeamComms -------------------------------
(***************************************************************************)
(* The TeamComms gateway over RequestGate: an admitted request leaves a    *)
(* reference to its credential in the database and goes to the monitor     *)
(* with the reference alone; the monitor asks whom it stands for, as often *)
(* as it likes and also when the request is over.                          *)
(***************************************************************************)
EXTENDS RequestGate

VARIABLES
    reference,  \* reference[r]: the row of r's attestation, or NoReference
    expired,    \* expired[r]: the rows that had expired when r took the time
    inquiry     \* the monitor's introspection in progress

vars == <<accounts, gate, reference, expired, inquiry>>

\* "caller" and "checked" are history: for whom the request came, and whether
\* its CSRF token was good.  The hash of the body and the query, method and
\* path are left out.
NoReference == [user |-> Nobody, token |-> "none", cookie |-> "none", csrf |-> FALSE,
                live |-> FALSE, caller |-> Nobody, checked |-> FALSE]
References == [user : Users \cup {Nobody}, token : Tokens \cup {"none"}, cookie : Cookies,
               csrf : BOOLEAN, live : BOOLEAN, caller : Users \cup {Nobody}, checked : BOOLEAN]

\* "row" is the reference found; "standing" is history: whom the credential
\* spoke for when it was asked.
NoInquiry == [at |-> "idle", row |-> NoReference, standing |-> Nobody]

TypeOK ==
    /\ AccountsTypeOK
    /\ GateTypeOK
    /\ reference \in [Requests -> References]
    /\ expired \in [Requests -> SUBSET Requests]
    /\ inquiry \in [at : {"idle", "found", "attested"}, row : References,
                    standing : Users \cup {Nobody}]

Init ==
    /\ SiteInit
    /\ reference = [r \in Requests |-> NoReference]
    /\ expired = [r \in Requests |-> {}]
    /\ inquiry = NoInquiry

Rows == {r \in Requests : reference[r] # NoReference}
-------------------------------------------------------------------------------
\* A refusal may be the login page, where a browser reads without a sign-in.
Turns(r, reply) == Answer(r, reply) /\ UNCHANGED <<reference, expired>>

\* CsrfViewMiddleware lets reads pass.
CsrfPasses(q) == q.method = "GET" \/ q.csrf

\* _authenticated_request: a token is looked up anew, and nothing but a
\* token will do where there is an Authorization header; a cookie's user is
\* the one already found, and CSRF is checked.
Admits(q, u) ==
    IF Authorized(q)
    THEN q.bearer \in Tokens /\ Resolves(q.bearer, u)
    ELSE q.user = u /\ CsrfPasses(q)

Admit(r) ==
    LET q == request[r] IN
    /\ q.at = "known" /\ q.path = "teamcomms"
    /\ \/ \E u \in Users :
             /\ Admits(q, u)
             /\ request' = [request EXCEPT ![r].at = "admitted", ![r].user = u]
             /\ UNCHANGED <<relay, connection, caller, reference, expired>>
       \/ /\ \A u \in Users : ~Admits(q, u)
          /\ Turns(r, "refused")

\* Too large, an unfit path, or the database fails.
Unfit(r) == request[r].at \in {"admitted", "referenced"} /\ Turns(r, "refused")

\* A slip: a session that is signed in is taken before the token.
RefersByCookie(r) ==
    LET q == request[r]
        byCookie == q.cookie \in Sessions /\ session[q.cookie] \in active IN
    [user |-> IF byCookie THEN session[q.cookie] ELSE q.user,
     token |-> IF byCookie THEN "none" ELSE q.bearer,
     cookie |-> IF byCookie THEN q.cookie ELSE "none",
     csrf |-> byCookie, live |-> TRUE, caller |-> caller[r],
     checked |-> byCookie /\ CsrfPasses(q)]

\* The row of a request: its token, or else its session's key.
Refers(r) ==
    LET q == request[r] IN
    [user |-> q.user,
     token |-> IF Authorized(q) THEN q.bearer ELSE "none",
     cookie |-> IF Authorized(q) THEN "none" ELSE q.cookie,
     csrf |-> ~Authorized(q), live |-> TRUE, caller |-> caller[r],
     checked |-> ~Authorized(q) /\ CsrfPasses(q)]

\* The time is taken, then the row is created; with it the credential is
\* forgotten, and only the reference goes on to the monitor.  The row is new
\* whatever row had its id before, so that no time taken earlier concerns it.
Create(r) ==
    /\ request[r].at = "admitted"
    /\ expired' = [p \in Requests |->
           (IF p = r THEN {x \in Rows : ~reference[x].live} ELSE expired[p]) \ {r}]
    /\ reference' = [reference EXCEPT ![r] = Refers(r)]
    /\ request' = [request EXCEPT ![r] = [Idle EXCEPT !.at = "referenced", !.path = "teamcomms"]]
    /\ caller' = [caller EXCEPT ![r] = Nobody]
    /\ UNCHANGED <<relay, connection>>

\* The rows that had expired by the time taken go, those that are left of
\* them, and the request is sent.
Purge(r) ==
    /\ request[r].at = "referenced"
    /\ reference' = [p \in Requests |-> IF p \in expired[r] THEN NoReference ELSE reference[p]]
    /\ expired' = [expired EXCEPT ![r] = {}]
    /\ request' = [request EXCEPT ![r].at = "sending"]
    /\ connection' = [connection EXCEPT ![r] = TRUE]
    /\ UNCHANGED <<relay, caller>>

\* The monitor answers whole, with a stream that outlives the view, or not
\* at all, which is a 502 page; what no stream takes over the view closes.
Relayed(r) ==
    /\ request[r].at = "sending"
    /\ \/ Turns(r, "page")
       \/ /\ request' = [request EXCEPT ![r].at = "headed"]
          /\ UNCHANGED <<relay, connection, caller, reference, expired>>

\* Sixty seconds are over.
Expire(r) ==
    /\ reference[r].live
    /\ reference' = [reference EXCEPT ![r].live = FALSE]
    /\ UNCHANGED <<expired, inquiry>>
-------------------------------------------------------------------------------
\* Whether a credential still speaks for a row's user.
Stands(row) ==
    IF row.token # "none"
    THEN Resolves(row.token, row.user)
    ELSE row.cookie # "none" /\ SignedIn(row.cookie, row.user)

\* introspect's query takes rows that have not expired.
Finds(r) == reference[r].live

\* One query reads the row, its token and the token's user, and a token's
\* attestation needs no more; a session is looked up after it.  The monitor
\* holds a reference once the request was sent.  A denial leaves nothing.
Ask(r) ==
    /\ inquiry.at = "idle"
    /\ request[r].at # "referenced"
    /\ reference[r] # NoReference /\ Finds(r)
    /\ LET row == reference[r] IN
       /\ row.token # "none" => Resolves(row.token, row.user)
       /\ inquiry' = [at |-> IF row.token # "none" THEN "attested" ELSE "found", row |-> row,
                      standing |-> IF row.live /\ Stands(row) THEN row.user ELSE Nobody]
    /\ UNCHANGED <<reference, expired>>

\* A slip: the row's user is taken at its word.
StillSignedOn(row) == row.cookie # "none"

\* _current_user of a session: the store and the user are read now.
StillSignedIn(row) == SignedIn(row.cookie, row.user)

Attest ==
    /\ inquiry.at = "found"
    /\ inquiry' = IF StillSignedIn(inquiry.row) THEN [inquiry EXCEPT !.at = "attested"]
                  ELSE NoInquiry
    /\ UNCHANGED <<reference, expired>>

\* The answer is out, or the database failed on the way to it.
Close ==
    /\ inquiry.at # "idle"
    /\ inquiry' = NoInquiry
    /\ UNCHANGED <<reference, expired>>
-------------------------------------------------------------------------------
ViewStep(r) ==
    \/ Admit(r)
    \/ Unfit(r)
    \/ Create(r)
    \/ Purge(r)
    \/ Relayed(r)

Next ==
    \/ AccountStep /\ UNCHANGED <<gate, reference, expired, inquiry>>
    \/ \E r \in Requests : GateStep(r) /\ UNCHANGED <<accounts, reference, expired, inquiry>>
    \/ \E r \in Requests : ViewStep(r) /\ UNCHANGED <<accounts, inquiry>>
    \/ \E r \in Requests : Expire(r) /\ UNCHANGED <<accounts, gate>>
    \/ \E r \in Requests : Ask(r) /\ UNCHANGED <<accounts, gate>>
    \/ Attest /\ UNCHANGED <<accounts, gate>>
    \/ Close /\ UNCHANGED <<accounts, gate>>

Spec == Init /\ [][Next]_vars
-------------------------------------------------------------------------------
\* An attestation names a user whose token or session spoke for them when the
\* monitor asked, by a reference that had not expired: nothing revoked, signed
\* out or switched off before the question is attested after it.
AttestsTheCurrent ==
    inquiry.at = "attested" => inquiry.standing = inquiry.row.user

\* It names the user for whom the request came, also when the request carried
\* another's cookie beside its token, and by which credential; of a session's
\* request it says "csrf_verified", and only where the check did pass.
AttestsTheCaller ==
    inquiry.at = "attested" =>
        /\ inquiry.row.user = inquiry.row.caller
        /\ inquiry.row.token # "none" => token[inquiry.row.token].owner = inquiry.row.user
        /\ inquiry.row.csrf \/ inquiry.row.token = "none" => inquiry.row.checked
===============================================================================
