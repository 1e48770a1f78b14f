------------------------------ MODULE RequestGate ------------------------------
(***************************************************************************)
(* One request through the site: the token middleware, the login wall, the *)
(* view and the tunnel, while accounts change beside it.  A request is     *)
(* known by an id, which a later request takes again.  TeamComms, whose    *)
(* view goes on in steps of its own, extends this module.                  *)
(***************************************************************************)
EXTENDS Accounts

CONSTANTS
    Requests,       \* ids of requests in flight
    Visits,         \* Visits[r]: the kinds of path r asks for (a bound)
    MaxEntering     \* how many requests are on their way in at once (a bound)

\* Paths under one gate are one kind.  "page" is every page a catch-all view
\* proxies, "pcs_open" the open part of the PCS API and "pcs_api" the rest,
\* "tokens" the account's token page, "accounts" sign-in and its relatives.
OpenPaths    == {"home", "static", "comp", "pcs_open", "schema", "mcp", "stageout",
                 "teamcomms", "csrf", "slash", "accounts"}
TokenPaths   == {"mcp", "stageout", "teamcomms", "csrf"}
ReadOnly     == {"schema", "panda_api"}
GuardsWrites == {"pcs_open", "pcs_api", "canary"}
ServedHere   == {"stageout", "csrf", "tokens", "accounts", "view_text", "internal"}
Streams      == {"sse"}
Proxied      == {"home", "static", "comp", "pcs_open", "schema", "slash", "page", "rights",
                 "canary", "pcs_api", "panda_api"}
AllPaths     == Proxied \cup ServedHere \cup Streams \cup {"mcp", "teamcomms"}

ASSUME VisitsAreKnown == Visits \in [Requests -> SUBSET AllPaths]

ASSUME ServiceIsNoUser == "service" \notin Users \cup {Nobody}
ASSUME CredentialsDiffer == /\ {"none", "foreign", "forged"} \cap Tokens = {}
                            /\ "none" \notin Sessions

\* A devcloud token, another form of header, a devcloud form no token has.
Bearers == Tokens \cup {"none", "foreign", "forged"}

ASSUME MaxEnteringIsCount == MaxEntering \in Nat

\* What a JSON-RPC body calls: tools of the external set or outside it, any
\* mix of them in a batch, or it does not parse.
Tools         == {"served", "internal"}
ExternalTools == {"served"}
Bodies        == [parses : BOOLEAN, calls : SUBSET Tools]

VARIABLES
    request,    \* request[r]: what was asked, how far it is, whom it speaks for
    relay,      \* relay[r]: what crossed the tunnel for it, or NoRelay
    connection, \* connection[r]: an upstream stream is open
    caller      \* caller[r]: whom its credential spoke for on arrival (history)

gate == <<request, relay, connection, caller>>

NoBody  == [parses |-> TRUE, calls |-> {}]
Idle    == [at |-> "idle", path |-> "home", method |-> "GET", bearer |-> "none",
            cookie |-> "none", crawler |-> FALSE, body |-> NoBody, csrf |-> FALSE,
            user |-> Nobody, byToken |-> FALSE, reply |-> "none"]
NoRelay == [who |-> Nobody, access |-> "none", auth |-> "none", nav |-> FALSE]

Phases  == {"idle", "arrived", "known", "relaying", "fetching", "headed", "streaming",
            "answered", "admitted", "referenced", "sending"}
Replies == {"none", "login", "refused", "local", "page", "moved", "unreachable"}
Cookies == Sessions \cup {"none"}
Methods == {"GET", "POST", "OTHER"}

GateTypeOK ==
    /\ request \in [Requests ->
          [at : Phases, path : AllPaths, method : Methods, bearer : Bearers,
           cookie : Cookies, crawler : BOOLEAN, body : Bodies, csrf : BOOLEAN,
           user : Users \cup {Nobody}, byToken : BOOLEAN, reply : Replies]]
    /\ relay \in [Requests ->
          [who : Users \cup {Nobody, "service"}, access : {"none", "user", "anonymous"},
           auth : {"none", "client", "service"}, nav : BOOLEAN]]
    /\ connection \in [Requests -> BOOLEAN]
    /\ caller \in [Requests -> Users \cup {Nobody}]

GateInit ==
    /\ request = [r \in Requests |-> Idle]
    /\ relay = [r \in Requests |-> NoRelay]
    /\ connection = [r \in Requests |-> FALSE]
    /\ caller = [r \in Requests |-> Nobody]
-------------------------------------------------------------------------------
Authorized(q) == q.bearer # "none"
Anonymous(q)  == q.user = Nobody

\* A devcloud token is looked at under TokenPaths only; elsewhere, and in
\* another form, the header is left for the monitor to judge.
BearerCounts(q) == q.path \in TokenPaths /\ q.bearer \in Tokens \cup {"forged"}

\* A slip: the middleware does not ask whether a token was revoked.
SpeaksForever(q, u) ==
    IF BearerCounts(q)
    THEN q.bearer \in Tokens /\ token[q.bearer].owner = u /\ u \in active
    ELSE q.cookie \in Sessions /\ SignedIn(q.cookie, u)

\* Whom the middleware takes a request for, by the database right now.
SpeaksFor(q, u) ==
    IF BearerCounts(q)
    THEN q.bearer \in Tokens /\ Resolves(q.bearer, u)
    ELSE q.cookie \in Sessions /\ SignedIn(q.cookie, u)

\* Whom it should be taken for, for the properties: a token first.
Owner(q) ==
    CASE BearerCounts(q) /\ q.bearer \in Tokens /\ Resolves(q.bearer, token[q.bearer].owner)
             -> token[q.bearer].owner
      [] ~BearerCounts(q) /\ q.cookie \in Sessions /\ session[q.cookie] \in active
             -> session[q.cookie]
      [] OTHER -> Nobody

\* Only credentials that exist are presented: tokens once issued, sessions
\* once signed in.  A request carries a JSON-RPC body only to the relay, and
\* what its kind of path does not look at is left at one value.
Arrivals(r) ==
    [at : {"arrived"}, path : Visits[r], method : Methods,
     bearer : {b \in Bearers : b \in Tokens => token[b].owner # Nobody},
     cookie : {"none"} \cup {s \in Sessions : session[s] # "unborn"},
     crawler : BOOLEAN, body : Bodies, csrf : BOOLEAN,
     user : {Nobody}, byToken : {FALSE}, reply : {"none"}]

Telling(q) ==
    /\ q.crawler => q.path \in Proxied
    /\ q.csrf => q.path = "teamcomms" /\ q.method = "POST" /\ q.cookie # "none"
    /\ q.path = "teamcomms" => q.method # "OTHER" /\ (Authorized(q) => q.method = "GET")
    /\ q.body # NoBody => q.path = "mcp" /\ q.method = "POST"
    /\ ~q.body.parses => q.body.calls = {}

\* Requests that have left nothing behind yet.
Entering == {r \in Requests : request[r].at \in {"arrived", "known", "admitted"}}

Arrive(r) ==
    /\ request[r].at \in {"idle", "answered"}
    /\ Cardinality(Entering) < MaxEntering
    /\ \E q \in {p \in Arrivals(r) : Telling(p)} :
          /\ request' = [request EXCEPT ![r] = q]
          /\ caller' = [caller EXCEPT ![r] = Owner(q)]
    /\ UNCHANGED <<relay, connection>>

\* The request is over: nothing of it is kept but its kind and its answer.
Answer(r, reply) ==
    /\ request' = [request EXCEPT ![r] =
           [Idle EXCEPT !.at = "answered", !.path = request[r].path, !.reply = reply]]
    /\ relay' = [relay EXCEPT ![r] = NoRelay]
    /\ connection' = [connection EXCEPT ![r] = FALSE]
    /\ caller' = [caller EXCEPT ![r] = Nobody]

-------------------------------------------------------------------------------
\* AuthenticationMiddleware and TokenAuthMiddleware: a token that counts and
\* does not resolve is refused; without one the session is asked.
Authenticate(r) ==
    /\ request[r].at = "arrived"
    /\ \/ \E u \in Users :
             /\ SpeaksFor(request[r], u)
             /\ request' = [request EXCEPT ![r].at = "known", ![r].user = u,
                                           ![r].byToken = BearerCounts(request[r])]
             /\ UNCHANGED <<relay, connection, caller>>
       \/ /\ \A u \in Users : ~SpeaksFor(request[r], u)
          /\ ~BearerCounts(request[r])
          /\ request' = [request EXCEPT ![r].at = "known"]
          /\ UNCHANGED <<relay, connection, caller>>
       \/ /\ \A u \in Users : ~SpeaksFor(request[r], u)
          /\ BearerCounts(request[r])
          /\ Answer(r, "refused")

\* LoginWallMiddleware.
Walled(q) == Anonymous(q) /\ q.path \notin OpenPaths

\* refuse_call: no call of a body, alone or in a batch, leaves the set; what
\* does not parse is the monitor's to answer.
Offers(body) == body.parses => body.calls \subseteq ExternalTools

\* A write of the PCS API or of Canary needs a sign-in here, or else an
\* Authorization header, which the monitor judges.
UnguardedWrite(q) == q.path \in GuardsWrites /\ q.method # "GET" /\ Anonymous(q) /\ ~Authorized(q)

\* The schema and the PanDA API are read only, a slash command is a POST.
WrongMethod(q) ==
    \/ q.path \in ReadOnly /\ q.method # "GET"
    \/ q.path = "slash" /\ q.method # "POST"

\* The relay and the ingest take posts, by a token alone.
NotByToken(q) == q.path \in {"mcp", "stageout"} /\ ~(q.method = "POST" /\ q.byToken)

\* The rights write needs a sign-in, the CSRF token a browser's.
NotSignedIn(q) ==
    \/ q.path = "rights" /\ Anonymous(q)
    \/ q.path = "csrf" /\ (q.method # "GET" \/ Authorized(q) \/ Anonymous(q))

\* The proxy turns away crawlers, and methods it has no call for.
Unproxied(q) == q.path \in Proxied /\ (q.crawler \/ q.method = "OTHER")

\* A slip: the writes of the PCS API are left to the wall.
RefusesReads(q) ==
    \/ WrongMethod(q) \/ NotByToken(q) \/ NotSignedIn(q) \/ Unproxied(q)
    \/ q.path = "mcp" /\ ~Offers(q.body)

\* What the views, and the proxy before it calls the monitor, turn down.
Refuses(q) ==
    \/ UnguardedWrite(q) \/ WrongMethod(q) \/ NotByToken(q) \/ NotSignedIn(q) \/ Unproxied(q)
    \/ q.path = "mcp" /\ ~Offers(q.body)

\* The landing page of the anonymous, whole in itself, and the setup page,
\* for anyone.
Landing(q) ==
    \/ q.path = "home" /\ Anonymous(q)
    \/ q.path = "mcp" /\ q.method = "GET"

\* Pages made here within base.html, whose menu is the monitor's; the setup
\* page of a client that asks for no HTML and an account page's redirect have
\* none.
InBase(q) ==
    \/ q.path \in {"accounts", "tokens"}
    \/ q.path = "mcp" /\ q.method = "GET"

\* The identity headers; panda_api alone names a service for the anonymous.
Identity(q) ==
    IF Anonymous(q)
    THEN [who |-> IF q.path = "panda_api" THEN "service" ELSE Nobody, access |-> "anonymous"]
    ELSE [who |-> q.user, access |-> "user"]

\* proxy passes the client's Authorization on, proxy_mcp and TeamComms do
\* not, and the event stream uses the site's own.
Credential(q) ==
    CASE q.path \in Proxied /\ Authorized(q) -> "client"
      [] q.path \in Streams -> "service"
      [] OTHER -> "none"

Crosses(r) ==
    LET q == request[r] IN
    relay' = [relay EXCEPT ![r] = [who |-> Identity(q).who, access |-> Identity(q).access,
                                   auth |-> Credential(q), nav |-> FALSE]]

\* nav_html without a copy of the menu younger than a minute: whoever asks
\* for the page, crawlers too, the monitor's hub is fetched in nobody's name.
FetchNav(r) ==
    /\ relay' = [relay EXCEPT ![r] = [who |-> Nobody, access |-> "anonymous",
                                      auth |-> "none", nav |-> TRUE]]
    /\ request' = [request EXCEPT ![r].at = "fetching"]
    /\ UNCHANGED <<connection, caller>>

\* The wall, then the view of any kind but TeamComms.
Enter(r) ==
    LET q == request[r]
        passes == ~Walled(q) /\ ~Landing(q) /\ ~Refuses(q) IN
    /\ q.at = "known"
    /\ \/ Walled(q) /\ Answer(r, "login")
       \/ ~Walled(q) /\ Landing(q) /\ Answer(r, "local")
       \/ ~Walled(q) /\ ~Landing(q) /\ Refuses(q) /\ Answer(r, "refused")
       \/ passes /\ q.path \in ServedHere /\ Answer(r, "local")
       \/ ~Walled(q) /\ InBase(q) /\ FetchNav(r)
       \/ /\ passes /\ q.path \in Proxied \cup {"mcp"}
          /\ Crosses(r)
          /\ request' = [request EXCEPT ![r].at = "relaying"]
          /\ UNCHANGED <<connection, caller>>
       \/ /\ passes /\ q.path \in Streams
          /\ request' = [request EXCEPT ![r].at = "headed"]
          /\ UNCHANGED <<relay, connection, caller>>

\* The monitor's page; its redirect, which is followed to a page this site
\* carries and is a 502 otherwise; or the tunnel's failure.
Monitor == {"page", "moved", "unreachable"}

Return(r) ==
    /\ request[r].at = "relaying" /\ request[r].path # "mcp"
    /\ \E reply \in Monitor : Answer(r, reply)

\* The MCP relay passes on whatever status the monitor answers with.
ReturnMcp(r) ==
    /\ request[r].at = "relaying" /\ request[r].path = "mcp"
    /\ \E reply \in Monitor \ {"moved"} : Answer(r, reply)

\* With the menu, with an older copy of it or without any, the page goes out.
ReturnNav(r) == request[r].at = "fetching" /\ Answer(r, "local")
-------------------------------------------------------------------------------
\* A stream starts when the server iterates the response.  The event stream
\* calls the monitor only then, and turns its refusal into an error event.
Iterate(r) ==
    /\ request[r].at = "headed"
    /\ \/ /\ request[r].path = "sse"
          /\ Crosses(r)
       \/ /\ request[r].path # "sse"
          /\ UNCHANGED relay
    /\ request' = [request EXCEPT ![r].at = "streaming"]
    /\ connection' = [connection EXCEPT ![r] = TRUE]
    /\ UNCHANGED caller

\* The monitor ends the stream or fails, or the client goes away.
StreamEnds(r) == request[r].at = "streaming" /\ Answer(r, "page")

\* A slip: the connection is closed by the iteration only.
LeaveOpen(r) ==
    /\ request[r].at = "headed"
    /\ request' = [request EXCEPT ![r] = [Idle EXCEPT !.at = "answered", !.reply = "page"]]
    /\ relay' = [relay EXCEPT ![r] = NoRelay]
    /\ caller' = [caller EXCEPT ![r] = Nobody]
    /\ UNCHANGED connection

\* The client is gone before the iteration: what was opened for the response
\* is closed with it.
LeaveEarly(r) == request[r].at = "headed" /\ Answer(r, "page")

GateStep(r) ==
    \/ Arrive(r)
    \/ Authenticate(r)
    \/ Enter(r)
    \/ Return(r)
    \/ ReturnMcp(r)
    \/ ReturnNav(r)
    \/ Iterate(r)
    \/ StreamEnds(r)
    \/ LeaveEarly(r)

\* The gate by itself; TeamComms has a specification of its own.
SiteInit == AccountsInit /\ GateInit

GateSpec ==
    /\ SiteInit
    /\ [][\/ AccountStep /\ UNCHANGED gate
          \/ \E r \in Requests : GateStep(r) /\ UNCHANGED accounts]_<<accounts, gate>>
-------------------------------------------------------------------------------
\* What crosses the tunnel in a user's name was asked for by that user: the
\* credential it came with, a token before a cookie, spoke for the user when
\* it arrived.  A token revoked or a session ended before that moves nothing.
RelayedAsCaller ==
    \A r \in Requests : relay[r].who \in Users => relay[r].who = caller[r]

\* "Other anonymous requests are refused here before they cost an upstream
\* page build": what the anonymous ask for themselves crosses the tunnel only
\* for the open records and interfaces, for reads, writes under an
\* Authorization the monitor judges, and slash commands.  Besides, their
\* sign-in and setup pages may fetch the menu, in nobody's name and without
\* any credential, and so may a page of a signed-in user.
AnonymousStaysOut ==
    \A r \in Requests :
        LET q == request[r]
            l == relay[r] IN
        l.access = "anonymous" =>
            \/ /\ ~l.nav
               /\ q.path \in {"static", "comp", "pcs_open", "schema", "slash"}
               /\ q.path = "pcs_open" /\ q.method # "GET" => l.auth = "client"
               /\ ~q.crawler
            \/ /\ l.nav /\ l.who = Nobody /\ l.auth = "none"
               /\ Anonymous(q) => q.path \in {"accounts", "mcp"}

\* Calls reach the MCP endpoint only from a token's owner, without the token,
\* and, where the body can be read, only for tools of the external set.
McpKeepsToTheSet ==
    \A r \in Requests :
        request[r].at = "relaying" /\ request[r].path = "mcp" =>
            /\ relay[r].access = "user" /\ relay[r].auth = "none"
            /\ request[r].byToken
            /\ request[r].body.parses => "internal" \notin request[r].body.calls

\* An upstream connection is open only while a request streams or its answer
\* is awaited: whoever leaves, and whenever, it is closed.
NoLeak ==
    \A r \in Requests :
        connection[r] => request[r].at \in {"sending", "headed", "streaming"}
===============================================================================
