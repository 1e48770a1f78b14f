-------------------------- MODULE RequestGate_proofs --------------------------
(***************************************************************************)
(* Proofs about RequestGate for any users, tokens, sessions and requests.  *)
(* The lemmas on one step hold beside TeamComms too, which uses them.      *)
(***************************************************************************)
EXTENDS RequestGate, TLAPS

ARequest == [at : Phases, path : AllPaths, method : Methods, bearer : Bearers,
             cookie : Cookies, crawler : BOOLEAN, body : Bodies, csrf : BOOLEAN,
             user : Users \cup {Nobody}, byToken : BOOLEAN, reply : Replies]
ARelay   == [who : Users \cup {Nobody, "service"}, access : {"none", "user", "anonymous"},
             auth : {"none", "client", "service"}, nav : BOOLEAN]

(* A credential was good for something when it was presented: a token has  *)
(* an owner, a session somebody signed in.                                 *)
Presented(q) ==
    /\ q.bearer \in Tokens => token[q.bearer].owner # Nobody
    /\ q.cookie \in Sessions => session[q.cookie] # "unborn"

(* Whom a credential may still speak for is whom it spoke for on arrival,  *)
(* u, and whom the request was taken for.                                  *)
Asked(q, u) ==
    /\ q.at \in {"arrived", "known", "admitted"} => Presented(q)
    /\ q.at \in {"arrived", "known"} => \A v \in Users : SpeaksFor(q, v) => u = v
    /\ q.user \in Users => q.user = u
    /\ q.byToken => q.user \in Users
    /\ q.user \in Users /\ q.bearer = "none" => q.cookie \in Sessions
    /\ q.at = "arrived" => q.user = Nobody /\ ~q.byToken

(* Only what relays, fetches or streams has crossed the tunnel, an event   *)
(* stream only for a user, and only what waits or streams has a connection *)
(* open; the rest are the properties of a request and its relay l.         *)
Crossed(q, l, open, u) ==
    /\ l # NoRelay => q.at \in {"relaying", "fetching", "streaming"}
    /\ q.path = "sse" /\ q.at \in {"headed", "streaming"} => q.user \in Users
    /\ open => q.at \in {"sending", "headed", "streaming"}
    /\ l.who \in Users => l.who = u
    /\ l.access = "anonymous" =>
          \/ /\ ~l.nav
             /\ q.path \in {"static", "comp", "pcs_open", "schema", "slash"}
             /\ q.path = "pcs_open" /\ q.method # "GET" => l.auth = "client"
             /\ ~q.crawler
          \/ /\ l.nav /\ l.who = Nobody /\ l.auth = "none"
             /\ q.user = Nobody => q.path \in {"accounts", "mcp"}
    /\ q.at = "relaying" /\ q.path = "mcp" =>
          /\ l.access = "user" /\ l.auth = "none"
          /\ q.byToken
          /\ q.body.parses => "internal" \notin q.body.calls

GateInv ==
    /\ AccountsTypeOK /\ GateTypeOK
    /\ \A r \in Requests : /\ Asked(request[r], caller[r])
                           /\ Crossed(request[r], relay[r], connection[r], caller[r])

-------------------------------------------------------------------------------
LEMMA GateTypes ==
    GateTypeOK <=> /\ request \in [Requests -> ARequest]
                   /\ relay \in [Requests -> ARelay]
                   /\ connection \in [Requests -> BOOLEAN]
                   /\ caller \in [Requests -> Users \cup {Nobody}]
BY DEF GateTypeOK, ARequest, ARelay

LEMMA GateTypesNext ==
    ASSUME request' \in [Requests -> ARequest], relay' \in [Requests -> ARelay],
           connection' \in [Requests -> BOOLEAN],
           caller' \in [Requests -> Users \cup {Nobody}]
    PROVE  GateTypeOK'
BY DEF GateTypeOK, ARequest, ARelay

\* A request that is at rest, whatever its path and its reply.
LEMMA IdleType ==
    /\ Idle \in ARequest /\ NoRelay \in ARelay
    /\ \A path \in AllPaths, reply \in Replies, at \in Phases :
          [Idle EXCEPT !.at = at, !.path = path, !.reply = reply] \in ARequest
<1>1. NoBody \in Bodies
  BY DEF NoBody, Bodies
<1>2. Idle \in ARequest
  BY <1>1 DEF Idle, ARequest, Phases, Replies, Cookies, Methods, Bearers, AllPaths, Proxied
<1>3. NoRelay \in ARelay
  BY DEF NoRelay, ARelay
<1>4. ASSUME NEW path \in AllPaths, NEW reply \in Replies, NEW at \in Phases
      PROVE  [Idle EXCEPT !.at = at, !.path = path, !.reply = reply] \in ARequest
  BY <1>2 DEF ARequest
<1> QED BY <1>2, <1>3, <1>4

\* Accounts only ever lose what they may do: no credential in use speaks for
\* anyone it did not speak for before.
LEMMA AccountsShrink ==
    ASSUME AccountsTypeOK, AccountStep
    PROVE  /\ AccountsTypeOK'
           /\ active' \subseteq active
           /\ \A t \in Tokens : token[t].owner # Nobody =>
                  token'[t].owner = token[t].owner /\ (token[t].revoked => token'[t].revoked)
           /\ \A s \in Sessions : session[s] # "unborn" => session'[s] \in {session[s], "ended"}
<1> USE NobodyIsNoUser, SessionStatesDiffer DEF AccountsTypeOK
<1>1. ASSUME NEW u \in Users, NEW t \in Tokens, Issue(u, t)
      PROVE  /\ AccountsTypeOK' /\ UNCHANGED <<active, session>>
             /\ \A x \in Tokens : token[x].owner # Nobody => token'[x] = token[x]
  <2>1. token[t].owner = Nobody /\ token' = [token EXCEPT ![t].owner = u]
    BY <1>1 DEF Issue, Unissued
  <2>2. token[t] \in [owner : Users \cup {Nobody}, revoked : BOOLEAN]
    OBVIOUS
  <2>3. [token[t] EXCEPT !.owner = u] \in [owner : Users \cup {Nobody}, revoked : BOOLEAN]
    BY <2>2
  <2>4. \A x \in Tokens : token'[x] = IF x = t THEN [token[t] EXCEPT !.owner = u] ELSE token[x]
    BY <2>1
  <2>5. token' \in [Tokens -> [owner : Users \cup {Nobody}, revoked : BOOLEAN]]
    BY <2>1, <2>3
  <2> QED BY <1>1, <2>1, <2>4, <2>5 DEF Issue
<1>2. ASSUME NEW u \in Users, NEW t \in Tokens, Revoke(u, t)
      PROVE  /\ AccountsTypeOK' /\ UNCHANGED <<active, session>>
             /\ \A x \in Tokens : token'[x].owner = token[x].owner /\ (token[x].revoked => token'[x].revoked)
  BY <1>2 DEF Revoke
<1>3. ASSUME NEW u \in Users, NEW s \in Sessions, Login(s, u)
      PROVE  /\ AccountsTypeOK' /\ UNCHANGED <<active, token>>
             /\ \A x \in Sessions : session[x] # "unborn" => session'[x] = session[x]
  BY <1>3 DEF Login
<1>4. ASSUME NEW s \in Sessions, Logout(s)
      PROVE  /\ AccountsTypeOK' /\ UNCHANGED <<active, token>>
             /\ \A x \in Sessions : session'[x] \in {session[x], "ended"}
  BY <1>4 DEF Logout
<1>5. ASSUME NEW u \in Users, Deactivate(u)
      PROVE  AccountsTypeOK' /\ UNCHANGED <<token, session>> /\ active' \subseteq active
  BY <1>5 DEF Deactivate
<1> QED BY <1>1, <1>2, <1>3, <1>4, <1>5 DEF AccountStep

LEMMA CredentialsShrink ==
    ASSUME AccountsTypeOK, AccountStep, NEW q \in ARequest, Presented(q)
    PROVE  /\ Presented(q)'
           /\ \A u \in Users : SpeaksFor(q, u)' => SpeaksFor(q, u)
<1>1. Presented(q)'
  BY AccountsShrink DEF Presented
<1>2. ASSUME NEW u \in Users, SpeaksFor(q, u)' PROVE SpeaksFor(q, u)
  <2>1. CASE BearerCounts(q)
    <3>1. q.bearer \in Tokens /\ token'[q.bearer].owner = u /\ ~token'[q.bearer].revoked /\ u \in active'
      BY <1>2, <2>1 DEF SpeaksFor, Resolves, BearerCounts
    <3>2. token[q.bearer].owner # Nobody /\ token[q.bearer].revoked \in BOOLEAN
      BY <3>1 DEF Presented, AccountsTypeOK
    <3> QED BY <2>1, <3>1, <3>2, AccountsShrink DEF SpeaksFor, Resolves
  <2>2. CASE ~BearerCounts(q)
    <3>1. q.cookie \in Sessions /\ session'[q.cookie] = u /\ u \in active'
      BY <1>2, <2>2 DEF SpeaksFor, SignedIn, BearerCounts
    <3> QED BY <2>2, <3>1, AccountsShrink, SessionStatesDiffer DEF SpeaksFor, SignedIn, Presented
  <2> QED BY <2>1, <2>2
<1> QED BY <1>1, <1>2

\* Changing accounts move nothing that a request already has.
LEMMA AccountsKeepGate ==
    ASSUME GateInv, AccountStep, UNCHANGED gate
    PROVE  GateInv'
<1>1. AccountsTypeOK'
  BY AccountsShrink DEF GateInv
<1>2. GateTypeOK'
  BY GateTypes, GateTypesNext DEF GateInv, gate
<1>3. \A r \in Requests : Asked(request[r], caller[r])'
  <2>1. request' = request /\ caller' = caller /\ \A r \in Requests : request[r] \in ARequest
    BY GateTypes DEF GateInv, gate
  <2>2. ASSUME NEW r \in Requests PROVE Asked(request[r], caller[r])'
    <3>1. Asked(request[r], caller[r])
      BY DEF GateInv
    <3>2. \A q \in ARequest : Presented(q) => /\ Presented(q)'
                                              /\ \A v \in Users : SpeaksFor(q, v)' => SpeaksFor(q, v)
      BY CredentialsShrink DEF GateInv
    <3> QED BY <2>1, <3>1, <3>2 DEF Asked, Presented, SpeaksFor, BearerCounts, Resolves, SignedIn
  <2> QED BY <2>2
<1>4. \A r \in Requests : Crossed(request[r], relay[r], connection[r], caller[r])'
  BY DEF GateInv, gate, Crossed
<1> QED BY <1>1, <1>2, <1>3, <1>4 DEF GateInv

\* A step of one request keeps the invariant if that request stays sound.
LEMMA OneRequest ==
    ASSUME GateInv, UNCHANGED accounts, NEW r \in Requests,
           NEW q \in ARequest, NEW l \in ARelay, NEW open \in BOOLEAN, NEW u \in Users \cup {Nobody},
           request' = [request EXCEPT ![r] = q], relay' = [relay EXCEPT ![r] = l],
           connection' = [connection EXCEPT ![r] = open], caller' = [caller EXCEPT ![r] = u],
           Asked(q, u), Crossed(q, l, open, u)
    PROVE  GateInv'
<1>1. AccountsTypeOK'
  BY DEF GateInv, accounts, AccountsTypeOK
<1>2. GateTypeOK'
  BY GateTypes, GateTypesNext DEF GateInv
<1>3. ASSUME NEW p \in Requests
      PROVE  /\ Asked(request[p], caller[p])'
             /\ Crossed(request[p], relay[p], connection[p], caller[p])'
  <2>1. UNCHANGED <<active, token, session>>
    BY DEF accounts
  <2>2. CASE p = r
    <3>1. request'[p] = q /\ relay'[p] = l /\ connection'[p] = open /\ caller'[p] = u
      BY <2>2, GateTypes DEF GateInv
    <3> QED BY <2>1, <3>1 DEF Asked, Crossed, Presented, SpeaksFor, BearerCounts, Resolves, SignedIn
  <2>3. CASE p # r
    <3>1. /\ request'[p] = request[p] /\ relay'[p] = relay[p]
          /\ connection'[p] = connection[p] /\ caller'[p] = caller[p]
      BY <2>3, GateTypes DEF GateInv
    <3> QED BY <2>1, <3>1 DEF GateInv, Asked, Crossed, Presented, SpeaksFor, BearerCounts, Resolves, SignedIn
  <2> QED BY <2>2, <2>3
<1> QED BY <1>1, <1>2, <1>3 DEF GateInv

LEMMA AnswerKeeps ==
    ASSUME GateInv, UNCHANGED accounts, NEW r \in Requests, NEW reply \in Replies, Answer(r, reply)
    PROVE  GateInv'
<1> DEFINE q == [Idle EXCEPT !.at = "answered", !.path = request[r].path, !.reply = reply]
<1>1. request[r].path \in AllPaths
  BY GateTypes DEF GateInv, ARequest
<1>2. q \in ARequest
  BY <1>1, IdleType DEF Phases
<1>3. /\ q.at = "answered" /\ q.user = Nobody /\ q.byToken = FALSE
      /\ NoRelay.who = Nobody /\ NoRelay.access = "none"
  BY DEF Idle, NoRelay
<1>4. Asked(q, Nobody) /\ Crossed(q, NoRelay, FALSE, Nobody)
  BY <1>3, NobodyIsNoUser DEF Asked, Crossed
<1>5. /\ request' = [request EXCEPT ![r] = q] /\ relay' = [relay EXCEPT ![r] = NoRelay]
      /\ connection' = [connection EXCEPT ![r] = FALSE] /\ caller' = [caller EXCEPT ![r] = Nobody]
  BY DEF Answer
<1> HIDE DEF q
<1> QED BY <1>2, <1>4, <1>5, IdleType, OneRequest

\* What is left alone is what it was.
LEMMA SameStays ==
    ASSUME GateInv, NEW r \in Requests
    PROVE  /\ relay = [relay EXCEPT ![r] = relay[r]] /\ relay[r] \in ARelay
           /\ connection = [connection EXCEPT ![r] = connection[r]] /\ connection[r] \in BOOLEAN
           /\ caller = [caller EXCEPT ![r] = caller[r]] /\ caller[r] \in Users \cup {Nobody}
           /\ request[r] \in ARequest
           /\ Asked(request[r], caller[r])
           /\ Crossed(request[r], relay[r], connection[r], caller[r])
BY GateTypes DEF GateInv

\* A step that changes nothing but what is known of one request.
LEMMA OnlyRequest ==
    ASSUME GateInv, UNCHANGED <<accounts, relay, connection, caller>>, NEW r \in Requests,
           NEW q \in ARequest, request' = [request EXCEPT ![r] = q],
           Asked(q, caller[r]), Crossed(q, relay[r], connection[r], caller[r])
    PROVE  GateInv'
<1> DEFINE l == relay[r]
           open == connection[r]
           u == caller[r]
<1>1. /\ relay' = [relay EXCEPT ![r] = l] /\ l \in ARelay
      /\ connection' = [connection EXCEPT ![r] = open] /\ open \in BOOLEAN
      /\ caller' = [caller EXCEPT ![r] = u] /\ u \in Users \cup {Nobody}
  BY SameStays
<1>2. UNCHANGED accounts /\ Asked(q, u) /\ Crossed(q, l, open, u)
  OBVIOUS
<1>3. request' = [request EXCEPT ![r] = q]
  OBVIOUS
<1> HIDE DEF l, open, u
<1> QED BY ONLY GateInv, r \in Requests, q \in ARequest, <1>1, <1>2, <1>3, OneRequest

LEMMA OwnerSpeaks ==
    ASSUME AccountsTypeOK, NEW q \in ARequest, NEW v \in Users, SpeaksFor(q, v)
    PROVE  Owner(q) = v
<1>1. CASE BearerCounts(q)
  BY <1>1 DEF SpeaksFor, Owner, Resolves
<1>2. CASE ~BearerCounts(q)
  BY <1>2 DEF SpeaksFor, Owner, SignedIn
<1> QED BY <1>1, <1>2

LEMMA OwnerType ==
    ASSUME AccountsTypeOK, NEW q \in ARequest
    PROVE  Owner(q) \in Users \cup {Nobody}
<1>1. CASE BearerCounts(q)
  BY <1>1 DEF Owner, Resolves, AccountsTypeOK
<1>2. CASE ~BearerCounts(q)
  BY <1>2 DEF Owner, AccountsTypeOK
<1> QED BY <1>1, <1>2

LEMMA ArriveKeeps ==
    ASSUME GateInv, UNCHANGED accounts, NEW r \in Requests, Arrive(r)
    PROVE  GateInv'
<1>1. PICK q \in Arrivals(r) : /\ request' = [request EXCEPT ![r] = q]
                               /\ caller' = [caller EXCEPT ![r] = Owner(q)]
  BY DEF Arrive
<1>2. q \in ARequest
  BY VisitsAreKnown DEF Arrivals, ARequest, Phases, Bearers, Cookies, Replies
<1>3. /\ q.at = "arrived" /\ q.user = Nobody /\ q.byToken = FALSE
      /\ Presented(q)
  <2>1. /\ q.at = "arrived" /\ q.user = Nobody /\ q.byToken = FALSE
        /\ q.bearer \in Tokens => token[q.bearer].owner # Nobody
    BY DEF Arrivals
  <2>2. q.cookie \in {"none"} \cup {x \in Sessions : session[x] # "unborn"}
    BY DEF Arrivals
  <2> QED BY <2>1, <2>2, CredentialsDiffer DEF Presented
<1>4. Owner(q) \in Users \cup {Nobody} /\ \A v \in Users : SpeaksFor(q, v) => Owner(q) = v
  BY <1>2, OwnerSpeaks, OwnerType DEF GateInv
<1>5. relay[r] = NoRelay /\ connection[r] = FALSE
  BY SameStays DEF Arrive, Crossed
<1>6. Asked(q, Owner(q))
  BY <1>3, <1>4, NobodyIsNoUser DEF Asked
<1>7. Crossed(q, relay[r], connection[r], Owner(q))
  BY <1>3, <1>5, NobodyIsNoUser DEF Crossed, NoRelay
<1>8. relay' = relay /\ connection' = connection
  BY DEF Arrive
<1>9. /\ relay' = [relay EXCEPT ![r] = relay[r]] /\ connection' = [connection EXCEPT ![r] = connection[r]]
      /\ relay[r] \in ARelay /\ connection[r] \in BOOLEAN
  BY <1>8, SameStays
<1> HIDE DEF Arrive
<1> QED BY <1>1, <1>2, <1>4, <1>6, <1>7, <1>9, OneRequest

LEMMA AuthenticateKeeps ==
    ASSUME GateInv, UNCHANGED accounts, NEW r \in Requests, Authenticate(r)
    PROVE  GateInv'
<1> DEFINE q == request[r]
<1>1. q \in ARequest /\ q.at = "arrived" /\ Asked(q, caller[r]) /\ Crossed(q, relay[r], connection[r], caller[r])
  BY SameStays DEF Authenticate
<1>2. ASSUME NEW u \in Users, SpeaksFor(q, u), UNCHANGED <<relay, connection, caller>>,
             request' = [request EXCEPT ![r].at = "known", ![r].user = u,
                                        ![r].byToken = BearerCounts(request[r])]
      PROVE  GateInv'
  <2> DEFINE p == [q EXCEPT !.at = "known", !.user = u, !.byToken = BearerCounts(q)]
  <2>1. BearerCounts(q) \in BOOLEAN
    BY DEF BearerCounts
  <2>2. /\ p \in ARequest /\ p.at = "known" /\ p.user = u /\ p.byToken = BearerCounts(q)
        /\ p.bearer = q.bearer /\ p.cookie = q.cookie /\ p.path = q.path
        /\ p.crawler = q.crawler /\ p.body = q.body /\ p.method = q.method
    BY <1>1, <2>1 DEF ARequest, Phases
  <2>3. caller[r] = u /\ Presented(q)
    BY <1>1, <1>2 DEF Asked
  <2>4. Asked(p, caller[r])
    <3>1. q.bearer = "none" => q.cookie \in Sessions
      BY <1>2, CredentialsDiffer DEF SpeaksFor, BearerCounts
    <3> HIDE DEF p
    <3> QED BY <1>1, <2>2, <2>3, <3>1 DEF Asked, Presented, SpeaksFor, BearerCounts
  <2>5. Crossed(p, relay[r], connection[r], caller[r])
    <3> HIDE DEF p
    <3> QED BY <1>1, <2>2 DEF Crossed, NoRelay
  <2>6. request' = [request EXCEPT ![r] = p]
    BY <1>2
  <2> HIDE DEF p, q
  <2> QED BY <1>2, <2>2, <2>4, <2>5, <2>6, OnlyRequest DEF q
<1>3. ASSUME request' = [request EXCEPT ![r].at = "known"], UNCHANGED <<relay, connection, caller>>
      PROVE  GateInv'
  <2> DEFINE p == [q EXCEPT !.at = "known"]
  <2>1. /\ p \in ARequest /\ p.at = "known" /\ p.user = q.user /\ p.byToken = q.byToken
        /\ p.bearer = q.bearer /\ p.cookie = q.cookie /\ p.path = q.path
        /\ p.crawler = q.crawler /\ p.body = q.body /\ p.method = q.method
    BY <1>1 DEF ARequest, Phases
  <2>2. Asked(p, caller[r]) /\ Crossed(p, relay[r], connection[r], caller[r])
    <3> HIDE DEF p
    <3> QED BY <1>1, <2>1 DEF Asked, Crossed, NoRelay, Presented, SpeaksFor, BearerCounts
  <2>3. request' = [request EXCEPT ![r] = p]
    BY <1>3
  <2> HIDE DEF p, q
  <2> QED BY <1>3, <2>1, <2>2, <2>3, OnlyRequest DEF q
<1>4. CASE Answer(r, "refused")
  BY <1>4, AnswerKeeps DEF Replies
<1> QED BY <1>2, <1>3, <1>4 DEF Authenticate

\* What Enter lets through to the tunnel, by the wall and the views.
LEMMA EnterKeeps ==
    ASSUME GateInv, UNCHANGED accounts, NEW r \in Requests, Enter(r)
    PROVE  GateInv'
<1> DEFINE q == request[r]
           l == [who |-> Identity(q).who, access |-> Identity(q).access, auth |-> Credential(q),
                 nav |-> FALSE]
<1>1. /\ q \in ARequest /\ q.at = "known" /\ Asked(q, caller[r])
      /\ Crossed(q, relay[r], connection[r], caller[r]) /\ caller[r] \in Users \cup {Nobody}
  BY SameStays DEF Enter
<1>2. ASSUME ~Walled(q), ~Landing(q), ~Refuses(q), q.path \in Proxied \cup {"mcp"}, Crosses(r),
             request' = [request EXCEPT ![r].at = "relaying"], UNCHANGED <<connection, caller>>
      PROVE  GateInv'
  <2> DEFINE p == [q EXCEPT !.at = "relaying"]
  <2>1. /\ p \in ARequest /\ p.at = "relaying" /\ p.user = q.user /\ p.byToken = q.byToken
        /\ p.bearer = q.bearer /\ p.cookie = q.cookie /\ p.path = q.path
        /\ p.crawler = q.crawler /\ p.body = q.body /\ p.method = q.method
    BY <1>1 DEF ARequest, Phases
  <2>2. /\ l \in ARelay /\ l.auth = Credential(q) /\ l.nav = FALSE
        /\ l.who \in Users => l.who = q.user
        /\ l.access = "anonymous" <=> q.user = Nobody
        /\ l.access \in {"user", "anonymous"}
    <3>1. CASE Anonymous(q)
      BY <1>1, <3>1, NobodyIsNoUser, ServiceIsNoUser DEF Identity, Credential, Anonymous, ARelay
    <3>2. CASE ~Anonymous(q)
      BY <1>1, <3>2 DEF Identity, Credential, Anonymous, ARelay, ARequest
    <3> QED BY <3>1, <3>2
  <2>3. q.user = Nobody =>
          /\ q.path \in {"static", "comp", "pcs_open", "schema", "slash"}
          /\ q.path = "pcs_open" /\ q.method # "GET" => Credential(q) = "client"
          /\ ~q.crawler
    <3>1. q.user = Nobody => q.path \in OpenPaths \ {"home"} /\ q.path # "mcp"
      BY <1>1, <1>2, NobodyIsNoUser DEF Walled, Landing, Refuses, NotByToken, Anonymous, Asked
    <3>2. q.user = Nobody => ~UnguardedWrite(q) /\ ~Unproxied(q)
      BY <1>2 DEF Refuses
    <3>3. q.user = Nobody => q.path \in {"static", "comp", "pcs_open", "schema", "slash"} /\ q.path \in Proxied
      BY <1>2, <3>1 DEF OpenPaths, Proxied
    <3>4. q.user = Nobody /\ q.path = "pcs_open" /\ q.method # "GET" => Authorized(q)
      BY <3>2 DEF UnguardedWrite, Anonymous, GuardsWrites
    <3>5. q.user = Nobody => ~q.crawler
      BY <3>2, <3>3 DEF Unproxied
    <3>6. q.user = Nobody /\ q.path = "pcs_open" /\ q.method # "GET" => Credential(q) = "client"
      BY <3>3, <3>4 DEF Credential, Streams
    <3> QED BY <3>3, <3>5, <3>6
  <2>4. q.path = "mcp" =>
          /\ q.user # Nobody /\ Credential(q) = "none" /\ q.byToken
          /\ q.body.parses => "internal" \notin q.body.calls
    BY <1>1, <1>2, NobodyIsNoUser DEF Refuses, NotByToken, Offers, ExternalTools, Credential, Proxied,
                                      Streams, Asked
  <2>5. /\ request' = [request EXCEPT ![r] = p] /\ relay' = [relay EXCEPT ![r] = l]
        /\ connection' = [connection EXCEPT ![r] = connection[r]] /\ connection[r] \in BOOLEAN
        /\ caller' = [caller EXCEPT ![r] = caller[r]]
    BY <1>2, SameStays DEF Crosses
  <2>6. Asked(p, caller[r]) /\ Crossed(p, l, connection[r], caller[r])
    <3> HIDE DEF p, l
    <3> QED BY <1>1, <2>1, <2>2, <2>3, <2>4 DEF Asked, Crossed
  <2> HIDE DEF p, l, q
  <2> QED BY <1>1, <2>1, <2>2, <2>5, <2>6, OneRequest
<1>3. ASSUME ~Walled(q), q.path \in Streams, request' = [request EXCEPT ![r].at = "headed"],
             UNCHANGED <<relay, connection, caller>>
      PROVE  GateInv'
  <2> DEFINE p == [q EXCEPT !.at = "headed"]
  <2>1. /\ p \in ARequest /\ p.at = "headed" /\ p.user = q.user /\ p.byToken = q.byToken
        /\ p.bearer = q.bearer /\ p.cookie = q.cookie /\ p.path = q.path
        /\ p.crawler = q.crawler /\ p.body = q.body /\ p.method = q.method
    BY <1>1 DEF ARequest, Phases
  <2>2. q.user \in Users
    BY <1>1, <1>3 DEF Walled, Anonymous, Streams, OpenPaths, ARequest
  <2>3. Asked(p, caller[r]) /\ Crossed(p, relay[r], connection[r], caller[r])
    <3> HIDE DEF p
    <3> QED BY <1>1, <2>1, <2>2 DEF Asked, Crossed, NoRelay
  <2>4. request' = [request EXCEPT ![r] = p]
    BY <1>3
  <2> HIDE DEF p, q
  <2> QED BY <1>3, <2>1, <2>3, <2>4, OnlyRequest DEF q
<1>4. ASSUME NEW reply \in {"login", "local", "refused"}, Answer(r, reply)
      PROVE  GateInv'
  BY <1>4, AnswerKeeps DEF Replies
<1>5. ASSUME ~Walled(q), InBase(q), FetchNav(r)
      PROVE  GateInv'
  <2> DEFINE p == [q EXCEPT !.at = "fetching"]
             k == [who |-> Nobody, access |-> "anonymous", auth |-> "none", nav |-> TRUE]
  <2>1. /\ p \in ARequest /\ p.at = "fetching" /\ p.user = q.user /\ p.byToken = q.byToken
        /\ p.bearer = q.bearer /\ p.cookie = q.cookie /\ p.path = q.path
    BY <1>1 DEF ARequest, Phases
  <2>2. k \in ARelay /\ k.who = Nobody /\ k.access = "anonymous" /\ k.auth = "none" /\ k.nav = TRUE
    BY DEF ARelay
  <2>3. q.path # "sse" /\ (q.user = Nobody => q.path \in {"accounts", "mcp"})
    BY <1>5 DEF Walled, Anonymous, InBase, OpenPaths
  <2>4. /\ request' = [request EXCEPT ![r] = p] /\ relay' = [relay EXCEPT ![r] = k]
        /\ connection' = [connection EXCEPT ![r] = connection[r]] /\ connection[r] \in BOOLEAN
        /\ caller' = [caller EXCEPT ![r] = caller[r]]
    BY <1>5, SameStays DEF FetchNav
  <2>5. Asked(p, caller[r]) /\ Crossed(p, k, connection[r], caller[r])
    <3> HIDE DEF p, k
    <3> QED BY <1>1, <2>1, <2>2, <2>3, NobodyIsNoUser DEF Asked, Crossed
  <2> HIDE DEF p, k, q
  <2> QED BY <1>1, <2>1, <2>2, <2>4, <2>5, OneRequest
<1> QED BY <1>2, <1>3, <1>4, <1>5 DEF Enter

\* A stream begins; the event stream crosses the tunnel for its user then.
LEMMA IterateKeeps ==
    ASSUME GateInv, UNCHANGED accounts, NEW r \in Requests, Iterate(r)
    PROVE  GateInv'
<1> DEFINE q == request[r]
           l == [who |-> Identity(q).who, access |-> Identity(q).access, auth |-> Credential(q),
                 nav |-> FALSE]
           p == [q EXCEPT !.at = "streaming"]
<1>1. /\ q \in ARequest /\ q.at = "headed" /\ Asked(q, caller[r])
      /\ Crossed(q, relay[r], connection[r], caller[r]) /\ caller[r] \in Users \cup {Nobody}
  BY SameStays DEF Iterate
<1>2. /\ p \in ARequest /\ p.at = "streaming" /\ p.user = q.user /\ p.byToken = q.byToken
      /\ p.bearer = q.bearer /\ p.cookie = q.cookie /\ p.path = q.path
      /\ p.crawler = q.crawler /\ p.body = q.body /\ p.method = q.method
  BY <1>1 DEF ARequest, Phases
<1>3. /\ request' = [request EXCEPT ![r] = p] /\ connection' = [connection EXCEPT ![r] = TRUE]
      /\ caller' = [caller EXCEPT ![r] = caller[r]]
  BY SameStays DEF Iterate
<1>4. CASE q.path = "sse" /\ Crosses(r)
  <2>1. l \in ARelay /\ l.who = q.user /\ l.access = "user" /\ q.user \in Users
    BY <1>1, <1>4, NobodyIsNoUser DEF Crossed, Identity, Credential, Anonymous, ARelay, Streams, Proxied
  <2>2. relay' = [relay EXCEPT ![r] = l]
    BY <1>4 DEF Crosses
  <2>3. Asked(p, caller[r]) /\ Crossed(p, l, TRUE, caller[r])
    <3> HIDE DEF p, l
    <3> QED BY <1>1, <1>2, <2>1 DEF Asked, Crossed
  <2> HIDE DEF p, l, q
  <2> QED BY <1>1, <1>2, <1>3, <2>1, <2>2, <2>3, OneRequest
<1>5. CASE q.path # "sse" /\ UNCHANGED relay
  <2>1. relay' = [relay EXCEPT ![r] = relay[r]] /\ relay[r] \in ARelay
    BY <1>5, SameStays
  <2>2. Asked(p, caller[r]) /\ Crossed(p, relay[r], TRUE, caller[r])
    <3> HIDE DEF p
    <3> QED BY <1>1, <1>2, <1>5 DEF Asked, Crossed, NoRelay
  <2> HIDE DEF p, l, q
  <2> QED BY <1>1, <1>2, <1>3, <2>1, <2>2, OneRequest
<1> QED BY <1>4, <1>5 DEF Iterate

LEMMA GateStepKeeps ==
    ASSUME GateInv, UNCHANGED accounts, NEW r \in Requests, GateStep(r)
    PROVE  GateInv'
<1>1. CASE Return(r) \/ ReturnMcp(r) \/ ReturnNav(r)
  BY <1>1, AnswerKeeps DEF Return, ReturnMcp, ReturnNav, Monitor, Replies
<1>2. CASE StreamEnds(r) \/ LeaveEarly(r)
  BY <1>2, AnswerKeeps DEF StreamEnds, LeaveEarly, Replies
<1> QED BY <1>1, <1>2, ArriveKeeps, AuthenticateKeeps, EnterKeeps, IterateKeeps DEF GateStep

LEMMA GateInitHolds == AccountsInit /\ GateInit => GateInv
<1> SUFFICES ASSUME AccountsInit, GateInit PROVE GateInv
  OBVIOUS
<1>1. AccountsTypeOK
  BY DEF AccountsInit, AccountsTypeOK, Unissued
<1>2. GateTypeOK
  BY IdleType, GateTypes DEF GateInit
<1>3. /\ Idle.at = "idle" /\ Idle.user = Nobody /\ Idle.byToken = FALSE
      /\ NoRelay.who = Nobody /\ NoRelay.access = "none"
  BY DEF Idle, NoRelay
<1>4. Asked(Idle, Nobody) /\ Crossed(Idle, NoRelay, FALSE, Nobody)
  BY <1>3, NobodyIsNoUser DEF Asked, Crossed
<1> QED BY <1>1, <1>2, <1>4 DEF GateInit, GateInv

LEMMA GateInvSays ==
    GateInv => GateTypeOK /\ RelayedAsCaller /\ AnonymousStaysOut /\ McpKeepsToTheSet /\ NoLeak
BY DEF GateInv, Asked, Crossed, RelayedAsCaller, AnonymousStaysOut, McpKeepsToTheSet, NoLeak,
       Anonymous

-------------------------------------------------------------------------------
LEMMA GateAlways == GateSpec => []GateInv
<1>1. ASSUME GateInv, [\/ AccountStep /\ UNCHANGED gate
                       \/ \E r \in Requests : GateStep(r) /\ UNCHANGED accounts]_<<accounts, gate>>
      PROVE  GateInv'
  <2>1. CASE UNCHANGED <<accounts, gate>>
    BY <1>1, <2>1 DEF GateInv, accounts, gate, AccountsTypeOK, GateTypeOK, Asked, Crossed, Presented,
                      SpeaksFor, BearerCounts, Resolves, SignedIn
  <2> QED BY <1>1, <2>1, AccountsKeepGate, GateStepKeeps
<1> QED BY <1>1, GateInitHolds, PTL DEF GateSpec, SiteInit

(* Every variable of the gate keeps its type: no view leaves a credential  *)
(* of an unknown form on its way to the monitor (_proxy_headers, proxy).   *)
THEOREM GateTypeCorrect == GateSpec => []GateTypeOK
BY GateAlways, GateInvSays, PTL

(* What crosses the tunnel in a user's name was asked for by that user     *)
(* (token_auth.py, _proxy_headers), whatever happens to accounts meanwhile. *)
THEOREM RelayIsTheCallers == GateSpec => []RelayedAsCaller
BY GateAlways, GateInvSays, PTL

(* The anonymous get no further than the open records (login_wall.py),     *)
(* but for the menu their sign-in and setup pages fetch in nobody's name   *)
(* (monitor_client.nav_html).                                              *)
THEOREM AnonymousKeptOut == GateSpec => []AnonymousStaysOut
BY GateAlways, GateInvSays, PTL

(* Only a token's owner calls tools, and only external ones (mcp_policy.py). *)
THEOREM McpKept == GateSpec => []McpKeepsToTheSet
BY GateAlways, GateInvSays, PTL
===============================================================================
