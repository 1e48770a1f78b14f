--------------------------- MODULE TeamComms_proofs ---------------------------
(***************************************************************************)
(* Proofs about TeamComms for any users, tokens, sessions and requests,    *)
(* on top of the lemmas about one step of the gate.                        *)
(***************************************************************************)
EXTENDS TeamComms, RequestGate_proofs

(* What the view has admitted is a user's, by a token of theirs or by a    *)
(* cookie whose CSRF token was good.                                       *)
Admitted(q) ==
    /\ q.at \in {"admitted", "referenced", "sending"} => q.path = "teamcomms"
    /\ q.at = "admitted" =>
          /\ q.user \in Users
          /\ q.bearer = "none" => CsrfPasses(q)
          /\ q.bearer # "none" => q.bearer \in Tokens /\ token[q.bearer].owner = q.user

(* A row is its caller's: by a token that is theirs for good, or by a      *)
(* session that somebody signed in and whose request was checked.          *)
SoundRow(row) ==
    /\ row.user \in Users /\ row.user = row.caller
    /\ row.token # "none" => row.token \in Tokens /\ token[row.token].owner = row.user
    /\ row.token = "none" => row.cookie \in Sessions /\ session[row.cookie] # "unborn"
    /\ row.csrf \/ row.token = "none" => row.checked

(* The row an inquiry found stays sound, and nobody signs in by a session  *)
(* who could not when the monitor asked.                                   *)
SoundInquiry ==
    /\ inquiry.at # "idle" => SoundRow(inquiry.row)
    /\ inquiry.at = "found" =>
          /\ inquiry.row.token = "none"
          /\ SignedIn(inquiry.row.cookie, inquiry.row.user) => inquiry.standing = inquiry.row.user
    /\ inquiry.at = "attested" => inquiry.standing = inquiry.row.user

RowTypes ==
    /\ reference \in [Requests -> References]
    /\ expired \in [Requests -> SUBSET Requests]
    /\ inquiry \in [at : {"idle", "found", "attested"}, row : References,
                    standing : Users \cup {Nobody}]

CommsInv ==
    /\ GateInv
    /\ RowTypes
    /\ \A r \in Requests : Admitted(request[r])
    /\ \A r \in Requests : reference[r] = NoReference \/ SoundRow(reference[r])
    /\ SoundInquiry

rows == <<reference, expired, inquiry>>
-------------------------------------------------------------------------------
LEMMA CommsTypes == CommsInv => TypeOK
BY DEF CommsInv, RowTypes, GateInv, TypeOK

LEMMA NoReferenceType == NoReference \in References /\ NoReference.user \notin Users
BY NobodyIsNoUser DEF NoReference, References, Cookies

\* Changing accounts.
LEMMA AccountsKeepComms ==
    ASSUME CommsInv, AccountStep, UNCHANGED <<gate, reference, expired, inquiry>>
    PROVE  CommsInv'
<1>1. GateInv' /\ AccountsTypeOK
  BY AccountsKeepGate DEF CommsInv, GateInv
<1>2. RowTypes'
  BY DEF CommsInv, RowTypes
<1>3. ASSUME NEW t \in Tokens, NEW u \in Users, token[t].owner = u PROVE token'[t].owner = u
  BY <1>1, <1>3, AccountsShrink, NobodyIsNoUser
<1>4. ASSUME NEW row, SoundRow(row) PROVE SoundRow(row)'
  <2>1. row.token # "none" => row.token \in Tokens /\ token'[row.token].owner = row.user
    BY <1>3, <1>4 DEF SoundRow
  <2>2. row.token = "none" => row.cookie \in Sessions /\ session'[row.cookie] # "unborn"
    BY <1>1, <1>4, AccountsShrink DEF SoundRow
  <2> QED BY <1>4, <2>1, <2>2 DEF SoundRow
<1>5. \A r \in Requests : Admitted(request[r])'
  BY <1>3 DEF CommsInv, Admitted, gate, CsrfPasses
<1>6. \A r \in Requests : reference[r]' = NoReference \/ SoundRow(reference[r])'
  <2>1. reference' = reference
    OBVIOUS
  <2> QED BY <1>4, <2>1 DEF CommsInv, SoundRow
<1>7. SoundInquiry'
  <2>1. inquiry' = inquiry
    OBVIOUS
  <2>2. inquiry.at # "idle" => SoundRow(inquiry.row)'
    BY <1>4, <2>1 DEF CommsInv, SoundInquiry, SoundRow
  <2>3. inquiry.at = "found" /\ SignedIn(inquiry.row.cookie, inquiry.row.user)'
        => SignedIn(inquiry.row.cookie, inquiry.row.user)
    BY <1>1, <2>1, AccountsShrink, SessionStatesDiffer DEF CommsInv, SoundInquiry, SoundRow, SignedIn
  <2> QED BY <2>1, <2>2, <2>3 DEF CommsInv, SoundInquiry
<1> QED BY <1>1, <1>2, <1>5, <1>6, <1>7 DEF CommsInv

\* Steps of the gate leave a request outside the view of TeamComms.
LEMMA GateStepLeaves ==
    ASSUME GateInv, NEW r \in Requests, GateStep(r)
    PROVE  /\ request'[r].at \notin {"admitted", "referenced", "sending"}
           /\ \A p \in Requests \ {r} : request'[p] = request[p]
<1>1. request \in [Requests -> ARequest] /\ request[r] \in ARequest
  BY GateTypes DEF GateInv
<1>2. ASSUME NEW reply, Answer(r, reply)
      PROVE  request'[r].at = "answered" /\ \A p \in Requests \ {r} : request'[p] = request[p]
  BY <1>1, <1>2 DEF Answer, Idle
<1>3. CASE Arrive(r)
  BY <1>1, <1>3 DEF Arrive, Arrivals
<1>4. CASE Authenticate(r)
  <2>1. ASSUME NEW u \in Users, request' = [request EXCEPT ![r].at = "known", ![r].user = u,
                                                       ![r].byToken = BearerCounts(request[r])]
        PROVE  request'[r].at = "known" /\ \A p \in Requests \ {r} : request'[p] = request[p]
    BY <1>1, <2>1 DEF ARequest
  <2>2. ASSUME request' = [request EXCEPT ![r].at = "known"]
        PROVE  request'[r].at = "known" /\ \A p \in Requests \ {r} : request'[p] = request[p]
    BY <1>1, <2>2 DEF ARequest
  <2> QED BY <1>2, <1>4, <2>1, <2>2 DEF Authenticate
<1>5. CASE Enter(r)
  BY <1>1, <1>2, <1>5 DEF Enter, FetchNav, ARequest
<1>6. CASE Iterate(r)
  BY <1>1, <1>6 DEF Iterate, ARequest
<1> QED BY <1>2, <1>3, <1>4, <1>5, <1>6 DEF GateStep, Return, ReturnMcp, ReturnNav, StreamEnds, LeaveEarly

LEMMA GateStepKeepsComms ==
    ASSUME CommsInv, NEW r \in Requests, GateStep(r), UNCHANGED <<accounts, reference, expired, inquiry>>
    PROVE  CommsInv'
<1>1. GateInv'
  BY GateStepKeeps DEF CommsInv
<1>2. RowTypes'
  BY DEF CommsInv, RowTypes
<1>3. UNCHANGED <<active, token, session>>
  BY DEF accounts
<1>4. ASSUME NEW p \in Requests PROVE Admitted(request[p])'
  BY <1>3, GateStepLeaves DEF CommsInv, Admitted, CsrfPasses
<1>5. (\A p \in Requests : reference[p] = NoReference \/ SoundRow(reference[p]))' /\ SoundInquiry'
  BY <1>3 DEF CommsInv, SoundRow, SoundInquiry, SignedIn
<1> QED BY <1>1, <1>2, <1>4, <1>5 DEF CommsInv

\* A step that answers a request, or leaves its row alone, in the view.
LEMMA TurnsKeeps ==
    ASSUME CommsInv, NEW r \in Requests, NEW reply \in Replies, Turns(r, reply), UNCHANGED <<accounts, inquiry>>
    PROVE  CommsInv'
<1>1. GateInv'
  BY AnswerKeeps DEF CommsInv, Turns
<1>2. RowTypes'
  BY DEF CommsInv, RowTypes, Turns
<1>3. UNCHANGED <<active, token, session>>
  BY DEF accounts
<1>4. ASSUME NEW p \in Requests PROVE Admitted(request[p])'
  BY <1>3, GateTypes DEF CommsInv, GateInv, Admitted, CsrfPasses, Turns, Answer, Idle
<1>5. (\A p \in Requests : reference[p] = NoReference \/ SoundRow(reference[p]))' /\ SoundInquiry'
  BY <1>3 DEF CommsInv, SoundRow, SoundInquiry, SignedIn, Turns
<1> QED BY <1>1, <1>2, <1>4, <1>5 DEF CommsInv

LEMMA AdmitKeeps ==
    ASSUME CommsInv, NEW r \in Requests, Admit(r), UNCHANGED <<accounts, inquiry>>
    PROVE  CommsInv'
<1> DEFINE q == request[r]
<1>1. /\ q \in ARequest /\ q.at = "known" /\ q.path = "teamcomms"
      /\ Asked(q, caller[r]) /\ Crossed(q, relay[r], connection[r], caller[r])
  BY SameStays DEF Admit, CommsInv
<1>2. ASSUME NEW u \in Users, Admits(q, u), request' = [request EXCEPT ![r].at = "admitted", ![r].user = u],
             UNCHANGED <<relay, connection, caller, reference, expired>>
      PROVE  CommsInv'
  <2> DEFINE p == [q EXCEPT !.at = "admitted", !.user = u]
  <2>1. /\ p \in ARequest /\ p.at = "admitted" /\ p.user = u /\ p.byToken = q.byToken
        /\ p.bearer = q.bearer /\ p.cookie = q.cookie /\ p.path = q.path
        /\ p.crawler = q.crawler /\ p.body = q.body /\ p.method = q.method /\ p.csrf = q.csrf
    BY <1>1 DEF ARequest, Phases
  <2>4. /\ caller[r] = u
        /\ q.bearer # "none" => q.bearer \in Tokens /\ token[q.bearer].owner = u
        /\ q.bearer = "none" => CsrfPasses(q) /\ q.cookie \in Sessions
    <3>1. CASE q.bearer # "none"
      <4>1. q.bearer \in Tokens /\ Resolves(q.bearer, u)
        BY <1>2, <3>1 DEF Admits, Authorized
      <4>2. SpeaksFor(q, u)
        BY <1>1, <4>1 DEF SpeaksFor, BearerCounts, TokenPaths
      <4> QED BY <1>1, <3>1, <4>1, <4>2 DEF Asked, Resolves
    <3>2. CASE q.bearer = "none"
      BY <1>1, <1>2, <3>2 DEF Admits, Authorized, Asked
    <3> QED BY <3>1, <3>2
  <2>5. Asked(p, caller[r]) /\ Crossed(p, relay[r], connection[r], caller[r])
    <3> HIDE DEF p
    <3> QED BY <1>1, <2>1, <2>4 DEF Asked, Crossed, NoRelay, Presented
  <2>6. request' = [request EXCEPT ![r] = p]
    BY <1>2
  <2>7. GateInv'
    <3> HIDE DEF p, q
    <3> QED BY <1>2, <2>1, <2>5, <2>6, OnlyRequest DEF q, CommsInv
  <2>8. UNCHANGED <<active, token, session>>
    BY DEF accounts
  <2>9. ASSUME NEW x \in Requests PROVE Admitted(request[x])'
    <3>1. CASE x = r
      <4>1. request'[x] = p
        BY <2>6, <3>1, GateTypes DEF CommsInv, GateInv
      <4> HIDE DEF p
      <4> QED BY <1>1, <2>1, <2>4, <2>8, <4>1 DEF Admitted, CsrfPasses
    <3>2. CASE x # r
      <4>1. request'[x] = request[x]
        BY <2>6, <3>2, GateTypes DEF CommsInv, GateInv
      <4> QED BY <2>8, <4>1 DEF CommsInv, Admitted, CsrfPasses
    <3> QED BY <3>1, <3>2
  <2>10. RowTypes' /\ (\A x \in Requests : reference[x] = NoReference \/ SoundRow(reference[x]))' /\ SoundInquiry'
    BY <1>2, <2>8 DEF CommsInv, RowTypes, SoundRow, SoundInquiry, SignedIn
  <2> QED BY <2>7, <2>9, <2>10 DEF CommsInv
<1>3. CASE Turns(r, "refused")
  BY <1>3, TurnsKeeps DEF Replies
<1> QED BY <1>2, <1>3 DEF Admit

\* Row by row.
LEMMA RowsKeep ==
    ASSUME CommsInv, UNCHANGED accounts,
           \A p \in Requests : \/ reference'[p] = NoReference
                               \/ SoundRow(reference'[p])
    PROVE  (\A p \in Requests : reference[p] = NoReference \/ SoundRow(reference[p]))'
BY DEF accounts, SoundRow

LEMMA CreateKeeps ==
    ASSUME CommsInv, NEW r \in Requests, Create(r), UNCHANGED <<accounts, inquiry>>
    PROVE  CommsInv'
<1> DEFINE q == request[r]
           p == [Idle EXCEPT !.at = "referenced", !.path = "teamcomms"]
           row == Refers(r)
<1>1. /\ q \in ARequest /\ q.at = "admitted" /\ Admitted(q) /\ caller[r] \in Users \cup {Nobody}
      /\ Asked(q, caller[r]) /\ Crossed(q, relay[r], connection[r], caller[r])
  BY SameStays DEF Create, CommsInv
<1>2. /\ p \in ARequest /\ p.at = "referenced" /\ p.path = "teamcomms"
      /\ p.user = Nobody /\ p.byToken = FALSE
  <2>1. Idle \in ARequest
    BY IdleType
  <2> QED BY <2>1 DEF ARequest, Phases, AllPaths, Idle
<1>3. relay[r] = NoRelay /\ connection[r] = FALSE
  BY <1>1, SameStays DEF CommsInv, Crossed
<1>4. Asked(p, Nobody) /\ Crossed(p, NoRelay, FALSE, Nobody)
  <2>1. NoRelay.who = Nobody /\ NoRelay.access = "none"
    BY DEF NoRelay
  <2> HIDE DEF p
  <2> QED BY <1>2, <2>1, NobodyIsNoUser DEF Asked, Crossed
<1>5. /\ request' = [request EXCEPT ![r] = p] /\ caller' = [caller EXCEPT ![r] = Nobody]
      /\ relay' = [relay EXCEPT ![r] = NoRelay] /\ connection' = [connection EXCEPT ![r] = FALSE]
  BY <1>3, SameStays DEF Create, CommsInv
<1>6. GateInv'
  <2>1. GateInv /\ UNCHANGED accounts
    BY DEF CommsInv
  <2> HIDE DEF p
  <2> QED BY <1>2, <1>4, <1>5, <2>1, IdleType, OneRequest
<1>7. row \in References /\ row.live /\ SoundRow(row)
  <2>1. q.bearer # "none" => q.bearer \in Tokens /\ token[q.bearer].owner = q.user
    BY <1>1 DEF Admitted
  <2>2. q.user \in Users /\ q.user = caller[r] /\ (q.bearer = "none" => q.cookie \in Sessions /\ CsrfPasses(q))
    BY <1>1 DEF Admitted, Asked
  <2>3. q.bearer = "none" => session[q.cookie] # "unborn"
    BY <1>1, <2>2 DEF Asked, Presented
  <2>4. CsrfPasses(q) \in BOOLEAN
    BY <1>1 DEF CsrfPasses, ARequest
  <2>5. CASE q.bearer # "none"
    <3>1. row = [user |-> q.user, token |-> q.bearer, cookie |-> "none", csrf |-> FALSE,
                 live |-> TRUE, caller |-> caller[r], checked |-> FALSE]
      BY <2>5 DEF Refers, Authorized
    <3> QED BY <1>1, <2>1, <2>2, <2>5, <3>1 DEF SoundRow, References, Cookies
  <2>6. CASE q.bearer = "none"
    <3>1. row = [user |-> q.user, token |-> "none", cookie |-> q.cookie, csrf |-> TRUE,
                 live |-> TRUE, caller |-> caller[r], checked |-> TRUE]
      BY <2>2, <2>6 DEF Refers, Authorized
    <3> QED BY <1>1, <2>2, <2>3, <2>6, <3>1, CredentialsDiffer DEF SoundRow, References, Cookies
  <2> QED BY <2>5, <2>6
<1>8. reference' = [reference EXCEPT ![r] = row]
  BY DEF Create
<1> HIDE DEF row, p, q
<1>9. RowTypes' /\ reference'[r] = row /\ \A x \in Requests \ {r} : reference'[x] = reference[x]
  BY <1>7, <1>8 DEF CommsInv, RowTypes, Create, Rows
<1>10. (\A x \in Requests : reference[x] = NoReference \/ SoundRow(reference[x]))'
  BY <1>7, <1>9, RowsKeep DEF CommsInv
<1>11. SoundInquiry'
  BY DEF CommsInv, SoundInquiry, SoundRow, SignedIn, accounts
<1>12. ASSUME NEW x \in Requests PROVE Admitted(request[x])'
  <2>1. UNCHANGED token
    BY DEF accounts
  <2>2. IF x = r THEN request'[x] = p ELSE request'[x] = request[x]
    BY <1>5, GateTypes DEF CommsInv, GateInv
  <2> QED BY <1>2, <2>1, <2>2 DEF CommsInv, Admitted, CsrfPasses
<1> QED BY <1>6, <1>7, <1>9, <1>10, <1>11, <1>12 DEF CommsInv

\* What a request that was created is when it goes on within its view.
LEMMA ViewGoesOn ==
    ASSUME CommsInv, NEW r \in Requests, request[r].at \in {"referenced", "sending"},
           NEW at \in {"sending", "headed"}, NEW open \in BOOLEAN, UNCHANGED <<accounts, relay, caller>>,
           connection' = [connection EXCEPT ![r] = open],
           request' = [request EXCEPT ![r].at = at]
    PROVE  GateInv' /\ \A x \in Requests : Admitted(request[x])'
<1> DEFINE q == request[r]
           p == [q EXCEPT !.at = at]
           l == relay[r]
           u == caller[r]
<1>1. /\ q \in ARequest /\ Admitted(q) /\ u \in Users \cup {Nobody} /\ l \in ARelay
      /\ Asked(q, u) /\ Crossed(q, l, connection[r], u)
  BY SameStays DEF CommsInv
<1>2. /\ p \in ARequest /\ p.at = at /\ p.user = q.user /\ p.byToken = q.byToken
      /\ p.bearer = q.bearer /\ p.cookie = q.cookie /\ p.path = q.path
      /\ p.crawler = q.crawler /\ p.body = q.body /\ p.method = q.method
  BY <1>1 DEF ARequest, Phases
<1>3. p.path = "teamcomms" /\ l = NoRelay
  BY <1>1, <1>2 DEF Admitted, Crossed
<1>4. Asked(p, u) /\ Crossed(p, l, open, u)
  <2> HIDE DEF p, l, u
  <2> QED BY <1>1, <1>2, <1>3 DEF Asked, Crossed, NoRelay
<1>5. /\ request' = [request EXCEPT ![r] = p] /\ relay' = [relay EXCEPT ![r] = l]
      /\ caller' = [caller EXCEPT ![r] = u] /\ UNCHANGED <<accounts, token>> /\ GateInv
  BY SameStays DEF CommsInv, accounts
<1>6. \A x \in Requests : request'[x] = IF x = r THEN p ELSE request[x]
  BY <1>5, GateTypes DEF GateInv
<1> HIDE DEF p, q, l, u
<1>7. GateInv'
  <2>1. connection' = [connection EXCEPT ![r] = open] /\ open \in BOOLEAN /\ r \in Requests
    OBVIOUS
  <2> QED BY ONLY <1>1, <1>2, <1>4, <1>5, <2>1, OneRequest
<1>8. ASSUME NEW x \in Requests PROVE Admitted(request[x])'
  BY <1>2, <1>3, <1>5, <1>6 DEF CommsInv, Admitted, CsrfPasses
<1> QED BY <1>7, <1>8

LEMMA PurgeKeeps ==
    ASSUME CommsInv, NEW r \in Requests, Purge(r), UNCHANGED <<accounts, inquiry>>
    PROVE  CommsInv'
<1>1. GateInv' /\ \A x \in Requests : Admitted(request[x])'
  BY ViewGoesOn DEF Purge
<1>2. \A p \in Requests : reference'[p] = IF p \in expired[r] THEN NoReference ELSE reference[p]
  BY DEF Purge
<1>3. RowTypes'
  BY <1>2, NoReferenceType DEF Purge, CommsInv, RowTypes
<1>4. (\A x \in Requests : reference[x] = NoReference \/ SoundRow(reference[x]))'
  BY <1>2, RowsKeep DEF CommsInv
<1>5. SoundInquiry'
  BY DEF CommsInv, SoundInquiry, SoundRow, SignedIn, accounts
<1> QED BY <1>1, <1>3, <1>4, <1>5 DEF CommsInv

LEMMA RelayedKeeps ==
    ASSUME CommsInv, NEW r \in Requests, Relayed(r), UNCHANGED <<accounts, inquiry>>
    PROVE  CommsInv'
<1>1. CASE Turns(r, "page")
  BY <1>1, TurnsKeeps DEF Replies
<1>2. ASSUME request' = [request EXCEPT ![r].at = "headed"],
             UNCHANGED <<relay, connection, caller, reference, expired>>
      PROVE  CommsInv'
  <2> DEFINE open == connection[r]
  <2>1. connection' = [connection EXCEPT ![r] = open] /\ open \in BOOLEAN
    BY <1>2, SameStays DEF CommsInv
  <2>2. GateInv' /\ \A x \in Requests : Admitted(request[x])'
    <3>1. request[r].at \in {"referenced", "sending"} /\ UNCHANGED <<accounts, relay, caller>>
      BY <1>2 DEF Relayed
    <3> HIDE DEF open
    <3> QED BY <1>2, <2>1, <3>1, ViewGoesOn
  <2>3. RowTypes' /\ (\A x \in Requests : reference[x] = NoReference \/ SoundRow(reference[x]))' /\ SoundInquiry'
    BY <1>2 DEF CommsInv, RowTypes, SoundRow, SoundInquiry, SignedIn, accounts
  <2> QED BY <1>2, <2>2, <2>3 DEF CommsInv
<1> QED BY <1>1, <1>2 DEF Relayed

\* The clock.
LEMMA ExpireKeeps ==
    ASSUME CommsInv, NEW r \in Requests, Expire(r), UNCHANGED <<accounts, gate>>
    PROVE  CommsInv'
<1> DEFINE row == [reference[r] EXCEPT !.live = FALSE]
<1>1. reference[r] \in References /\ reference[r].live /\ SoundRow(reference[r])
  BY DEF Expire, CommsInv, RowTypes, NoReference
<1>2. /\ row \in References /\ row.user = reference[r].user /\ row.caller = reference[r].caller
      /\ row.token = reference[r].token /\ row.cookie = reference[r].cookie
      /\ row.csrf = reference[r].csrf /\ row.checked = reference[r].checked
  BY <1>1 DEF References
<1>3. reference' = [reference EXCEPT ![r] = row]
  BY DEF Expire
<1> HIDE DEF row
<1>4. \A p \in Requests : reference'[p] = IF p = r THEN row ELSE reference[p]
  BY <1>3 DEF CommsInv, RowTypes
<1>5. SoundRow(row) /\ row # NoReference
  BY <1>1, <1>2, NoReferenceType DEF SoundRow
<1>6. RowTypes' /\ SoundInquiry'
  BY <1>2, <1>3 DEF CommsInv, RowTypes, SoundInquiry, SoundRow, SignedIn, Expire, accounts
<1>7. (\A x \in Requests : reference[x] = NoReference \/ SoundRow(reference[x]))'
  BY <1>4, <1>5, RowsKeep DEF CommsInv
<1>8. GateInv' /\ \A x \in Requests : Admitted(request[x])'
  BY DEF CommsInv, GateInv, accounts, gate, AccountsTypeOK, GateTypeOK, Asked, Crossed, Presented,
         SpeaksFor, BearerCounts, Resolves, SignedIn, Admitted, CsrfPasses
<1> QED BY <1>6, <1>7, <1>8 DEF CommsInv

\* The monitor's question, its second look and its end.
LEMMA InquiryKeeps ==
    ASSUME CommsInv, UNCHANGED <<accounts, gate, reference, expired>>,
           inquiry' \in [at : {"idle", "found", "attested"}, row : References,
                         standing : Users \cup {Nobody}], SoundInquiry'
    PROVE  CommsInv'
BY DEF CommsInv, RowTypes, GateInv, accounts, gate, AccountsTypeOK, GateTypeOK, Asked, Crossed, Presented,
       SpeaksFor, BearerCounts, Resolves, SignedIn, Admitted, CsrfPasses, SoundRow

LEMMA AskKeeps ==
    ASSUME CommsInv, NEW r \in Requests, Ask(r), UNCHANGED <<accounts, gate>>
    PROVE  CommsInv'
<1> DEFINE row == reference[r]
           standing == IF row.live /\ Stands(row) THEN row.user ELSE Nobody
           at == IF row.token # "none" THEN "attested" ELSE "found"
<1>1. row \in References /\ row.live /\ SoundRow(row)
  BY DEF Ask, Finds, CommsInv, RowTypes, NoReference
<1>2. row.token # "none" => Resolves(row.token, row.user)
  BY DEF Ask
<1>3. inquiry' = [at |-> at, row |-> row, standing |-> standing]
  BY DEF Ask
<1>4. standing \in Users \cup {Nobody}
  BY <1>1 DEF References
<1>5. row.token # "none" => standing = row.user
  BY <1>1, <1>2 DEF Stands
<1>6. row.token = "none" /\ SignedIn(row.cookie, row.user) => standing = row.user
  <2>1. row.token = "none" => row.cookie # "none"
    BY <1>1, CredentialsDiffer DEF SoundRow
  <2> QED BY <1>1, <2>1 DEF Stands
<1> HIDE DEF row, standing
<1>7. inquiry' \in [at : {"idle", "found", "attested"}, row : References, standing : Users \cup {Nobody}]
  BY <1>1, <1>3, <1>4
<1>8. SoundInquiry'
  <2>1. inquiry'.row = row /\ inquiry'.standing = standing /\ inquiry'.at = at
    BY <1>3
  <2>2. UNCHANGED <<active, token, session>>
    BY DEF accounts
  <2> QED BY <1>1, <1>5, <1>6, <2>1, <2>2 DEF SoundInquiry, SoundRow, SignedIn
<1> QED BY <1>7, <1>8, InquiryKeeps DEF Ask

LEMMA AttestKeeps ==
    ASSUME CommsInv, Attest \/ Close, UNCHANGED <<accounts, gate>>
    PROVE  CommsInv'
<1>1. inquiry \in [at : {"idle", "found", "attested"}, row : References, standing : Users \cup {Nobody}]
  BY DEF CommsInv, RowTypes
<1>2. UNCHANGED <<active, token, session>>
  BY DEF accounts
<1>3. CASE inquiry' = NoInquiry
  <2>1. inquiry' \in [at : {"idle", "found", "attested"}, row : References, standing : Users \cup {Nobody}]
    BY <1>3, NoReferenceType DEF NoInquiry
  <2>2. SoundInquiry'
    BY <1>3 DEF SoundInquiry, NoInquiry
  <2> QED BY <2>1, <2>2, InquiryKeeps DEF Attest, Close
<1>4. CASE /\ inquiry.at = "found" /\ StillSignedIn(inquiry.row)
           /\ inquiry' = [inquiry EXCEPT !.at = "attested"]
  <2>1. /\ inquiry' \in [at : {"idle", "found", "attested"}, row : References, standing : Users \cup {Nobody}]
        /\ inquiry'.row = inquiry.row /\ inquiry'.standing = inquiry.standing /\ inquiry'.at = "attested"
    BY <1>1, <1>4
  <2>2. SoundInquiry'
    BY <1>2, <1>4, <2>1 DEF CommsInv, SoundInquiry, SoundRow, StillSignedIn
  <2> QED BY <2>1, <2>2, InquiryKeeps DEF Attest, Close
<1> QED BY <1>3, <1>4 DEF Attest, Close
-------------------------------------------------------------------------------
LEMMA CommsInit == Init => CommsInv
<1> SUFFICES ASSUME Init PROVE CommsInv
  OBVIOUS
<1>1. GateInv
  BY GateInitHolds DEF Init, SiteInit
<1>2. RowTypes
  BY NoReferenceType DEF Init, RowTypes, NoInquiry
<1>3. \A r \in Requests : Admitted(request[r])
  BY DEF Init, SiteInit, GateInit, Idle, Admitted
<1> QED BY <1>1, <1>2, <1>3 DEF CommsInv, SoundInquiry, Init, NoInquiry

LEMMA CommsNext ==
    ASSUME CommsInv, [Next]_vars
    PROVE  CommsInv'
<1>1. CASE UNCHANGED vars
  BY <1>1 DEF vars, CommsInv, RowTypes, GateInv, accounts, gate, AccountsTypeOK, GateTypeOK, Asked,
              Crossed, Presented, SpeaksFor, BearerCounts, Resolves, SignedIn, Admitted, CsrfPasses,
              SoundRow, SoundInquiry
<1>2. CASE AccountStep /\ UNCHANGED <<gate, reference, expired, inquiry>>
  BY <1>2, AccountsKeepComms
<1>3. ASSUME NEW r \in Requests, GateStep(r), UNCHANGED <<accounts, reference, expired, inquiry>>
      PROVE  CommsInv'
  BY <1>3, GateStepKeepsComms
<1>4. ASSUME NEW r \in Requests, ViewStep(r), UNCHANGED <<accounts, inquiry>> PROVE CommsInv'
  <2>1. CASE Unfit(r)
    BY <1>4, <2>1, TurnsKeeps DEF Unfit, Replies
  <2> QED BY <1>4, <2>1, AdmitKeeps, CreateKeeps, PurgeKeeps, RelayedKeeps DEF ViewStep
<1>5. ASSUME NEW r \in Requests, Expire(r), UNCHANGED <<accounts, gate>> PROVE CommsInv'
  BY <1>5, ExpireKeeps
<1>6. ASSUME NEW r \in Requests, Ask(r), UNCHANGED <<accounts, gate>> PROVE CommsInv'
  BY <1>6, AskKeeps
<1>7. CASE (Attest \/ Close) /\ UNCHANGED <<accounts, gate>>
  BY <1>7, AttestKeeps
<1> QED BY <1>1, <1>2, <1>3, <1>4, <1>5, <1>6, <1>7 DEF Next

LEMMA CommsAlways == Spec => []CommsInv
BY CommsInit, CommsNext, PTL DEF Spec

(* Every variable keeps its type, the accounts' and the gate's with it.    *)
THEOREM TypeCorrect == Spec => []TypeOK
BY CommsAlways, CommsTypes, PTL

(* Whoever leaves, and whenever, the upstream connection is closed         *)
(* (proxy's finally and the response's close).                             *)
THEOREM NothingLeaks == Spec => []NoLeak
<1>1. CommsInv => NoLeak
  BY GateInvSays DEF CommsInv
<1> QED BY <1>1, CommsAlways, PTL

(* An attestation names a user for whom the credential stood when asked    *)
(* (introspect, _current_user).                                            *)
THEOREM AttestedStood == Spec => []AttestsTheCurrent
<1>1. CommsInv => AttestsTheCurrent
  BY DEF CommsInv, SoundInquiry, AttestsTheCurrent
<1> QED BY <1>1, CommsAlways, PTL

(* ... and the one for whom the request came (_authenticated_request).     *)
THEOREM AttestedCalled == Spec => []AttestsTheCaller
<1>1. CommsInv => AttestsTheCaller
  BY DEF CommsInv, SoundInquiry, SoundRow, AttestsTheCaller
<1> QED BY <1>1, CommsAlways, PTL
===============================================================================
