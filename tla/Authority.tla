------------------------------- MODULE Authority -------------------------------
(***************************************************************************)
(* What an account may do: "eic", organization membership as observed at a *)
(* sign-in, and "rights", as granted by a person.  Both are kept by the    *)
(* monitor, behind a tunnel whose writes may be late, lost or answered to  *)
(* nobody; the site keeps a copy of the latest check for its menu.         *)
(***************************************************************************)
EXTENDS Naturals, FiniteSets

CONSTANTS
    Accounts,
    Checks,      \* sign-ins in progress
    Decisions,   \* the rights people set (a bound)
    Backfill,    \* the backfill command, as a writer
    Nobody,      \* the writer nobody waits for any more, and no account
    MaxLate      \* how many such writes there may be (a bound)

ASSUME WritersDiffer == Backfill \notin Checks /\ Nobody \notin Checks \cup Accounts \cup {Backfill}
ASSUME DecisionsAreRights == Decisions \subseteq {"unset", "read", "basic", "ops"}
ASSUME MaxLateIsCount == MaxLate \in Nat

VARIABLES
    linked,     \* the accounts with a GitHub identity
    member,     \* the people whose organization membership is active, at GitHub
    upstream,   \* upstream[a]: what the monitor holds
    status,     \* status[a]: AuthorityStatus, the local copy
    wire,       \* writes under way to the monitor
    check,      \* check[c]: one run of refresh_for
    backfill,   \* the backfill command
    observed,   \* observed[a]: the definite answers GitHub gave (history)
    accepted,   \* accepted[a]: the eic values the monitor accepted (history)
    decided,    \* decided[a]: what a person decided, "any" once the backfill grants (history)
    settled     \* settled[a]: the answer of a check that ran alone (history)

history == <<observed, accepted, decided, settled>>
vars == <<linked, member, upstream, status, wire, check, backfill, history>>

Answers  == {"yes", "no"}
Rights   == {"unset", "read", "basic", "ops"}
Values   == Answers \cup Rights \cup {"check_failed"}
Writers  == Checks \cup {Backfill}

\* "alone", "broken" and "silent" are history: no other writer has touched the
\* account since, the database failed the check, it ended without a word.
NoCheck    == [at |-> "over", account |-> Nobody, answer |-> "unset",
               again |-> FALSE, broken |-> FALSE, alone |-> FALSE, silent |-> FALSE]
NoBackfill == [at |-> "over", eicOnly |-> FALSE, links |-> {}, seen |-> {}, todo |-> {}, account |-> Nobody]

TypeOK ==
    /\ linked \subseteq Accounts
    /\ member \subseteq Accounts
    /\ upstream \in [Accounts -> [eic : {"unset"} \cup Answers, rights : Rights, failed : BOOLEAN]]
    /\ status \in [Accounts -> [eic : {"unset"} \cup Answers, failed : BOOLEAN]]
    /\ wire \subseteq [by : Writers \cup {Nobody}, account : Accounts,
                       field : {"eic", "rights", "failed"}, value : Values]
    /\ check \in [Checks ->
          [at : {"over", "signed", "asking", "observed", "recording", "recorded", "failing",
                 "reporting"},
           account : Accounts \cup {Nobody}, answer : {"unset"} \cup Answers,
           again : BOOLEAN, broken : BOOLEAN, alone : BOOLEAN, silent : BOOLEAN]]
    /\ backfill \in [at : {"over", "next", "recording", "recorded", "grant", "granting"},
                     eicOnly : BOOLEAN, links : SUBSET Accounts, seen : SUBSET Accounts, todo : SUBSET Accounts,
                     account : Accounts \cup {Nobody}]
    /\ observed \in [Accounts -> SUBSET Answers]
    /\ accepted \in [Accounts -> SUBSET Answers]
    /\ decided \in [Accounts -> Rights \cup {"any"}]
    /\ settled \in [Accounts -> {"unset"} \cup Answers]

Init ==
    /\ linked = {}
    /\ member \in SUBSET Accounts
    /\ upstream = [a \in Accounts |-> [eic |-> "unset", rights |-> "unset", failed |-> FALSE]]
    /\ status = [a \in Accounts |-> [eic |-> "unset", failed |-> FALSE]]
    /\ wire = {}
    /\ check = [c \in Checks |-> NoCheck]
    /\ backfill = NoBackfill
    /\ observed = [a \in Accounts |-> {}]
    /\ accepted = [a \in Accounts |-> {}]
    /\ decided = [a \in Accounts |-> "unset"]
    /\ settled = [a \in Accounts |-> "unset"]

-------------------------------------------------------------------------------
\* The writers at work on an account, and those nobody waits for.
Touches(a) ==
    \/ \E c \in Checks : check[c].at # "over" /\ check[c].account = a
    \/ backfill.at # "over"
    \/ \E w \in wire : w.account = a

Membership(a) == IF a \in member THEN "yes" ELSE "no"

\* Joining or leaving the organization; an invitation is not a membership yet.
Move(a) ==
    /\ member' = IF a \in member THEN member \ {a} ELSE member \cup {a}
    /\ UNCHANGED <<linked, upstream, status, wire, check, backfill, history>>

\* The first sign-in with GitHub ties its identity to an account, one that
\* came with the sync from the monitor too.
Link(a) ==
    /\ a \notin linked
    /\ linked' = linked \cup {a}
    /\ UNCHANGED <<member, upstream, status, wire, check, backfill, history>>

\* The full backfill, or a late write of it, may still grant.
Granting ==
    \/ backfill.at # "over" /\ ~backfill.eicOnly
    \/ \E w \in wire : w.field = "rights"

\* A person sets rights on the monitor's User admin page.
Decide(a, rights) ==
    /\ upstream' = [upstream EXCEPT ![a].rights = rights]
    /\ decided' = [decided EXCEPT ![a] = IF Granting THEN "any" ELSE rights]
    /\ UNCHANGED <<linked, member, status, wire, check, backfill, observed, accepted, settled>>
-------------------------------------------------------------------------------
\* A check is over, having said what it found or not.
Ended(c, said) ==
    [NoCheck EXCEPT !.silent = ~said /\ ~check[c].broken /\ check[c].account \in linked]

\* A check has reached no answer.
Failing(c) == [check[c] EXCEPT !.at = "failing", !.answer = "unset", !.alone = FALSE]

\* _post sends a write and waits for it.
Posts(p, a, field, value) ==
    wire' = wire \cup {[by |-> p, account |-> a, field |-> field, value |-> value]}

\* What a check makes of the end of its post: a report is done with, answered
\* or not.
Told(w, answered) ==
    IF w.field = "failed" THEN Ended(w.by, TRUE)
    ELSE IF answered THEN [check[w.by] EXCEPT !.at = "recorded"]
    ELSE Failing(w.by)

\* How the writer of w goes on once its post has ended.
Resumes(w, answered) ==
    /\ check' = IF w.by \in Checks THEN [check EXCEPT ![w.by] = Told(w, answered)] ELSE check
    /\ backfill' = IF w.by = Backfill
                   THEN [backfill EXCEPT !.at = IF w.field = "rights" THEN "next"
                                                ELSE IF answered THEN "recorded" ELSE "grant"]
                   ELSE backfill

\* The monitor applies a write, in whatever order writes reach it; a report
\* leaves the eic it holds alone.
Accept(w) ==
    /\ w \in wire
    /\ wire' = wire \ {w}
    /\ upstream' = [upstream EXCEPT ![w.account] =
          CASE w.field = "eic" -> [@ EXCEPT !.eic = w.value, !.failed = FALSE]
            [] w.field = "rights" -> [@ EXCEPT !.rights = w.value]
            [] OTHER -> [@ EXCEPT !.failed = TRUE]]
    /\ accepted' = IF w.field = "eic" THEN [accepted EXCEPT ![w.account] = @ \cup {w.value}]
                   ELSE accepted
    /\ Resumes(w, TRUE)
    /\ UNCHANGED <<linked, member, status, observed, decided, settled>>

\* The monitor answers with an error, or is not reached.
Refuse(w) ==
    /\ w \in wire
    /\ wire' = wire \ {w}
    /\ Resumes(w, FALSE)
    /\ UNCHANGED <<linked, member, upstream, status, history>>

\* What becomes of a writer's post when nobody waits for it any more: it is
\* lost, or may yet be applied.
Abandoned(w) ==
    {wire \ {w}} \cup
    (IF Cardinality({v \in wire : v.by = Nobody}) < MaxLate
     THEN {(wire \ {w}) \cup {[w EXCEPT !.by = Nobody]}} ELSE {})

\* A writer goes, and nobody waits for its post, if it has one under way.
Unawaited(p) ==
    IF \E w \in wire : w.by = p THEN UNION {Abandoned(w) : w \in {v \in wire : v.by = p}} ELSE {wire}

\* A slip: what is no answer is not an error either.
GiveUpSilently(w) ==
    /\ w \in wire /\ w.by # Nobody
    /\ wire' \in Abandoned(w)
    /\ Resumes(w, TRUE)
    /\ UNCHANGED <<linked, member, upstream, status, history>>

\* Thirty seconds without an answer.
GiveUp(w) ==
    /\ w \in wire /\ w.by # Nobody
    /\ wire' \in Abandoned(w)
    /\ Resumes(w, FALSE)
    /\ UNCHANGED <<linked, member, upstream, status, history>>
-------------------------------------------------------------------------------
\* A check of the account starts while others are at work on it or not.
SignIn(c, a) ==
    /\ check[c].at = "over"
    /\ check' = [d \in Checks |->
          CASE d = c -> [NoCheck EXCEPT !.at = "signed", !.account = a, !.alone = ~Touches(a)]
            [] d # c /\ check[d].account = a -> [check[d] EXCEPT !.alone = FALSE]
            [] OTHER -> check[d]]
    /\ settled' = [settled EXCEPT ![a] = "unset"]
    /\ UNCHANGED <<linked, member, upstream, status, wire, backfill, observed, accepted, decided>>

\* A slip, and the code's own until 9/25: without a token nothing is said.
LeavesQuietly(a, login) == TRUE

\* An account is none of GitHub's, and there is nothing to say, when neither
\* a token nor a login is found.
Leaves(a, login) == ~login

\* github_login and github_token: what is stored, or nothing where the
\* database fails them; the stored token may be missing.
Look(c) ==
    LET a == check[c].account IN
    /\ check[c].at = "signed"
    /\ \E login, token \in {FALSE, (a \in linked)} :
          check' = [check EXCEPT ![c] =
             CASE token -> [@ EXCEPT !.at = "asking"]
               [] ~token /\ Leaves(a, login) ->
                      IF a \in linked /\ ~login THEN NoCheck ELSE Ended(c, FALSE)
               [] OTHER -> Failing(c)]
    /\ UNCHANGED <<linked, member, upstream, status, wire, backfill, history>>

\* check_membership: GitHub's answer, or none: unreachable, refused, any other
\* status, or a token without the scope that shows private memberships.
Ask(c) ==
    LET a == check[c].account IN
    /\ check[c].at = "asking"
    /\ \/ /\ check' = [check EXCEPT ![c].at = "observed", ![c].answer = Membership(a)]
          /\ observed' = [observed EXCEPT ![a] = @ \cup {Membership(a)}]
       \/ /\ check' = [check EXCEPT ![c] = Failing(c)]
          /\ UNCHANGED observed
    /\ UNCHANGED <<linked, member, upstream, status, wire, backfill, accepted, decided, settled>>

\* record_membership's write.
Record(c) ==
    /\ check[c].at = "observed"
    /\ Posts(c, check[c].account, "eic", check[c].answer)
    /\ check' = [check EXCEPT ![c].at = "recording"]
    /\ UNCHANGED <<linked, member, upstream, status, backfill, history>>

\* What _save_status leaves after an accepted write.
Saved(answer) == [eic |-> answer, failed |-> FALSE]

\* The menu's copy follows the accepted write; where the database fails, the
\* exception makes a reported failure of it.
Save(c) ==
    LET a == check[c].account IN
    /\ check[c].at = "recorded"
    /\ \/ /\ status' = [status EXCEPT ![a] = Saved(check[c].answer)]
          /\ check' = [check EXCEPT ![c] = Ended(c, TRUE)]
          /\ settled' = [settled EXCEPT ![a] = IF check[c].alone THEN check[c].answer ELSE @]
       \/ /\ check' = [check EXCEPT ![c] = [Failing(c) EXCEPT !.again = TRUE, !.broken = TRUE]]
          /\ UNCHANGED <<status, settled>>
    /\ UNCHANGED <<linked, member, upstream, wire, backfill, observed, accepted, decided>>

\* A slip: a check without an answer is written down as a negative.
ReportsNegative(c) == Posts(c, check[c].account, "eic", "no")

\* What report_failure sends: that there was no answer, and no eic.
Reports(c) == Posts(c, check[c].account, "failed", "check_failed")

\* report_failure: the local copy first, the monitor after it.  An exception
\* makes refresh_on_login report once, and not again.
Report(c) ==
    LET a == check[c].account IN
    /\ check[c].at = "failing"
    /\ \/ /\ status' = [status EXCEPT ![a].failed = TRUE]
          /\ Reports(c)
          /\ check' = [check EXCEPT ![c].at = "reporting"]
       \/ /\ check' = [check EXCEPT ![c] =
                IF check[c].again THEN Ended(c, FALSE)
                ELSE [@ EXCEPT !.again = TRUE, !.broken = TRUE]]
          /\ UNCHANGED <<status, wire>>
    /\ UNCHANGED <<linked, member, upstream, backfill, history>>

\* The worker of a sign-in dies; a write of it may be under way.
Die(c) ==
    /\ check[c].at # "over"
    /\ wire' \in Unawaited(c)
    /\ check' = [check EXCEPT ![c] = NoCheck]
    /\ UNCHANGED <<linked, member, upstream, status, backfill, history>>
-------------------------------------------------------------------------------
\* org_members and the plan: one listing, for every account.
Plan(eicOnly) ==
    /\ backfill.at = "over"
    /\ backfill' = [at |-> "next", eicOnly |-> eicOnly, links |-> linked, seen |-> member \cap linked,
                    todo |-> IF eicOnly THEN linked ELSE Accounts, account |-> Nobody]
    /\ observed' = [a \in Accounts |-> IF a \in linked THEN observed[a] \cup {Membership(a)}
                                      ELSE observed[a]]
    /\ decided' = IF eicOnly THEN decided ELSE [a \in Accounts |-> "any"]
    /\ settled' = [a \in Accounts |-> "unset"]
    /\ check' = [c \in Checks |-> [check[c] EXCEPT !.alone = FALSE]]
    /\ UNCHANGED <<linked, member, upstream, status, wire, accepted>>

Listed(a) == IF a \in backfill.seen THEN "yes" ELSE "no"

\* An account's eic goes first.
Turn(a) ==
    /\ backfill.at = "next" /\ a \in backfill.todo
    /\ \/ /\ a \in backfill.links
          /\ Posts(Backfill, a, "eic", Listed(a))
          /\ backfill' = [backfill EXCEPT !.at = "recording", !.todo = @ \ {a}, !.account = a]
       \/ /\ a \notin backfill.links
          /\ UNCHANGED wire
          /\ backfill' = [backfill EXCEPT !.at = "grant", !.todo = @ \ {a}, !.account = a]
    /\ UNCHANGED <<linked, member, upstream, status, check, history>>

\* The menu's copy, or the database fails and the command with it.
SaveListed ==
    LET a == backfill.account IN
    /\ backfill.at = "recorded"
    /\ \/ /\ status' = [status EXCEPT ![a] = Saved(Listed(a))]
          /\ backfill' = [backfill EXCEPT !.at = "grant"]
       \/ /\ backfill' = NoBackfill
          /\ UNCHANGED status
    /\ UNCHANGED <<linked, member, upstream, wire, check, history>>

\* A slip: --eic-only narrows the accounts and not the writes.
GrantsAlways(a) == a \notin backfill.seen

\* Rights are for those no listing gives access, and never with --eic-only.
Grants(a) == ~backfill.eicOnly /\ a \notin backfill.seen

\* record_rights, where the plan has any.
Grant ==
    LET a == backfill.account IN
    /\ backfill.at = "grant"
    /\ \/ /\ Grants(a)
          /\ Posts(Backfill, a, "rights", "basic")
          /\ backfill' = [backfill EXCEPT !.at = "granting"]
       \/ /\ ~Grants(a)
          /\ backfill' = [backfill EXCEPT !.at = "next"]
          /\ UNCHANGED wire
    /\ UNCHANGED <<linked, member, upstream, status, check, history>>

\* Done, or stopped where it stands.
Stop ==
    /\ backfill.at # "over"
    /\ backfill' = NoBackfill
    /\ wire' \in Unawaited(Backfill)
    /\ UNCHANGED <<linked, member, upstream, status, check, history>>
-------------------------------------------------------------------------------
CheckStep(c) == Look(c) \/ Ask(c) \/ Record(c) \/ Save(c) \/ Report(c)

\* The monitor's answer to a post, or the end of waiting for it.
PostEnds(w) == Accept(w) \/ Refuse(w) \/ GiveUp(w)

Next ==
    \/ \E a \in Accounts : Move(a)
    \/ \E a \in Accounts : Link(a)
    \/ \E a \in Accounts, rights \in Decisions : Decide(a, rights)
    \/ \E w \in wire : PostEnds(w)
    \/ \E c \in Checks, a \in Accounts : SignIn(c, a)
    \/ \E c \in Checks : CheckStep(c)
    \/ \E c \in Checks : Die(c)
    \/ \E eicOnly \in BOOLEAN : Plan(eicOnly)
    \/ \E a \in Accounts : Turn(a)
    \/ SaveListed
    \/ Grant
    \/ Stop

Spec == Init /\ [][Next]_vars
-------------------------------------------------------------------------------
\* "A check that cannot reach an answer writes nothing": whatever the monitor
\* holds as eic, or is still to be told, GitHub or its listing answered for
\* that account, and a report never carries one.
EicIsObserved ==
    /\ \A a \in Accounts : upstream[a].eic # "unset" => upstream[a].eic \in observed[a]
    /\ \A w \in wire : w.field = "eic" => w.value \in observed[w.account]

\* "A grant made by a person is never undone by a later sign-in", nor by the
\* backfill with --eic-only, nor by a late write of either.
GrantsStand ==
    \A a \in Accounts : decided[a] # "any" => upstream[a].rights = decided[a]

\* "Only a write swf-monitor accepted counts; the account menu's copy is
\* updated after it."
MenuSaysTheAccepted ==
    \A a \in Accounts : status[a].eic # "unset" => status[a].eic \in accepted[a]

\* A check that had its account to itself and ended in an accepted write has
\* settled what the monitor and the menu say, until the next one begins: who
\* left the organization is out after such a sign-in.
LoneCheckSettles ==
    \A a \in Accounts : settled[a] # "unset" =>
        /\ upstream[a].eic = settled[a] /\ ~upstream[a].failed
        /\ status[a] = [eic |-> settled[a], failed |-> FALSE]

\* "Every GitHub-linked account ends in one of two outcomes: a membership
\* write swf-monitor accepted, or a reported failure", except where the
\* database failed the check or its worker died.
NeverSilent == \A c \in Checks : ~check[c].silent

\* "A check that cannot reach an answer writes nothing"; eic and rights "are
\* kept apart"; the copy is updated after the accepted write: as one promise,
\* all that sign-ins, backfills and late writes do to the monitor's record and
\* to the menu's copy are steps of AuthorityRecord.
Held == INSTANCE AuthorityRecord WITH
    known <- observed, record <- upstream, taken <- accepted, menu <- status

ImplementsRecord == Held!RecordSpec
===============================================================================
