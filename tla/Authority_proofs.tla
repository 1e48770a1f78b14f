---------------------------- MODULE Authority_proofs ----------------------------
(***************************************************************************)
(* Proofs about Authority for any accounts, sign-ins, rights and number of *)
(* late writes: type correctness and the safety properties its run checks. *)
(***************************************************************************)
EXTENDS Authority, TLAPS

Post   == [by : Writers \cup {Nobody}, account : Accounts,
           field : {"eic", "rights", "failed"}, value : Values]
ACheck == [at : {"over", "signed", "asking", "observed", "recording", "recorded", "failing",
                 "reporting"},
           account : Accounts \cup {Nobody}, answer : {"unset"} \cup Answers,
           again : BOOLEAN, broken : BOOLEAN, alone : BOOLEAN, silent : BOOLEAN]
ABackfill == [at : {"over", "next", "recording", "recorded", "grant", "granting"},
              eicOnly : BOOLEAN, links : SUBSET Accounts, seen : SUBSET Accounts,
              todo : SUBSET Accounts, account : Accounts \cup {Nobody}]

(* A write that somebody waits for is the only one of its writer, who      *)
(* stands where it sent the write from and still has the same to say.      *)
FlowInv ==
    /\ \A w \in wire : w.by \in Checks =>
          /\ w.account = check[w.by].account
          /\ \/ w.field = "eic" /\ check[w.by].at = "recording" /\ w.value = check[w.by].answer
             \/ w.field = "failed" /\ check[w.by].at = "reporting"
    /\ \A w \in wire : w.by = Backfill =>
          /\ w.account = backfill.account
          /\ \/ w.field = "eic" /\ backfill.at = "recording" /\ w.value = Listed(w.account)
             \/ w.field = "rights" /\ backfill.at = "granting"
    /\ \A v, w \in wire : v.by = w.by /\ v.by # Nobody => v = w

(* What is on its way was observed, or is a right; what a check or the     *)
(* backfill is about to send was observed; both have an account then.      *)
ValuesInv ==
    /\ \A w \in wire : w.field = "rights" => w.value \in Rights
    /\ \A c \in Checks : check[c].at # "over" => check[c].account \in Accounts
    /\ \A c \in Checks : check[c].at = "observed" =>
          check[c].answer \in observed[check[c].account]
    /\ backfill.at \notin {"over", "next"} => backfill.account \in Accounts
    /\ backfill.at # "over" => \A a \in backfill.links : Listed(a) \in observed[a]

ObservedInv == TypeOK /\ FlowInv /\ ValuesInv /\ EicIsObserved

-------------------------------------------------------------------------------
\* The shape of the values that steps make.
LEMMA NoCheckType == NoCheck \in ACheck
BY DEF NoCheck, ACheck

LEMMA EndedType ==
    ASSUME NEW c \in Checks, NEW said \in BOOLEAN, check \in [Checks -> ACheck]
    PROVE  Ended(c, said) \in ACheck
BY DEF Ended, NoCheck, ACheck

LEMMA FailingType ==
    ASSUME NEW c \in Checks, check \in [Checks -> ACheck]
    PROVE  Failing(c) \in ACheck
BY DEF Failing, ACheck

LEMMA TypesMeet ==
    TypeOK => /\ wire \subseteq Post
              /\ check \in [Checks -> ACheck]
              /\ backfill \in ABackfill
BY DEF TypeOK, Post, ACheck, ABackfill

LEMMA TypesMake ==
    ASSUME linked \subseteq Accounts, member \subseteq Accounts,
           upstream \in [Accounts -> [eic : {"unset"} \cup Answers, rights : Rights, failed : BOOLEAN]],
           status \in [Accounts -> [eic : {"unset"} \cup Answers, failed : BOOLEAN]],
           wire \subseteq Post, check \in [Checks -> ACheck], backfill \in ABackfill,
           observed \in [Accounts -> SUBSET Answers],
           accepted \in [Accounts -> SUBSET Answers],
           decided \in [Accounts -> Rights \cup {"any"}],
           settled \in [Accounts -> {"unset"} \cup Answers]
    PROVE  TypeOK
BY DEF TypeOK, Post, ACheck, ABackfill

LEMMA TypesMakeNext ==
    ASSUME linked' \subseteq Accounts, member' \subseteq Accounts,
           upstream' \in [Accounts -> [eic : {"unset"} \cup Answers, rights : Rights, failed : BOOLEAN]],
           status' \in [Accounts -> [eic : {"unset"} \cup Answers, failed : BOOLEAN]],
           wire' \subseteq Post, check' \in [Checks -> ACheck], backfill' \in ABackfill,
           observed' \in [Accounts -> SUBSET Answers],
           accepted' \in [Accounts -> SUBSET Answers],
           decided' \in [Accounts -> Rights \cup {"any"}],
           settled' \in [Accounts -> {"unset"} \cup Answers]
    PROVE  TypeOK'
BY DEF TypeOK, Post, ACheck, ABackfill

\* A write that goes on for nobody keeps all but its writer.
LEMMA AbandonedKeeps ==
    ASSUME NEW w \in wire, NEW S \in Abandoned(w), NEW v \in S
    PROVE  v \in wire \ {w} \/ v = [w EXCEPT !.by = Nobody]
BY DEF Abandoned

LEMMA UnawaitedKeeps ==
    ASSUME FlowInv, NEW p \in Writers, NEW S \in Unawaited(p), NEW v \in S
    PROVE  \/ v \in wire /\ v.by # p
           \/ \E w \in wire : w.by = p /\ v = [w EXCEPT !.by = Nobody]
<1>1. CASE \E w \in wire : w.by = p
  <2>1. PICK w \in wire : w.by = p /\ S \in Abandoned(w)
    BY <1>1 DEF Unawaited
  <2>2. \A u \in wire \ {w} : u.by # p
    BY <2>1, WritersDiffer DEF FlowInv, Writers
  <2> QED BY <2>1, <2>2, AbandonedKeeps
<1>2. CASE ~ \E w \in wire : w.by = p
  BY <1>2 DEF Unawaited
<1> QED BY <1>1, <1>2

LEMMA NobodysType ==
    ASSUME TypeOK, NEW w \in wire
    PROVE  /\ [w EXCEPT !.by = Nobody] \in Post
           /\ [w EXCEPT !.by = Nobody].by = Nobody
           /\ [w EXCEPT !.by = Nobody].account = w.account
           /\ [w EXCEPT !.by = Nobody].field = w.field
           /\ [w EXCEPT !.by = Nobody].value = w.value
<1>1. w \in Post
  BY TypesMeet
<1> QED BY <1>1 DEF Post

\* What a writer's check and the backfill become when a post ends.
LEMMA ToldType ==
    ASSUME TypeOK, NEW w \in wire, NEW answered \in BOOLEAN, w.by \in Checks
    PROVE  Told(w, answered) \in ACheck
<1>1. check \in [Checks -> ACheck]
  BY TypesMeet
<1>2. Ended(w.by, TRUE) \in ACheck /\ Failing(w.by) \in ACheck
  BY <1>1, EndedType, FailingType
<1>3. [check[w.by] EXCEPT !.at = "recorded"] \in ACheck
  BY <1>1 DEF ACheck
<1> QED BY <1>2, <1>3 DEF Told

LEMMA ResumesType ==
    ASSUME TypeOK, NEW w \in wire, NEW answered \in BOOLEAN, Resumes(w, answered)
    PROVE  check' \in [Checks -> ACheck] /\ backfill' \in ABackfill
<1>1. check \in [Checks -> ACheck] /\ backfill \in ABackfill
  BY TypesMeet
<1>2. check' \in [Checks -> ACheck]
  BY <1>1, ToldType DEF Resumes
<1>3. backfill' \in ABackfill
  BY <1>1 DEF Resumes, ABackfill
<1> QED BY <1>2, <1>3

-------------------------------------------------------------------------------
\* What every step keeps of ObservedInv.
LEMMA ObservedMove ==
    ASSUME ObservedInv, NEW a \in Accounts, Move(a)
    PROVE  ObservedInv'
<1> USE WritersDiffer DEF ObservedInv, Move
<1>1. TypeOK'
  <2>1. member' \subseteq Accounts
    BY DEF TypeOK
  <2>2. QED BY <2>1, TypesMeet, TypesMakeNext DEF TypeOK, history
<1>2. FlowInv'
  BY DEF FlowInv, Listed, history, Writers
<1>3. ValuesInv'
  BY DEF TypeOK, ValuesInv, Listed, history, Writers
<1>4. EicIsObserved'
  BY DEF TypeOK, EicIsObserved, history, Writers
<1> QED BY <1>1, <1>2, <1>3, <1>4

LEMMA ObservedLink ==
    ASSUME ObservedInv, NEW a \in Accounts, Link(a)
    PROVE  ObservedInv'
<1> USE WritersDiffer DEF ObservedInv, Link
<1>1. TypeOK'
  <2>1. linked' \subseteq Accounts
    BY DEF TypeOK
  <2>2. QED BY <2>1, TypesMeet, TypesMakeNext DEF TypeOK, history
<1>2. FlowInv'
  BY DEF FlowInv, Listed, history, Writers
<1>3. ValuesInv'
  BY DEF TypeOK, ValuesInv, Listed, history, Writers
<1>4. EicIsObserved'
  BY DEF TypeOK, EicIsObserved, history, Writers
<1> QED BY <1>1, <1>2, <1>3, <1>4

LEMMA ObservedDecide ==
    ASSUME ObservedInv, NEW a \in Accounts, NEW rights \in Decisions, Decide(a, rights)
    PROVE  ObservedInv'
<1> USE WritersDiffer DEF ObservedInv, Decide
<1>1. TypeOK'
  <2>1. upstream' \in [Accounts -> [eic : {"unset"} \cup Answers, rights : Rights, failed : BOOLEAN]]
    <3>1. rights \in Rights
      BY DecisionsAreRights DEF Rights
    <3>2. [upstream[a] EXCEPT !.rights = rights] \in [eic : {"unset"} \cup Answers, rights : Rights, failed : BOOLEAN]
      BY <3>1 DEF TypeOK
    <3> QED BY <3>2 DEF TypeOK
  <2>2. decided' \in [Accounts -> Rights \cup {"any"}]
    BY DecisionsAreRights DEF TypeOK, Rights
  <2>3. QED BY <2>1, <2>2, TypesMeet, TypesMakeNext DEF TypeOK, history
<1>2. FlowInv'
  BY DEF FlowInv, Listed, Writers
<1>3. ValuesInv'
  BY DEF TypeOK, ValuesInv, Listed, Writers
<1>4. EicIsObserved'
  BY DEF TypeOK, EicIsObserved, Writers
<1> QED BY <1>1, <1>2, <1>3, <1>4

LEMMA ObservedAccept ==
    ASSUME ObservedInv, NEW w \in wire, Accept(w)
    PROVE  ObservedInv'
<1> USE WritersDiffer DEF ObservedInv, Accept
<1>1. TypeOK'
  <2>1. upstream' \in [Accounts -> [eic : {"unset"} \cup Answers, rights : Rights, failed : BOOLEAN]]
    <3>1. w.account \in Accounts /\ upstream[w.account] \in [eic : {"unset"} \cup Answers, rights : Rights, failed : BOOLEAN]
      BY TypesMeet DEF TypeOK, Post
    <3>2. w.field = "eic" => w.value \in Answers
      BY <3>1 DEF TypeOK, EicIsObserved
    <3>3. w.field = "rights" => w.value \in Rights
      BY DEF ValuesInv
    <3>4. CASE w.field = "eic"
      BY <3>1, <3>2, <3>4 DEF TypeOK
    <3>5. CASE w.field = "rights"
      BY <3>1, <3>3, <3>5 DEF TypeOK
    <3>6. CASE w.field \notin {"eic", "rights"}
      BY <3>1, <3>6 DEF TypeOK
    <3> QED BY <3>4, <3>5, <3>6
  <2>2. wire' \subseteq Post
    BY TypesMeet
  <2>3. check' \in [Checks -> ACheck]
    BY ResumesType
  <2>4. backfill' \in ABackfill
    BY ResumesType
  <2>5. accepted' \in [Accounts -> SUBSET Answers]
    BY TypesMeet DEF TypeOK, Post, EicIsObserved
  <2>6. QED BY <2>1, <2>2, <2>3, <2>4, <2>5, TypesMeet, TypesMakeNext DEF TypeOK, history
<1>2. FlowInv'
  BY DEF FlowInv, Listed, Told, Resumes, Ended, Failing, NoCheck, Writers
<1>3. ValuesInv'
  BY DEF TypeOK, FlowInv, ValuesInv, EicIsObserved, Listed, Posts, Told, Resumes, Ended,
     Failing, NoCheck, Rights, Writers
<1>4. EicIsObserved'
  BY DEF TypeOK, EicIsObserved, Told, Resumes, Ended, Failing, NoCheck, Writers
<1> QED BY <1>1, <1>2, <1>3, <1>4

LEMMA ObservedRefuse ==
    ASSUME ObservedInv, NEW w \in wire, Refuse(w)
    PROVE  ObservedInv'
<1> USE WritersDiffer DEF ObservedInv, Refuse
<1>1. TypeOK'
  <2>1. wire' \subseteq Post
    BY TypesMeet
  <2>2. check' \in [Checks -> ACheck]
    BY ResumesType
  <2>3. backfill' \in ABackfill
    BY ResumesType
  <2>4. QED BY <2>1, <2>2, <2>3, TypesMeet, TypesMakeNext DEF TypeOK, history
<1>2. FlowInv'
  BY DEF FlowInv, Listed, history, Told, Resumes, Ended, Failing, NoCheck, Writers
<1>3. ValuesInv'
  BY DEF TypeOK, FlowInv, ValuesInv, EicIsObserved, Listed, history, Posts, Told, Resumes,
     Ended, Failing, NoCheck, Rights, Writers
<1>4. EicIsObserved'
  BY DEF TypeOK, EicIsObserved, history, Told, Resumes, Ended, Failing, NoCheck, Writers
<1> QED BY <1>1, <1>2, <1>3, <1>4

LEMMA ObservedGiveUp ==
    ASSUME ObservedInv, NEW w \in wire, GiveUp(w)
    PROVE  ObservedInv'
<1> USE WritersDiffer DEF ObservedInv, GiveUp
<1>1. TypeOK'
  <2>1. wire' \subseteq Post
    BY TypesMeet, AbandonedKeeps, NobodysType
  <2>2. check' \in [Checks -> ACheck]
    BY ResumesType
  <2>3. backfill' \in ABackfill
    BY ResumesType
  <2>4. QED BY <2>1, <2>2, <2>3, TypesMeet, TypesMakeNext DEF TypeOK, history
<1>2. FlowInv'
  BY AbandonedKeeps, NobodysType DEF TypeOK, FlowInv, ValuesInv, EicIsObserved, Listed,
     history, Posts, Told, Resumes, Ended, Failing, NoCheck, Rights, Writers
<1>3. ValuesInv'
  <2>0. \A v \in wire' : \E u \in wire : v.field = u.field /\ v.account = u.account /\ v.value = u.value
    BY AbandonedKeeps, NobodysType
  <2>1. \A v \in wire' : v.field = "rights" => v.value \in Rights
    BY <2>0 DEF ValuesInv
  <2>2. \A d \in Checks : check'[d].at # "over" => check'[d].account \in Accounts
    BY TypesMeet DEF TypeOK, FlowInv, ValuesInv, EicIsObserved, Listed, history, Posts, Told,
       Resumes, Ended, Failing, NoCheck, Rights, Writers, ACheck, ABackfill
  <2>3. \A d \in Checks : check'[d].at = "observed" => check'[d].answer \in observed'[check'[d].account]
    BY TypesMeet DEF TypeOK, FlowInv, ValuesInv, EicIsObserved, Listed, history, Posts, Told,
       Resumes, Ended, Failing, NoCheck, Rights, Writers, ACheck, ABackfill
  <2>4. backfill'.at \notin {"over", "next"} => backfill'.account \in Accounts
    BY TypesMeet DEF TypeOK, FlowInv, ValuesInv, EicIsObserved, Listed, history, Posts, Told,
       Resumes, Ended, Failing, NoCheck, Rights, Writers, ACheck, ABackfill
  <2>5. backfill'.at # "over" => \A b \in backfill'.links : Listed(b)' \in observed'[b]
    BY TypesMeet DEF TypeOK, FlowInv, ValuesInv, EicIsObserved, Listed, history, Posts, Told,
       Resumes, Ended, Failing, NoCheck, Rights, Writers, ACheck, ABackfill
  <2> QED BY <2>1, <2>2, <2>3, <2>4, <2>5 DEF ValuesInv
<1>4. EicIsObserved'
  <2>0. \A v \in wire' : \E u \in wire : v.field = u.field /\ v.account = u.account /\ v.value = u.value
    BY AbandonedKeeps, NobodysType
  <2>1. \A b \in Accounts : upstream'[b].eic # "unset" => upstream'[b].eic \in observed'[b]
    BY <2>0 DEF EicIsObserved, history
  <2>2. \A v \in wire' : v.field = "eic" => v.value \in observed'[v.account]
    BY <2>0 DEF EicIsObserved, history
  <2> QED BY <2>1, <2>2 DEF EicIsObserved
<1> QED BY <1>1, <1>2, <1>3, <1>4

LEMMA ObservedSignIn ==
    ASSUME ObservedInv, NEW c \in Checks, NEW a \in Accounts, SignIn(c, a)
    PROVE  ObservedInv'
<1> USE WritersDiffer DEF ObservedInv, SignIn
<1>1. TypeOK'
  <2>1. check' \in [Checks -> ACheck]
    <3>1. [NoCheck EXCEPT !.at = "signed", !.account = a, !.alone = ~Touches(a)] \in ACheck
      BY DEF ACheck, NoCheck, Touches
    <3>2. check \in [Checks -> ACheck]
      BY TypesMeet
    <3>3. \A d \in Checks : check[d] \in ACheck /\ [check[d] EXCEPT !.alone = FALSE] \in ACheck
      BY ONLY <3>2 DEF ACheck
    <3> QED BY <3>1, <3>3
  <2>2. settled' \in [Accounts -> {"unset"} \cup Answers]
    BY DEF TypeOK
  <2>3. QED BY <2>1, <2>2, TypesMeet, TypesMakeNext DEF TypeOK, history
<1>2. FlowInv'
  BY DEF FlowInv, Listed, NoCheck, Writers
<1>3. ValuesInv'
  BY DEF TypeOK, ValuesInv, Listed, NoCheck, Writers
<1>4. EicIsObserved'
  BY DEF TypeOK, EicIsObserved, NoCheck, Writers
<1> QED BY <1>1, <1>2, <1>3, <1>4

LEMMA ObservedLook ==
    ASSUME ObservedInv, NEW c \in Checks, Look(c)
    PROVE  ObservedInv'
<1> USE WritersDiffer DEF ObservedInv, Look
<1>1. TypeOK'
  <2>0. check[c] \in ACheck /\ check[c].account \in Accounts
    BY TypesMeet DEF ValuesInv
  <2>1. check' \in [Checks -> ACheck]
    <3>1. Failing(c) \in ACheck /\ Ended(c, FALSE) \in ACheck /\ NoCheck \in ACheck
      BY TypesMeet, EndedType, FailingType, NoCheckType
    <3>2. [check[c] EXCEPT !.at = "asking"] \in ACheck
      BY <2>0 DEF ACheck
    <3> QED BY <3>1, <3>2, TypesMeet
  <2>2. QED BY <2>1, TypesMeet, TypesMakeNext DEF TypeOK, history
<1>2. FlowInv'
  BY DEF FlowInv, Listed, history, Ended, Failing, NoCheck, Leaves, Writers
<1>3. ValuesInv'
  BY DEF TypeOK, FlowInv, ValuesInv, EicIsObserved, Listed, history, Ended, Failing, NoCheck,
     Leaves, Rights, Writers
<1>4. EicIsObserved'
  BY DEF TypeOK, EicIsObserved, history, Ended, Failing, NoCheck, Leaves, Writers
<1> QED BY <1>1, <1>2, <1>3, <1>4

LEMMA ObservedAsk ==
    ASSUME ObservedInv, NEW c \in Checks, Ask(c)
    PROVE  ObservedInv'
<1> USE WritersDiffer DEF ObservedInv, Ask
<1>1. TypeOK'
  <2>0. check[c] \in ACheck /\ check[c].account \in Accounts
    BY TypesMeet DEF ValuesInv
  <2>1. check' \in [Checks -> ACheck]
    <3>1. Failing(c) \in ACheck
      BY TypesMeet, FailingType
    <3>2. [check[c] EXCEPT !.at = "observed", !.answer = Membership(check[c].account)] \in ACheck
      BY <2>0 DEF ACheck, Membership, Answers
    <3> QED BY <3>1, <3>2, TypesMeet
  <2>2. observed' \in [Accounts -> SUBSET Answers]
    <3>1. observed \in [Accounts -> SUBSET Answers]
      BY DEF TypeOK
    <3>2. observed[check[c].account] \cup {Membership(check[c].account)} \in SUBSET Answers
      BY <2>0, <3>1 DEF Membership, Answers
    <3>3. \/ observed' = observed
          \/ observed' = [observed EXCEPT ![check[c].account] =
                              observed[check[c].account] \cup {Membership(check[c].account)}]
      OBVIOUS
    <3> QED BY ONLY <2>0, <3>1, <3>2, <3>3
  <2>3. QED BY <2>1, <2>2, TypesMeet, TypesMakeNext DEF TypeOK, history
<1>2. FlowInv'
  <2>0. wire' = wire /\ (\A v \in wire : v.by # c) /\ \A d \in Checks \ {c} : check'[d] = check[d]
    BY TypesMeet DEF FlowInv
  <2>1. \A v \in wire' : v.by \in Checks =>
           /\ v.account = check'[v.by].account
           /\ \/ v.field = "eic" /\ check'[v.by].at = "recording" /\ v.value = check'[v.by].answer
              \/ v.field = "failed" /\ check'[v.by].at = "reporting"
    BY <2>0 DEF FlowInv
  <2>2. \A v \in wire' : v.by = Backfill =>
           /\ v.account = backfill'.account
           /\ \/ v.field = "eic" /\ backfill'.at = "recording" /\ v.value = Listed(v.account)'
              \/ v.field = "rights" /\ backfill'.at = "granting"
    BY TypesMeet DEF FlowInv, Listed
  <2>3. \A v, u \in wire' : v.by = u.by /\ v.by # Nobody => v = u
    BY TypesMeet DEF FlowInv, Listed
  <2> QED BY <2>1, <2>2, <2>3 DEF FlowInv
<1>3. ValuesInv'
  <2>0. /\ check'[c].at \in {"observed", "failing"}
        /\ check'[c].at # "over" => check'[c].account = check[c].account
        /\ \A d \in Checks \ {c} : check'[d] = check[d]
    <3>1. check \in [Checks -> ACheck] /\ check[c] \in ACheck
      BY TypesMeet
    <3>2. CASE check' = [check EXCEPT ![c] = Failing(c)]
      BY <3>1, <3>2 DEF ACheck, Failing, Ended, NoCheck
    <3>3. CASE check' = [check EXCEPT ![c] = [check[c] EXCEPT !.at = "observed", !.answer = Membership(check[c].account)]]
      BY <3>1, <3>3 DEF ACheck, Failing, Ended, NoCheck
    <3> QED BY <3>2, <3>3
  <2>00. check[c].account \in Accounts
    BY DEF ValuesInv
  <2>000. \A b \in Accounts : observed[b] \subseteq observed'[b]
    BY DEF TypeOK
  <2>0000. check'[c].at = "observed" => check'[c].answer \in observed'[check[c].account]
    <3>1. check \in [Checks -> ACheck] /\ check[c] \in ACheck
      BY TypesMeet
    <3>2. CASE check' = [check EXCEPT ![c] = Failing(c)]
      BY <3>1, <3>2 DEF Failing, ACheck
    <3>3. CASE /\ check' = [check EXCEPT ![c].at = "observed", ![c].answer = Membership(check[c].account)]
               /\ observed' = [observed EXCEPT ![check[c].account] = @ \cup {Membership(check[c].account)}]
      BY <2>00, <3>1, <3>3 DEF ACheck, TypeOK
    <3> QED BY <3>2, <3>3
  <2>1. \A v \in wire' : v.field = "rights" => v.value \in Rights
    BY TypesMeet DEF TypeOK, ValuesInv, Listed, Membership, Failing, Writers, ACheck, Post,
       ABackfill
  <2>2. \A d \in Checks : check'[d].at # "over" => check'[d].account \in Accounts
    BY <2>0, <2>00 DEF ValuesInv
  <2>3. \A d \in Checks : check'[d].at = "observed" => check'[d].answer \in observed'[check'[d].account]
    BY <2>0, <2>00, <2>000, <2>0000 DEF ValuesInv
  <2>4. backfill'.at \notin {"over", "next"} => backfill'.account \in Accounts
    BY TypesMeet DEF TypeOK, ValuesInv, Listed, Membership, Failing, Writers, ACheck, Post,
       ABackfill
  <2>5. backfill'.at # "over" => \A b \in backfill'.links : Listed(b)' \in observed'[b]
    BY <2>000 DEF ValuesInv, Listed, TypeOK, ABackfill
  <2> QED BY <2>1, <2>2, <2>3, <2>4, <2>5 DEF ValuesInv
<1>4. EicIsObserved'
  <2>0. \A b \in Accounts : observed[b] \subseteq observed'[b]
    BY DEF TypeOK
  <2>1. \A b \in Accounts : upstream'[b].eic # "unset" => upstream'[b].eic \in observed'[b]
    BY <2>0 DEF EicIsObserved
  <2>2. \A v \in wire' : v.field = "eic" => v.value \in observed'[v.account]
    BY <2>0, TypesMeet DEF EicIsObserved, Post
  <2> QED BY <2>1, <2>2 DEF EicIsObserved
<1> QED BY <1>1, <1>2, <1>3, <1>4

LEMMA ObservedRecord ==
    ASSUME ObservedInv, NEW c \in Checks, Record(c)
    PROVE  ObservedInv'
<1> USE WritersDiffer DEF ObservedInv, Record
<1>1. TypeOK'
  <2>0. check[c] \in ACheck /\ check[c].account \in Accounts
    BY TypesMeet DEF ValuesInv
  <2>1. wire' \subseteq Post
    <3>1. check[c].answer \in Answers
      BY <2>0 DEF ValuesInv, TypeOK
    <3> QED BY <2>0, <3>1, TypesMeet DEF Posts, Post, Writers, Values
  <2>2. check' \in [Checks -> ACheck]
    BY <2>0, TypesMeet, EndedType, FailingType, NoCheckType DEF ACheck, ValuesInv, Answers,
       Membership, Leaves
  <2>3. QED BY <2>1, <2>2, TypesMeet, TypesMakeNext DEF TypeOK, history
<1>2. FlowInv'
  BY DEF TypeOK, FlowInv, ValuesInv, EicIsObserved, Listed, history, Posts, Rights, Writers
<1>3. ValuesInv'
  BY DEF TypeOK, ValuesInv, Listed, history, Posts, Writers
<1>4. EicIsObserved'
  BY DEF TypeOK, FlowInv, ValuesInv, EicIsObserved, Listed, history, Posts, Rights, Writers
<1> QED BY <1>1, <1>2, <1>3, <1>4

LEMMA ObservedSave ==
    ASSUME ObservedInv, NEW c \in Checks, Save(c)
    PROVE  ObservedInv'
<1> USE WritersDiffer DEF ObservedInv, Save
<1>1. TypeOK'
  <2>0. check[c] \in ACheck /\ check[c].account \in Accounts
    BY TypesMeet DEF ValuesInv
  <2>1. status' \in [Accounts -> [eic : {"unset"} \cup Answers, failed : BOOLEAN]]
    <3>1. Saved(check[c].answer) \in [eic : {"unset"} \cup Answers, failed : BOOLEAN]
      BY <2>0 DEF Saved, ACheck
    <3>2. status \in [Accounts -> [eic : {"unset"} \cup Answers, failed : BOOLEAN]]
      BY DEF TypeOK
    <3>3. status' = status \/ status' = [status EXCEPT ![check[c].account] = Saved(check[c].answer)]
      OBVIOUS
    <3> QED BY ONLY <2>0, <3>1, <3>2, <3>3
  <2>2. check' \in [Checks -> ACheck]
    <3>1. Failing(c) \in ACheck /\ Ended(c, TRUE) \in ACheck
      BY TypesMeet, EndedType, FailingType
    <3>2. [Failing(c) EXCEPT !.again = TRUE, !.broken = TRUE] \in ACheck
      BY <3>1 DEF ACheck
    <3> QED BY <3>1, <3>2, TypesMeet
  <2>3. settled' \in [Accounts -> {"unset"} \cup Answers]
    <3>1. check[c].answer \in {"unset"} \cup Answers
      BY <2>0 DEF ACheck
    <3>2. settled \in [Accounts -> {"unset"} \cup Answers]
      BY DEF TypeOK
    <3>3. \/ settled' = settled
          \/ settled' = [settled EXCEPT ![check[c].account] = check[c].answer]
      BY <2>0, <3>2
    <3> QED BY ONLY <2>0, <3>1, <3>2, <3>3
  <2>4. QED BY <2>1, <2>2, <2>3, TypesMeet, TypesMakeNext DEF TypeOK, history
<1>2. FlowInv'
  BY DEF TypeOK, FlowInv, ValuesInv, EicIsObserved, Listed, Ended, Failing, NoCheck, Saved,
     Rights, Writers
<1>3. ValuesInv'
  <2>0. /\ check'[c].at \in {"failing", "over"}
        /\ check'[c].at # "over" => check'[c].account = check[c].account
        /\ \A d \in Checks \ {c} : check'[d] = check[d]
    <3>1. check \in [Checks -> ACheck] /\ check[c] \in ACheck
      BY TypesMeet
    <3>2. CASE check' = [check EXCEPT ![c] = Ended(c, TRUE)]
      BY <3>1, <3>2 DEF ACheck, Failing, Ended, NoCheck
    <3>3. CASE check' = [check EXCEPT ![c] = [Failing(c) EXCEPT !.again = TRUE, !.broken = TRUE]]
      BY <3>1, <3>3 DEF ACheck, Failing, Ended, NoCheck
    <3> QED BY <3>2, <3>3
  <2>00. check[c].account \in Accounts
    BY DEF ValuesInv
  <2>1. \A v \in wire' : v.field = "rights" => v.value \in Rights
    BY TypesMeet DEF TypeOK, ValuesInv, Listed, Ended, Failing, NoCheck, Saved, Writers,
       ACheck, Post, ABackfill
  <2>2. \A d \in Checks : check'[d].at # "over" => check'[d].account \in Accounts
    BY <2>0, <2>00 DEF ValuesInv
  <2>3. \A d \in Checks : check'[d].at = "observed" => check'[d].answer \in observed'[check'[d].account]
    BY <2>0 DEF ValuesInv, history
  <2>4. backfill'.at \notin {"over", "next"} => backfill'.account \in Accounts
    BY TypesMeet DEF TypeOK, ValuesInv, Listed, Ended, Failing, NoCheck, Saved, Writers,
       ACheck, Post, ABackfill
  <2>5. backfill'.at # "over" => \A b \in backfill'.links : Listed(b)' \in observed'[b]
    BY TypesMeet DEF TypeOK, ValuesInv, Listed, Ended, Failing, NoCheck, Saved, Writers,
       ACheck, Post, ABackfill
  <2> QED BY <2>1, <2>2, <2>3, <2>4, <2>5 DEF ValuesInv
<1>4. EicIsObserved'
  BY DEF TypeOK, EicIsObserved, Ended, Failing, NoCheck, Saved, Writers
<1> QED BY <1>1, <1>2, <1>3, <1>4

LEMMA ObservedReport ==
    ASSUME ObservedInv, NEW c \in Checks, Report(c)
    PROVE  ObservedInv'
<1> USE WritersDiffer DEF ObservedInv, Report
<1>1. TypeOK'
  <2>0. check[c] \in ACheck /\ check[c].account \in Accounts
    BY TypesMeet DEF ValuesInv
  <2>1. status' \in [Accounts -> [eic : {"unset"} \cup Answers, failed : BOOLEAN]]
    <3>1. status[check[c].account] \in [eic : {"unset"} \cup Answers, failed : BOOLEAN]
      BY <2>0 DEF TypeOK
    <3>2. [status[check[c].account] EXCEPT !.failed = TRUE] \in [eic : {"unset"} \cup Answers, failed : BOOLEAN]
      BY <3>1
    <3>3. status \in [Accounts -> [eic : {"unset"} \cup Answers, failed : BOOLEAN]]
      BY DEF TypeOK
    <3>4. \/ status' = status
          \/ status' = [status EXCEPT ![check[c].account] = [status[check[c].account] EXCEPT !.failed = TRUE]]
      BY <2>0, <3>3
    <3> QED BY ONLY <2>0, <3>2, <3>3, <3>4
  <2>2. wire' \subseteq Post
    <3>1. [by |-> c, account |-> check[c].account, field |-> "failed", value |-> "check_failed"] \in Post
      BY <2>0 DEF Post, Writers, Values
    <3> QED BY <3>1, TypesMeet DEF Posts, Reports
  <2>3. check' \in [Checks -> ACheck]
    <3>1. Ended(c, FALSE) \in ACheck
      BY TypesMeet, EndedType
    <3>2. /\ [check[c] EXCEPT !.at = "reporting"] \in ACheck
          /\ [check[c] EXCEPT !.again = TRUE, !.broken = TRUE] \in ACheck
      BY <2>0 DEF ACheck
    <3> QED BY <3>1, <3>2, TypesMeet
  <2>4. QED BY <2>1, <2>2, <2>3, TypesMeet, TypesMakeNext DEF TypeOK, history
<1>2. FlowInv'
  <2>0. (\A v \in wire : v.by # c) /\ \A d \in Checks \ {c} : check'[d] = check[d]
    BY TypesMeet DEF FlowInv
  <2>00. \A v \in wire' : \/ v \in wire
                          \/ v = [by |-> c, account |-> check[c].account, field |-> "failed", value |-> "check_failed"]
    BY DEF Posts, Reports
  <2>1. \A v \in wire' : v.by \in Checks =>
           /\ v.account = check'[v.by].account
           /\ \/ v.field = "eic" /\ check'[v.by].at = "recording" /\ v.value = check'[v.by].answer
              \/ v.field = "failed" /\ check'[v.by].at = "reporting"
    <3>1. CASE /\ Posts(c, check[c].account, "failed", "check_failed")
               /\ check' = [check EXCEPT ![c].at = "reporting"]
      <4>1. check'[c].at = "reporting" /\ check'[c].account = check[c].account
        BY <3>1, TypesMeet DEF ACheck
      <4> QED BY <2>0, <3>1, <4>1 DEF Posts, FlowInv
    <3>2. CASE UNCHANGED wire
      BY <2>0, <3>2 DEF FlowInv
    <3> QED BY <3>1, <3>2 DEF Reports
  <2>2. \A v \in wire' : v.by = Backfill =>
           /\ v.account = backfill'.account
           /\ \/ v.field = "eic" /\ backfill'.at = "recording" /\ v.value = Listed(v.account)'
              \/ v.field = "rights" /\ backfill'.at = "granting"
    BY <2>0, <2>00, WritersDiffer DEF FlowInv, Listed
  <2>3. \A v, u \in wire' : v.by = u.by /\ v.by # Nobody => v = u
    BY <2>0, <2>00, WritersDiffer DEF FlowInv, Listed
  <2> QED BY <2>1, <2>2, <2>3 DEF FlowInv
<1>3. ValuesInv'
  <2>0. /\ check'[c].at \in {"reporting", "failing", "over"}
        /\ check'[c].at # "over" => check'[c].account = check[c].account
        /\ \A d \in Checks \ {c} : check'[d] = check[d]
    <3>1. check \in [Checks -> ACheck] /\ check[c] \in ACheck
      BY TypesMeet
    <3>2. CASE check' = [check EXCEPT ![c] = [check[c] EXCEPT !.at = "reporting"]]
      BY <3>1, <3>2 DEF ACheck, Failing, Ended, NoCheck
    <3>3. CASE check' = [check EXCEPT ![c] = Ended(c, FALSE)]
      BY <3>1, <3>3 DEF ACheck, Failing, Ended, NoCheck
    <3>4. CASE check' = [check EXCEPT ![c] = [check[c] EXCEPT !.again = TRUE, !.broken = TRUE]]
      BY <3>1, <3>4 DEF ACheck, Failing, Ended, NoCheck
    <3> QED BY <3>2, <3>3, <3>4
  <2>00. check[c].account \in Accounts
    BY DEF ValuesInv
  <2>1. \A v \in wire' : v.field = "rights" => v.value \in Rights
    BY TypesMeet DEF TypeOK, ValuesInv, Listed, history, Posts, Ended, NoCheck, Reports,
       Writers, ACheck, Post, ABackfill
  <2>2. \A d \in Checks : check'[d].at # "over" => check'[d].account \in Accounts
    BY <2>0, <2>00 DEF ValuesInv
  <2>3. \A d \in Checks : check'[d].at = "observed" => check'[d].answer \in observed'[check'[d].account]
    BY <2>0 DEF ValuesInv, history
  <2>4. backfill'.at \notin {"over", "next"} => backfill'.account \in Accounts
    BY TypesMeet DEF TypeOK, ValuesInv, Listed, history, Posts, Ended, NoCheck, Reports,
       Writers, ACheck, Post, ABackfill
  <2>5. backfill'.at # "over" => \A b \in backfill'.links : Listed(b)' \in observed'[b]
    BY TypesMeet DEF TypeOK, ValuesInv, Listed, history, Posts, Ended, NoCheck, Reports,
       Writers, ACheck, Post, ABackfill
  <2> QED BY <2>1, <2>2, <2>3, <2>4, <2>5 DEF ValuesInv
<1>4. EicIsObserved'
  BY DEF TypeOK, EicIsObserved, history, Posts, Ended, NoCheck, Reports, Writers
<1> QED BY <1>1, <1>2, <1>3, <1>4

LEMMA ObservedDie ==
    ASSUME ObservedInv, NEW c \in Checks, Die(c)
    PROVE  ObservedInv'
<1> USE WritersDiffer DEF ObservedInv, Die
<1>1. TypeOK'
  <2>0. check[c] \in ACheck /\ check[c].account \in Accounts
    BY TypesMeet DEF ValuesInv
  <2>1. wire' \subseteq Post
    BY TypesMeet, UnawaitedKeeps, NobodysType DEF Writers
  <2>2. check' \in [Checks -> ACheck]
    BY <2>0, TypesMeet, EndedType, FailingType, NoCheckType DEF ACheck, ValuesInv, Answers,
       Membership, Leaves
  <2>3. QED BY <2>1, <2>2, TypesMeet, TypesMakeNext DEF TypeOK, history
<1>2. FlowInv'
  <2>1. \A v \in wire' : v.by \in Checks =>
           /\ v.account = check'[v.by].account
           /\ \/ v.field = "eic" /\ check'[v.by].at = "recording" /\ v.value = check'[v.by].answer
              \/ v.field = "failed" /\ check'[v.by].at = "reporting"
    BY TypesMeet, UnawaitedKeeps, NobodysType DEF FlowInv, Listed, history, NoCheck, Writers,
       ACheck, Post, ABackfill
  <2>2. \A v \in wire' : v.by = Backfill =>
           /\ v.account = backfill'.account
           /\ \/ v.field = "eic" /\ backfill'.at = "recording" /\ v.value = Listed(v.account)'
              \/ v.field = "rights" /\ backfill'.at = "granting"
    BY TypesMeet, UnawaitedKeeps, NobodysType DEF FlowInv, Listed, history, NoCheck, Writers,
       ACheck, Post, ABackfill
  <2>3. \A v, u \in wire' : v.by = u.by /\ v.by # Nobody => v = u
    BY TypesMeet, UnawaitedKeeps, NobodysType DEF FlowInv, Listed, history, NoCheck, Writers,
       ACheck, Post, ABackfill
  <2> QED BY <2>1, <2>2, <2>3 DEF FlowInv
<1>3. ValuesInv'
  <2>0. \A v \in wire' : \E u \in wire : v.field = u.field /\ v.account = u.account /\ v.value = u.value
    <3>1. \A v \in wire' : v \in wire \/ \E u \in wire : v = [u EXCEPT !.by = Nobody]
      BY UnawaitedKeeps DEF Writers
    <3> QED BY <3>1, NobodysType
  <2>1. \A v \in wire' : v.field = "rights" => v.value \in Rights
    BY <2>0 DEF ValuesInv
  <2>2. \A d \in Checks : check'[d].at # "over" => check'[d].account \in Accounts
    BY TypesMeet, UnawaitedKeeps, NobodysType DEF TypeOK, FlowInv, ValuesInv, EicIsObserved,
       Listed, history, NoCheck, Rights, Writers, ACheck, Post, ABackfill
  <2>3. \A d \in Checks : check'[d].at = "observed" => check'[d].answer \in observed'[check'[d].account]
    BY TypesMeet, UnawaitedKeeps, NobodysType DEF TypeOK, FlowInv, ValuesInv, EicIsObserved,
       Listed, history, NoCheck, Rights, Writers, ACheck, Post, ABackfill
  <2>4. backfill'.at \notin {"over", "next"} => backfill'.account \in Accounts
    BY TypesMeet, UnawaitedKeeps, NobodysType DEF TypeOK, FlowInv, ValuesInv, EicIsObserved,
       Listed, history, NoCheck, Rights, Writers, ACheck, Post, ABackfill
  <2>5. backfill'.at # "over" => \A b \in backfill'.links : Listed(b)' \in observed'[b]
    BY TypesMeet, UnawaitedKeeps, NobodysType DEF TypeOK, FlowInv, ValuesInv, EicIsObserved,
       Listed, history, NoCheck, Rights, Writers, ACheck, Post, ABackfill
  <2> QED BY <2>1, <2>2, <2>3, <2>4, <2>5 DEF ValuesInv
<1>4. EicIsObserved'
  <2>0. \A v \in wire' : \E u \in wire : v.field = u.field /\ v.account = u.account /\ v.value = u.value
    <3>1. \A v \in wire' : v \in wire \/ \E u \in wire : v = [u EXCEPT !.by = Nobody]
      BY UnawaitedKeeps DEF Writers
    <3> QED BY <3>1, NobodysType
  <2>1. \A b \in Accounts : upstream'[b].eic # "unset" => upstream'[b].eic \in observed'[b]
    BY <2>0 DEF EicIsObserved, history
  <2>2. \A v \in wire' : v.field = "eic" => v.value \in observed'[v.account]
    BY <2>0 DEF EicIsObserved, history
  <2> QED BY <2>1, <2>2 DEF EicIsObserved
<1> QED BY <1>1, <1>2, <1>3, <1>4

LEMMA ObservedPlan ==
    ASSUME ObservedInv, NEW eicOnly \in BOOLEAN, Plan(eicOnly)
    PROVE  ObservedInv'
<1> USE WritersDiffer DEF ObservedInv, Plan
<1>1. TypeOK'
  <2>1. check' \in [Checks -> ACheck]
    <3>1. \A c \in Checks : [check[c] EXCEPT !.alone = FALSE] \in ACheck
      BY TypesMeet DEF ACheck
    <3> QED BY <3>1
  <2>2. backfill' \in ABackfill
    BY DEF TypeOK, ABackfill
  <2>3. observed' \in [Accounts -> SUBSET Answers]
    BY DEF TypeOK, Membership, Answers
  <2>4. decided' \in [Accounts -> Rights \cup {"any"}]
    BY DEF TypeOK
  <2>5. settled' \in [Accounts -> {"unset"} \cup Answers]
    BY DEF TypeOK
  <2>6. QED BY <2>1, <2>2, <2>3, <2>4, <2>5, TypesMeet, TypesMakeNext DEF TypeOK, history
<1>2. FlowInv'
  BY DEF FlowInv, Listed, Membership, Writers
<1>3. ValuesInv'
  <2>1. \A v \in wire' : v.field = "rights" => v.value \in Rights
    BY DEF ValuesInv
  <2>2. \A d \in Checks : check'[d].at # "over" => check'[d].account \in Accounts
    <3>1. \A d \in Checks : check'[d].at = check[d].at /\ check'[d].account = check[d].account
      BY TypesMeet DEF ACheck
    <3> QED BY <3>1 DEF ValuesInv
  <2>3. \A d \in Checks : check'[d].at = "observed" => check'[d].answer \in observed'[check'[d].account]
    <3>1. \A d \in Checks : check'[d].at = check[d].at /\ check'[d].account = check[d].account /\ check'[d].answer = check[d].answer
      BY TypesMeet DEF ACheck
    <3>2. \A b \in Accounts : observed[b] \subseteq observed'[b]
      BY DEF TypeOK
    <3> QED BY <3>1, <3>2 DEF ValuesInv
  <2>4. backfill'.at \notin {"over", "next"} => backfill'.account \in Accounts
    BY TypesMeet DEF TypeOK, ValuesInv, Listed, Membership, Writers, ACheck, Post, ABackfill
  <2>5. backfill'.at # "over" => \A b \in backfill'.links : Listed(b)' \in observed'[b]
    BY TypesMeet DEF TypeOK, ValuesInv, Listed, Membership, Writers, ACheck, Post, ABackfill
  <2> QED BY <2>1, <2>2, <2>3, <2>4, <2>5 DEF ValuesInv
<1>4. EicIsObserved'
  BY DEF TypeOK, EicIsObserved, Membership, Writers
<1> QED BY <1>1, <1>2, <1>3, <1>4

LEMMA ObservedTurn ==
    ASSUME ObservedInv, NEW a \in Accounts, Turn(a)
    PROVE  ObservedInv'
<1> USE WritersDiffer DEF ObservedInv, Turn
<1>1. TypeOK'
  <2>1. wire' \subseteq Post
    BY TypesMeet DEF Posts, Reports, Post, Writers, Values, Answers, Rights, ValuesInv, Listed
  <2>2. backfill' \in ABackfill
    BY TypesMeet DEF ABackfill
  <2>3. QED BY <2>1, <2>2, TypesMeet, TypesMakeNext DEF TypeOK, history
<1>2. FlowInv'
  <2>1. \A v \in wire' : v.by \in Checks =>
           /\ v.account = check'[v.by].account
           /\ \/ v.field = "eic" /\ check'[v.by].at = "recording" /\ v.value = check'[v.by].answer
              \/ v.field = "failed" /\ check'[v.by].at = "reporting"
    BY TypesMeet DEF FlowInv, Listed, history, Posts, Writers, ACheck, Post, ABackfill
  <2>2. \A v \in wire' : v.by = Backfill =>
           /\ v.account = backfill'.account
           /\ \/ v.field = "eic" /\ backfill'.at = "recording" /\ v.value = Listed(v.account)'
              \/ v.field = "rights" /\ backfill'.at = "granting"
    <3>1. \A v \in wire : v.by # Backfill
      BY DEF FlowInv
    <3>2. CASE UNCHANGED wire
      BY <3>1, <3>2
    <3>3. CASE Posts(Backfill, a, "eic", Listed(a)) /\ backfill' = [backfill EXCEPT !.at = "recording", !.todo = @ \ {a}, !.account = a]
      <4>1. backfill'.at = "recording" /\ backfill'.account = a /\ Listed(a)' = Listed(a)
        BY <3>3, TypesMeet DEF ABackfill, Listed
      <4> QED BY <3>1, <3>3, <4>1 DEF Posts
    <3> QED BY <3>2, <3>3
  <2>3. \A v, u \in wire' : v.by = u.by /\ v.by # Nobody => v = u
    BY TypesMeet DEF FlowInv, Listed, history, Posts, Writers, ACheck, Post, ABackfill
  <2> QED BY <2>1, <2>2, <2>3 DEF FlowInv
<1>3. ValuesInv'
  <2>0. /\ backfill'.links = backfill.links /\ backfill'.seen = backfill.seen /\ backfill'.at # "over" /\ backfill.at # "over"
          /\ backfill'.account = a /\ backfill'.at \in {"recording", "grant"}
    BY TypesMeet DEF ABackfill
  <2>1. \A v \in wire' : v.field = "rights" => v.value \in Rights
    BY TypesMeet DEF TypeOK, ValuesInv, Listed, history, Posts, Writers, ACheck, Post, ABackfill
  <2>2. \A d \in Checks : check'[d].at # "over" => check'[d].account \in Accounts
    BY TypesMeet DEF TypeOK, ValuesInv, Listed, history, Posts, Writers, ACheck, Post, ABackfill
  <2>3. \A d \in Checks : check'[d].at = "observed" => check'[d].answer \in observed'[check'[d].account]
    BY TypesMeet DEF TypeOK, ValuesInv, Listed, history, Posts, Writers, ACheck, Post, ABackfill
  <2>4. backfill'.at \notin {"over", "next"} => backfill'.account \in Accounts
    BY <2>0
  <2>5. backfill'.at # "over" => \A b \in backfill'.links : Listed(b)' \in observed'[b]
    BY <2>0 DEF ValuesInv, Listed, history
  <2> QED BY <2>1, <2>2, <2>3, <2>4, <2>5 DEF ValuesInv
<1>4. EicIsObserved'
  BY DEF TypeOK, FlowInv, ValuesInv, EicIsObserved, Listed, history, Posts, Rights, Writers
<1> QED BY <1>1, <1>2, <1>3, <1>4

LEMMA ObservedSaveListed ==
    ASSUME ObservedInv, SaveListed
    PROVE  ObservedInv'
<1> USE WritersDiffer DEF ObservedInv, SaveListed
<1>1. TypeOK'
  <2>1. status' \in [Accounts -> [eic : {"unset"} \cup Answers, failed : BOOLEAN]]
    <3>1. backfill.account \in Accounts /\ Saved(Listed(backfill.account)) \in [eic : {"unset"} \cup Answers, failed : BOOLEAN]
      BY DEF ValuesInv, Saved, Listed, Answers
    <3> QED BY <3>1 DEF TypeOK
  <2>2. backfill' \in ABackfill
    <3>1. NoBackfill \in ABackfill /\ [backfill EXCEPT !.at = "grant"] \in ABackfill
      BY TypesMeet DEF ABackfill, NoBackfill
    <3> QED BY <3>1
  <2>3. QED BY <2>1, <2>2, TypesMeet, TypesMakeNext DEF TypeOK, history
<1>2. FlowInv'
  BY DEF FlowInv, Listed, history, NoBackfill, Saved, Writers
<1>3. ValuesInv'
  BY DEF TypeOK, ValuesInv, Listed, history, NoBackfill, Saved, Writers
<1>4. EicIsObserved'
  BY DEF TypeOK, EicIsObserved, Listed, history, NoBackfill, Saved, Writers
<1> QED BY <1>1, <1>2, <1>3, <1>4

LEMMA ObservedGrant ==
    ASSUME ObservedInv, Grant
    PROVE  ObservedInv'
<1> USE WritersDiffer DEF ObservedInv, Grant
<1>1. TypeOK'
  <2>1. wire' \subseteq Post
    BY TypesMeet DEF Posts, Reports, Post, Writers, Values, Answers, Rights, ValuesInv, Listed
  <2>2. backfill' \in ABackfill
    BY TypesMeet DEF ABackfill
  <2>3. QED BY <2>1, <2>2, TypesMeet, TypesMakeNext DEF TypeOK, history
<1>2. FlowInv'
  BY DEF TypeOK, FlowInv, ValuesInv, EicIsObserved, Listed, history, Posts, Grants, Rights,
     Writers
<1>3. ValuesInv'
  <2>0. backfill'.links = backfill.links /\ backfill'.seen = backfill.seen /\ backfill'.at # "over" /\ backfill.at # "over"
    BY TypesMeet DEF ABackfill
  <2>1. \A v \in wire' : v.field = "rights" => v.value \in Rights
    BY TypesMeet DEF TypeOK, FlowInv, ValuesInv, EicIsObserved, Listed, history, Posts,
       Grants, Rights, Writers, ACheck, Post, ABackfill
  <2>2. \A d \in Checks : check'[d].at # "over" => check'[d].account \in Accounts
    BY TypesMeet DEF TypeOK, FlowInv, ValuesInv, EicIsObserved, Listed, history, Posts,
       Grants, Rights, Writers, ACheck, Post, ABackfill
  <2>3. \A d \in Checks : check'[d].at = "observed" => check'[d].answer \in observed'[check'[d].account]
    BY TypesMeet DEF TypeOK, FlowInv, ValuesInv, EicIsObserved, Listed, history, Posts,
       Grants, Rights, Writers, ACheck, Post, ABackfill
  <2>4. backfill'.at \notin {"over", "next"} => backfill'.account \in Accounts
    BY TypesMeet DEF TypeOK, FlowInv, ValuesInv, EicIsObserved, Listed, history, Posts,
       Grants, Rights, Writers, ACheck, Post, ABackfill
  <2>5. backfill'.at # "over" => \A b \in backfill'.links : Listed(b)' \in observed'[b]
    BY <2>0 DEF ValuesInv, Listed, history
  <2> QED BY <2>1, <2>2, <2>3, <2>4, <2>5 DEF ValuesInv
<1>4. EicIsObserved'
  BY DEF TypeOK, EicIsObserved, history, Posts, Grants, Writers
<1> QED BY <1>1, <1>2, <1>3, <1>4

LEMMA ObservedStop ==
    ASSUME ObservedInv, Stop
    PROVE  ObservedInv'
<1> USE WritersDiffer DEF ObservedInv, Stop
<1>1. TypeOK'
  <2>1. wire' \subseteq Post
    BY TypesMeet, UnawaitedKeeps, NobodysType DEF Writers
  <2>2. backfill' \in ABackfill
    BY DEF ABackfill, NoBackfill
  <2>3. QED BY <2>1, <2>2, TypesMeet, TypesMakeNext DEF TypeOK, history
<1>2. FlowInv'
  <2>1. \A v \in wire' : v.by \in Checks =>
           /\ v.account = check'[v.by].account
           /\ \/ v.field = "eic" /\ check'[v.by].at = "recording" /\ v.value = check'[v.by].answer
              \/ v.field = "failed" /\ check'[v.by].at = "reporting"
    BY TypesMeet, UnawaitedKeeps, NobodysType DEF FlowInv, Listed, history, NoBackfill,
       Writers, ACheck, Post, ABackfill
  <2>2. \A v \in wire' : v.by = Backfill =>
           /\ v.account = backfill'.account
           /\ \/ v.field = "eic" /\ backfill'.at = "recording" /\ v.value = Listed(v.account)'
              \/ v.field = "rights" /\ backfill'.at = "granting"
    BY TypesMeet, UnawaitedKeeps, NobodysType DEF FlowInv, Listed, history, NoBackfill,
       Writers, ACheck, Post, ABackfill
  <2>3. \A v, u \in wire' : v.by = u.by /\ v.by # Nobody => v = u
    BY TypesMeet, UnawaitedKeeps, NobodysType DEF FlowInv, Listed, history, NoBackfill,
       Writers, ACheck, Post, ABackfill
  <2> QED BY <2>1, <2>2, <2>3 DEF FlowInv
<1>3. ValuesInv'
  <2>0. \A v \in wire' : \E u \in wire : v.field = u.field /\ v.account = u.account /\ v.value = u.value
    <3>1. \A v \in wire' : v \in wire \/ \E u \in wire : v = [u EXCEPT !.by = Nobody]
      BY UnawaitedKeeps DEF Writers
    <3> QED BY <3>1, NobodysType
  <2>1. \A v \in wire' : v.field = "rights" => v.value \in Rights
    BY <2>0 DEF ValuesInv
  <2>2. \A d \in Checks : check'[d].at # "over" => check'[d].account \in Accounts
    BY TypesMeet, UnawaitedKeeps, NobodysType DEF TypeOK, ValuesInv, Listed, history,
       NoBackfill, Writers, ACheck, Post, ABackfill
  <2>3. \A d \in Checks : check'[d].at = "observed" => check'[d].answer \in observed'[check'[d].account]
    BY TypesMeet, UnawaitedKeeps, NobodysType DEF TypeOK, ValuesInv, Listed, history,
       NoBackfill, Writers, ACheck, Post, ABackfill
  <2>4. backfill'.at \notin {"over", "next"} => backfill'.account \in Accounts
    BY TypesMeet, UnawaitedKeeps, NobodysType DEF TypeOK, ValuesInv, Listed, history,
       NoBackfill, Writers, ACheck, Post, ABackfill
  <2>5. backfill'.at # "over" => \A b \in backfill'.links : Listed(b)' \in observed'[b]
    BY TypesMeet, UnawaitedKeeps, NobodysType DEF TypeOK, ValuesInv, Listed, history,
       NoBackfill, Writers, ACheck, Post, ABackfill
  <2> QED BY <2>1, <2>2, <2>3, <2>4, <2>5 DEF ValuesInv
<1>4. EicIsObserved'
  <2>0. \A v \in wire' : \E u \in wire : v.field = u.field /\ v.account = u.account /\ v.value = u.value
    <3>1. \A v \in wire' : v \in wire \/ \E u \in wire : v = [u EXCEPT !.by = Nobody]
      BY UnawaitedKeeps DEF Writers
    <3> QED BY <3>1, NobodysType
  <2>1. \A b \in Accounts : upstream'[b].eic # "unset" => upstream'[b].eic \in observed'[b]
    BY <2>0 DEF EicIsObserved, history
  <2>2. \A v \in wire' : v.field = "eic" => v.value \in observed'[v.account]
    BY <2>0 DEF EicIsObserved, history
  <2> QED BY <2>1, <2>2 DEF EicIsObserved
<1> QED BY <1>1, <1>2, <1>3, <1>4

\* One step of any kind.
LEMMA ObservedNext ==
    ASSUME ObservedInv, [Next]_vars
    PROVE  ObservedInv'
<1>1. ASSUME NEW a \in Accounts, Move(a) PROVE ObservedInv'
  BY <1>1, ObservedMove
<1>2. ASSUME NEW a \in Accounts, Link(a) PROVE ObservedInv'
  BY <1>2, ObservedLink
<1>3. ASSUME NEW a \in Accounts, NEW rights \in Decisions, Decide(a, rights) PROVE ObservedInv'
  BY <1>3, ObservedDecide
<1>4. ASSUME NEW w \in wire, Accept(w) PROVE ObservedInv'
  BY <1>4, ObservedAccept
<1>5. ASSUME NEW w \in wire, Refuse(w) PROVE ObservedInv'
  BY <1>5, ObservedRefuse
<1>6. ASSUME NEW w \in wire, GiveUp(w) PROVE ObservedInv'
  BY <1>6, ObservedGiveUp
<1>7. ASSUME NEW c \in Checks, NEW a \in Accounts, SignIn(c, a) PROVE ObservedInv'
  BY <1>7, ObservedSignIn
<1>8. ASSUME NEW c \in Checks, Look(c) PROVE ObservedInv'
  BY <1>8, ObservedLook
<1>9. ASSUME NEW c \in Checks, Ask(c) PROVE ObservedInv'
  BY <1>9, ObservedAsk
<1>10. ASSUME NEW c \in Checks, Record(c) PROVE ObservedInv'
  BY <1>10, ObservedRecord
<1>11. ASSUME NEW c \in Checks, Save(c) PROVE ObservedInv'
  BY <1>11, ObservedSave
<1>12. ASSUME NEW c \in Checks, Report(c) PROVE ObservedInv'
  BY <1>12, ObservedReport
<1>13. ASSUME NEW c \in Checks, Die(c) PROVE ObservedInv'
  BY <1>13, ObservedDie
<1>14. ASSUME NEW eicOnly \in BOOLEAN, Plan(eicOnly) PROVE ObservedInv'
  BY <1>14, ObservedPlan
<1>15. ASSUME NEW a \in Accounts, Turn(a) PROVE ObservedInv'
  BY <1>15, ObservedTurn
<1>16. ASSUME SaveListed PROVE ObservedInv'
  BY <1>16, ObservedSaveListed
<1>17. ASSUME Grant PROVE ObservedInv'
  BY <1>17, ObservedGrant
<1>18. ASSUME Stop PROVE ObservedInv'
  BY <1>18, ObservedStop
<1>19. ASSUME UNCHANGED vars PROVE ObservedInv'
  BY <1>19 DEF ObservedInv, TypeOK, FlowInv, ValuesInv, EicIsObserved, Listed, vars, history
<1> QED BY <1>1, <1>2, <1>3, <1>4, <1>5, <1>6, <1>7, <1>8, <1>9, <1>10, <1>11, <1>12, <1>13,
           <1>14, <1>15, <1>16, <1>17, <1>18, <1>19 DEF Next, PostEnds, CheckStep

LEMMA ObservedInit == Init => ObservedInv
BY DEF Init, ObservedInv, TypeOK, FlowInv, ValuesInv, EicIsObserved, NoCheck, NoBackfill,
       Answers, Rights, Values, Writers

LEMMA ObservedAlways == Spec => []ObservedInv
BY ObservedInit, ObservedNext, PTL DEF Spec

(* Every variable keeps its type: what is written upstream is an answer or *)
(* a right, and nothing else reaches the monitor (authority.py, models.py). *)
THEOREM TypeCorrect == Spec => []TypeOK
BY ObservedAlways, PTL DEF ObservedInv

(* Whatever the monitor holds as eic, or is still to be told, GitHub or    *)
(* its listing answered for that account (record_membership's two callers, *)
(* report_failure): however many sign-ins overlap, and late writes too.    *)
THEOREM ObservedEic == Spec => []EicIsObserved
BY ObservedAlways, PTL DEF ObservedInv

-------------------------------------------------------------------------------
\* What a post leaves behind was under way before.
LEMMA AbandonedFrom ==
    ASSUME TypeOK, NEW w \in wire, NEW S \in Abandoned(w), NEW v \in S
    PROVE  \E u \in wire : /\ v.field = u.field /\ v.account = u.account /\ v.value = u.value
                          /\ v.by \in {u.by, Nobody}
BY AbandonedKeeps, NobodysType

LEMMA UnawaitedFrom ==
    ASSUME TypeOK, FlowInv, NEW p \in Writers, NEW S \in Unawaited(p), NEW v \in S
    PROVE  \E u \in wire : /\ v.field = u.field /\ v.account = u.account /\ v.value = u.value
                          /\ v.by \in {u.by, Nobody}
<1>1. v \in wire \/ \E u \in wire : v = [u EXCEPT !.by = Nobody]
  BY UnawaitedKeeps
<1> QED BY <1>1, NobodysType

\* What the end of a post makes of its writer.
LEMMA ResumesCheck ==
    ASSUME ObservedInv, NEW w \in wire, NEW answered \in BOOLEAN, Resumes(w, answered), w.by \in Checks
    PROVE  /\ check'[w.by].at \in {"over", "recorded", "failing"}
           /\ check'[w.by].at # "over" => check'[w.by].account = check[w.by].account
           /\ check'[w.by].at = "recorded" =>
                  /\ answered /\ w.field = "eic" /\ w.account = check[w.by].account
                  /\ check'[w.by].answer = w.value
           /\ check'[w.by].alone => check[w.by].alone /\ check'[w.by].at = "recorded"
           /\ check'[w.by].again => check'[w.by].again = check[w.by].again /\ check'[w.by].broken = check[w.by].broken
           /\ check'[w.by].silent => check[w.by].silent
<1> DEFINE c == w.by
<1>1. check \in [Checks -> ACheck] /\ check[c] \in ACheck
  BY TypesMeet DEF ObservedInv
<1>2. check'[c] = Told(w, answered)
  BY <1>1 DEF Resumes
<1>3. CASE w.field = "failed"
  BY <1>2, <1>3 DEF Told, Ended, NoCheck
<1>4. CASE w.field = "eic" /\ answered
  <2>1. check'[c] = [check[c] EXCEPT !.at = "recorded"]
    BY <1>2, <1>4 DEF Told
  <2>2. w.account = check[c].account /\ w.value = check[c].answer
    BY <1>4 DEF ObservedInv, FlowInv
  <2> QED BY <1>1, <1>4, <2>1, <2>2 DEF ACheck
<1>5. CASE w.field = "eic" /\ ~answered
  BY <1>1, <1>2, <1>5 DEF Told, Failing, ACheck
<1> QED BY <1>3, <1>4, <1>5 DEF ObservedInv, FlowInv

LEMMA ResumesOthers ==
    ASSUME ObservedInv, NEW w \in wire, NEW answered \in BOOLEAN, Resumes(w, answered)
    PROVE  /\ \A d \in Checks \ {w.by} : check'[d] = check[d]
           /\ backfill.at = "over" <=> backfill'.at = "over"
           /\ backfill'.eicOnly = backfill.eicOnly /\ backfill'.seen = backfill.seen
           /\ backfill'.account = backfill.account
           /\ backfill'.at = "recorded" =>
                 \/ backfill.at = "recorded"
                 \/ /\ answered /\ w.field = "eic"
                    /\ w.account = backfill.account /\ w.value = Listed(w.account)
<1>1. check \in [Checks -> ACheck] /\ backfill \in ABackfill
  BY TypesMeet DEF ObservedInv
<1>2. CASE w.by = Backfill
  <2>1. backfill' = [backfill EXCEPT !.at = IF w.field = "rights" THEN "next"
                                            ELSE IF answered THEN "recorded" ELSE "grant"]
    BY <1>2 DEF Resumes
  <2> QED BY <1>1, <1>2, <2>1, WritersDiffer DEF ABackfill, Resumes, ObservedInv, FlowInv
<1>3. CASE w.by # Backfill
  BY <1>1, <1>3 DEF Resumes
<1> QED BY <1>2, <1>3

\* What a step of a check makes of it.
LEMMA CheckStepKeeps ==
    ASSUME ObservedInv, NEW c \in Checks, CheckStep(c)
    PROVE  /\ \A d \in Checks \ {c} : check'[d] = check[d]
           /\ check[c].at # "over" /\ check'[c].at \notin {"signed", "recorded"}
           /\ check'[c].at # "over" => check'[c].account = check[c].account
           /\ check'[c].alone =>
                 /\ check[c].alone
                 /\ check[c].at = "failing" \/ check'[c].at \in {"asking", "observed", "recording"}
           /\ check[c].at = "recorded" => ~check'[c].alone
           /\ check'[c].again =>
                 (check[c].again /\ check'[c].broken = check[c].broken) \/ check'[c].broken
           /\ check'[c].silent => check[c].silent \/ (check[c].again /\ ~check[c].broken)
<1>1. check \in [Checks -> ACheck] /\ check[c] \in ACheck
  BY TypesMeet DEF ObservedInv
<1>2. Failing(c) = [check[c] EXCEPT !.at = "failing", !.answer = "unset", !.alone = FALSE]
  BY DEF Failing
<1>3. Failing(c) \in ACheck
  BY <1>1, FailingType
<1>4. CASE Look(c)
  <2>1. /\ check[c].at = "signed"
        /\ \/ check' = [check EXCEPT ![c] = [check[c] EXCEPT !.at = "asking"]]
           \/ check' = [check EXCEPT ![c] = NoCheck]
           \/ check[c].account \notin linked /\ check' = [check EXCEPT ![c] = Ended(c, FALSE)]
           \/ check' = [check EXCEPT ![c] = Failing(c)]
    BY <1>1, <1>4 DEF Look, Leaves
  <2>2. CASE check' = [check EXCEPT ![c] = [check[c] EXCEPT !.at = "asking"]]
    <3>1. check'[c] = [check[c] EXCEPT !.at = "asking"]
      BY <1>1, <2>2
    <3> QED BY <1>1, <1>2, <1>3, <2>1, <2>2, <3>1 DEF ACheck, Ended, NoCheck
  <2>3. CASE check' = [check EXCEPT ![c] = NoCheck]
    <3>1. check'[c] = NoCheck
      BY <1>1, <2>3
    <3> QED BY <1>1, <1>2, <1>3, <2>1, <2>3, <3>1 DEF ACheck, Ended, NoCheck
  <2>4. CASE check[c].account \notin linked /\ check' = [check EXCEPT ![c] = Ended(c, FALSE)]
    <3>1. check'[c] = Ended(c, FALSE)
      BY <1>1, <2>4
    <3> QED BY <1>1, <1>2, <1>3, <2>1, <2>4, <3>1 DEF ACheck, Ended, NoCheck
  <2>5. CASE check' = [check EXCEPT ![c] = Failing(c)]
    <3>1. check'[c] = Failing(c)
      BY <1>1, <2>5
    <3> QED BY <1>1, <1>2, <1>3, <2>1, <2>5, <3>1 DEF ACheck, Ended, NoCheck
  <2> QED BY <2>1, <2>2, <2>3, <2>4, <2>5
<1>5. CASE Ask(c)
  <2>1. /\ check[c].at = "asking"
        /\ \/ check' = [check EXCEPT ![c] = [check[c] EXCEPT !.at = "observed", !.answer = Membership(check[c].account)]]
           \/ check' = [check EXCEPT ![c] = Failing(c)]
    BY <1>1, <1>5 DEF Ask
  <2>2. CASE check' = [check EXCEPT ![c] = [check[c] EXCEPT !.at = "observed", !.answer = Membership(check[c].account)]]
    <3>1. check'[c] = [check[c] EXCEPT !.at = "observed", !.answer = Membership(check[c].account)]
      BY <1>1, <2>2
    <3> QED BY <1>1, <1>2, <1>3, <2>1, <2>2, <3>1 DEF ACheck, Ended, NoCheck
  <2>3. CASE check' = [check EXCEPT ![c] = Failing(c)]
    <3>1. check'[c] = Failing(c)
      BY <1>1, <2>3
    <3> QED BY <1>1, <1>2, <1>3, <2>1, <2>3, <3>1 DEF ACheck, Ended, NoCheck
  <2> QED BY <2>1, <2>2, <2>3
<1>6. CASE Record(c)
  BY <1>1, <1>6 DEF ACheck, Record
<1>7. CASE Save(c)
  <2>1. /\ check[c].at = "recorded"
        /\ \/ check' = [check EXCEPT ![c] = Ended(c, TRUE)]
           \/ check' = [check EXCEPT ![c] = [Failing(c) EXCEPT !.again = TRUE, !.broken = TRUE]]
    BY <1>1, <1>7 DEF Save
  <2>2. CASE check' = [check EXCEPT ![c] = Ended(c, TRUE)]
    <3>1. check'[c] = Ended(c, TRUE)
      BY <1>1, <2>2
    <3> QED BY <1>1, <1>2, <1>3, <2>1, <2>2, <3>1 DEF ACheck, Ended, NoCheck
  <2>3. CASE check' = [check EXCEPT ![c] = [Failing(c) EXCEPT !.again = TRUE, !.broken = TRUE]]
    <3>1. check'[c] = [Failing(c) EXCEPT !.again = TRUE, !.broken = TRUE]
      BY <1>1, <2>3
    <3> QED BY <1>1, <1>2, <1>3, <2>1, <2>3, <3>1 DEF ACheck, Ended, NoCheck
  <2> QED BY <2>1, <2>2, <2>3
<1>8. CASE Report(c)
  <2>1. /\ check[c].at = "failing"
        /\ \/ check' = [check EXCEPT ![c] = [check[c] EXCEPT !.at = "reporting"]]
           \/ check[c].again /\ check' = [check EXCEPT ![c] = Ended(c, FALSE)]
           \/ check' = [check EXCEPT ![c] = [check[c] EXCEPT !.again = TRUE, !.broken = TRUE]]
    BY <1>1, <1>8 DEF Report
  <2>2. CASE check' = [check EXCEPT ![c] = [check[c] EXCEPT !.at = "reporting"]]
    <3>1. check'[c] = [check[c] EXCEPT !.at = "reporting"]
      BY <1>1, <2>2
    <3> QED BY <1>1, <1>2, <1>3, <2>1, <2>2, <3>1 DEF ACheck, Ended, NoCheck
  <2>3. CASE check[c].again /\ check' = [check EXCEPT ![c] = Ended(c, FALSE)]
    <3>1. check'[c] = Ended(c, FALSE)
      BY <1>1, <2>3
    <3> QED BY <1>1, <1>2, <1>3, <2>1, <2>3, <3>1 DEF ACheck, Ended, NoCheck
  <2>4. CASE check' = [check EXCEPT ![c] = [check[c] EXCEPT !.again = TRUE, !.broken = TRUE]]
    <3>1. check'[c] = [check[c] EXCEPT !.again = TRUE, !.broken = TRUE]
      BY <1>1, <2>4
    <3> QED BY <1>1, <1>2, <1>3, <2>1, <2>4, <3>1 DEF ACheck, Ended, NoCheck
  <2> QED BY <2>1, <2>2, <2>3, <2>4
<1> QED BY <1>4, <1>5, <1>6, <1>7, <1>8 DEF CheckStep

-------------------------------------------------------------------------------
(* While a grant of the backfill may still come, no decision is promised. *)
GrantInv ==
    /\ Granting => \A a \in Accounts : decided[a] = "any"
    /\ GrantsStand

LEMMA GrantNext ==
    ASSUME ObservedInv, GrantInv, [Next]_vars
    PROVE  GrantInv'
<1>1. ASSUME NEW a \in Accounts, Move(a) PROVE GrantInv'
  BY <1>1 DEF GrantInv, Granting, GrantsStand, ObservedInv, TypeOK, history, Move
<1>2. ASSUME NEW a \in Accounts, Link(a) PROVE GrantInv'
  BY <1>2 DEF GrantInv, Granting, GrantsStand, ObservedInv, TypeOK, history, Link
<1>3. ASSUME NEW a \in Accounts, NEW rights \in Decisions, Decide(a, rights) PROVE GrantInv'
  BY <1>3 DEF GrantInv, Granting, GrantsStand, ObservedInv, TypeOK, Decide
<1>4. ASSUME NEW w \in wire, Accept(w) PROVE GrantInv'
  <2>1. Resumes(w, TRUE)
    BY <1>4 DEF Accept
  <2>2. \A v \in wire' : \E u \in wire : v.field = u.field
    BY <1>4, AbandonedFrom DEF Accept, ObservedInv
  <2>3. Granting' => Granting
    BY <2>1, <2>2, ResumesOthers DEF Granting
  <2>4. CASE Granting
    BY <1>4, <2>4 DEF Accept, GrantInv, GrantsStand
  <2>5. CASE ~Granting
    <3>1. w.field # "rights"
      BY <2>5 DEF Granting
    <3>2. \A a \in Accounts : upstream'[a].rights = upstream[a].rights
      BY <1>4, <3>1 DEF Accept, ObservedInv, TypeOK
    <3> QED BY <1>4, <2>3, <2>5, <3>2 DEF Accept, GrantInv, GrantsStand
  <2> QED BY <2>4, <2>5
<1>5. ASSUME NEW w \in wire, Refuse(w) PROVE GrantInv'
  <2>1. Resumes(w, FALSE)
    BY <1>5 DEF Refuse
  <2>2. \A v \in wire' : \E u \in wire : v.field = u.field
    BY <1>5, AbandonedFrom DEF Refuse, ObservedInv
  <2>3. Granting' => Granting
    BY <2>1, <2>2, ResumesOthers DEF Granting
  <2> QED BY <1>5, <2>3 DEF Refuse, GrantInv, GrantsStand, history
<1>6. ASSUME NEW w \in wire, GiveUp(w) PROVE GrantInv'
  <2>1. Resumes(w, FALSE)
    BY <1>6 DEF GiveUp
  <2>2. \A v \in wire' : \E u \in wire : v.field = u.field
    BY <1>6, AbandonedFrom DEF GiveUp, ObservedInv
  <2>3. Granting' => Granting
    BY <2>1, <2>2, ResumesOthers DEF Granting
  <2> QED BY <1>6, <2>3 DEF GiveUp, GrantInv, GrantsStand, history
<1>7. ASSUME NEW c \in Checks, NEW a \in Accounts, SignIn(c, a) PROVE GrantInv'
  BY <1>7 DEF GrantInv, Granting, GrantsStand, ObservedInv, TypeOK, NoCheck, SignIn
<1>8. ASSUME NEW c \in Checks, Look(c) PROVE GrantInv'
  BY <1>8 DEF GrantInv, Granting, GrantsStand, ObservedInv, TypeOK, history, Ended, Failing,
     NoCheck, Leaves, Look
<1>9. ASSUME NEW c \in Checks, Ask(c) PROVE GrantInv'
  BY <1>9 DEF GrantInv, Granting, GrantsStand, ObservedInv, TypeOK, Membership, Failing, Ask
<1>10. ASSUME NEW c \in Checks, Record(c) PROVE GrantInv'
  BY <1>10 DEF GrantInv, Granting, GrantsStand, ObservedInv, TypeOK, history, Posts, Record
<1>11. ASSUME NEW c \in Checks, Save(c) PROVE GrantInv'
  BY <1>11 DEF GrantInv, Granting, GrantsStand, ObservedInv, TypeOK, Ended, Failing, NoCheck,
     Saved, Save
<1>12. ASSUME NEW c \in Checks, Report(c) PROVE GrantInv'
  BY <1>12 DEF GrantInv, Granting, GrantsStand, ObservedInv, TypeOK, history, Posts, Ended,
     NoCheck, Reports, Report
<1>13. ASSUME NEW c \in Checks, Die(c) PROVE GrantInv'
  <2>1. \A v \in wire' : \E u \in wire : v.field = u.field
    BY <1>13, UnawaitedFrom DEF Die, ObservedInv, Writers
  <2>2. Granting' => Granting
    BY <1>13, <2>1 DEF Die, Granting, NoBackfill
  <2> QED BY <1>13, <2>2 DEF Die, GrantInv, GrantsStand, history
<1>14. ASSUME NEW eicOnly \in BOOLEAN, Plan(eicOnly) PROVE GrantInv'
  BY <1>14 DEF GrantInv, Granting, GrantsStand, ObservedInv, TypeOK, Membership, Plan
<1>15. ASSUME NEW a \in Accounts, Turn(a) PROVE GrantInv'
  <2>1. backfill.at # "over" /\ backfill'.eicOnly = backfill.eicOnly
    BY <1>15, TypesMeet DEF Turn, ObservedInv, ABackfill
  <2>2. \A v \in wire' : v \in wire \/ v.field = "eic"
    BY <1>15 DEF Turn, Posts
  <2>3. Granting' => Granting
    BY <2>1, <2>2 DEF Granting
  <2> QED BY <1>15, <2>3 DEF Turn, GrantInv, GrantsStand, history
<1>16. ASSUME SaveListed PROVE GrantInv'
  <2>1. backfill'.at # "over" => backfill.at # "over" /\ backfill'.eicOnly = backfill.eicOnly
    BY <1>16, TypesMeet DEF SaveListed, ObservedInv, ABackfill, NoBackfill
  <2>2. UNCHANGED <<wire, upstream, decided>>
    BY <1>16 DEF SaveListed, history
  <2> QED BY <2>1, <2>2 DEF GrantInv, Granting, GrantsStand
<1>17. ASSUME Grant PROVE GrantInv'
  BY <1>17 DEF GrantInv, Granting, GrantsStand, ObservedInv, TypeOK, history, Posts, Grants,
     Grant
<1>18. ASSUME Stop PROVE GrantInv'
  <2>1. \A v \in wire' : \E u \in wire : v.field = u.field
    BY <1>18, UnawaitedFrom DEF Stop, ObservedInv, Writers
  <2>2. Granting' => Granting
    BY <1>18, <2>1 DEF Stop, Granting, NoBackfill
  <2> QED BY <1>18, <2>2 DEF Stop, GrantInv, GrantsStand, history
<1>19. ASSUME UNCHANGED vars PROVE GrantInv'
  BY <1>19 DEF GrantInv, Granting, GrantsStand, vars, history
<1> QED BY <1>1, <1>2, <1>3, <1>4, <1>5, <1>6, <1>7, <1>8, <1>9, <1>10, <1>11, <1>12, <1>13,
           <1>14, <1>15, <1>16, <1>17, <1>18, <1>19 DEF Next, PostEnds, CheckStep

(* A grant made by a person is never undone by a sign-in, by the backfill  *)
(* with --eic-only, or by a late write of either (record_rights, report_failure). *)
THEOREM GrantsKept == Spec => []GrantsStand
<1>1. Init => GrantInv
  BY DEF Init, GrantInv, Granting, GrantsStand, NoBackfill
<1>2. ObservedInv /\ GrantInv /\ [Next]_vars => GrantInv'
  BY GrantNext
<1>3. GrantInv => GrantsStand
  BY DEF GrantInv
<1> QED BY <1>1, <1>2, <1>3, ObservedAlways, PTL DEF Spec

-------------------------------------------------------------------------------
(* What a check or the backfill is about to save, the monitor has accepted. *)
MenuInv ==
    /\ \A c \in Checks : check[c].at = "recorded" => check[c].answer \in accepted[check[c].account]
    /\ backfill.at = "recorded" => Listed(backfill.account) \in accepted[backfill.account]
    /\ MenuSaysTheAccepted

LEMMA MenuNext ==
    ASSUME ObservedInv, MenuInv, [Next]_vars
    PROVE  MenuInv'
<1>1. ASSUME NEW a \in Accounts, Move(a) PROVE MenuInv'
  BY <1>1 DEF MenuInv, MenuSaysTheAccepted, Listed, Move, history
<1>2. ASSUME NEW a \in Accounts, Link(a) PROVE MenuInv'
  BY <1>2 DEF MenuInv, MenuSaysTheAccepted, Listed, Link, history
<1>3. ASSUME NEW a \in Accounts, NEW rights \in Decisions, Decide(a, rights) PROVE MenuInv'
  BY <1>3 DEF MenuInv, MenuSaysTheAccepted, Listed, Decide, history
<1>4. ASSUME NEW w \in wire, Accept(w) PROVE MenuInv'
  <2>1. Resumes(w, TRUE) /\ UNCHANGED status
    BY <1>4 DEF Accept
  <2>2. Listed(backfill.account)' = Listed(backfill.account)
    BY <2>1, ResumesOthers DEF Listed
  <2>3. /\ \A a \in Accounts : accepted[a] \subseteq accepted'[a]
        /\ w.field = "eic" => w.value \in accepted'[w.account]
    BY <1>4, TypesMeet DEF Accept, ObservedInv, TypeOK, Post
  <2>4. /\ \A c \in Checks : check[c].at # "over" => check[c].account \in Accounts
        /\ backfill.at = "recorded" => backfill.account \in Accounts
    BY DEF ObservedInv, ValuesInv
  <2>5. \A c \in Checks : check'[c].at = "recorded" => check'[c].answer \in accepted'[check'[c].account]
    BY <2>1, <2>3, <2>4, ResumesOthers, ResumesCheck DEF MenuInv
  <2>6. backfill'.at = "recorded" => Listed(backfill.account)' \in accepted'[backfill'.account]
    BY <2>1, <2>2, <2>3, <2>4, ResumesOthers DEF MenuInv
  <2> QED BY <2>1, <2>3, <2>5, <2>6 DEF MenuInv, MenuSaysTheAccepted
<1>5. ASSUME NEW w \in wire, Refuse(w) PROVE MenuInv'
  <2>1. Resumes(w, FALSE) /\ UNCHANGED <<status, accepted>>
    BY <1>5 DEF Refuse, history
  <2>2. Listed(backfill.account)' = Listed(backfill.account)
    BY <2>1, ResumesOthers DEF Listed
  <2> QED BY <2>1, <2>2, ResumesOthers, ResumesCheck DEF MenuInv, MenuSaysTheAccepted
<1>6. ASSUME NEW w \in wire, GiveUp(w) PROVE MenuInv'
  <2>1. Resumes(w, FALSE) /\ UNCHANGED <<status, accepted>>
    BY <1>6 DEF GiveUp, history
  <2>2. Listed(backfill.account)' = Listed(backfill.account)
    BY <2>1, ResumesOthers DEF Listed
  <2> QED BY <2>1, <2>2, ResumesOthers, ResumesCheck DEF MenuInv, MenuSaysTheAccepted
<1>7. ASSUME NEW c \in Checks, NEW a \in Accounts, SignIn(c, a) PROVE MenuInv'
  <2>1. \A d \in Checks : check'[d].at = "recorded" =>
          check[d].at = "recorded" /\ check'[d].account = check[d].account /\ check'[d].answer = check[d].answer
    BY <1>7, TypesMeet DEF SignIn, ObservedInv, NoCheck, ACheck
  <2> QED BY <1>7, <2>1 DEF MenuInv, MenuSaysTheAccepted, Listed, SignIn
<1>8. ASSUME NEW c \in Checks, Look(c) PROVE MenuInv'
  BY <1>8, CheckStepKeeps DEF MenuInv, MenuSaysTheAccepted, Listed, CheckStep, Look, history
<1>9. ASSUME NEW c \in Checks, Ask(c) PROVE MenuInv'
  BY <1>9, CheckStepKeeps DEF MenuInv, MenuSaysTheAccepted, Listed, CheckStep, Ask
<1>10. ASSUME NEW c \in Checks, Record(c) PROVE MenuInv'
  BY <1>10, CheckStepKeeps DEF MenuInv, MenuSaysTheAccepted, Listed, CheckStep, Record, history
<1>11. ASSUME NEW c \in Checks, Save(c) PROVE MenuInv'
  <2>1. \A a \in Accounts : status'[a].eic # "unset" => status'[a].eic \in accepted[a]
    <3>1. status \in [Accounts -> [eic : {"unset"} \cup Answers, failed : BOOLEAN]]
      BY DEF ObservedInv, TypeOK
    <3>2. check[c].at = "recorded" /\ check[c].answer \in accepted[check[c].account]
      BY <1>11 DEF Save, MenuInv
    <3>3. UNCHANGED status \/ status' = [status EXCEPT ![check[c].account] = Saved(check[c].answer)]
      BY <1>11 DEF Save
    <3> QED BY <3>1, <3>2, <3>3 DEF Saved, MenuInv, MenuSaysTheAccepted
  <2>2. UNCHANGED <<accepted, backfill>>
    BY <1>11 DEF Save
  <2> QED BY <1>11, <2>1, <2>2, CheckStepKeeps DEF MenuInv, MenuSaysTheAccepted, Listed,
             CheckStep
<1>12. ASSUME NEW c \in Checks, Report(c) PROVE MenuInv'
  <2>1. \A a \in Accounts : status'[a].eic = status[a].eic
    <3>1. status \in [Accounts -> [eic : {"unset"} \cup Answers, failed : BOOLEAN]]
      BY DEF ObservedInv, TypeOK
    <3>2. UNCHANGED status \/ status' = [status EXCEPT ![check[c].account].failed = TRUE]
      BY <1>12 DEF Report
    <3> QED BY <3>1, <3>2
  <2>2. UNCHANGED <<accepted, backfill>>
    BY <1>12 DEF Report, history
  <2> QED BY <1>12, <2>1, <2>2, CheckStepKeeps DEF MenuInv, MenuSaysTheAccepted, Listed,
             CheckStep
<1>13. ASSUME NEW c \in Checks, Die(c) PROVE MenuInv'
  BY <1>13, TypesMeet DEF MenuInv, MenuSaysTheAccepted, Listed, Die, NoCheck, ObservedInv,
     history
<1>14. ASSUME NEW eicOnly \in BOOLEAN, Plan(eicOnly) PROVE MenuInv'
  <2>1. \A d \in Checks : /\ check'[d].at = check[d].at /\ check'[d].account = check[d].account
                         /\ check'[d].answer = check[d].answer
    BY <1>14, TypesMeet DEF Plan, ObservedInv, ACheck
  <2> QED BY <1>14, <2>1 DEF MenuInv, MenuSaysTheAccepted, Listed, Plan
<1>15. ASSUME NEW a \in Accounts, Turn(a) PROVE MenuInv'
  BY <1>15 DEF MenuInv, MenuSaysTheAccepted, ObservedInv, TypeOK, Listed, history, Posts, Turn
<1>16. ASSUME SaveListed PROVE MenuInv'
  <2>1. backfill.account \in Accounts /\ Listed(backfill.account) \in accepted[backfill.account]
    BY <1>16 DEF SaveListed, ObservedInv, ValuesInv, MenuInv
  <2>2. \A a \in Accounts : status'[a].eic # "unset" => status'[a].eic \in accepted[a]
    <3>1. status \in [Accounts -> [eic : {"unset"} \cup Answers, failed : BOOLEAN]]
      BY DEF ObservedInv, TypeOK
    <3>2. UNCHANGED status \/ status' = [status EXCEPT ![backfill.account] = Saved(Listed(backfill.account))]
      BY <1>16 DEF SaveListed
    <3> QED BY <2>1, <3>1, <3>2 DEF Saved, MenuInv, MenuSaysTheAccepted
  <2>3. backfill'.at # "recorded" /\ UNCHANGED <<check, accepted>>
    BY <1>16, TypesMeet DEF SaveListed, NoBackfill, ObservedInv, ABackfill, history
  <2> QED BY <2>2, <2>3 DEF MenuInv, MenuSaysTheAccepted
<1>17. ASSUME Grant PROVE MenuInv'
  BY <1>17 DEF MenuInv, MenuSaysTheAccepted, ObservedInv, TypeOK, history, Posts, Grants, Grant
<1>18. ASSUME Stop PROVE MenuInv'
  BY <1>18 DEF MenuInv, MenuSaysTheAccepted, ObservedInv, TypeOK, history, NoBackfill,
     Abandoned, Unawaited, Stop
<1>19. ASSUME UNCHANGED vars PROVE MenuInv'
  BY <1>19 DEF MenuInv, MenuSaysTheAccepted, Listed, vars, history
<1> QED BY <1>1, <1>2, <1>3, <1>4, <1>5, <1>6, <1>7, <1>8, <1>9, <1>10, <1>11, <1>12, <1>13,
           <1>14, <1>15, <1>16, <1>17, <1>18, <1>19 DEF Next, PostEnds, CheckStep

(* The menu names only what the monitor accepted (record_membership).      *)
THEOREM MenuAccepted == Spec => []MenuSaysTheAccepted
<1>1. Init => MenuInv
  BY DEF Init, MenuInv, MenuSaysTheAccepted, NoCheck, NoBackfill
<1>2. ObservedInv /\ MenuInv /\ [Next]_vars => MenuInv'
  BY MenuNext
<1>3. MenuInv => MenuSaysTheAccepted
  BY DEF MenuInv
<1> QED BY <1>1, <1>2, <1>3, ObservedAlways, PTL DEF Spec

-------------------------------------------------------------------------------
(* Who reports a second time was stopped by the database.                  *)
SilentInv == NeverSilent /\ \A c \in Checks : check[c].again => check[c].broken

LEMMA SilentNext ==
    ASSUME ObservedInv, SilentInv, [Next]_vars
    PROVE  SilentInv'
<1>1. ASSUME NEW a \in Accounts, Move(a) PROVE SilentInv'
  BY <1>1 DEF SilentInv, NeverSilent, ObservedInv, TypeOK, history, Move
<1>2. ASSUME NEW a \in Accounts, Link(a) PROVE SilentInv'
  BY <1>2 DEF SilentInv, NeverSilent, ObservedInv, TypeOK, history, Link
<1>3. ASSUME NEW a \in Accounts, NEW rights \in Decisions, Decide(a, rights) PROVE SilentInv'
  BY <1>3 DEF SilentInv, NeverSilent, ObservedInv, TypeOK, Decide
<1>4. ASSUME NEW w \in wire, Accept(w) PROVE SilentInv'
  BY <1>4 DEF SilentInv, NeverSilent, ObservedInv, TypeOK, Told, Resumes, Ended, Failing,
     NoCheck, Accept
<1>5. ASSUME NEW w \in wire, Refuse(w) PROVE SilentInv'
  BY <1>5 DEF SilentInv, NeverSilent, ObservedInv, TypeOK, history, Told, Resumes, Ended,
     Failing, NoCheck, Refuse
<1>6. ASSUME NEW w \in wire, GiveUp(w) PROVE SilentInv'
  BY <1>6 DEF SilentInv, NeverSilent, ObservedInv, TypeOK, history, Told, Resumes, Ended,
     Failing, NoCheck, Abandoned, GiveUp
<1>7. ASSUME NEW c \in Checks, NEW a \in Accounts, SignIn(c, a) PROVE SilentInv'
  BY <1>7 DEF SilentInv, NeverSilent, ObservedInv, TypeOK, NoCheck, SignIn
<1>8. ASSUME NEW c \in Checks, Look(c) PROVE SilentInv'
  BY <1>8 DEF SilentInv, NeverSilent, ObservedInv, TypeOK, history, Ended, Failing, NoCheck,
     Leaves, Look
<1>9. ASSUME NEW c \in Checks, Ask(c) PROVE SilentInv'
  BY <1>9, CheckStepKeeps DEF SilentInv, NeverSilent, CheckStep
<1>10. ASSUME NEW c \in Checks, Record(c) PROVE SilentInv'
  BY <1>10 DEF SilentInv, NeverSilent, ObservedInv, TypeOK, history, Posts, Record
<1>11. ASSUME NEW c \in Checks, Save(c) PROVE SilentInv'
  BY <1>11, CheckStepKeeps DEF SilentInv, NeverSilent, CheckStep
<1>12. ASSUME NEW c \in Checks, Report(c) PROVE SilentInv'
  BY <1>12, CheckStepKeeps DEF SilentInv, NeverSilent, CheckStep
<1>13. ASSUME NEW c \in Checks, Die(c) PROVE SilentInv'
  BY <1>13 DEF SilentInv, NeverSilent, ObservedInv, TypeOK, history, NoCheck, Abandoned,
     Unawaited, Die
<1>14. ASSUME NEW eicOnly \in BOOLEAN, Plan(eicOnly) PROVE SilentInv'
  <2>1. \A c \in Checks : check'[c] = [check[c] EXCEPT !.alone = FALSE] /\ check[c] \in ACheck
    BY <1>14, TypesMeet DEF Plan, ObservedInv
  <2> QED BY <2>1 DEF SilentInv, NeverSilent, ACheck
<1>15. ASSUME NEW a \in Accounts, Turn(a) PROVE SilentInv'
  BY <1>15 DEF SilentInv, NeverSilent, ObservedInv, TypeOK, Listed, history, Posts, Turn
<1>16. ASSUME SaveListed PROVE SilentInv'
  BY <1>16 DEF SilentInv, NeverSilent, ObservedInv, TypeOK, Listed, history, NoBackfill,
     Saved, SaveListed
<1>17. ASSUME Grant PROVE SilentInv'
  BY <1>17 DEF SilentInv, NeverSilent, ObservedInv, TypeOK, history, Posts, Grants, Grant
<1>18. ASSUME Stop PROVE SilentInv'
  BY <1>18 DEF SilentInv, NeverSilent, ObservedInv, TypeOK, history, NoBackfill, Abandoned,
     Unawaited, Stop
<1>19. ASSUME UNCHANGED vars PROVE SilentInv'
  BY <1>19 DEF SilentInv, NeverSilent, vars, history
<1> QED BY <1>1, <1>2, <1>3, <1>4, <1>5, <1>6, <1>7, <1>8, <1>9, <1>10, <1>11, <1>12, <1>13,
           <1>14, <1>15, <1>16, <1>17, <1>18, <1>19 DEF Next, PostEnds, CheckStep

(* No check of a linked account ends without a word (refresh_for).         *)
THEOREM NotSilent == Spec => []NeverSilent
<1>1. Init => SilentInv
  BY DEF Init, SilentInv, NeverSilent, NoCheck
<1>2. ObservedInv /\ SilentInv /\ [Next]_vars => SilentInv'
  BY SilentNext
<1>3. SilentInv => NeverSilent
  BY DEF SilentInv
<1> QED BY <1>1, <1>2, <1>3, ObservedAlways, PTL DEF Spec

-------------------------------------------------------------------------------
(* A check alone has its account to itself, and settles it when recorded;  *)
(* a settled account has nobody at work on it.                             *)
LoneInv ==
    /\ \A c \in Checks : check[c].alone =>
          /\ check[c].at \in {"signed", "asking", "observed", "recording", "recorded"}
          /\ \A d \in Checks \ {c} : check[d].at # "over" => check[d].account # check[c].account
          /\ backfill.at = "over"
          /\ \A w \in wire : w.account = check[c].account => w.by = c
          /\ settled[check[c].account] = "unset"
          /\ check[c].at = "recorded" =>
                /\ upstream[check[c].account].eic = check[c].answer
                /\ ~upstream[check[c].account].failed
    /\ \A a \in Accounts : settled[a] # "unset" => ~Touches(a)
    /\ LoneCheckSettles

\* The end of a post, however it ends, leaves the checks alone their accounts.
LEMMA LonePostEnds ==
    ASSUME ObservedInv, LoneInv, NEW w \in wire, NEW answered \in BOOLEAN, Resumes(w, answered),
           \A v \in wire' : v \in wire \ {w} \/ (v.account = w.account /\ ~answered),
           \A a \in Accounts \ {w.account} : upstream'[a] = upstream[a],
           answered /\ w.field = "eic" =>
               upstream'[w.account].eic = w.value /\ ~upstream'[w.account].failed,
           UNCHANGED <<status, settled>>
    PROVE  LoneInv'
<1>1. ASSUME NEW c \in Checks, check'[c].alone
      PROVE  /\ check'[c].at \in {"signed", "asking", "observed", "recording", "recorded"}
             /\ \A d \in Checks \ {c} : check'[d].at # "over" => check'[d].account # check'[c].account
             /\ backfill'.at = "over"
             /\ \A v \in wire' : v.account = check'[c].account => v.by = c
             /\ settled'[check'[c].account] = "unset"
             /\ check'[c].at = "recorded" =>
                   /\ upstream'[check'[c].account].eic = check'[c].answer
                   /\ ~upstream'[check'[c].account].failed
  <2>1. check[c].alone /\ check'[c].at # "over" /\ check'[c].account = check[c].account
    BY <1>1, ResumesCheck, ResumesOthers DEF LoneInv
  <2>2. check[c].account \in Accounts
    BY <2>1 DEF ObservedInv, ValuesInv, LoneInv
  <2>3. \A d \in Checks \ {c} : check'[d].at # "over" => check'[d].account # check[c].account
    <3>1. ASSUME NEW d \in Checks \ {c}, check'[d].at # "over" PROVE check[d].at # "over" /\ check'[d].account = check[d].account
      <4>1. CASE d = w.by
        BY <3>1, <4>1, ResumesCheck DEF ObservedInv, FlowInv
      <4>2. CASE d # w.by
        BY <3>1, <4>2, ResumesOthers
      <4> QED BY <4>1, <4>2
    <3> QED BY <2>1, <3>1 DEF LoneInv
  <2>4. backfill'.at = "over"
    BY <2>1, ResumesOthers DEF LoneInv
  <2>5. CASE w.by = c
    <3>1. answered /\ w.field = "eic" /\ w.account = check[c].account /\ check'[c].answer = w.value
          /\ check'[c].at = "recorded"
      BY <1>1, <2>5, ResumesCheck
    <3> QED BY <2>1, <2>2, <2>3, <2>4, <3>1 DEF LoneInv
  <2>6. CASE w.by # c
    <3>1. check'[c] = check[c] /\ w.account # check[c].account
      BY <2>1, <2>6, ResumesOthers DEF LoneInv
    <3> QED BY <2>1, <2>2, <2>3, <2>4, <3>1 DEF LoneInv
  <2> QED BY <2>5, <2>6
<1>2. ASSUME NEW a \in Accounts, settled'[a] # "unset" PROVE ~Touches(a)'
  <2>1. ~Touches(a) /\ w.account # a
    BY <1>2 DEF LoneInv, Touches
  <2>2. \A d \in Checks : check'[d].at # "over" => check'[d].account # a
    <3>1. ASSUME NEW d \in Checks, check'[d].at # "over" PROVE check[d].at # "over" /\ check'[d].account = check[d].account
      <4>1. CASE d = w.by
        BY <3>1, <4>1, ResumesCheck DEF ObservedInv, FlowInv
      <4>2. CASE d # w.by
        BY <3>1, <4>2, ResumesOthers
      <4> QED BY <4>1, <4>2
    <3> QED BY <2>1, <3>1 DEF Touches
  <2> QED BY <2>1, <2>2, ResumesOthers DEF Touches
<1>3. LoneCheckSettles'
  BY DEF LoneInv, LoneCheckSettles, Touches
<1> QED BY <1>1, <1>2, <1>3 DEF LoneInv

LEMMA LoneNext ==
    ASSUME ObservedInv, LoneInv, [Next]_vars
    PROVE  LoneInv'
<1>1. ASSUME NEW a \in Accounts, Move(a) PROVE LoneInv'
  BY <1>1 DEF LoneInv, LoneCheckSettles, Touches, ObservedInv, TypeOK, history, Move
<1>2. ASSUME NEW a \in Accounts, Link(a) PROVE LoneInv'
  BY <1>2 DEF LoneInv, LoneCheckSettles, Touches, ObservedInv, TypeOK, history, Link
<1>3. ASSUME NEW a \in Accounts, NEW rights \in Decisions, Decide(a, rights) PROVE LoneInv'
  BY <1>3 DEF LoneInv, LoneCheckSettles, Touches, ObservedInv, TypeOK, Decide
<1>4. ASSUME NEW w \in wire, Accept(w) PROVE LoneInv'
  <2>1. \A a \in Accounts \ {w.account} : upstream'[a] = upstream[a]
    BY <1>4 DEF Accept, ObservedInv, TypeOK
  <2>2. w.field = "eic" => upstream'[w.account].eic = w.value /\ ~upstream'[w.account].failed
    BY <1>4, TypesMeet DEF Accept, ObservedInv, TypeOK, Post
  <2> QED BY <1>4, <2>1, <2>2, LonePostEnds DEF Accept
<1>5. ASSUME NEW w \in wire, Refuse(w) PROVE LoneInv'
  BY <1>5, LonePostEnds DEF Refuse, history
<1>6. ASSUME NEW w \in wire, GiveUp(w) PROVE LoneInv'
  BY <1>6, LonePostEnds, AbandonedKeeps, NobodysType DEF GiveUp, history, ObservedInv
<1>7. ASSUME NEW c \in Checks, NEW a \in Accounts, SignIn(c, a) PROVE LoneInv'
  <2>1. /\ check'[c].at = "signed" /\ check'[c].account = a /\ (check'[c].alone => ~Touches(a))
        /\ check[c].at = "over"
        /\ \A d \in Checks \ {c} :
              /\ check'[d].at = check[d].at /\ check'[d].account = check[d].account
              /\ check'[d].answer = check[d].answer
              /\ check'[d].alone => check[d].alone /\ check[d].account # a
    BY <1>7, TypesMeet DEF SignIn, ObservedInv, ACheck, NoCheck
  <2>2. /\ UNCHANGED <<upstream, status, wire, backfill>>
        /\ settled'[a] = "unset" /\ \A b \in Accounts \ {a} : settled'[b] = settled[b]
    BY <1>7 DEF SignIn, ObservedInv, TypeOK
  <2>3. \A d \in Checks : check[d].alone => check[d].account \in Accounts
    BY DEF LoneInv, ObservedInv, ValuesInv
  <2> QED BY <2>1, <2>2, <2>3 DEF LoneInv, LoneCheckSettles, Touches
<1>8. ASSUME NEW c \in Checks, Look(c) PROVE LoneInv'
  BY <1>8 DEF LoneInv, LoneCheckSettles, Touches, ObservedInv, TypeOK, history, Ended,
     Failing, NoCheck, Leaves, Look
<1>9. ASSUME NEW c \in Checks, Ask(c) PROVE LoneInv'
  <2>1. UNCHANGED <<upstream, status, wire, backfill, settled>> /\ check[c].at # "failing"
    BY <1>9 DEF Ask
  <2> QED BY <1>9, <2>1, CheckStepKeeps DEF LoneInv, LoneCheckSettles, Touches, CheckStep
<1>10. ASSUME NEW c \in Checks, Record(c) PROVE LoneInv'
  BY <1>10 DEF LoneInv, LoneCheckSettles, Touches, ObservedInv, TypeOK, history, Posts, Record
<1>11. ASSUME NEW c \in Checks, Save(c) PROVE LoneInv'
  <2>1. check[c].at = "recorded" /\ UNCHANGED <<upstream, wire, backfill>>
    BY <1>11 DEF Save
  <2>2. /\ \A d \in Checks \ {c} : check'[d] = check[d]
        /\ ~check'[c].alone
        /\ check'[c].at # "over" => check'[c].account = check[c].account
    BY <1>11, <2>1, CheckStepKeeps DEF CheckStep
  <2>3. check[c].account \in Accounts
    BY <2>1 DEF ObservedInv, ValuesInv
  <2>4. \A d \in Checks : check'[d].alone => d # c /\ check[d].alone /\ check[d].account # check[c].account
    BY <2>1, <2>2 DEF LoneInv
  <2>5. settled[check[c].account] = "unset"
    BY <2>1, <2>3 DEF LoneInv, Touches
  <2>6. CASE UNCHANGED <<status, settled>>
    BY <2>1, <2>2, <2>3, <2>4, <2>5, <2>6 DEF LoneInv, LoneCheckSettles, Touches
  <2>7. CASE /\ check' = [check EXCEPT ![c] = Ended(c, TRUE)]
             /\ status' = [status EXCEPT ![check[c].account] = Saved(check[c].answer)]
             /\ settled' = [settled EXCEPT ![check[c].account] = IF check[c].alone THEN check[c].answer ELSE @]
    <3>1. /\ check'[c].at = "over"
          /\ status'[check[c].account] = [eic |-> check[c].answer, failed |-> FALSE]
          /\ settled'[check[c].account] = IF check[c].alone THEN check[c].answer ELSE "unset"
          /\ \A b \in Accounts \ {check[c].account} : status'[b] = status[b] /\ settled'[b] = settled[b]
      BY <2>3, <2>5, <2>7, TypesMeet DEF ObservedInv, TypeOK, Saved, Ended, NoCheck
    <3>2. \A w \in wire : w.by # c
      BY <2>1 DEF ObservedInv, FlowInv
    <3>3. \A a \in Accounts : settled'[a] # "unset" => ~Touches(a)'
      BY <2>1, <2>2, <2>3, <3>1, <3>2 DEF LoneInv, Touches
    <3>4. LoneCheckSettles'
      <4>1. ASSUME NEW a \in Accounts, settled'[a] # "unset"
            PROVE  /\ upstream'[a].eic = settled'[a] /\ ~upstream'[a].failed
                   /\ status'[a] = [eic |-> settled'[a], failed |-> FALSE]
        <5>1. CASE a = check[c].account
          BY <2>1, <3>1, <4>1, <5>1 DEF LoneInv
        <5>2. CASE a # check[c].account
          BY <2>1, <3>1, <4>1, <5>2 DEF LoneInv, LoneCheckSettles
        <5> QED BY <5>1, <5>2
      <4> QED BY <4>1 DEF LoneCheckSettles
    <3>5. \A d \in Checks : check[d].alone => check[d].account \in Accounts
      BY DEF LoneInv, ObservedInv, ValuesInv
    <3> QED BY <2>1, <2>2, <2>3, <2>4, <3>1, <3>3, <3>4, <3>5 DEF LoneInv
  <2> QED BY <1>11, <2>6, <2>7 DEF Save
<1>12. ASSUME NEW c \in Checks, Report(c) PROVE LoneInv'
  <2>1. check[c].at = "failing" /\ UNCHANGED <<upstream, backfill, settled>>
    BY <1>12 DEF Report, history
  <2>2. /\ \A d \in Checks \ {c} : check'[d] = check[d]
        /\ ~check'[c].alone
        /\ check'[c].at # "over" => check'[c].account = check[c].account
    BY <1>12, <2>1, CheckStepKeeps DEF CheckStep, LoneInv
  <2>3. \A v \in wire' : v \in wire \/ v.account = check[c].account
    <3>1. wire' = wire \/ wire' = wire \cup {[by |-> c, account |-> check[c].account,
                                             field |-> "failed", value |-> "check_failed"]}
      BY <1>12 DEF Report, Reports, Posts
    <3> QED BY <3>1
  <2>4. check[c].account \in Accounts
    BY <2>1 DEF ObservedInv, ValuesInv
  <2>5. \A b \in Accounts \ {check[c].account} : status'[b] = status[b]
    BY <1>12 DEF Report, ObservedInv, TypeOK
  <2>6. \A d \in Checks : check'[d].alone => d # c /\ check[d].alone /\ check[d].account # check[c].account
    BY <2>1, <2>2 DEF LoneInv
  <2>7. settled[check[c].account] = "unset"
    BY <2>1, <2>4 DEF LoneInv, Touches
  <2> QED BY <2>1, <2>2, <2>3, <2>4, <2>5, <2>6, <2>7 DEF LoneInv, LoneCheckSettles, Touches
<1>13. ASSUME NEW c \in Checks, Die(c) PROVE LoneInv'
  <2>1. \A v \in wire' : (v \in wire /\ v.by # c) \/ (\E u \in wire : u.by = c /\ v.account = u.account)
    <3>1. \A v \in wire' : (v \in wire /\ v.by # c) \/ (\E u \in wire : u.by = c /\ v = [u EXCEPT !.by = Nobody])
      BY <1>13, UnawaitedKeeps DEF Die, ObservedInv, Writers
    <3> QED BY <3>1, NobodysType DEF ObservedInv
  <2>2. UNCHANGED <<upstream, status, backfill, settled>>
    BY <1>13 DEF Die, history
  <2>3. check'[c].at = "over" /\ ~check'[c].alone /\ \A d \in Checks \ {c} : check'[d] = check[d]
    BY <1>13, TypesMeet DEF Die, NoCheck, ObservedInv
  <2> QED BY <2>1, <2>2, <2>3 DEF LoneInv, LoneCheckSettles, Touches
<1>14. ASSUME NEW eicOnly \in BOOLEAN, Plan(eicOnly) PROVE LoneInv'
  BY <1>14 DEF LoneInv, LoneCheckSettles, Touches, ObservedInv, TypeOK, Membership, Plan
<1>15. ASSUME NEW a \in Accounts, Turn(a) PROVE LoneInv'
  BY <1>15 DEF LoneInv, LoneCheckSettles, Touches, ObservedInv, TypeOK, Listed, history,
     Posts, Turn
<1>16. ASSUME SaveListed PROVE LoneInv'
  BY <1>16 DEF LoneInv, LoneCheckSettles, Touches, ObservedInv, TypeOK, Listed, history,
     NoBackfill, Saved, SaveListed
<1>17. ASSUME Grant PROVE LoneInv'
  BY <1>17 DEF LoneInv, LoneCheckSettles, Touches, ObservedInv, TypeOK, history, Posts,
     Grants, Grant
<1>18. ASSUME Stop PROVE LoneInv'
  BY <1>18 DEF LoneInv, LoneCheckSettles, Touches, ObservedInv, TypeOK, history, NoBackfill,
     Abandoned, Unawaited, Stop
<1>19. ASSUME UNCHANGED vars PROVE LoneInv'
  BY <1>19 DEF LoneInv, LoneCheckSettles, Touches, vars, history
<1> QED BY <1>1, <1>2, <1>3, <1>4, <1>5, <1>6, <1>7, <1>8, <1>9, <1>10, <1>11, <1>12, <1>13,
           <1>14, <1>15, <1>16, <1>17, <1>18, <1>19 DEF Next, PostEnds, CheckStep

(* A check that had its account to itself settles what the monitor and the *)
(* menu say, until the next begins (refresh_for, record_membership).       *)
THEOREM LoneSettles == Spec => []LoneCheckSettles
<1>1. Init => LoneInv
  BY DEF Init, LoneInv, LoneCheckSettles, Touches, NoCheck, NoBackfill
<1>2. ObservedInv /\ LoneInv /\ [Next]_vars => LoneInv'
  BY LoneNext
<1>3. LoneInv => LoneCheckSettles
  BY DEF LoneInv
<1> QED BY <1>1, <1>2, <1>3, ObservedAlways, PTL DEF Spec

-------------------------------------------------------------------------------
(* Seen from the monitor's record and the menu's copy, every step is one   *)
(* of AuthorityRecord.                                                     *)

\* The record takes a write as its field says; an eic was observed by then.
LEMMA RecordTakes ==
    ASSUME ObservedInv, NEW w \in wire, Accept(w)
    PROVE  Held!RecordNext
<1>1. /\ w.account \in Accounts
      /\ upstream[w.account] \in [eic : {"unset"} \cup Answers, rights : Rights, failed : BOOLEAN]
      /\ upstream' = [upstream EXCEPT ![w.account] =
            CASE w.field = "eic" -> [@ EXCEPT !.eic = w.value, !.failed = FALSE]
              [] w.field = "rights" -> [@ EXCEPT !.rights = w.value]
              [] OTHER -> [@ EXCEPT !.failed = TRUE]]
      /\ UNCHANGED <<observed, status>>
  BY TypesMeet DEF ObservedInv, TypeOK, Post, Accept
<1>2. CASE w.field = "eic"
  <2>1. w.value \in observed[w.account] /\ w.value \in Answers
    BY <1>1, <1>2 DEF ObservedInv, EicIsObserved, TypeOK
  <2>2. accepted' = [accepted EXCEPT ![w.account] = @ \cup {w.value}]
    BY <1>2 DEF Accept
  <2>3. upstream' = [upstream EXCEPT ![w.account].eic = w.value, ![w.account].failed = FALSE]
    BY <1>1, <1>2 DEF ObservedInv, TypeOK
  <2>4. Held!SetEic(w.account, w.value)
    BY <1>1, <2>1, <2>2, <2>3 DEF Held!SetEic
  <2> QED BY <1>1, <2>1, <2>4 DEF Held!RecordNext
<1>3. CASE w.field = "rights"
  <2>1. w.value \in Rights
    BY <1>3 DEF ObservedInv, ValuesInv
  <2>2. accepted' = accepted
    BY <1>3 DEF Accept
  <2>3. Held!SetRights(w.account, w.value)
    BY <1>1, <1>3, <2>2 DEF Held!SetRights
  <2> QED BY <1>1, <2>1, <2>3 DEF Held!RecordNext
<1>4. CASE w.field \notin {"eic", "rights"}
  <2>1. accepted' = accepted
    BY <1>4 DEF Accept
  <2>2. Held!NoteFailure(w.account)
    BY <1>1, <1>4, <2>1 DEF Held!NoteFailure
  <2> QED BY <1>1, <2>2 DEF Held!RecordNext
<1> QED BY <1>2, <1>3, <1>4

LEMMA RecordStep ==
    ASSUME ObservedInv, MenuInv, [Next]_vars
    PROVE  [Held!RecordNext]_(Held!recordVars)
<1>u. ASSUME UNCHANGED <<observed, upstream, accepted, status>>
      PROVE  [Held!RecordNext]_(Held!recordVars)
  BY <1>u DEF Held!recordVars
<1>t. observed' \in [Accounts -> SUBSET Answers]
  BY ObservedNext DEF ObservedInv, TypeOK
<1>1. ASSUME NEW a \in Accounts, NEW rights \in Decisions, Decide(a, rights)
      PROVE  Held!RecordNext
  <2>1. Held!SetRights(a, rights)
    BY <1>1 DEF Decide, Held!SetRights
  <2> QED BY <2>1, DecisionsAreRights DEF Held!RecordNext, Rights
<1>2. ASSUME NEW w \in wire, Accept(w) PROVE Held!RecordNext
  BY <1>2, RecordTakes
<1>3. ASSUME NEW c \in Checks, Ask(c) PROVE Held!RecordNext
  <2>1. \A a \in Accounts : observed[a] \subseteq observed'[a]
    <3>1. observed \in [Accounts -> SUBSET Answers]
      BY DEF ObservedInv, TypeOK
    <3>2. \/ observed' = observed
          \/ observed' = [observed EXCEPT ![check[c].account] =
                              observed[check[c].account] \cup {Membership(check[c].account)}]
      BY <1>3 DEF Ask
    <3> QED BY ONLY <3>1, <3>2
  <2>2. Held!Learn
    BY <1>t, <1>3, <2>1 DEF Ask, Held!Learn
  <2> QED BY <2>2 DEF Held!RecordNext
<1>4. ASSUME NEW eicOnly \in BOOLEAN, Plan(eicOnly) PROVE Held!RecordNext
  <2>1. \A a \in Accounts : observed[a] \subseteq observed'[a]
    BY <1>4 DEF Plan, ObservedInv, TypeOK
  <2>2. Held!Learn
    BY <1>t, <1>4, <2>1 DEF Plan, Held!Learn
  <2> QED BY <2>2 DEF Held!RecordNext
\* What is saved was accepted, by the check's own post or by one before it.
<1>5. ASSUME NEW a \in Accounts, NEW answer \in accepted[a],
             status' = [status EXCEPT ![a] = Saved(answer)],
             UNCHANGED <<observed, upstream, accepted>>
      PROVE  Held!RecordNext
  <2>1. answer \in Answers
    BY <1>5 DEF ObservedInv, TypeOK
  <2>2. Held!Show(a, answer)
    BY <1>5 DEF Held!Show, Saved
  <2> QED BY <2>1, <2>2 DEF Held!RecordNext
<1>6. ASSUME NEW c \in Checks, Save(c) PROVE [Held!RecordNext]_(Held!recordVars)
  <2>1. check[c].account \in Accounts /\ check[c].answer \in accepted[check[c].account]
    BY <1>6 DEF Save, ObservedInv, ValuesInv, MenuInv
  <2>2. UNCHANGED <<observed, upstream, accepted>>
    BY <1>6 DEF Save
  <2>3. status' = status \/ status' = [status EXCEPT ![check[c].account] = Saved(check[c].answer)]
    BY <1>6 DEF Save
  <2> QED BY <1>u, <1>5, <2>1, <2>2, <2>3
<1>7. ASSUME SaveListed PROVE [Held!RecordNext]_(Held!recordVars)
  <2>1. backfill.account \in Accounts /\ Listed(backfill.account) \in accepted[backfill.account]
    BY <1>7 DEF SaveListed, ObservedInv, ValuesInv, MenuInv
  <2>2. UNCHANGED <<observed, upstream, accepted>>
    BY <1>7 DEF SaveListed, history
  <2>3. status' = status \/ status' = [status EXCEPT ![backfill.account] = Saved(Listed(backfill.account))]
    BY <1>7 DEF SaveListed
  <2> QED BY <1>u, <1>5, <2>1, <2>2, <2>3
<1>8. ASSUME NEW c \in Checks, Report(c) PROVE [Held!RecordNext]_(Held!recordVars)
  <2>1. check[c].account \in Accounts
    BY <1>8 DEF Report, ObservedInv, ValuesInv
  <2>2. UNCHANGED <<observed, upstream, accepted>>
    BY <1>8 DEF Report, history
  <2>3. CASE status' = [status EXCEPT ![check[c].account].failed = TRUE]
    <3>1. Held!ShowFailure(check[c].account)
      BY <2>2, <2>3 DEF Held!ShowFailure
    <3> QED BY <2>1, <3>1 DEF Held!RecordNext
  <2>4. CASE status' = status
    BY <1>u, <2>2, <2>4
  <2> QED BY <1>8, <2>3, <2>4 DEF Report
<1>9. ASSUME \/ \E a \in Accounts : Move(a) \/ Link(a) \/ Turn(a) \/ \E c \in Checks : SignIn(c, a)
             \/ \E w \in wire : Refuse(w) \/ GiveUp(w)
             \/ \E c \in Checks : Look(c) \/ Record(c) \/ Die(c)
             \/ Grant \/ Stop \/ UNCHANGED vars
      PROVE  UNCHANGED <<observed, upstream, accepted, status>>
  BY <1>9 DEF Move, Link, Turn, SignIn, Refuse, GiveUp, Look, Record, Die, Grant, Stop, vars,
     history
<1> QED BY <1>u, <1>1, <1>2, <1>3, <1>4, <1>6, <1>7, <1>8, <1>9 DEF Next, PostEnds, CheckStep

(* However sign-ins, the backfill and late writes overlap, fail and get    *)
(* lost, the monitor's record and the menu's copy move as AuthorityRecord  *)
(* lets them (record_membership, report_failure, record_rights).           *)
THEOREM AuthorityKeepsRecord == Spec => ImplementsRecord
<1>1. Init => MenuInv
  BY DEF Init, MenuInv, MenuSaysTheAccepted, NoCheck, NoBackfill
<1>2. Init => Held!RecordInit
  BY DEF Init, Held!RecordInit
<1>3. ObservedInv /\ MenuInv /\ [Next]_vars => MenuInv'
  BY MenuNext
<1>4. ObservedInv /\ MenuInv /\ [Next]_vars => [Held!RecordNext]_(Held!recordVars)
  BY RecordStep
<1> QED BY <1>1, <1>2, <1>3, <1>4, ObservedAlways, PTL
        DEF Spec, ImplementsRecord, Held!RecordSpec
===============================================================================
