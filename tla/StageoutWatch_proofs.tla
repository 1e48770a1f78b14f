-------------------------- MODULE StageoutWatch_proofs --------------------------
(***************************************************************************)
(* Proofs about StageoutWatch for every threshold: type correctness, of    *)
(* whom stalled is said, and which signal the verdict follows.             *)
(***************************************************************************)
EXTENDS StageoutWatch, TLAPS

\* The age of the youngest row that is no wipe's is that of the last pass.
Younger(a, b) == IF a <= b THEN a ELSE b
HeardInv == heardAge = Younger(passAge["swf-sweeper"], passAge[""])

WatchInv == TypeOK /\ HeardInv

-------------------------------------------------------------------------------
LEMMA AgedType == ASSUME NEW n \in Sights PROVE Aged(n) \in Sights
BY WatchAssumption DEF Sights, Never, Aged

\* Ageing keeps the order of two ages.
LEMMA AgedYounger ==
    ASSUME NEW a \in Sights, NEW b \in Sights
    PROVE  Aged(Younger(a, b)) = Younger(Aged(a), Aged(b))
BY WatchAssumption DEF Sights, Never, Aged, Younger

LEMMA MinOfTwo ==
    ASSUME NEW a \in Sights, NEW b \in Sights
    PROVE  Min({a, b}) = Younger(a, b)
<1>1. Younger(a, b) \in {a, b} /\ \A y \in {a, b} : Younger(a, b) <= y
  BY WatchAssumption DEF Sights, Never, Younger
<1>2. \A x \in {a, b} : (\A y \in {a, b} : x <= y) => x = Younger(a, b)
  BY WatchAssumption DEF Sights, Never, Younger
<1> QED BY <1>1, <1>2 DEF Min

LEMMA LastPassIsHeard == WatchInv => LastPass = heardAge
<1> SUFFICES ASSUME WatchInv PROVE LastPass = heardAge
  OBVIOUS
<1>1. {passAge[r] : r \in Reporters \ {"gateway-wipe"}} = {passAge["swf-sweeper"], passAge[""]}
  BY DEF Reporters
<1>2. passAge["swf-sweeper"] \in Sights /\ passAge[""] \in Sights
  BY DEF WatchInv, TypeOK, Reporters
<1> QED BY <1>1, <1>2, MinOfTwo DEF LastPass, WatchInv, HeardInv

LEMMA InitWatch == Init => WatchInv
<1> SUFFICES ASSUME Init PROVE WatchInv
  OBVIOUS
<1>1. Never \in Sights /\ 0 \in 0..MaxHour
  BY WatchAssumption DEF Sights, Never
<1>2. TypeOK
  BY <1>1 DEF Init, TypeOK
<1>3. passAge["swf-sweeper"] = Never /\ passAge[""] = Never /\ heardAge = Never
  BY DEF Init, Reporters
<1> QED BY <1>2, <1>3 DEF WatchInv, HeardInv, Younger

LEMMA StepWatch == WatchInv /\ [Next]_vars => WatchInv'
<1> SUFFICES ASSUME WatchInv, [Next]_vars PROVE WatchInv'
  OBVIOUS
<1>r. "swf-sweeper" \in Reporters /\ "" \in Reporters
  BY DEF Reporters
<1>z. 0 \in Sights /\ Sights \subseteq Int
  BY WatchAssumption DEF Sights, Never
<1>1. ASSUME NEW r \in Reporters, PassApplied(r) PROVE WatchInv'
  <2>1. TypeOK'
    BY <1>1, <1>z DEF PassApplied, WatchInv, TypeOK, signals
  <2>2. \A x \in Sights : x >= 0
    BY WatchAssumption DEF Sights, Never
  <2>a. passAge["swf-sweeper"] \in Sights /\ passAge[""] \in Sights
    BY <1>r DEF WatchInv, TypeOK
  <2>3. HeardInv'
    <3>1. CASE r = "gateway-wipe"
      <4>1. heardAge' = heardAge /\ passAge'["swf-sweeper"] = passAge["swf-sweeper"]
            /\ passAge'[""] = passAge[""]
        BY <1>1, <1>r, <3>1 DEF PassApplied, WatchInv, TypeOK
      <4> QED BY <4>1 DEF WatchInv, HeardInv
    <3>2. CASE r = "swf-sweeper"
      <4>1. heardAge' = 0 /\ passAge'["swf-sweeper"] = 0 /\ passAge'[""] = passAge[""]
        BY <1>1, <1>r, <3>2 DEF PassApplied, WatchInv, TypeOK
      <4> QED BY <2>a, <2>2, <4>1 DEF HeardInv, Younger
    <3>3. CASE r = ""
      <4>1. heardAge' = 0 /\ passAge'[""] = 0 /\ passAge'["swf-sweeper"] = passAge["swf-sweeper"]
        BY <1>1, <1>r, <3>3 DEF PassApplied, WatchInv, TypeOK
      <4>2. passAge["swf-sweeper"] >= 0 /\ passAge["swf-sweeper"] \in Int
        BY <2>a, <2>2, <1>z
      <4>3. ASSUME NEW n \in Int, n >= 0 PROVE Younger(n, 0) = 0
        BY <4>3 DEF Younger
      <4> QED BY <4>1, <4>2, <4>3 DEF HeardInv
    <3> QED BY <3>1, <3>2, <3>3 DEF Reporters
  <2> QED BY <2>1, <2>3 DEF WatchInv
<1>2. CASE Commission
  BY <1>2, <1>z DEF Commission, WatchInv, TypeOK, HeardInv, signals
<1>3. CASE Tick
  <2>1. TypeOK'
    BY <1>3, AgedType DEF Tick, WatchInv, TypeOK, signals
  <2>2. HeardInv'
    BY <1>3, <1>r, AgedYounger DEF Tick, WatchInv, TypeOK, HeardInv
  <2> QED BY <2>1, <2>2 DEF WatchInv
<1>4. CASE Recount
  BY <1>4 DEF Recount, WatchInv, TypeOK, HeardInv
<1>5. CASE Reconcile
  BY <1>5 DEF Reconcile, WatchInv, TypeOK, HeardInv
<1>6. CASE Guard
  BY <1>6 DEF Guard, WatchInv, TypeOK, HeardInv
<1>7. CASE UNCHANGED vars
  BY <1>7 DEF vars, WatchInv, TypeOK, HeardInv
<1> QED BY <1>1, <1>2, <1>3, <1>4, <1>5, <1>6, <1>7 DEF Next

LEMMA WatchInvariant == Spec => []WatchInv
BY InitWatch, StepWatch, PTL DEF Spec

-------------------------------------------------------------------------------
\* Every variable stays in its type, whatever the thresholds.
THEOREM TypeCorrect == Spec => []TypeOK
<1>1. WatchInv => TypeOK
  BY DEF WatchInv
<1> QED BY <1>1, WatchInvariant, PTL

\* Stalled is said of a sweeper that is silent, and of no other.
THEOREM StalledMeansSilent == Spec => []StallIsSilence
<1>1. WatchInv => StallIsSilence
  <2> SUFFICES ASSUME WatchInv PROVE StallIsSilence
    OBVIOUS
  <2>1. heardAge \in 0..(Stall + 2) /\ expected \in 0..(Stall + 2) /\ Stall \in Nat
    BY WatchAssumption DEF WatchInv, TypeOK, Sights, Never
  <2> QED BY <2>1, LastPassIsHeard DEF StallIsSilence, Stalled, Never
<1> QED BY <1>1, WatchInvariant, PTL

\* The verdict is the gravest signal's.
THEOREM VerdictFollowsWorst == Spec => []VerdictIsWorst
<1>1. WatchInv => VerdictIsWorst
  <2> SUFFICES ASSUME WatchInv PROVE VerdictIsWorst
    OBVIOUS
  <2>1. hour \in Nat /\ RateCeiling \in Nat
    BY WatchAssumption DEF WatchInv, TypeOK
  <2>2. hour <= RateCeiling <=> ~ (hour > RateCeiling)
    BY <2>1
  <2>3. "alarm" # "ok" /\ "warning" # "ok" /\ "warning" # "alarm"
    OBVIOUS
  <2> HIDE DEF Stalled
  <2> QED BY <2>2, <2>3 DEF VerdictIsWorst, Verdict
<1> QED BY <1>1, WatchInvariant, PTL
===============================================================================
