-------------------------- MODULE StageoutGuard_proofs --------------------------
(***************************************************************************)
(* Proofs about StageoutGuard for every number of keys, ceiling and window: *)
(* type correctness, and what the guard may say and commit.                *)
(***************************************************************************)
EXTENDS StageoutGuard, TLAPS

(* A run that has found or made all keys inactive remembers it truly while *)
(* nobody switches one on; a run that is disabling keys still has every    *)
(* active one on its list, and was told to disable them.                   *)
StopInv == guard.stopped /\ ~ touched => Active = {}
TodoInv == guard.phase = "disable" /\ ~ touched => Active \subseteq guard.todo
CommitInv ==
    guard.phase = "commit" /\ guard.breach /\ guard.armed /\ ~ touched => Active = {}
ArmedInv == guard.phase \in {"list", "disable"} => guard.breach /\ guard.armed

StopsInv ==
    /\ TypeOK
    /\ StopInv
    /\ TodoInv
    /\ RecordedStopHolds
    /\ CommitInv
    /\ ArmedInv

-------------------------------------------------------------------------------
LEMMA BreachIsBoolean == Breach \in BOOLEAN
BY DEF Breach

\* Ages move up by one within the window.
LEMMA OlderType ==
    ASSUME NEW f \in [Ages -> Nat]
    PROVE  Older(f) \in [Ages -> Nat]
<1>1. ASSUME NEW a \in Ages PROVE (IF a = 0 THEN 0 ELSE f[a - 1]) \in Nat
  <2>1. CASE a = 0
    BY <2>1
  <2>2. CASE a # 0
    <3>1. a - 1 \in Ages
      BY <2>2, WindowsAssumption DEF Ages
    <3> QED BY <2>2, <3>1
  <2> QED BY <2>1, <2>2
<1> QED BY <1>1 DEF Older

LEMMA InitTypeOK == Init => TypeOK
<1> SUFFICES ASSUME Init PROVE TypeOK
  OBVIOUS
<1>1. {rows, status, written} \subseteq [Ages -> Nat]
  BY DEF Init
<1>2. keys \in [KeyIds -> {"none", "Active", "Inactive"}]
  BY DEF Init
<1>3. acts \in 0..MaxOperator /\ faults \in 0..MaxFaults
  BY CeilingsAssumption DEF Init
<1> QED BY <1>1, <1>2, <1>3 DEF Init, TypeOK, IdleGuard

LEMMA StepTypeOK == TypeOK /\ [Next]_vars => TypeOK'
<1> SUFFICES ASSUME TypeOK, [Next]_vars PROVE TypeOK'
  OBVIOUS
<1> USE CeilingsAssumption
<1>z. 0 \in Ages
  BY WindowsAssumption DEF Ages
<1>1. CASE Write
  BY <1>1, <1>z DEF Write, TypeOK
<1>2. ASSUME NEW a \in Ages, Retire(a) PROVE TypeOK'
  BY <1>2 DEF Retire, TypeOK
<1>3. CASE Tick
  BY <1>3, OlderType DEF Tick, TypeOK
<1>4. ASSUME NEW k \in KeyIds, NEW s \in {"none", "Active", "Inactive"}, SwitchKey(k, s)
      PROVE  TypeOK'
  BY <1>4 DEF SwitchKey, TypeOK, tableVars
<1>5. ASSUME NEW armed \in BOOLEAN, GuardCount(armed) PROVE TypeOK'
  BY <1>5, BreachIsBoolean DEF GuardCount, TypeOK, IdleGuard, tableVars
<1>6. CASE GuardStatus
  <2> PICK read \in BOOLEAN :
        /\ IF read THEN UNCHANGED faults ELSE Fault
        /\ guard' = [guard EXCEPT !.stopped = read /\ Stopped,
             !.phase = IF MustDisable(read /\ Stopped) THEN "list" ELSE "commit"]
    BY <1>6 DEF GuardStatus
  <2>1. faults' \in 0..MaxFaults
    BY DEF TypeOK, Fault
  <2>2. guard' \in [phase : {"idle", "status", "list", "disable", "commit"},
                    breach : BOOLEAN, armed : BOOLEAN, stopped : BOOLEAN,
                    todo : SUBSET KeyIds]
    BY DEF TypeOK, Stopped, MustDisable
  <2> QED BY <1>6, <2>1, <2>2 DEF GuardStatus, TypeOK, tableVars
<1>7. CASE GuardList
  BY <1>7 DEF GuardList, TypeOK, IdleGuard, tableVars, ToDisable, Active
<1>8. ASSUME NEW k \in KeyIds, GuardDisable(k) PROVE TypeOK'
  BY <1>8 DEF GuardDisable, TypeOK, tableVars, Off
<1>9. ASSUME NEW k \in KeyIds, GuardMisses(k) PROVE TypeOK'
  BY <1>9 DEF GuardMisses, TypeOK, tableVars, IdleGuard
<1>10. CASE GuardAborts
  BY <1>10 DEF GuardAborts, TypeOK, tableVars, IdleGuard, Fault
<1>11. CASE GuardCommit
  BY <1>11 DEF GuardCommit, TypeOK, tableVars, IdleGuard
<1>12. CASE UNCHANGED vars
  BY <1>12 DEF vars, TypeOK
<1> QED
  BY <1>1, <1>2, <1>3, <1>4, <1>5, <1>6, <1>7, <1>8, <1>9, <1>10, <1>11, <1>12
  DEF Next, GuardStep

-------------------------------------------------------------------------------
LEMMA InitStopsInv == Init => StopsInv
BY InitTypeOK DEF Init, StopsInv, StopInv, TodoInv, RecordedStopHolds, CommitInv, ArmedInv, IdleGuard

LEMMA StepStopsInv == StopsInv /\ [Next]_vars => StopsInv'
<1> SUFFICES ASSUME StopsInv, [Next]_vars PROVE StopsInv'
  OBVIOUS
<1>t. TypeOK /\ TypeOK'
  BY StepTypeOK DEF StopsInv
<1>r. guard \in [phase : {"idle", "status", "list", "disable", "commit"},
                 breach : BOOLEAN, armed : BOOLEAN, stopped : BOOLEAN,
                 todo : SUBSET KeyIds]
  BY <1>t DEF TypeOK
\* What no key and no memory of a run changes disturbs nothing.
<1>u. ASSUME UNCHANGED <<keys, guard, lastGuard, touched, overtaken>> PROVE StopsInv'
  BY <1>u, <1>t DEF StopsInv, StopInv, TodoInv, RecordedStopHolds, CommitInv, ArmedInv, Active
\* A run that ends or begins with nothing recorded.
<1>e. ASSUME guard'.phase \notin {"list", "disable", "commit"}, ~ guard'.stopped,
             UNCHANGED <<keys, lastGuard, overtaken>>
      PROVE  StopsInv'
  BY <1>e, <1>t DEF StopsInv, StopInv, TodoInv, RecordedStopHolds, CommitInv, ArmedInv, Active
<1>1. CASE Write
  BY <1>1, <1>u DEF Write
<1>2. ASSUME NEW a \in Ages, Retire(a) PROVE StopsInv'
  BY <1>2, <1>u DEF Retire
<1>3. CASE Tick
  BY <1>3, <1>u DEF Tick
<1>4. ASSUME NEW k \in KeyIds, NEW s \in {"none", "Active", "Inactive"}, SwitchKey(k, s)
      PROVE  StopsInv'
  <2>1. CASE s = "Active"
    BY <1>4, <1>t, <2>1
    DEF SwitchKey, StopsInv, StopInv, TodoInv, RecordedStopHolds, CommitInv, ArmedInv
  <2>2. CASE s # "Active"
    <3>1. Active' \subseteq Active
      BY <1>4, <1>t, <2>2 DEF SwitchKey, Active, TypeOK
    <3>2. UNCHANGED <<guard, lastGuard>> /\ (touched' => touched) /\ (touched => touched')
          /\ (overtaken => overtaken')
      BY <1>4, <1>t, <2>2 DEF SwitchKey, TypeOK
    <3> QED
      BY <1>t, <3>1, <3>2
      DEF StopsInv, StopInv, TodoInv, RecordedStopHolds, CommitInv, ArmedInv
  <2> QED BY <2>1, <2>2
<1>5. ASSUME NEW armed \in BOOLEAN, GuardCount(armed) PROVE StopsInv'
  BY <1>5, <1>e DEF GuardCount, IdleGuard
<1>6. CASE GuardStatus
  <2> PICK read \in BOOLEAN :
        guard' = [guard EXCEPT !.stopped = read /\ Stopped,
             !.phase = IF MustDisable(read /\ Stopped) THEN "list" ELSE "commit"]
    BY <1>6 DEF GuardStatus
  <2>1. UNCHANGED <<keys, lastGuard, touched, overtaken>> /\ Active' = Active
    BY <1>6 DEF GuardStatus, Active
  <2>2. /\ guard'.stopped => Active = {}
        /\ guard'.phase \in {"list", "commit"}
        /\ guard'.phase = "commit" /\ guard'.breach /\ guard'.armed => Active = {}
        /\ guard'.phase = "list" => guard'.breach /\ guard'.armed
    BY <1>r DEF Stopped, MustDisable
  <2> QED
    BY <1>t, <2>1, <2>2
    DEF StopsInv, StopInv, TodoInv, RecordedStopHolds, CommitInv, ArmedInv
<1>7. CASE GuardList
  <2>1. CASE ToDisable = {}
    BY <1>7, <1>e, <2>1 DEF GuardList, IdleGuard
  <2>2. CASE ToDisable # {}
    <3>1. guard' = [guard EXCEPT !.phase = "disable", !.todo = Active]
          /\ UNCHANGED <<keys, lastGuard, touched, overtaken>> /\ Active' = Active
      BY <1>7, <2>2 DEF GuardList, ToDisable, Active
    <3>2. guard.breach /\ guard.armed
      BY <1>7 DEF GuardList, StopsInv, ArmedInv
    <3>3. /\ guard'.phase = "disable" /\ guard'.todo = Active /\ guard'.stopped = guard.stopped
          /\ guard'.breach = guard.breach /\ guard'.armed = guard.armed
      BY <1>r, <3>1
    <3> QED
      BY <1>t, <3>1, <3>2, <3>3
      DEF StopsInv, StopInv, TodoInv, RecordedStopHolds, CommitInv, ArmedInv
  <2> QED BY <2>1, <2>2
<1>8. ASSUME NEW k \in KeyIds, GuardDisable(k) PROVE StopsInv'
  <2>1. Active' = Active \ {k}
    BY <1>8, <1>t DEF GuardDisable, Active, TypeOK, Off
  <2>2. UNCHANGED <<lastGuard, touched, overtaken>> /\ guard.phase = "disable"
        /\ guard'.todo = guard.todo \ {k}
        /\ guard'.phase = (IF guard.todo = {k} THEN "commit" ELSE "disable")
        /\ (guard'.stopped => guard.todo = {k})
        /\ guard'.breach /\ guard'.armed
    BY <1>8, <1>r DEF GuardDisable, StopsInv, ArmedInv
  <2>3. ~ touched => Active' \subseteq guard'.todo
    BY <2>1, <2>2 DEF StopsInv, TodoInv
  <2>4. ~ touched /\ guard.todo = {k} => Active' = {}
    BY <2>2, <2>3
  <2> QED
    BY <1>t, <2>1, <2>2, <2>3, <2>4
    DEF StopsInv, StopInv, TodoInv, RecordedStopHolds, CommitInv, ArmedInv
<1>9. ASSUME NEW k \in KeyIds, GuardMisses(k) PROVE StopsInv'
  BY <1>9, <1>e DEF GuardMisses, IdleGuard
<1>10. CASE GuardAborts
  BY <1>10, <1>e DEF GuardAborts, IdleGuard
<1>11. CASE GuardCommit
  <2>1. /\ guard' = IdleGuard /\ lastGuard'.stopped = guard.stopped
        /\ overtaken' = touched /\ touched' = touched /\ Active' = Active
    BY <1>11 DEF GuardCommit, Active
  <2> QED
    BY <1>t, <2>1
    DEF StopsInv, StopInv, TodoInv, RecordedStopHolds, CommitInv, ArmedInv, IdleGuard
<1>12. CASE UNCHANGED vars
  BY <1>12, <1>u DEF vars
<1> QED
  BY <1>1, <1>2, <1>3, <1>4, <1>5, <1>6, <1>7, <1>8, <1>9, <1>10, <1>11, <1>12
  DEF Next, GuardStep

-------------------------------------------------------------------------------
\* Every variable stays in its type, whatever the keys, windows and ceilings.
THEOREM TypeCorrect == Spec => []TypeOK
<1>1. Init => TypeOK
  BY InitTypeOK
<1>2. TypeOK /\ [Next]_vars => TypeOK'
  BY StepTypeOK
<1> QED BY <1>1, <1>2, PTL DEF Spec

LEMMA StopsInvariant == Spec => []StopsInv
<1>1. Init => StopsInv
  BY InitStopsInv
<1>2. StopsInv /\ [Next]_vars => StopsInv'
  BY StepStopsInv
<1> QED BY <1>1, <1>2, PTL DEF Spec

\* A stop that last_guard records is true until somebody switches a key on.
THEOREM RecordedStop == Spec => []RecordedStopHolds
<1>1. StopsInv => RecordedStopHolds
  BY DEF StopsInv
<1> QED BY <1>1, StopsInvariant, PTL

\* No step but an operator's takes away a key, unless the run is armed and
\* its count breached.
LEMMA OnlyBreachTakes ==
    ASSUME StopsInv, [Next]_vars, NEW k \in KeyIds, keys[k] = "Active", keys'[k] # "Active"
    PROVE  acts' # acts \/ (guard.breach /\ guard.armed)
<1>1. CASE \E x \in KeyIds, s \in {"none", "Active", "Inactive"} : SwitchKey(x, s)
  BY <1>1 DEF SwitchKey, StopsInv, TypeOK
<1>2. CASE \E x \in KeyIds : GuardDisable(x)
  BY <1>2 DEF GuardDisable, StopsInv, ArmedInv
<1>3. CASE UNCHANGED keys
  BY <1>3
<1> QED
  BY <1>1, <1>2, <1>3
  DEF Next, GuardStep, vars, tableVars, Write, Retire, Tick, GuardCount, GuardStatus, GuardList,
      GuardMisses, GuardAborts, GuardCommit

\* The guard takes keys away in an armed run that saw a breach alone, and such
\* a run commits only when no key is active that nobody has just switched on.
THEOREM BreachFirst == Spec => BreachBeforeCommit
<1> DEFINE Sound == /\ \A k \in KeyIds : keys[k] = "Active" /\ keys'[k] # "Active"
                          => acts' # acts \/ (guard.breach /\ guard.armed)
                    /\ guard.phase = "commit" /\ guard.breach /\ guard.armed /\ ~ touched
                          => Active = {}
<1>1. StopsInv /\ [Next]_vars => [Sound]_vars
  BY OnlyBreachTakes DEF StopsInv, CommitInv
<1> QED BY <1>1, StopsInvariant, PTL DEF Spec, BreachBeforeCommit
===============================================================================
