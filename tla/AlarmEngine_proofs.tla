--------------------------- MODULE AlarmEngine_proofs ---------------------------
(***************************************************************************)
(* Proofs about AlarmEngine for any tasks, statuses, runs and rows.        *)
(*                                                                         *)
(* OneActive is inductive once the scans that hold no row of a task count  *)
(* as events it may yet have (Makers).  OneMailPerWindow needs that a      *)
(* mailed event is stamped or about to be (Settled) and that a lone run is *)
(* alone (Apart); ClearsOnlyLapsed that the scan has listed, by each status*)
(* it is past, every task that fires steadily in it (Listed), and that a   *)
(* run knows a task's row for the task's own (SeenOwn).  What a lone run   *)
(* leaves behind follows from what it holds of the tasks that fire all     *)
(* along (Attended) and of those that never do (Unlisted, Swept).          *)
(***************************************************************************)
EXTENDS AlarmEngine, FiniteSetTheorems, TLAPS

LEMMA IdlePlace == Idle \in Places
BY AlarmAssumption DEF Idle, Places, Told

LEMMA Fields ==
  ASSUME NEW p \in Places
  PROVE  /\ p.phase \in {"off", "begun", "scan", "clear", "send", "stamp"}
         /\ {p.mail, p.window, p.alone, p.sound} \subseteq BOOLEAN
         /\ p.seen \in [Tasks -> Events \cup {NoEvent}]
         /\ p.told \in [Tasks -> Told]
         /\ p.at \in 1..(Len(Statuses) + 1)
         /\ p.page \in SUBSET Tasks /\ p.detected \in SUBSET Tasks
         /\ p.bundle \in SUBSET Events
BY DEF Places

\* Places is closed under the updates the actions make.
LEMMA ToPhase ==
  ASSUME NEW p \in Places,
         NEW ph \in {"off", "begun", "scan", "clear", "send", "stamp"}
  PROVE  [p EXCEPT !.phase = ph] \in Places
BY DEF Places

LEMMA ToPhasePage ==
  ASSUME NEW p \in Places, NEW D \in SUBSET Tasks,
         NEW ph \in {"off", "begun", "scan", "clear", "send", "stamp"}
  PROVE  [p EXCEPT !.phase = ph, !.page = D] \in Places
BY DEF Places

LEMMA ToBegun ==
  ASSUME NEW p \in Places, NEW b \in BOOLEAN, NEW c \in BOOLEAN, NEW d \in BOOLEAN
  PROVE  [p EXCEPT !.phase = "begun", !.alone = b, !.mail = c, !.window = d]
           \in Places
BY DEF Places

LEMMA ToScan ==
  ASSUME NEW p \in Places, NEW f \in [Tasks -> Events \cup {NoEvent}],
         NEW g \in [Tasks -> Told]
  PROVE  [p EXCEPT !.phase = "scan", !.seen = f, !.told = g] \in Places
BY DEF Places

LEMMA NewPage ==
  ASSUME NEW p \in Places, NEW D \in SUBSET Tasks
  PROVE  [p EXCEPT !.page = D] \in Places
BY DEF Places

LEMMA NextPage ==
  ASSUME NEW p \in Places, NEW n \in 1..(Len(Statuses) + 1), NEW D \in SUBSET Tasks
  PROVE  [p EXCEPT !.at = n, !.page = D] \in Places
BY DEF Places

LEMMA NewDetected ==
  ASSUME NEW p \in Places, NEW D \in SUBSET Tasks, NEW E \in SUBSET Tasks,
         NEW B \in SUBSET Events
  PROVE  [p EXCEPT !.page = D, !.detected = E, !.bundle = B] \in Places
BY DEF Places

LEMMA NewBundle ==
  ASSUME NEW p \in Places, NEW B \in SUBSET Events
  PROVE  [p EXCEPT !.bundle = B] \in Places
BY DEF Places

LEMMA NewTold ==
  ASSUME NEW p \in Places, NEW g \in [Tasks -> Told]
  PROVE  [p EXCEPT !.told = g] \in Places
BY DEF Places

LEMMA UnsoundPhase ==
  ASSUME NEW p \in Places,
         NEW ph \in {"off", "begun", "scan", "clear", "send", "stamp"}
  PROVE  [p EXCEPT !.phase = ph, !.sound = FALSE] \in Places
BY DEF Places

LEMMA UnsoundPhasePage ==
  ASSUME NEW p \in Places, NEW D \in SUBSET Tasks,
         NEW ph \in {"off", "begun", "scan", "clear", "send", "stamp"}
  PROVE  [p EXCEPT !.phase = ph, !.page = D, !.sound = FALSE] \in Places
BY DEF Places

LEMMA UnsoundPage ==
  ASSUME NEW p \in Places, NEW D \in SUBSET Tasks
  PROVE  [p EXCEPT !.page = D, !.sound = FALSE] \in Places
BY DEF Places

LEMMA NotAlone ==
  ASSUME NEW p \in Places
  PROVE  [p EXCEPT !.alone = FALSE] \in Places
BY DEF Places

\* What Become leaves behind: one process moved, the others where they were.
LEMMA Moves ==
  ASSUME run \in [Runs -> Places], NEW r \in Runs, NEW s \in Places, Become(r, s)
  PROVE  /\ run' \in [Runs -> Places]
         /\ run'[r] = s
         /\ \A q \in Runs \ {r} : run'[q] = run[q]
BY DEF Become

\* The two ways of counting stay counts.
LEMMA Counts ==
  ASSUME TypeOK
  PROVE  /\ \A A : AnotherFor(A) => causes' \in [Tasks -> Nat]
         /\ \A r \in Runs : Listing(r, inbox) \in [Events -> Nat]
         /\ \A r \in Runs : Listing(r, unsure) \in [Events -> Nat]
BY DEF TypeOK, AnotherFor, Listing

\* A new row goes to an unused id.
LEMMA UnusedRow ==
  ASSUME Unused # {}
  PROVE  (CHOOSE e \in Unused : TRUE) \in Unused
OBVIOUS

THEOREM TypeInit == Init => TypeOK
BY IdlePlace, AlarmAssumption DEF Init, TypeOK, Told

LEMMA TypeNext == TypeOK /\ [Next]_vars => TypeOK'
<1> SUFFICES ASSUME TypeOK, [Next]_vars PROVE TypeOK'
  OBVIOUS
<1> USE DEF TypeOK
<1>f. Fault => faults' \in 0..MaxFaults
  BY AlarmAssumption DEF Fault
<1>c. Change => changes' \in 0..MaxChanges
  BY AlarmAssumption DEF Change
<1>p. \A r \in Runs : run[r] \in Places
  OBVIOUS
<1>1. ASSUME NEW t \in Tasks, TaskChanges(t) PROVE TypeOK'
  <2>1. lapsed' \in [Runs -> SUBSET Tasks] /\ stirred' \in [Runs -> SUBSET Tasks]
    BY <1>1 DEF TaskChanges
  <2> QED BY <1>1, <1>c, <2>1 DEF TaskChanges
<1>2. CASE EditConfig
  BY <1>2, <1>c DEF EditConfig, history
<1>3. CASE Elapse
  <2>1. \A n \in Told : Age(n) \in Told
    BY DEF Told, Age
  <2>2. event' \in [Events -> [of : SUBSET Tasks, active : BOOLEAN, told : Told]]
    <3>1. ASSUME NEW e \in Events
          PROVE  [event[e] EXCEPT !.told = Age(@)]
                    \in [of : SUBSET Tasks, active : BOOLEAN, told : Told]
      <4>1. event[e] \in [of : SUBSET Tasks, active : BOOLEAN, told : Told]
        OBVIOUS
      <4>2. Age(event[e].told) \in Told
        BY <4>1, <2>1
      <4> QED BY <4>1, <4>2
    <3> QED BY <1>3, <3>1 DEF Elapse
  <2>3. run' \in [Runs -> Places]
    <3>1. ASSUME NEW r \in Runs
          PROVE  [run[r] EXCEPT !.told = [t \in Tasks |-> Age(@[t])]] \in Places
      <4>1. [t \in Tasks |-> Age(run[r].told[t])] \in [Tasks -> Told]
        BY <2>1, <1>p, Fields
      <4> QED BY <4>1, <1>p, NewTold
    <3> QED BY <1>3, <3>1 DEF Elapse
  <2> QED BY <1>3, <2>2, <2>3 DEF Elapse
<1>4. ASSUME NEW r \in Runs, NEW dry \in BOOLEAN, Begin(r, dry) PROVE TypeOK'
  <2>1. run' \in [Runs -> Places]
    <3> DEFINE s == [Idle EXCEPT !.phase = "begun", !.alone = On = {},
                                 !.mail = config.enabled /\ ~ dry,
                                 !.window = config.window]
    <3>1. s \in Places
      <4>1. (On = {}) \in BOOLEAN /\ (config.enabled /\ ~ dry) \in BOOLEAN
            /\ config.window \in BOOLEAN
        OBVIOUS
      <4> QED BY <4>1, IdlePlace, ToBegun
    <3>2. \A q \in Runs : [run[q] EXCEPT !.alone = FALSE] \in Places
      BY <1>p, NotAlone
    <3> QED BY <1>4, <3>1, <3>2 DEF Begin
  <2>2. changes' \in 0..MaxChanges
    BY <1>4, <1>c DEF Begin
  <2>3. lapsed' \in [Runs -> SUBSET Tasks] /\ stirred' \in [Runs -> SUBSET Tasks]
    BY <1>4 DEF Begin
  <2>4. causes' \in [Tasks -> Nat]
    <3>1. CASE On # {}
      BY <1>4, <3>1, Counts DEF Begin
    <3>2. CASE On = {}
      <4>1. causes' = [t \in Tasks |-> IF ActiveOf(t) = {} THEN 0 ELSE causes[t]]
        BY <1>4, <3>2 DEF Begin
      <4> QED BY <4>1
    <3> QED BY <3>1, <3>2
  <2> QED BY <1>4, <2>1, <2>2, <2>3, <2>4 DEF Begin
<1>5. ASSUME NEW r \in Runs, ReadActive(r) PROVE TypeOK'
  <2>1. PICK rows \in [Tasks -> Events \cup {NoEvent}] :
          Become(r, [run[r] EXCEPT !.phase = "scan", !.seen = rows,
                       !.told = [t \in Tasks |-> IF rows[t] = NoEvent THEN "never"
                                                 ELSE event[rows[t]].told]])
    BY <1>5 DEF ReadActive
  <2>2. [t \in Tasks |-> IF rows[t] = NoEvent THEN "never"
                         ELSE event[rows[t]].told] \in [Tasks -> Told]
    BY DEF Told
  <2>3. [run[r] EXCEPT !.phase = "scan", !.seen = rows,
            !.told = [t \in Tasks |-> IF rows[t] = NoEvent THEN "never"
                                      ELSE event[rows[t]].told]] \in Places
    BY <2>2, <1>p, ToScan
  <2>4. run' \in [Runs -> Places]
    BY <2>1, <2>3, Moves
  <2> QED BY <1>5, <2>4 DEF ReadActive, history
<1>6. ASSUME NEW r \in Runs, ReadActiveFails(r) PROVE TypeOK'
  <2>1. run' \in [Runs -> Places]
    <3>1. [run[r] EXCEPT !.phase = "scan", !.sound = FALSE] \in Places
      BY <1>p, UnsoundPhase
    <3> QED BY <1>6, <3>1, Moves DEF ReadActiveFails
  <2>2. causes' \in [Tasks -> Nat]
    BY <1>6, Counts DEF ReadActiveFails
  <2> QED BY <1>6, <1>f, <2>1, <2>2 DEF ReadActiveFails
<1>7. ASSUME NEW r \in Runs, ListTasks(r) PROVE TypeOK'
  <2>1. run' \in [Runs -> Places]
    <3>1. [run[r] EXCEPT !.at = @ + 1,
            !.page = {t \in Tasks : task[t] = Statuses[run[r].at]}] \in Places
      <4>1. run[r].at + 1 \in 1..(Len(Statuses) + 1)
        BY <1>7, <1>p, Fields, AlarmAssumption DEF ListTasks
      <4> QED BY <4>1, <1>p, NextPage
    <3> QED BY <1>7, <3>1, Moves DEF ListTasks
  <2> QED BY <1>7, <2>1 DEF ListTasks, history
<1>8. ASSUME NEW r \in Runs, NEW t \in Tasks, Detect(r, t) PROVE TypeOK'
  <2> DEFINE known == run[r].seen[t]
             row   == IF known = NoEvent THEN CHOOSE e \in Unused : TRUE ELSE known
  <2>1. row \in Events
    BY <1>8, <1>p, Fields, UnusedRow DEF Detect, Created, Unused
  <2>2. event' \in [Events -> [of : SUBSET Tasks, active : BOOLEAN, told : Told]]
    BY <1>8, <2>1 DEF Detect, Created, Told
  <2>3. run' \in [Runs -> Places]
    <3> DEFINE more == IF known = NoEvent \/ Renotifies(r, t)
                       THEN run[r].bundle \cup {row} ELSE run[r].bundle
    <3>1. more \in SUBSET Events
      BY <2>1, <1>p, Fields
    <3>0. run[r].page \ {t} \in SUBSET Tasks
          /\ run[r].detected \cup {t} \in SUBSET Tasks
      BY <1>p, Fields
    <3>2. [run[r] EXCEPT !.page = @ \ {t}, !.detected = @ \cup {t},
                         !.bundle = more] \in Places
      BY <3>0, <3>1, <1>p, NewDetected
    <3>3. Become(r, [run[r] EXCEPT !.page = @ \ {t}, !.detected = @ \cup {t},
                                   !.bundle = more])
      BY <1>8 DEF Detect, Created
    <3> QED BY <3>2, <3>3, Moves
  <2>4. causes' \in [Tasks -> Nat]
    BY <1>8, Counts DEF Detect
  <2> QED BY <1>8, <2>2, <2>3, <2>4 DEF Detect, Created
<1>9. ASSUME NEW r \in Runs, ScanFails(r) PROVE TypeOK'
  <2>1. run' \in [Runs -> Places]
    <3>1. [run[r] EXCEPT !.phase = "send", !.page = {}, !.sound = FALSE] \in Places
      BY <1>p, UnsoundPhasePage
    <3> QED BY <1>9, <3>1, Moves DEF ScanFails
  <2> QED BY <1>9, <1>f, <2>1 DEF ScanFails, history
<1>10. ASSUME NEW r \in Runs, EndScan(r) PROVE TypeOK'
  <2>1. run' \in [Runs -> Places]
    <3>1. [run[r] EXCEPT !.phase = "clear",
            !.page = {t \in Tasks : run[r].seen[t] # NoEvent} \ run[r].detected] \in Places
      <4>1. {t \in Tasks : run[r].seen[t] # NoEvent} \ run[r].detected \in SUBSET Tasks
        BY <1>p, Fields
      <4> QED BY <4>1, <1>p, ToPhasePage
    <3> QED BY <1>10, <3>1, Moves DEF EndScan
  <2> QED BY <1>10, <2>1 DEF EndScan, history
<1>11. ASSUME NEW r \in Runs, NEW t \in Tasks, Clear(r, t) PROVE TypeOK'
  <2>1. run' \in [Runs -> Places]
    <3>1. /\ [run[r] EXCEPT !.page = @ \ {t}] \in Places
          /\ [run[r] EXCEPT !.page = @ \ {t}, !.sound = FALSE] \in Places
      <4>1. run[r].page \ {t} \in SUBSET Tasks
        BY <1>p, Fields
      <4> QED BY <4>1, <1>p, NewPage, UnsoundPage
    <3> QED BY <1>11, <3>1, Moves DEF Clear
  <2>2. event' \in [Events -> [of : SUBSET Tasks, active : BOOLEAN, told : Told]]
    <3>1. CASE event' = [event EXCEPT ![run[r].seen[t]].active = FALSE]
      <4>1. \A e \in Events : [event[e] EXCEPT !.active = FALSE]
                               \in [of : SUBSET Tasks, active : BOOLEAN, told : Told]
        OBVIOUS
      <4> QED BY <3>1, <4>1
    <3> QED BY <1>11, <3>1 DEF Clear
  <2>3. faults' \in 0..MaxFaults
    BY <1>11, <1>f DEF Clear
  <2> QED BY <1>11, <2>1, <2>2, <2>3 DEF Clear, history
<1>d. ASSUME NEW r \in Runs, Delivered(r)
      PROVE  mailed' \subseteq Events /\ inbox' \in [Events -> Nat]
  BY <1>d, <1>p, Fields, Counts DEF Delivered
<1>12. ASSUME NEW r \in Runs, Send(r) PROVE TypeOK'
  <2>1. run' \in [Runs -> Places]
    <3>1. [run[r] EXCEPT !.phase = "stamp"] \in Places
      BY <1>p, ToPhase
    <3> QED BY <1>12, <3>1, Moves DEF Send
  <2>2. unsure' \in [Events -> Nat]
    BY <1>12, Counts DEF Send
  <2> QED BY <1>12, <1>d, <2>1, <2>2 DEF Send
<1>s. ASSUME NEW r \in Runs, Stop(r)
      PROVE  /\ run' \in [Runs -> Places]
             /\ lapsed' \in [Runs -> SUBSET Tasks]
             /\ stirred' \in [Runs -> SUBSET Tasks]
  BY <1>s, IdlePlace, Moves DEF Stop
<1>13. ASSUME NEW r \in Runs, SendFails(r) PROVE TypeOK'
  <2>1. unsure' \in [Events -> Nat]
    BY <1>13, Counts DEF SendFails
  <2> QED BY <1>13, <1>d, <1>f, <1>s, <2>1 DEF SendFails
<1>14. ASSUME NEW r \in Runs, Stamp(r) PROVE TypeOK'
  <2>1. PICK e \in run[r].bundle :
          /\ event' = [event EXCEPT ![e].told = "fresh"]
          /\ Become(r, [run[r] EXCEPT !.bundle = @ \ {e}])
    BY <1>14 DEF Stamp
  <2>2. [run[r] EXCEPT !.bundle = @ \ {e}] \in Places /\ e \in Events
    <3>1. run[r].bundle \ {e} \in SUBSET Events /\ e \in Events
      BY <1>p, Fields
    <3> QED BY <3>1, <1>p, NewBundle
  <2>3. run' \in [Runs -> Places]
    BY <2>1, <2>2, Moves
  <2>4. [event[e] EXCEPT !.told = "fresh"]
          \in [of : SUBSET Tasks, active : BOOLEAN, told : Told]
    BY <2>2 DEF Told
  <2>5. event' \in [Events -> [of : SUBSET Tasks, active : BOOLEAN, told : Told]]
    BY <2>1, <2>2, <2>4
  <2> QED BY <1>14, <2>3, <2>5 DEF Stamp, history
<1>15. ASSUME NEW r \in Runs, Finish(r) PROVE TypeOK'
  BY <1>15, <1>s DEF Finish
<1>16. ASSUME NEW r \in Runs, Die(r) PROVE TypeOK'
  <2>1. unsure' \in [Events -> Nat]
    BY <1>16, Counts DEF Die
  <2> QED BY <1>16, <1>f, <1>s, <2>1 DEF Die
<1>17. CASE UNCHANGED vars
  BY <1>17 DEF vars, history
<1> QED
  BY <1>1, <1>2, <1>3, <1>4, <1>5, <1>6, <1>7, <1>8, <1>9, <1>10, <1>11, <1>12,
     <1>13, <1>14, <1>15, <1>16, <1>17 DEF Next, RunStep

\* Every state of the specification is of the declared types.
THEOREM TypeCorrect == Spec => []TypeOK
BY TypeInit, TypeNext, PTL DEF Spec

-------------------------------------------------------------------------------
(* What the actions of a run do to its fields.                             *)

Others(r) == \A q \in Runs \ {r} : run'[q] = run[q]

\* What a run learned at its beginning stays as it is.
Keeps(r) ==
    /\ run'[r].alone = run[r].alone /\ run'[r].seen = run[r].seen
    /\ run'[r].told = run[r].told /\ run'[r].mail = run[r].mail
    /\ run'[r].sound => run[r].sound

LEMMA BecomeFields ==
  ASSUME run \in [Runs -> Places], NEW r \in Runs, NEW s, Become(r, s)
  PROVE  Others(r) /\ run'[r] = s
BY DEF Become, Others

LEMMA ReadActiveFields ==
  ASSUME run \in [Runs -> Places], NEW r \in Runs, ReadActive(r)
  PROVE  /\ Others(r) /\ run[r].phase = "begun" /\ run'[r].phase = "scan"
         /\ run'[r].alone = run[r].alone /\ run'[r].at = run[r].at
         /\ run'[r].page = run[r].page /\ run'[r].detected = run[r].detected
         /\ run'[r].bundle = run[r].bundle /\ run'[r].sound = run[r].sound
         /\ \A t \in Tasks :
              /\ run'[r].seen[t] \in IF ActiveOf(t) = {} THEN {NoEvent} ELSE ActiveOf(t)
              /\ run'[r].seen[t] # NoEvent =>
                   run'[r].told[t] = event[run'[r].seen[t]].told
<1>1. PICK rows \in [Tasks -> Events \cup {NoEvent}] :
        /\ \A t \in Tasks : rows[t] \in IF ActiveOf(t) = {} THEN {NoEvent}
                                        ELSE ActiveOf(t)
        /\ Become(r, [run[r] EXCEPT !.phase = "scan", !.seen = rows,
                        !.told = [t \in Tasks |-> IF rows[t] = NoEvent THEN "never"
                                                  ELSE event[rows[t]].told]])
  BY DEF ReadActive
<1>2. /\ Others(r)
      /\ run'[r] = [run[r] EXCEPT !.phase = "scan", !.seen = rows,
                        !.told = [t \in Tasks |-> IF rows[t] = NoEvent THEN "never"
                                                  ELSE event[rows[t]].told]]
  BY <1>1, BecomeFields
<1>3. run[r] \in Places
  OBVIOUS
<1> QED BY <1>1, <1>2, <1>3 DEF ReadActive, Places

LEMMA ReadActiveFailsFields ==
  ASSUME run \in [Runs -> Places], NEW r \in Runs, ReadActiveFails(r)
  PROVE  /\ Others(r) /\ Keeps(r)
         /\ run[r].phase = "begun" /\ run'[r].phase = "scan" /\ ~ run'[r].sound
         /\ run'[r].at = run[r].at /\ run'[r].page = run[r].page
         /\ run'[r].detected = run[r].detected /\ run'[r].bundle = run[r].bundle
<1>1. Others(r) /\ run'[r] = [run[r] EXCEPT !.phase = "scan", !.sound = FALSE]
  BY BecomeFields DEF ReadActiveFails
<1> QED BY <1>1 DEF ReadActiveFails, Keeps, Places

LEMMA ListTasksFields ==
  ASSUME run \in [Runs -> Places], NEW r \in Runs, ListTasks(r)
  PROVE  /\ Others(r) /\ Keeps(r)
         /\ run[r].phase = "scan" /\ run'[r].phase = "scan"
         /\ run[r].page = {} /\ run[r].at \in DOMAIN Statuses
         /\ run'[r].at = run[r].at + 1
         /\ run'[r].page = {t \in Tasks : task[t] = Statuses[run[r].at]}
         /\ run'[r].detected = run[r].detected /\ run'[r].bundle = run[r].bundle
<1>1. /\ Others(r)
      /\ run'[r] = [run[r] EXCEPT !.at = @ + 1,
                       !.page = {t \in Tasks : task[t] = Statuses[run[r].at]}]
  BY BecomeFields DEF ListTasks
<1>2. run[r].at \in DOMAIN Statuses
  BY AlarmAssumption, Fields DEF ListTasks
<1> QED BY <1>1, <1>2 DEF ListTasks, Scanning, Keeps, Places

Row(r, t) == IF run[r].seen[t] = NoEvent THEN CHOOSE e \in Unused : TRUE
             ELSE run[r].seen[t]

LEMMA DetectFields ==
  ASSUME run \in [Runs -> Places], NEW r \in Runs, NEW t \in Tasks, Detect(r, t)
  PROVE  /\ Others(r) /\ Keeps(r)
         /\ run[r].phase = "scan" /\ run'[r].phase = "scan"
         /\ run'[r].at = run[r].at /\ run'[r].page = run[r].page \ {t}
         /\ run'[r].detected = run[r].detected \cup {t}
         /\ run'[r].bundle =
              IF run[r].seen[t] = NoEvent \/ Renotifies(r, t)
              THEN run[r].bundle \cup {Row(r, t)} ELSE run[r].bundle
<1>1. /\ Others(r)
      /\ run'[r] = [run[r] EXCEPT
              !.page = @ \ {t}, !.detected = @ \cup {t},
              !.bundle = IF run[r].seen[t] = NoEvent \/ Renotifies(r, t)
                         THEN @ \cup {Row(r, t)} ELSE @]
  BY BecomeFields DEF Detect, Created, Row
<1> QED BY <1>1 DEF Detect, Created, Scanning, Keeps, Places

LEMMA ScanFailsFields ==
  ASSUME run \in [Runs -> Places], NEW r \in Runs, ScanFails(r)
  PROVE  /\ Others(r) /\ Keeps(r)
         /\ run[r].phase = "scan" /\ run'[r].phase = "send" /\ ~ run'[r].sound
         /\ run'[r].bundle = run[r].bundle
<1>1. Others(r) /\ run'[r] = [run[r] EXCEPT !.phase = "send", !.page = {}, !.sound = FALSE]
  BY BecomeFields DEF ScanFails
<1> QED BY <1>1 DEF ScanFails, Scanning, Keeps, Places

LEMMA EndScanFields ==
  ASSUME run \in [Runs -> Places], NEW r \in Runs, EndScan(r)
  PROVE  /\ Others(r) /\ Keeps(r)
         /\ run[r].phase = "scan" /\ run'[r].phase = "clear"
         /\ run'[r].detected = run[r].detected
         /\ run[r].page = {} /\ \A i \in DOMAIN Statuses : i < run[r].at
         /\ run'[r].page = {t \in Tasks : run[r].seen[t] # NoEvent} \ run[r].detected
         /\ run'[r].bundle = run[r].bundle
<1>1. /\ Others(r)
      /\ run'[r] = [run[r] EXCEPT !.phase = "clear",
             !.page = {t \in Tasks : run[r].seen[t] # NoEvent} \ run[r].detected]
  BY BecomeFields DEF EndScan
<1>2. \A i \in DOMAIN Statuses : i < run[r].at
  BY AlarmAssumption, Fields DEF EndScan
<1> QED BY <1>1, <1>2 DEF EndScan, Scanning, Keeps, Places

LEMMA ClearFields ==
  ASSUME run \in [Runs -> Places], NEW r \in Runs, NEW t \in Tasks, Clear(r, t)
  PROVE  /\ Others(r) /\ Keeps(r)
         /\ run[r].phase = "clear" /\ run'[r].phase = "clear"
         /\ t \in run[r].page /\ run'[r].page = run[r].page \ {t}
         /\ run'[r].bundle = run[r].bundle /\ run'[r].detected = run[r].detected
         /\ run'[r].sound => event' = [event EXCEPT ![run[r].seen[t]].active = FALSE]
<1>1. /\ Others(r)
      /\ \/ /\ run'[r] = [run[r] EXCEPT !.page = @ \ {t}]
            /\ event' = [event EXCEPT ![run[r].seen[t]].active = FALSE]
         \/ run'[r] = [run[r] EXCEPT !.page = @ \ {t}, !.sound = FALSE]
  BY BecomeFields DEF Clear
<1> QED BY <1>1 DEF Clear, Keeps, Places

LEMMA SendFields ==
  ASSUME run \in [Runs -> Places], NEW r \in Runs, Send(r)
  PROVE  /\ Others(r) /\ Keeps(r)
         /\ run[r].phase \in {"send", "clear"} /\ run'[r].phase = "stamp"
         /\ run[r].phase = "clear" => run[r].page = {}
         /\ run'[r].bundle = run[r].bundle /\ run'[r].detected = run[r].detected
<1>1. Others(r) /\ run'[r] = [run[r] EXCEPT !.phase = "stamp"]
  BY BecomeFields DEF Send
<1> QED BY <1>1 DEF Send, Ready, Keeps, Places

LEMMA StampFields ==
  ASSUME run \in [Runs -> Places], NEW r \in Runs, Stamp(r)
  PROVE  /\ Others(r) /\ Keeps(r)
         /\ run[r].phase = "stamp" /\ run'[r].phase = "stamp"
         /\ run'[r].detected = run[r].detected
         /\ \E e \in run[r].bundle : /\ event' = [event EXCEPT ![e].told = "fresh"]
                                     /\ run'[r].bundle = run[r].bundle \ {e}
<1>1. PICK e \in run[r].bundle :
        /\ event' = [event EXCEPT ![e].told = "fresh"]
        /\ Become(r, [run[r] EXCEPT !.bundle = @ \ {e}])
  BY DEF Stamp
<1>2. Others(r) /\ run'[r] = [run[r] EXCEPT !.bundle = @ \ {e}]
  BY <1>1, BecomeFields
<1>3. /\ Keeps(r) /\ run'[r].phase = run[r].phase
      /\ run'[r].detected = run[r].detected /\ run'[r].bundle = run[r].bundle \ {e}
  BY <1>2 DEF Keeps, Places
<1>4. run[r].phase = "stamp"
  BY DEF Stamp
<1> QED BY <1>1, <1>2, <1>3, <1>4

LEMMA StopFields ==
  ASSUME run \in [Runs -> Places], NEW r \in Runs, Stop(r)
  PROVE  /\ Others(r) /\ run'[r].phase = "off"
         /\ \A t \in Tasks : run'[r].seen[t] = NoEvent
         /\ run'[r].bundle = {} /\ run'[r].page = {}
BY BecomeFields DEF Stop, Idle

LEMMA BeginFields ==
  ASSUME run \in [Runs -> Places], NEW r \in Runs, NEW dry \in BOOLEAN, Begin(r, dry)
  PROVE  /\ r \notin On /\ run'[r].phase = "begun" /\ run'[r].alone = (On = {})
         /\ run'[r].at = 1 /\ run'[r].page = {} /\ run'[r].detected = {}
         /\ run'[r].bundle = {} /\ \A t \in Tasks : run'[r].seen[t] = NoEvent
         /\ \A q \in Runs \ {r} :
              /\ run'[q].phase = run[q].phase /\ run'[q].seen = run[q].seen
              /\ run'[q].told = run[q].told /\ run'[q].at = run[q].at
              /\ run'[q].page = run[q].page /\ run'[q].detected = run[q].detected
              /\ run'[q].bundle = run[q].bundle
              /\ q \in On => ~ run'[q].alone
<1>1. run'[r] = [Idle EXCEPT !.phase = "begun", !.alone = On = {},
                             !.mail = config.enabled /\ ~ dry,
                             !.window = config.window]
  BY DEF Begin
<1>2. \A q \in Runs \ {r} :
        run'[q] = IF q \in On THEN [run[q] EXCEPT !.alone = FALSE] ELSE run[q]
  BY DEF Begin
<1>3. r \notin On
  BY DEF Begin, On
<1>4. /\ run'[r].phase = "begun" /\ run'[r].alone = (On = {})
      /\ run'[r].at = 1 /\ run'[r].page = {} /\ run'[r].detected = {}
      /\ run'[r].bundle = {} /\ \A t \in Tasks : run'[r].seen[t] = NoEvent
  BY <1>1 DEF Idle
<1>5. ASSUME NEW q \in Runs \ {r}
      PROVE  /\ run'[q].phase = run[q].phase /\ run'[q].seen = run[q].seen
             /\ run'[q].told = run[q].told /\ run'[q].at = run[q].at
             /\ run'[q].page = run[q].page /\ run'[q].detected = run[q].detected
             /\ run'[q].bundle = run[q].bundle
             /\ q \in On => ~ run'[q].alone
  <2>1. run[q] \in Places
    OBVIOUS
  <2>2. CASE q \in On
    <3>1. run'[q] = [run[q] EXCEPT !.alone = FALSE]
      BY <1>2, <2>2
    <3> QED BY ONLY <2>1, <3>1 DEF Places
  <2>3. CASE q \notin On
    BY <1>2, <2>3
  <2> QED BY <2>2, <2>3
<1> QED BY <1>3, <1>4, <1>5

LEMMA ElapseFields ==
  ASSUME run \in [Runs -> Places], Elapse
  PROVE  \A q \in Runs :
              /\ run'[q].phase = run[q].phase /\ run'[q].seen = run[q].seen
              /\ run'[q].alone = run[q].alone /\ run'[q].at = run[q].at
              /\ run'[q].page = run[q].page /\ run'[q].detected = run[q].detected
              /\ run'[q].bundle = run[q].bundle /\ run'[q].sound = run[q].sound
              /\ run'[q].mail = run[q].mail
              /\ \A t \in Tasks : run'[q].told[t] = Age(run[q].told[t])
BY DEF Elapse, Places

-------------------------------------------------------------------------------
(* One active event and one more for each cause.  A scan that holds no row *)
(* of a task, and has not met the task, may still raise an event of it.    *)

Makers(t) ==
    {r \in Runs : /\ run[r].phase = "scan" /\ run[r].seen[t] = NoEvent
                  /\ t \notin run[r].detected}

CountInv ==
    /\ IsFiniteSet(On)
    /\ \A t \in Tasks :
         /\ Cardinality(On) <= 1 + causes[t]
         /\ IsFiniteSet(ActiveOf(t))
         /\ Cardinality(ActiveOf(t)) + Cardinality(Makers(t)) <= 1 + causes[t]

\* A run that is alone is the only one.
Apart == \A r, q \in On : r # q => ~ run[r].alone

\* A row is of one task or of none, and a run knows a task's row for its own.
RowsOfOne == \A e \in Events : event[e].of = {} \/ \E t \in Tasks : event[e].of = {t}

SeenOwn ==
    \A r \in Runs : \A t \in Tasks :
        run[r].seen[t] # NoEvent => event[run[r].seen[t]].of = {t}

OneInv == CountInv /\ Apart /\ RowsOfOne /\ SeenOwn

LEMMA MakersOn == \A t \in Tasks : Makers(t) \subseteq On
BY DEF Makers, On

\* What a smaller set counts.
LEMMA Fewer ==
  ASSUME NEW S, IsFiniteSet(S), NEW R \in SUBSET S
  PROVE  /\ IsFiniteSet(R) /\ Cardinality(R) <= Cardinality(S)
         /\ Cardinality(R) \in Nat /\ Cardinality(S) \in Nat
BY FS_Subset, FS_CardinalityType

LEMMA OneMore ==
  ASSUME NEW S, IsFiniteSet(S), NEW x, NEW R \in SUBSET (S \cup {x})
  PROVE  /\ IsFiniteSet(R) /\ Cardinality(R) \in Nat
         /\ Cardinality(R) <= Cardinality(S) + 1
<1>1. Cardinality(S) \in Nat
  BY FS_CardinalityType
<1>2. IsFiniteSet(S \cup {x}) /\ Cardinality(S \cup {x}) <= Cardinality(S) + 1
  BY <1>1, FS_AddElement
<1> QED BY <1>1, <1>2, Fewer

\* Fewer events, fewer runs and fewer scans need no other cause.
LEMMA CountShrinks ==
  ASSUME TypeOK, CountInv, On' \subseteq On, causes' = causes,
         \A t \in Tasks : ActiveOf(t)' \subseteq ActiveOf(t) /\ Makers(t)' \subseteq Makers(t)
  PROVE  CountInv'
<1>1. IsFiniteSet(On') /\ Cardinality(On') <= Cardinality(On)
      /\ Cardinality(On') \in Nat /\ Cardinality(On) \in Nat
  BY Fewer DEF CountInv
<1>2. ASSUME NEW t \in Tasks
      PROVE  /\ Cardinality(On') <= 1 + causes'[t]
             /\ IsFiniteSet(ActiveOf(t)')
             /\ Cardinality(ActiveOf(t)') + Cardinality(Makers(t)') <= 1 + causes'[t]
  <2>1. /\ IsFiniteSet(ActiveOf(t)')
        /\ Cardinality(ActiveOf(t)') <= Cardinality(ActiveOf(t))
        /\ Cardinality(ActiveOf(t)') \in Nat /\ Cardinality(ActiveOf(t)) \in Nat
    BY Fewer DEF CountInv
  <2>2. IsFiniteSet(Makers(t))
    BY MakersOn, Fewer DEF CountInv
  <2>3. /\ Cardinality(Makers(t)') <= Cardinality(Makers(t))
        /\ Cardinality(Makers(t)') \in Nat /\ Cardinality(Makers(t)) \in Nat
    BY <2>2, Fewer
  <2>4. causes[t] \in Nat
    BY DEF TypeOK
  <2> QED BY <1>1, <2>1, <2>3, <2>4 DEF CountInv
<1> QED BY <1>1, <1>2 DEF CountInv

\* Most actions take nothing from what OneInv says.
Calm ==
    /\ causes' = causes
    /\ \A e \in Events :
         event'[e].of = event[e].of /\ (event'[e].active => event[e].active)
    /\ \A q \in Runs :
         \/ run'[q].phase = "off" /\ \A t \in Tasks : run'[q].seen[t] = NoEvent
         \/ /\ run[q].phase = "off" => run'[q].phase = "off"
            /\ run'[q].alone = run[q].alone /\ run'[q].seen = run[q].seen
            /\ run'[q].phase = "scan" =>
                 run[q].phase = "scan" /\ run[q].detected \subseteq run'[q].detected

LEMMA CalmKeeps ==
  ASSUME TypeOK, OneInv, Calm PROVE OneInv'
<1>0. \A r \in Runs : \A t \in Tasks : run[r].seen[t] \in Events \cup {NoEvent}
  BY Fields DEF TypeOK
<1>1. On' \subseteq On
  BY DEF Calm, On
<1>2. Apart'
  BY DEF OneInv, Apart, Calm, On
<1>3. RowsOfOne'
  BY DEF OneInv, RowsOfOne, Calm
<1>4. SeenOwn'
  BY <1>0 DEF OneInv, SeenOwn, Calm
<1>5. \A t \in Tasks : ActiveOf(t)' \subseteq ActiveOf(t)
  BY DEF ActiveOf, Calm
<1>6. \A t \in Tasks : Makers(t)' \subseteq Makers(t)
  BY DEF Makers, Calm
<1>7. CountInv'
  BY <1>1, <1>5, <1>6, CountShrinks DEF OneInv, Calm
<1> QED BY <1>2, <1>3, <1>4, <1>7 DEF OneInv

THEOREM OneInit == Init => OneInv
<1> SUFFICES ASSUME Init PROVE OneInv
  OBVIOUS
<1>1. On = {} /\ \A t \in Tasks : ActiveOf(t) = {} /\ Makers(t) = {} /\ causes[t] = 0
  BY DEF Init, Idle, On, ActiveOf, Makers
<1>2. CountInv
  BY <1>1, FS_EmptySet DEF CountInv
<1> QED BY <1>1, <1>2 DEF Init, Idle, OneInv, Apart, RowsOfOne, SeenOwn

LEMMA OneNext == TypeOK /\ OneInv /\ [Next]_vars => OneInv'
<1> SUFFICES ASSUME TypeOK, OneInv, [Next]_vars PROVE OneInv'
  OBVIOUS
<1>t. /\ run \in [Runs -> Places]
      /\ event \in [Events -> [of : SUBSET Tasks, active : BOOLEAN, told : Told]]
      /\ causes \in [Tasks -> Nat]
  BY DEF TypeOK
<1>s. \A r \in Runs : \A t \in Tasks : run[r].seen[t] \in Events \cup {NoEvent}
  BY <1>t, Fields
<1>n. /\ IsFiniteSet(On) /\ Cardinality(On) \in Nat
      /\ \A t \in Tasks :
           /\ Cardinality(On) <= 1 + causes[t] /\ causes[t] \in Nat
           /\ IsFiniteSet(ActiveOf(t)) /\ Cardinality(ActiveOf(t)) \in Nat
           /\ Cardinality(ActiveOf(t)) + Cardinality(Makers(t)) <= 1 + causes[t]
           /\ Makers(t) \subseteq On /\ IsFiniteSet(Makers(t))
           /\ Cardinality(Makers(t)) \in Nat /\ Cardinality(Makers(t)) <= Cardinality(On)
  BY <1>t, MakersOn, Fewer, FS_CardinalityType DEF OneInv, CountInv
<1>1. CASE Elapse
  <2>1. \A e \in Events : event'[e].of = event[e].of /\ event'[e].active = event[e].active
    BY <1>1, <1>t DEF Elapse
  <2>2. causes' = causes
    BY <1>1 DEF Elapse
  <2> QED BY <1>1, <1>t, <2>1, <2>2, ElapseFields, CalmKeeps DEF Calm
<1>2. ASSUME NEW t \in Tasks, TaskChanges(t) PROVE OneInv'
  BY <1>2, CalmKeeps DEF TaskChanges, Calm
<1>3. CASE EditConfig
  BY <1>3, CalmKeeps DEF EditConfig, history, Calm
<1>4. ASSUME NEW r \in Runs, NEW dry \in BOOLEAN, Begin(r, dry) PROVE OneInv'
  <2>0. event' = event
    BY <1>4 DEF Begin
  <2>f. /\ r \notin On /\ run'[r].phase = "begun" /\ run'[r].alone = (On = {})
        /\ \A q \in Runs \ {r} :
             /\ run'[q].phase = run[q].phase /\ run'[q].seen = run[q].seen
             /\ run'[q].detected = run[q].detected
             /\ q \in On => ~ run'[q].alone
    BY <1>4, <1>t, BeginFields
  <2>1. On' = On \cup {r}
    BY <2>f DEF On
  <2>2. Apart'
    BY <2>1, <2>f DEF OneInv, Apart, On
  <2>3. SeenOwn' /\ RowsOfOne'
    <3>1. \A q \in Runs : \A t \in Tasks :
            run'[q].seen[t] # NoEvent => run'[q].seen[t] = run[q].seen[t]
      BY <1>4, <1>t, BeginFields
    <3> QED BY <2>0, <3>1 DEF OneInv, SeenOwn, RowsOfOne
  <2>4. \A t \in Tasks : ActiveOf(t)' = ActiveOf(t) /\ Makers(t)' = Makers(t)
    <3>1. \A t \in Tasks : Makers(t)' = Makers(t)
      BY <2>f DEF Makers, On
    <3> QED BY <2>0, <3>1 DEF ActiveOf
  <2>5. IsFiniteSet(On') /\ Cardinality(On') = Cardinality(On) + 1
    BY <1>n, <2>1, <2>f, FS_AddElement
  <2>6. CountInv'
    <3> SUFFICES ASSUME NEW t \in Tasks
                 PROVE  /\ Cardinality(On') <= 1 + causes'[t]
                        /\ Cardinality(ActiveOf(t)) + Cardinality(Makers(t)) <= 1 + causes'[t]
      BY <1>n, <2>4, <2>5 DEF CountInv
    <3>1. CASE On # {}
      <4>1. causes'[t] = causes[t] + 1
        BY <1>4, <3>1 DEF Begin, AnotherFor
      <4> QED BY <1>n, <2>5, <4>1
    <3>2. CASE On = {}
      <4>1. Cardinality(On) = 0 /\ Cardinality(Makers(t)) = 0
        BY <1>n, <3>2, FS_EmptySet
      <4>2. causes'[t] = IF ActiveOf(t) = {} THEN 0 ELSE causes[t]
        BY <1>4, <3>2 DEF Begin
      <4>3. ActiveOf(t) = {} => Cardinality(ActiveOf(t)) = 0
        BY FS_EmptySet
      <4> QED BY <1>n, <2>5, <4>1, <4>2, <4>3
    <3> QED BY <3>1, <3>2
  <2> QED BY <2>2, <2>3, <2>6 DEF OneInv
<1>5. ASSUME NEW r \in Runs, ReadActive(r) PROVE OneInv'
  <2>0. event' = event /\ causes' = causes
    BY <1>5 DEF ReadActive, history
  <2>f. /\ run[r].phase = "begun" /\ run'[r].phase = "scan"
        /\ run'[r].alone = run[r].alone
        /\ \A q \in Runs \ {r} : run'[q] = run[q]
        /\ \A t \in Tasks : run'[r].seen[t] \in IF ActiveOf(t) = {} THEN {NoEvent}
                                                ELSE ActiveOf(t)
    BY <1>5, <1>t, ReadActiveFields DEF Others
  <2>1. On' = On
    BY <2>f DEF On
  <2>2. Apart'
    BY <2>1, <2>f DEF OneInv, Apart, On
  <2>3. RowsOfOne'
    BY <2>0 DEF OneInv, RowsOfOne
  <2>4. SeenOwn'
    <3>1. ASSUME NEW t \in Tasks, run'[r].seen[t] # NoEvent
          PROVE  event[run'[r].seen[t]].of = {t}
      <4>1. run'[r].seen[t] \in ActiveOf(t)
        BY <2>f, <3>1
      <4> QED BY <4>1 DEF ActiveOf, OneInv, RowsOfOne
    <3> QED BY <2>0, <2>f, <3>1 DEF OneInv, SeenOwn
  <2>5. CountInv'
    <3> SUFFICES ASSUME NEW t \in Tasks
                 PROVE  Cardinality(ActiveOf(t)) + Cardinality(Makers(t)') <= 1 + causes[t]
      BY <1>n, <2>0, <2>1 DEF CountInv, ActiveOf
    <3>1. CASE ActiveOf(t) = {}
      <4>1. Makers(t)' \subseteq On
        BY <2>1, MakersOn, <2>f DEF Makers, On
      <4>2. Cardinality(Makers(t)') <= Cardinality(On) /\ Cardinality(Makers(t)') \in Nat
        BY <1>n, <4>1, Fewer
      <4>3. Cardinality(ActiveOf(t)) = 0
        BY <3>1, FS_EmptySet
      <4> QED BY <1>n, <4>2, <4>3
    <3>2. CASE ActiveOf(t) # {}
      <4>1. run'[r].seen[t] # NoEvent
        BY <2>f, <3>2, AlarmAssumption DEF ActiveOf
      <4>2. Makers(t)' = Makers(t)
        BY <2>f, <4>1 DEF Makers
      <4> QED BY <1>n, <4>2
    <3> QED BY <3>1, <3>2
  <2> QED BY <2>2, <2>3, <2>4, <2>5 DEF OneInv
<1>6. ASSUME NEW r \in Runs, ReadActiveFails(r) PROVE OneInv'
  <2>0. event' = event /\ \A t \in Tasks : causes'[t] = causes[t] + 1
    BY <1>6 DEF ReadActiveFails, AnotherFor
  <2>f. /\ run[r].phase = "begun" /\ run'[r].phase = "scan"
        /\ \A q \in Runs : run'[q].seen = run[q].seen /\ run'[q].alone = run[q].alone
        /\ \A q \in Runs \ {r} : run'[q] = run[q]
    BY <1>6, <1>t, ReadActiveFailsFields DEF Others, Keeps
  <2>1. On' = On
    BY <2>f DEF On
  <2>2. Apart' /\ RowsOfOne' /\ SeenOwn'
    BY <2>0, <2>1, <2>f DEF OneInv, Apart, On, RowsOfOne, SeenOwn
  <2>3. CountInv'
    <3> SUFFICES ASSUME NEW t \in Tasks
                 PROVE  Cardinality(Makers(t)') <= Cardinality(Makers(t)) + 1
                        /\ Cardinality(Makers(t)') \in Nat
      <4>1. \A t \in Tasks : ActiveOf(t)' = ActiveOf(t)
        BY <2>0 DEF ActiveOf
      <4> QED BY <1>n, <2>0, <2>1, <4>1 DEF CountInv
    <3>1. Makers(t)' \subseteq Makers(t) \cup {r}
      BY <2>f DEF Makers
    <3>2. IsFiniteSet(Makers(t))
      BY <1>n
    <3> QED BY <3>1, <3>2, OneMore
  <2> QED BY <2>2, <2>3 DEF OneInv
<1>7. ASSUME NEW r \in Runs, ListTasks(r) PROVE OneInv'
  BY <1>7, <1>t, ListTasksFields, CalmKeeps DEF ListTasks, history, Calm, Others, Keeps
<1>8. ASSUME NEW r \in Runs, NEW t \in Tasks, Detect(r, t) PROVE OneInv'
  <2>0. \A u \in Tasks : causes'[u] = IF u = t /\ t \in run[r].detected
                                      THEN causes[u] + 1 ELSE causes[u]
    BY <1>8 DEF Detect, AnotherFor
  <2>f. /\ run[r].phase = "scan" /\ run'[r].phase = "scan"
        /\ run'[r].detected = run[r].detected \cup {t}
        /\ \A q \in Runs : /\ run'[q].seen = run[q].seen /\ run'[q].alone = run[q].alone
                           /\ run'[q].phase = run[q].phase
        /\ \A q \in Runs \ {r} : run'[q].detected = run[q].detected
    <3>1. /\ Others(r) /\ Keeps(r)
          /\ run[r].phase = "scan" /\ run'[r].phase = "scan"
          /\ run'[r].detected = run[r].detected \cup {t}
      BY <1>8, <1>t, DetectFields
    <3> QED BY <3>1 DEF Others, Keeps
  <2>1. On' = On
    BY <2>f DEF On
  <2>2. Apart'
    BY <2>1, <2>f DEF OneInv, Apart, On
  <2>3. \A u \in Tasks \ {t} : Makers(u)' = Makers(u)
    BY <2>f DEF Makers
  <2>4. Makers(t)' = Makers(t) \ {r}
    BY <2>f DEF Makers
  <2>5. /\ Cardinality(Makers(t)') \in Nat
        /\ Cardinality(Makers(t)') = IF r \in Makers(t) THEN Cardinality(Makers(t)) - 1
                                     ELSE Cardinality(Makers(t))
    BY <1>n, <2>4, FS_RemoveElement, FS_CardinalityType
  <2>6. CASE run[r].seen[t] # NoEvent
    <3>1. event' = event
      BY <2>6, <1>8 DEF Detect
    <3>2. \A u \in Tasks : ActiveOf(u)' = ActiveOf(u)
      BY <3>1 DEF ActiveOf
    <3>3. RowsOfOne' /\ SeenOwn'
      BY <2>f, <3>1 DEF OneInv, RowsOfOne, SeenOwn
    <3>4. CountInv'
      BY <1>n, <2>0, <2>1, <2>3, <2>5, <3>2 DEF CountInv
    <3> QED BY <2>2, <3>3, <3>4 DEF OneInv
  <2>7. CASE run[r].seen[t] = NoEvent
    <3> DEFINE new == Row(r, t)
    <3>1. new \in Events /\ event[new].of = {}
      BY <1>8, <2>7, UnusedRow DEF Detect, Unused, Row
    <3>2. event' = [event EXCEPT ![new] = Created(t)]
      BY <1>8, <2>7 DEF Detect, Row
    <3>3. /\ event'[new].of = {t}
          /\ \A e \in Events \ {new} : event'[e] = event[e]
      BY <1>t, <3>1, <3>2 DEF Created
    <3>4. RowsOfOne'
      BY <3>3 DEF OneInv, RowsOfOne
    <3>5. SeenOwn'
      <4>1. \A q \in Runs : \A u \in Tasks :
              run[q].seen[u] # NoEvent => run[q].seen[u] \in Events \ {new}
        BY <1>s, <3>1 DEF OneInv, SeenOwn
      <4> QED BY <2>f, <3>3, <4>1 DEF OneInv, SeenOwn
    <3>6. \A u \in Tasks \ {t} : ActiveOf(u)' = ActiveOf(u)
      BY <3>1, <3>3 DEF ActiveOf
    <3>7. ActiveOf(t)' \subseteq ActiveOf(t) \cup {new}
      BY <3>3 DEF ActiveOf
    <3>8. /\ IsFiniteSet(ActiveOf(t)')
          /\ Cardinality(ActiveOf(t)') \in Nat
          /\ Cardinality(ActiveOf(t)') <= Cardinality(ActiveOf(t)) + 1
      <4>1. IsFiniteSet(ActiveOf(t))
        BY <1>n
      <4> QED BY <3>7, <4>1, OneMore
    <3>9. t \notin run[r].detected => r \in Makers(t)
      BY <2>f, <2>7 DEF Makers
    <3>10. CountInv'
      <4>1. \A u \in Tasks \ {t} :
              /\ Cardinality(On') <= 1 + causes'[u] /\ IsFiniteSet(ActiveOf(u)')
              /\ Cardinality(ActiveOf(u)') + Cardinality(Makers(u)') <= 1 + causes'[u]
        BY <1>n, <2>0, <2>1, <2>3, <3>6
      <4>2. /\ Cardinality(On') <= 1 + causes'[t]
            /\ Cardinality(ActiveOf(t)') + Cardinality(Makers(t)') <= 1 + causes'[t]
        BY <1>n, <2>0, <2>1, <2>5, <3>8, <3>9
      <4> QED BY <1>n, <2>1, <3>8, <4>1, <4>2 DEF CountInv
    <3> QED BY <2>2, <3>4, <3>5, <3>10 DEF OneInv
  <2> QED BY <2>6, <2>7
<1>9. ASSUME NEW r \in Runs, ScanFails(r) PROVE OneInv'
  BY <1>9, <1>t, ScanFailsFields, CalmKeeps DEF ScanFails, history, Calm, Others, Keeps
<1>10. ASSUME NEW r \in Runs, EndScan(r) PROVE OneInv'
  BY <1>10, <1>t, EndScanFields, CalmKeeps DEF EndScan, history, Calm, Others, Keeps
<1>11. ASSUME NEW r \in Runs, NEW t \in Tasks, Clear(r, t) PROVE OneInv'
  <2>1. \A e \in Events :
          event'[e].of = event[e].of /\ (event'[e].active => event[e].active)
    BY <1>11, <1>t DEF Clear
  <2> QED BY <1>11, <1>t, <2>1, ClearFields, CalmKeeps
          DEF Clear, history, Calm, Others, Keeps
<1>12. ASSUME NEW r \in Runs, Send(r) PROVE OneInv'
  BY <1>12, <1>t, SendFields, CalmKeeps DEF Send, Calm, Others, Keeps
<1>13. ASSUME NEW r \in Runs, Stop(r), event' = event, causes' = causes
       PROVE  OneInv'
  BY <1>13, <1>t, StopFields, CalmKeeps DEF Calm, Others
<1>14. ASSUME NEW r \in Runs, SendFails(r) \/ Finish(r) \/ Die(r) PROVE OneInv'
  BY <1>13, <1>14 DEF SendFails, Finish, Die
<1>15. ASSUME NEW r \in Runs, Stamp(r) PROVE OneInv'
  <2>1. \A e \in Events :
          event'[e].of = event[e].of /\ (event'[e].active => event[e].active)
    BY <1>15, <1>t DEF Stamp
  <2> QED BY <1>15, <1>t, <2>1, StampFields, CalmKeeps
          DEF Stamp, history, Calm, Others, Keeps
<1>16. CASE UNCHANGED vars
  BY <1>16, CalmKeeps DEF vars, history, Calm
<1> QED
  BY <1>1, <1>2, <1>3, <1>4, <1>5, <1>6, <1>7, <1>8, <1>9, <1>10, <1>11, <1>12,
     <1>14, <1>15, <1>16 DEF Next, RunStep

\* However many tasks, runs and failures: a task has one active event, and one
\* more for each run that overlapped others, each query of active events that
\* failed and each time a scan listed it again.
THEOREM OneActiveHolds == Spec => []OneActive
<1>1. TypeOK /\ OneInv => OneActive
  <2> SUFFICES ASSUME TypeOK, OneInv, NEW t \in Tasks
               PROVE  Cardinality(ActiveOf(t)) <= 1 + causes[t]
    BY DEF OneActive
  <2>1. Cardinality(Makers(t)) \in Nat /\ Cardinality(ActiveOf(t)) \in Nat
    BY MakersOn, Fewer, FS_CardinalityType DEF OneInv, CountInv
  <2>2. causes[t] \in Nat
    BY DEF TypeOK
  <2> QED BY <2>1, <2>2 DEF OneInv, CountInv
<1> QED BY <1>1, TypeInit, OneInit, TypeNext, OneNext, PTL DEF Spec

-------------------------------------------------------------------------------
(* One mail per window.                                                    *)

\* A run that has only begun knows nothing and has said nothing.
BegunEmpty ==
    \A r \in Runs : run[r].phase = "begun" =>
        /\ run[r].at = 1 /\ run[r].page = {} /\ run[r].detected = {}
        /\ run[r].bundle = {} /\ \A t \in Tasks : run[r].seen[t] = NoEvent

LEMMA BegunNext == TypeOK /\ BegunEmpty /\ [Next]_vars => BegunEmpty'
<1> SUFFICES ASSUME TypeOK, BegunEmpty, [Next]_vars PROVE BegunEmpty'
  OBVIOUS
<1>t. run \in [Runs -> Places]
  BY DEF TypeOK
<1>a. ASSUME NEW r \in Runs, Others(r), run'[r].phase # "begun" PROVE BegunEmpty'
  BY <1>a DEF BegunEmpty, Others
<1>1. CASE Elapse
  BY <1>1, <1>t, ElapseFields DEF BegunEmpty
<1>2. ASSUME NEW r \in Runs, NEW dry \in BOOLEAN, Begin(r, dry) PROVE BegunEmpty'
  BY <1>2, <1>t, BeginFields DEF BegunEmpty
<1>3. ASSUME NEW r \in Runs, ReadActive(r) PROVE BegunEmpty'
  BY <1>3, <1>a, <1>t, ReadActiveFields
<1>4. ASSUME NEW r \in Runs, ReadActiveFails(r) PROVE BegunEmpty'
  BY <1>4, <1>a, <1>t, ReadActiveFailsFields
<1>5. ASSUME NEW r \in Runs, ListTasks(r) PROVE BegunEmpty'
  BY <1>5, <1>a, <1>t, ListTasksFields
<1>6. ASSUME NEW r \in Runs, NEW t \in Tasks, Detect(r, t) PROVE BegunEmpty'
  BY <1>6, <1>a, <1>t, DetectFields
<1>7. ASSUME NEW r \in Runs, ScanFails(r) PROVE BegunEmpty'
  BY <1>7, <1>a, <1>t, ScanFailsFields
<1>8. ASSUME NEW r \in Runs, EndScan(r) PROVE BegunEmpty'
  BY <1>8, <1>a, <1>t, EndScanFields
<1>9. ASSUME NEW r \in Runs, NEW t \in Tasks, Clear(r, t) PROVE BegunEmpty'
  BY <1>9, <1>a, <1>t, ClearFields
<1>10. ASSUME NEW r \in Runs, Send(r) PROVE BegunEmpty'
  BY <1>10, <1>a, <1>t, SendFields
<1>11. ASSUME NEW r \in Runs, Stamp(r) PROVE BegunEmpty'
  BY <1>11, <1>a, <1>t, StampFields
<1>12. ASSUME NEW r \in Runs, SendFails(r) \/ Finish(r) \/ Die(r) PROVE BegunEmpty'
  <2>1. Stop(r)
    BY <1>12 DEF SendFails, Finish, Die
  <2> QED BY <2>1, <1>a, <1>t, StopFields
<1>13. CASE (\E t \in Tasks : TaskChanges(t)) \/ EditConfig \/ UNCHANGED vars
  <2>1. run' = run
    BY <1>13 DEF TaskChanges, EditConfig, vars
  <2> QED BY <2>1 DEF BegunEmpty
<1> QED
  BY <1>1, <1>2, <1>3, <1>4, <1>5, <1>6, <1>7, <1>8, <1>9, <1>10, <1>11, <1>12,
     <1>13 DEF Next, RunStep

\* What a run is to mail are rows that were written.
InUse == \A r \in Runs : \A e \in run[r].bundle : event[e].of # {}

LEMMA InUseNext == TypeOK /\ SeenOwn /\ InUse /\ [Next]_vars => InUse'
<1> SUFFICES ASSUME TypeOK, SeenOwn, InUse, [Next]_vars PROVE InUse'
  OBVIOUS
<1>t. /\ run \in [Runs -> Places]
      /\ event \in [Events -> [of : SUBSET Tasks, active : BOOLEAN, told : Told]]
      /\ \A r \in Runs : run[r].bundle \subseteq Events
      /\ \A r \in Runs : \A t \in Tasks : run[r].seen[t] \in Events \cup {NoEvent}
  BY Fields DEF TypeOK
<1>a. ASSUME \A e \in Events : event'[e].of = event[e].of,
             \A q \in Runs : run'[q].bundle \subseteq run[q].bundle
      PROVE  InUse'
  BY <1>a, <1>t DEF InUse
<1>1. CASE Elapse
  <2>1. \A e \in Events : event'[e].of = event[e].of
    BY <1>1, <1>t DEF Elapse
  <2> QED BY <1>1, <1>a, <1>t, <2>1, ElapseFields
<1>2. CASE (\E t \in Tasks : TaskChanges(t)) \/ EditConfig \/ UNCHANGED vars
  <2>1. UNCHANGED <<run, event>>
    BY <1>2 DEF TaskChanges, EditConfig, vars
  <2> QED BY <2>1 DEF InUse
<1>3. ASSUME NEW r \in Runs, NEW dry \in BOOLEAN, Begin(r, dry) PROVE InUse'
  <2>1. event' = event
    BY <1>3 DEF Begin
  <2>2. \A q \in Runs : run'[q].bundle \subseteq run[q].bundle
    BY <1>3, <1>t, BeginFields
  <2> QED BY <1>a, <2>1, <2>2
<1>4. ASSUME NEW r \in Runs, NEW t \in Tasks, Detect(r, t) PROVE InUse'
  <2>1. /\ \A q \in Runs \ {r} : run'[q].bundle = run[q].bundle
        /\ run'[r].bundle \subseteq run[r].bundle \cup {Row(r, t)}
    BY <1>4, <1>t, DetectFields DEF Others
  <2>2. CASE run[r].seen[t] # NoEvent
    <3>1. event' = event
      BY <1>4, <2>2 DEF Detect, Created
    <3>2. Row(r, t) \in Events /\ event[Row(r, t)].of # {}
      BY <1>t, <2>2 DEF Row, SeenOwn
    <3> QED BY <2>1, <3>1, <3>2, <1>t DEF InUse
  <2>3. CASE run[r].seen[t] = NoEvent
    <3>1. Row(r, t) \in Events
      BY <1>4, <2>3, UnusedRow DEF Detect, Created, Unused, Row
    <3>2. event' = [event EXCEPT ![Row(r, t)] =
                      [of |-> {t}, active |-> TRUE, told |-> "never"]]
      BY <1>4, <2>3 DEF Detect, Created, Row
    <3>3. /\ event'[Row(r, t)].of = {t}
          /\ \A e \in Events \ {Row(r, t)} : event'[e] = event[e]
      BY <1>t, <3>1, <3>2
    <3>4. \A q \in Runs : \A e \in run'[q].bundle :
            e = Row(r, t) \/ (e \in Events /\ event[e].of # {})
      <4>1. ASSUME NEW q \in Runs, NEW e \in run'[q].bundle, e # Row(r, t)
            PROVE  e \in Events /\ event[e].of # {}
        <5>1. e \in run[q].bundle
          BY <4>1, <2>1
        <5> QED BY <5>1, <1>t DEF InUse
      <4> QED BY <4>1
    <3> QED BY <3>3, <3>4 DEF InUse
  <2> QED BY <2>2, <2>3
<1>5. ASSUME NEW r \in Runs, NEW t \in Tasks, Clear(r, t) PROVE InUse'
  <2>1. \A e \in Events : event'[e].of = event[e].of
    BY <1>5, <1>t DEF Clear
  <2>2. \A q \in Runs : run'[q].bundle \subseteq run[q].bundle
    BY <1>5, <1>t, ClearFields DEF Others
  <2> QED BY <1>a, <2>1, <2>2
<1>6. ASSUME NEW r \in Runs, Stamp(r) PROVE InUse'
  <2>1. \A e \in Events : event'[e].of = event[e].of
    BY <1>6, <1>t DEF Stamp
  <2>2. \A q \in Runs : run'[q].bundle \subseteq run[q].bundle
    BY <1>6, <1>t, StampFields DEF Others
  <2> QED BY <1>a, <2>1, <2>2
<1>b. ASSUME NEW r \in Runs, event' = event, Others(r),
             run'[r].bundle \subseteq run[r].bundle
      PROVE  InUse'
  BY <1>a, <1>b DEF Others
<1>7. ASSUME NEW r \in Runs, ReadActive(r) PROVE InUse'
  BY <1>7, <1>b, <1>t, ReadActiveFields DEF ReadActive
<1>8. ASSUME NEW r \in Runs, ReadActiveFails(r) PROVE InUse'
  BY <1>8, <1>b, <1>t, ReadActiveFailsFields DEF ReadActiveFails
<1>9. ASSUME NEW r \in Runs, ListTasks(r) PROVE InUse'
  BY <1>9, <1>b, <1>t, ListTasksFields DEF ListTasks
<1>10. ASSUME NEW r \in Runs, ScanFails(r) PROVE InUse'
  BY <1>10, <1>b, <1>t, ScanFailsFields DEF ScanFails
<1>11. ASSUME NEW r \in Runs, EndScan(r) PROVE InUse'
  BY <1>11, <1>b, <1>t, EndScanFields DEF EndScan
<1>12. ASSUME NEW r \in Runs, Send(r) PROVE InUse'
  BY <1>12, <1>b, <1>t, SendFields DEF Send
<1>13. ASSUME NEW r \in Runs, SendFails(r) \/ Finish(r) \/ Die(r) PROVE InUse'
  <2>1. Stop(r) /\ event' = event
    BY <1>13 DEF SendFails, Finish, Die
  <2> QED BY <2>1, <1>b, <1>t, StopFields
<1> QED
  BY <1>1, <1>2, <1>3, <1>4, <1>5, <1>6, <1>7, <1>8, <1>9, <1>10, <1>11, <1>12,
     <1>13 DEF Next, RunStep

\* An event mailed within the window is stamped, or being stamped, and a
\* lone run that goes by older knowledge of it is not about.
Settled(e) ==
    /\ event[e].of # {}
    /\ \/ event[e].told = "fresh"
       \/ \E r \in Runs : run[r].phase = "stamp" /\ e \in run[r].bundle
    /\ \A r \in Runs :
         run[r].alone /\ run[r].phase \in {"scan", "clear", "send"} =>
            /\ e \notin run[r].bundle
            /\ run[r].phase = "scan" =>
                 \A t \in Tasks : run[r].seen[t] = e => run[r].told[t] = "fresh"

MailInv ==
    \A e \in Events :
        inbox[e] <= unsure[e] + 1 /\ (inbox[e] > unsure[e] => Settled(e))

\* Many actions take nothing from what MailInv says.
CalmMail ==
    /\ \A e \in Events :
         /\ inbox'[e] - unsure'[e] <= inbox[e] - unsure[e]
         /\ event'[e].of = event[e].of /\ event'[e].told = event[e].told
    /\ \A q \in Runs :
         \/ /\ run'[q].phase = "off"
            /\ run[q].phase = "stamp" => \A e \in run[q].bundle : inbox'[e] <= unsure'[e]
         \/ /\ run'[q].alone = run[q].alone /\ run'[q].bundle = run[q].bundle
            /\ run'[q].seen = run[q].seen /\ run'[q].told = run[q].told
            /\ run'[q].phase = "stamp" <=> run[q].phase = "stamp"
            /\ run'[q].phase \in {"scan", "clear", "send"} =>
                 run[q].phase \in {"scan", "clear", "send"}
            /\ run'[q].phase = "scan" => run[q].phase = "scan"

LEMMA CalmMailKeeps ==
  ASSUME TypeOK, inbox' \in [Events -> Nat], unsure' \in [Events -> Nat],
         MailInv, CalmMail
  PROVE  MailInv'
<1> SUFFICES ASSUME NEW e \in Events
             PROVE  inbox'[e] <= unsure'[e] + 1 /\ (inbox'[e] > unsure'[e] => Settled(e)')
  BY DEF MailInv
<1>1. inbox[e] \in Nat /\ unsure[e] \in Nat /\ inbox'[e] \in Nat /\ unsure'[e] \in Nat
  BY DEF TypeOK
<1>2. /\ inbox'[e] - unsure'[e] <= inbox[e] - unsure[e]
      /\ inbox[e] <= unsure[e] + 1 /\ (inbox[e] > unsure[e] => Settled(e))
  BY DEF MailInv, CalmMail
<1>3. ASSUME Settled(e), inbox'[e] > unsure'[e] PROVE Settled(e)'
  <2>1. event'[e].of # {}
    BY <1>3 DEF Settled, CalmMail
  <2>2. \/ event'[e].told = "fresh"
        \/ \E r \in Runs : run'[r].phase = "stamp" /\ e \in run'[r].bundle
    <3>1. CASE event[e].told = "fresh"
      BY <3>1 DEF CalmMail
    <3>2. ASSUME NEW r \in Runs, run[r].phase = "stamp", e \in run[r].bundle
          PROVE  run'[r].phase = "stamp" /\ e \in run'[r].bundle
      <4>1. ~ (inbox'[e] <= unsure'[e])
        BY <1>1, <1>3
      <4> QED BY <3>2, <4>1 DEF CalmMail
    <3> QED BY <1>3, <3>1, <3>2 DEF Settled
  <2>3. ASSUME NEW r \in Runs, run'[r].alone,
               run'[r].phase \in {"scan", "clear", "send"}
        PROVE  /\ e \notin run'[r].bundle
               /\ run'[r].phase = "scan" =>
                    \A t \in Tasks : run'[r].seen[t] = e => run'[r].told[t] = "fresh"
    <3>1. /\ run'[r].alone = run[r].alone /\ run'[r].bundle = run[r].bundle
          /\ run'[r].seen = run[r].seen /\ run'[r].told = run[r].told
          /\ run[r].phase \in {"scan", "clear", "send"}
          /\ run'[r].phase = "scan" => run[r].phase = "scan"
      BY <2>3 DEF CalmMail
    <3>2. /\ e \notin run[r].bundle
          /\ run[r].phase = "scan" =>
               \A t \in Tasks : run[r].seen[t] = e => run[r].told[t] = "fresh"
      BY <3>1, <2>3, <1>3 DEF Settled
    <3> QED BY <3>1, <3>2
  <2> QED BY <2>1, <2>2, <2>3 DEF Settled
<1> QED BY <1>1, <1>2, <1>3

LEMMA MailNext ==
  TypeOK /\ InUse /\ Apart /\ BegunEmpty /\ MailInv /\ [Next]_vars => MailInv'
<1> SUFFICES ASSUME TypeOK, InUse, Apart, BegunEmpty, MailInv, [Next]_vars
             PROVE  MailInv'
  OBVIOUS
<1>t. /\ run \in [Runs -> Places]
      /\ event \in [Events -> [of : SUBSET Tasks, active : BOOLEAN, told : Told]]
      /\ inbox \in [Events -> Nat] /\ unsure \in [Events -> Nat]
  BY DEF TypeOK
<1>u. inbox' \in [Events -> Nat] /\ unsure' \in [Events -> Nat]
  BY TypeNext DEF TypeOK
<1>e. \A e \in Events :
        inbox[e] <= unsure[e] + 1 /\ (inbox[e] > unsure[e] => Settled(e))
  BY DEF MailInv
<1>z. ASSUME UNCHANGED <<inbox, unsure>>
      PROVE  \A e \in Events : inbox'[e] - unsure'[e] <= inbox[e] - unsure[e]
  <2> SUFFICES ASSUME NEW e \in Events
               PROVE  inbox'[e] - unsure'[e] <= inbox[e] - unsure[e]
    OBVIOUS
  <2>1. inbox[e] - unsure[e] \in Int
    BY <1>t
  <2> QED BY <1>z, <2>1
<1>1. CASE Elapse
  <2>1. \A e \in Events : inbox'[e] = 0 /\ unsure'[e] = 0
    BY <1>1 DEF Elapse
  <2> QED BY <2>1 DEF MailInv
<1>2. CASE (\E t \in Tasks : TaskChanges(t)) \/ EditConfig \/ UNCHANGED vars
  BY <1>2, <1>t, <1>u, CalmMailKeeps
  DEF TaskChanges, EditConfig, vars, history, CalmMail
<1>3. ASSUME NEW r \in Runs, NEW dry \in BOOLEAN, Begin(r, dry) PROVE MailInv'
  <2>1. UNCHANGED <<event, inbox, unsure>>
    BY <1>3 DEF Begin
  <2>f. /\ run[r].phase = "off" /\ run'[r].phase = "begun"
        /\ \A q \in Runs \ {r} :
             /\ run'[q].phase = run[q].phase /\ run'[q].bundle = run[q].bundle
             /\ run[q].phase # "off" => ~ run'[q].alone
    BY <1>3, <1>t, BeginFields DEF On
  <2>2. ASSUME NEW e \in Events, Settled(e) PROVE Settled(e)'
    BY <2>1, <2>2, <2>f DEF Settled
  <2> QED BY <2>1, <2>2, <1>e DEF MailInv
<1>4. ASSUME NEW r \in Runs, ReadActive(r) PROVE MailInv'
  <2>1. UNCHANGED <<event, inbox, unsure>>
    BY <1>4 DEF ReadActive, history
  <2>f. /\ run[r].phase = "begun" /\ run'[r].phase = "scan"
        /\ run'[r].alone = run[r].alone /\ run'[r].bundle = {}
        /\ \A q \in Runs \ {r} : run'[q] = run[q]
        /\ \A t \in Tasks : run'[r].seen[t] # NoEvent =>
             run'[r].told[t] = event[run'[r].seen[t]].told
    BY <1>4, <1>t, ReadActiveFields DEF BegunEmpty, Others
  <2>2. ASSUME NEW e \in Events, Settled(e) PROVE Settled(e)'
    <3>1. run[r].alone => event[e].told = "fresh"
      BY <2>2, <2>f DEF Settled, Apart, On
    <3>2. \A t \in Tasks : run[r].alone /\ run'[r].seen[t] = e =>
                             run'[r].told[t] = "fresh"
      BY <2>f, <3>1, AlarmAssumption
    <3> QED BY <2>1, <2>2, <2>f, <3>2 DEF Settled
  <2> QED BY <2>1, <2>2, <1>e DEF MailInv
<1>5. ASSUME NEW r \in Runs, ReadActiveFails(r) PROVE MailInv'
  <2>1. UNCHANGED <<event, inbox, unsure>>
    BY <1>5 DEF ReadActiveFails
  <2>f. /\ run[r].phase = "begun" /\ run'[r].phase = "scan" /\ run'[r].bundle = {}
        /\ \A q \in Runs \ {r} : run'[q] = run[q]
        /\ \A t \in Tasks : run'[r].seen[t] = NoEvent
    BY <1>5, <1>t, ReadActiveFailsFields DEF BegunEmpty, Others, Keeps
  <2>2. ASSUME NEW e \in Events, Settled(e) PROVE Settled(e)'
    BY <2>1, <2>2, <2>f, AlarmAssumption DEF Settled
  <2> QED BY <2>1, <2>2, <1>e DEF MailInv
<1>6. ASSUME NEW r \in Runs, ListTasks(r) PROVE MailInv'
  <2>1. UNCHANGED <<event, inbox, unsure>>
    BY <1>6 DEF ListTasks, history
  <2> QED BY <1>6, <1>t, <1>u, <1>z, <2>1, ListTasksFields, CalmMailKeeps
          DEF CalmMail, Others, Keeps
<1>7. ASSUME NEW r \in Runs, NEW t \in Tasks, Detect(r, t) PROVE MailInv'
  <2>1. UNCHANGED <<inbox, unsure>>
    BY <1>7 DEF Detect, Created
  <2>f. /\ run[r].phase = "scan" /\ run'[r].phase = "scan"
        /\ run'[r].alone = run[r].alone
        /\ run'[r].seen = run[r].seen /\ run'[r].told = run[r].told
        /\ run'[r].bundle =
             IF run[r].seen[t] = NoEvent \/ Renotifies(r, t)
             THEN run[r].bundle \cup {Row(r, t)} ELSE run[r].bundle
        /\ \A q \in Runs \ {r} : run'[q] = run[q]
    BY <1>7, <1>t, DetectFields DEF Others, Keeps
  <2>2. ASSUME NEW e \in Events, Settled(e) PROVE Settled(e)'
    <3>1. event'[e] = event[e] /\ (run[r].seen[t] = NoEvent => e # Row(r, t))
      <4>1. CASE run[r].seen[t] # NoEvent
        BY <4>1, <1>7 DEF Detect, Created
      <4>2. CASE run[r].seen[t] = NoEvent
        <5>1. Row(r, t) \in Unused
          BY <4>2, <1>7, UnusedRow DEF Detect, Created, Row
        <5>2. e # Row(r, t)
          BY <5>1, <2>2 DEF Unused, Settled
        <5>3. event' = [event EXCEPT ![Row(r, t)] =
                          [of |-> {t}, active |-> TRUE, told |-> "never"]]
          BY <4>2, <1>7 DEF Detect, Created, Row
        <5> QED BY <5>2, <5>3, <1>t
      <4> QED BY <4>1, <4>2
    <3>2. run[r].alone /\ run[r].seen[t] = e => ~ Renotifies(r, t)
      BY <2>2, <2>f DEF Settled, Renotifies
    <3>3. run[r].alone => e \notin run'[r].bundle
      <4> SUFFICES ASSUME run[r].alone PROVE e \notin run'[r].bundle
        OBVIOUS
      <4>1. e \notin run[r].bundle
        BY <2>2, <2>f DEF Settled
      <4> QED BY <2>f, <3>1, <3>2, <4>1 DEF Row
    <3> QED BY <2>2, <2>f, <3>1, <3>3 DEF Settled
  <2> QED BY <2>1, <2>2, <1>e DEF MailInv
<1>8. ASSUME NEW r \in Runs, ScanFails(r) PROVE MailInv'
  <2>1. UNCHANGED <<event, inbox, unsure>>
    BY <1>8 DEF ScanFails, history
  <2> QED BY <1>8, <1>t, <1>u, <1>z, <2>1, ScanFailsFields, CalmMailKeeps
          DEF CalmMail, Others, Keeps
<1>9. ASSUME NEW r \in Runs, EndScan(r) PROVE MailInv'
  <2>1. UNCHANGED <<event, inbox, unsure>>
    BY <1>9 DEF EndScan, history
  <2> QED BY <1>9, <1>t, <1>u, <1>z, <2>1, EndScanFields, CalmMailKeeps
          DEF CalmMail, Others, Keeps
<1>10. ASSUME NEW r \in Runs, NEW t \in Tasks, Clear(r, t) PROVE MailInv'
  <2>1. \A e \in Events : event'[e].of = event[e].of /\ event'[e].told = event[e].told
    BY <1>10, <1>t DEF Clear
  <2>2. UNCHANGED <<inbox, unsure>>
    BY <1>10 DEF Clear, history
  <2> QED BY <1>10, <2>1, <2>2, <1>t, <1>u, <1>z, ClearFields, CalmMailKeeps
          DEF CalmMail, Others, Keeps
<1>11. ASSUME NEW r \in Runs, Send(r) PROVE MailInv'
  <2>f. /\ run[r].phase \in {"send", "clear"} /\ run'[r].phase = "stamp"
        /\ run'[r].bundle = run[r].bundle
        /\ \A q \in Runs \ {r} : run'[q] = run[q]
    BY <1>11, <1>t, SendFields DEF Others
  <2>1. /\ event' = event
        /\ \A e \in Events :
             inbox'[e] = IF e \in run[r].bundle THEN inbox[e] + 1 ELSE inbox[e]
        /\ \A e \in Events :
             unsure'[e] = IF e \in run[r].bundle /\ ~ run[r].alone THEN unsure[e] + 1
                          ELSE unsure[e]
    BY <1>11 DEF Send, Delivered, Listing
  <2> SUFFICES ASSUME NEW e \in Events
               PROVE  inbox'[e] <= unsure'[e] + 1 /\ (inbox'[e] > unsure'[e] => Settled(e)')
    BY DEF MailInv
  <2>2. inbox[e] \in Nat /\ unsure[e] \in Nat
    BY <1>t
  <2>3. CASE ~ (e \in run[r].bundle /\ run[r].alone)
    <3>1. ASSUME Settled(e) PROVE Settled(e)'
      BY <2>1, <2>f, <3>1 DEF Settled
    <3>2. \/ inbox'[e] = inbox[e] /\ unsure'[e] = unsure[e]
          \/ inbox'[e] = inbox[e] + 1 /\ unsure'[e] = unsure[e] + 1
      BY <2>1, <2>3
    <3> QED BY <1>e, <2>2, <3>1, <3>2
  <2>4. CASE e \in run[r].bundle /\ run[r].alone
    <3>1. ~ Settled(e)
      BY <2>4, <2>f DEF Settled
    <3>2. inbox'[e] = inbox[e] + 1 /\ unsure'[e] = unsure[e] /\ inbox[e] <= unsure[e]
      BY <1>e, <2>1, <2>2, <2>4, <3>1
    <3>3. \A q \in Runs \ {r} : run'[q].phase = "off"
      BY <2>4, <2>f DEF Apart, On
    <3>4. event[e].of # {}
      BY <2>4 DEF InUse
    <3>5. Settled(e)'
      BY <2>1, <2>4, <2>f, <3>3, <3>4 DEF Settled
    <3> QED BY <2>2, <3>2, <3>5
  <2> QED BY <2>3, <2>4
<1>12. ASSUME NEW r \in Runs, SendFails(r) PROVE MailInv'
  <2>1. Stop(r) /\ event' = event /\ run[r].phase # "stamp"
    BY <1>12 DEF SendFails, Ready
  <2>2. \A e \in Events : inbox'[e] - unsure'[e] <= inbox[e] - unsure[e]
    BY <1>12, <1>t DEF SendFails, Delivered, Listing
  <2> QED BY <2>1, <2>2, <1>t, <1>u, StopFields, CalmMailKeeps DEF CalmMail, Others
<1>13. ASSUME NEW r \in Runs, Stamp(r) PROVE MailInv'
  <2>1. UNCHANGED <<inbox, unsure>>
    BY <1>13 DEF Stamp, history
  <2>2. PICK s \in run[r].bundle : /\ event' = [event EXCEPT ![s].told = "fresh"]
                                   /\ run'[r].bundle = run[r].bundle \ {s}
    BY <1>13, <1>t, StampFields
  <2>f. /\ run[r].phase = "stamp" /\ run'[r].phase = "stamp"
        /\ \A q \in Runs \ {r} : run'[q] = run[q]
    BY <1>13, <1>t, StampFields DEF Others
  <2>3. ASSUME NEW e \in Events, Settled(e) PROVE Settled(e)'
    <3>1. /\ event'[e].of = event[e].of
          /\ event[e].told = "fresh" \/ e = s => event'[e].told = "fresh"
      BY <2>2, <1>t
    <3> QED BY <2>2, <2>f, <2>3, <3>1 DEF Settled
  <2> QED BY <2>1, <2>3, <1>e DEF MailInv
<1>14. ASSUME NEW r \in Runs, Finish(r) PROVE MailInv'
  <2>1. /\ Stop(r) /\ UNCHANGED <<event, inbox, unsure>>
        /\ run[r].phase = "stamp" => run[r].bundle = {}
    BY <1>14 DEF Finish, Ready
  <2> QED BY <2>1, <1>t, <1>u, StopFields, CalmMailKeeps DEF CalmMail, Others
<1>15. ASSUME NEW r \in Runs, Die(r) PROVE MailInv'
  <2>1. Stop(r) /\ UNCHANGED <<event, inbox>>
    BY <1>15 DEF Die
  <2>2. /\ \A e \in Events : inbox'[e] - unsure'[e] <= inbox[e] - unsure[e]
        /\ run[r].phase = "stamp" => \A e \in run[r].bundle : inbox'[e] <= unsure'[e]
    <3>1. /\ run[r].phase # "stamp" => unsure' = unsure
          /\ run[r].phase = "stamp" => \A e \in Events :
               unsure'[e] = IF e \in run[r].bundle THEN unsure[e] + 1 ELSE unsure[e]
      BY <1>15 DEF Die, Listing
    <3>2. run[r].bundle \subseteq Events
      BY <1>t, Fields
    <3> QED BY <1>e, <1>t, <2>1, <3>1, <3>2
  <2> QED BY <2>1, <2>2, <1>t, <1>u, StopFields, CalmMailKeeps DEF CalmMail, Others
<1> QED
  BY <1>1, <1>2, <1>3, <1>4, <1>5, <1>6, <1>7, <1>8, <1>9, <1>10, <1>11, <1>12,
     <1>13, <1>14, <1>15 DEF Next, RunStep

\* Whatever fails and however runs interleave: within a window an event is
\* mailed once, and once more for each of its mails whose answer or stamp was
\* lost or that an overlapping run sent.
THEOREM OneMailPerWindowHolds == Spec => []OneMailPerWindow
<1>1. Init => BegunEmpty /\ InUse /\ MailInv
  BY DEF Init, Idle, BegunEmpty, InUse, MailInv
<1>2. TypeOK /\ MailInv => OneMailPerWindow
  <2> SUFFICES ASSUME TypeOK, MailInv, NEW e \in Events
               PROVE  inbox[e] <= 1 + unsure[e]
    BY DEF OneMailPerWindow
  <2>1. unsure[e] \in Nat
    BY DEF TypeOK
  <2> QED BY <2>1 DEF MailInv
<1>3. OneInv => Apart /\ SeenOwn
  BY DEF OneInv
<1> QED BY <1>1, <1>2, <1>3, TypeInit, TypeNext, OneInit, OneNext, BegunNext,
           InUseNext, MailNext, PTL DEF Spec

-------------------------------------------------------------------------------
(* Only what has lapsed is cleared.                                        *)

\* A task that fires steadily since the run began has been listed once the
\* scan is past its status, so what is left to clear does not.
Listed ==
    \A r \in Runs : \A t \in Tasks \ lapsed[r] :
        /\ r \in On => task[t] \in Range(Statuses)
        /\ run[r].phase = "scan" =>
             \A i \in DOMAIN Statuses :
                 i < run[r].at /\ Statuses[i] = task[t] =>
                     t \in run[r].page \cup run[r].detected
        /\ run[r].phase = "clear" => t \notin run[r].page

ClearKnown ==
    \A r \in Runs : run[r].phase = "clear" =>
        \A t \in run[r].page : run[r].seen[t] # NoEvent

LEMMA ListNext ==
  TypeOK /\ BegunEmpty /\ Listed /\ ClearKnown /\ [Next]_vars => Listed' /\ ClearKnown'
<1> SUFFICES ASSUME TypeOK, BegunEmpty, Listed, ClearKnown, [Next]_vars
             PROVE  Listed' /\ ClearKnown'
  OBVIOUS
<1>t. /\ run \in [Runs -> Places] /\ lapsed \in [Runs -> SUBSET Tasks]
      /\ task \in [Tasks -> Range(Statuses) \cup {"quiet"}]
  BY DEF TypeOK
<1>p. \A r \in Runs : run[r].page \subseteq Tasks /\ run[r].at \in Nat
  BY <1>t, Fields, AlarmAssumption
\* A step that takes r elsewhere and leaves the tasks and the others alone.
<1>a. ASSUME NEW r \in Runs, task' = task, lapsed' = lapsed, Others(r),
             run[r].phase # "off", run'[r].phase \in {"send", "stamp", "off"}
      PROVE  Listed' /\ ClearKnown'
  BY <1>a DEF Listed, ClearKnown, Others, On
<1>1. CASE Elapse
  <2>1. task' = task /\ lapsed' = lapsed
    BY <1>1 DEF Elapse
  <2> QED BY <2>1, <1>1, <1>t, ElapseFields DEF Listed, ClearKnown, On
<1>2. ASSUME NEW u \in Tasks, TaskChanges(u) PROVE Listed' /\ ClearKnown'
  <2>1. /\ run' = run
        /\ \A t \in Tasks \ {u} : task'[t] = task[t]
        /\ \A r \in Runs : run[r].phase # "off" => lapsed'[r] = lapsed[r] \cup {u}
    BY <1>2, <1>t DEF TaskChanges, On
  <2>2. Listed'
    <3> SUFFICES ASSUME NEW r \in Runs, NEW t \in Tasks \ lapsed'[r], r \in On
                 PROVE  /\ task'[t] \in Range(Statuses)
                        /\ run[r].phase = "scan" =>
                             \A i \in DOMAIN Statuses :
                                 i < run[r].at /\ Statuses[i] = task'[t] =>
                                     t \in run[r].page \cup run[r].detected
                        /\ run[r].phase = "clear" => t \notin run[r].page
      BY <2>1 DEF Listed, On
    <3>1. t \notin lapsed[r] /\ t # u
      BY <2>1 DEF On
    <3> QED BY <2>1, <3>1 DEF Listed
  <2> QED BY <2>1, <2>2 DEF ClearKnown
<1>3. CASE EditConfig \/ UNCHANGED vars
  <2>1. UNCHANGED <<task, run, lapsed>>
    BY <1>3 DEF EditConfig, history, vars
  <2> QED BY <2>1 DEF Listed, ClearKnown, On
<1>4. ASSUME NEW r \in Runs, NEW dry \in BOOLEAN, Begin(r, dry)
      PROVE  Listed' /\ ClearKnown'
  <2>1. /\ task' = task
        /\ lapsed'[r] = {t \in Tasks : task[t] = "quiet"}
        /\ \A q \in Runs \ {r} : lapsed'[q] = lapsed[q]
    BY <1>4, <1>t DEF Begin
  <2>f. /\ run'[r].phase = "begun"
        /\ \A q \in Runs \ {r} :
             /\ run'[q].phase = run[q].phase /\ run'[q].seen = run[q].seen
             /\ run'[q].at = run[q].at /\ run'[q].page = run[q].page
             /\ run'[q].detected = run[q].detected
    BY <1>4, <1>t, BeginFields
  <2>2. \A t \in Tasks \ lapsed'[r] : task[t] \in Range(Statuses)
    BY <2>1, <1>t
  <2> QED BY <2>1, <2>2, <2>f DEF Listed, ClearKnown, On
<1>5. ASSUME NEW r \in Runs, ReadActive(r) \/ ReadActiveFails(r)
      PROVE  Listed' /\ ClearKnown'
  <2>1. task' = task /\ lapsed' = lapsed
    BY <1>5 DEF ReadActive, ReadActiveFails, history
  <2>f. /\ run[r].phase = "begun" /\ run'[r].phase = "scan" /\ run'[r].at = 1
        /\ \A q \in Runs \ {r} : run'[q] = run[q]
    BY <1>5, <1>t, ReadActiveFields, ReadActiveFailsFields DEF BegunEmpty, Others
  <2>2. \A i \in DOMAIN Statuses : ~ (i < 1)
    BY AlarmAssumption
  <2> QED BY <2>1, <2>2, <2>f DEF Listed, ClearKnown, On
<1>6. ASSUME NEW r \in Runs, ListTasks(r) PROVE Listed' /\ ClearKnown'
  <2>1. task' = task /\ lapsed' = lapsed
    BY <1>6 DEF ListTasks, history
  <2>f. /\ run[r].phase = "scan" /\ run'[r].phase = "scan"
        /\ run[r].page = {} /\ run'[r].at = run[r].at + 1
        /\ run'[r].page = {t \in Tasks : task[t] = Statuses[run[r].at]}
        /\ run'[r].detected = run[r].detected
        /\ \A q \in Runs \ {r} : run'[q] = run[q]
    BY <1>6, <1>t, ListTasksFields DEF Others
  <2>2. ASSUME NEW t \in Tasks \ lapsed[r], NEW i \in DOMAIN Statuses,
               i < run'[r].at, Statuses[i] = task[t]
        PROVE  t \in run'[r].page \cup run'[r].detected
    <3>1. CASE i = run[r].at
      BY <2>2, <2>f, <3>1
    <3>2. CASE i < run[r].at
      BY <2>2, <2>f, <3>2 DEF Listed
    <3>3. i \in Nat
      BY AlarmAssumption
    <3> QED BY <1>p, <2>2, <2>f, <3>1, <3>2, <3>3
  <2> QED BY <2>1, <2>2, <2>f DEF Listed, ClearKnown, On
<1>7. ASSUME NEW r \in Runs, NEW u \in Tasks, Detect(r, u)
      PROVE  Listed' /\ ClearKnown'
  <2>1. task' = task /\ lapsed' = lapsed
    BY <1>7 DEF Detect, Created
  <2>f. /\ run[r].phase = "scan" /\ run'[r].phase = "scan" /\ run'[r].at = run[r].at
        /\ run'[r].page = run[r].page \ {u}
        /\ run'[r].detected = run[r].detected \cup {u}
        /\ \A q \in Runs \ {r} : run'[q] = run[q]
    BY <1>7, <1>t, DetectFields DEF Others
  <2> QED BY <2>1, <2>f DEF Listed, ClearKnown, On
<1>8. ASSUME NEW r \in Runs, EndScan(r) PROVE Listed' /\ ClearKnown'
  <2>1. task' = task /\ lapsed' = lapsed
    BY <1>8 DEF EndScan, history
  <2>f. /\ run[r].phase = "scan" /\ run'[r].phase = "clear"
        /\ run[r].page = {} /\ \A i \in DOMAIN Statuses : i < run[r].at
        /\ run'[r].page = {t \in Tasks : run[r].seen[t] # NoEvent} \ run[r].detected
        /\ run'[r].seen = run[r].seen
        /\ \A q \in Runs \ {r} : run'[q] = run[q]
    BY <1>8, <1>t, EndScanFields DEF Others, Keeps
  <2>2. ASSUME NEW t \in Tasks \ lapsed[r]
        PROVE  task[t] \in Range(Statuses) /\ t \notin run'[r].page
    <3>1. task[t] \in Range(Statuses)
      BY <2>f DEF Listed, On
    <3>2. PICK i \in DOMAIN Statuses : Statuses[i] = task[t]
      BY <3>1 DEF Range
    <3>3. t \in run[r].detected
      BY <2>f, <3>2 DEF Listed
    <3> QED BY <2>f, <3>1, <3>3
  <2> QED BY <2>1, <2>2, <2>f DEF Listed, ClearKnown, On
<1>9. ASSUME NEW r \in Runs, NEW u \in Tasks, Clear(r, u)
      PROVE  Listed' /\ ClearKnown'
  <2>1. task' = task /\ lapsed' = lapsed
    BY <1>9 DEF Clear, history
  <2>f. /\ run[r].phase = "clear" /\ run'[r].phase = "clear"
        /\ run'[r].page = run[r].page \ {u} /\ run'[r].seen = run[r].seen
        /\ \A q \in Runs \ {r} : run'[q] = run[q]
    BY <1>9, <1>t, ClearFields DEF Others, Keeps
  <2> QED BY <2>1, <2>f DEF Listed, ClearKnown, On
<1>10. ASSUME NEW r \in Runs, ScanFails(r) PROVE Listed' /\ ClearKnown'
  BY <1>10, <1>a, <1>t, ScanFailsFields DEF ScanFails, history
<1>11. ASSUME NEW r \in Runs, Send(r) PROVE Listed' /\ ClearKnown'
  BY <1>11, <1>a, <1>t, SendFields DEF Send
<1>12. ASSUME NEW r \in Runs, Stamp(r) PROVE Listed' /\ ClearKnown'
  BY <1>12, <1>a, <1>t, StampFields DEF Stamp, history
<1>13. ASSUME NEW r \in Runs, SendFails(r) \/ Finish(r) \/ Die(r)
       PROVE  Listed' /\ ClearKnown'
  <2>1. /\ Stop(r) /\ task' = task /\ lapsed' = [lapsed EXCEPT ![r] = {}]
    BY <1>13 DEF SendFails, Finish, Die, Stop
  <2>f. /\ run'[r].phase = "off" /\ \A q \in Runs \ {r} : run'[q] = run[q]
        /\ \A q \in Runs \ {r} : lapsed'[q] = lapsed[q]
    BY <2>1, <1>t, StopFields DEF Others
  <2> QED BY <2>1, <2>f DEF Listed, ClearKnown, On
<1> QED
  BY <1>1, <1>2, <1>3, <1>4, <1>5, <1>6, <1>7, <1>8, <1>9, <1>10, <1>11, <1>12,
     <1>13 DEF Next, RunStep

LEMMA ClearStep ==
  TypeOK /\ SeenOwn /\ Listed /\ ClearKnown /\ [Next]_vars =>
    \A e \in Events : event[e].active /\ ~ event'[e].active =>
      \E r \in Runs : run[r] # run'[r] /\ event[e].of \subseteq lapsed[r]
<1> SUFFICES ASSUME TypeOK, SeenOwn, Listed, ClearKnown, [Next]_vars,
                    NEW e \in Events, event[e].active, ~ event'[e].active
             PROVE  \E r \in Runs : run[r] # run'[r] /\ event[e].of \subseteq lapsed[r]
  OBVIOUS
<1>t. /\ run \in [Runs -> Places]
      /\ event \in [Events -> [of : SUBSET Tasks, active : BOOLEAN, told : Told]]
  BY DEF TypeOK
<1>1. PICK r \in Runs, t \in Tasks : Clear(r, t)
  <2>1. ~ UNCHANGED event
    OBVIOUS
  <2>2. ~ Elapse
    BY <1>t DEF Elapse
  <2>3. ASSUME NEW r \in Runs, Stamp(r) PROVE FALSE
    <3>1. PICK s \in run[r].bundle : event' = [event EXCEPT ![s].told = "fresh"]
      BY <2>3 DEF Stamp
    <3>2. event'[e].active = event[e].active
      BY <3>1, <1>t
    <3> QED BY <3>2
  <2>4. ASSUME NEW r \in Runs, NEW t \in Tasks, Detect(r, t) PROVE FALSE
    <3>1. event' = event \/
          event' = [event EXCEPT ![Row(r, t)] =
                      [of |-> {t}, active |-> TRUE, told |-> "never"]]
      BY <2>4 DEF Detect, Created, Row
    <3>2. event'[e] = event[e] \/ event'[e].active
      BY <3>1, <1>t
    <3> QED BY <3>2
  <2> QED
    BY <2>1, <2>2, <2>3, <2>4
    DEF Next, RunStep, vars, history, TaskChanges, EditConfig, Begin, ReadActive,
        ReadActiveFails, ListTasks, ScanFails, EndScan, Send, SendFails, Finish, Die
<1>2. e = run[r].seen[t] /\ run[r].seen[t] # NoEvent
  BY <1>1, <1>t DEF Clear, ClearKnown
<1>3. event[e].of = {t}
  BY <1>2 DEF SeenOwn
<1>4. t \in lapsed[r]
  BY <1>1 DEF Clear, Listed
<1>5. run[r] # run'[r]
  <2>1. run'[r].page = run[r].page \ {t} /\ t \in run[r].page
    BY <1>1, <1>t, ClearFields DEF Clear
  <2> QED BY <2>1
<1> QED BY <1>3, <1>4, <1>5

\* Whatever fails and however runs interleave: an event is cleared only by a
\* run during which its task did not fire steadily.
THEOREM ClearsOnlyLapsedHolds == Spec => ClearsOnlyLapsed
<1>1. Init => BegunEmpty /\ Listed /\ ClearKnown
  BY DEF Init, Idle, BegunEmpty, Listed, ClearKnown, On
<1>2. OneInv => SeenOwn
  BY DEF OneInv
<1>3. TypeOK /\ SeenOwn /\ Listed /\ ClearKnown /\ [Next]_vars =>
        [\A e \in Events : event[e].active /\ ~ event'[e].active =>
           \E r \in Runs : run[r] # run'[r] /\ event[e].of \subseteq lapsed[r]]_vars
  BY ClearStep
<1> QED BY <1>1, <1>2, <1>3, TypeInit, TypeNext, OneInit, OneNext, BegunNext,
           ListNext, PTL DEF Spec, ClearsOnlyLapsed

-------------------------------------------------------------------------------
(* What a run by itself, whose calls succeed, leaves behind.               *)

\* It has read the rows: nothing but the mail can fail any more.
Lone(r) ==
    /\ run[r].alone /\ run[r].sound
    /\ run[r].phase \in {"scan", "clear", "send", "stamp"}

\* Nobody was mailed about what has no last_notified.
ToldMailed ==
    /\ \A e \in Events : event[e].told # "never" => e \in mailed
    /\ \A r \in Runs : run[r].phase = "stamp" => run[r].bundle \subseteq mailed

\* A task that fires steadily keeps its row, is detected before anything is
\* cleared, and once detected has a row that was mailed or is about to be.
Attended ==
    \A r \in Runs : Lone(r) =>
        /\ run[r].phase # "send"
        /\ \A t \in Tasks \ lapsed[r] :
             /\ run[r].seen[t] # NoEvent =>
                  /\ event[run[r].seen[t]].active
                  /\ run[r].told[t] = "never" \/ run[r].seen[t] \in mailed
             /\ t \in run[r].detected =>
                  \E e \in ActiveOf(t) : e \in run[r].bundle \cup mailed
             /\ run[r].phase # "scan" => t \in run[r].detected

\* A task that never fires is not listed.
Unlisted ==
    \A r \in On : \A t \in Tasks \ stirred[r] :
        /\ task[t] = "quiet"
        /\ run[r].phase = "scan" => t \notin run[r].page \cup run[r].detected

\* It has no event the run did not read, and the one it read is to be cleared
\* until it is.
Swept ==
    \A r \in Runs : Lone(r) =>
        \A t \in Tasks \ stirred[r] :
            /\ run[r].seen[t] = NoEvent => ActiveOf(t) = {}
            /\ run[r].phase \in {"clear", "stamp"} =>
                 \/ run[r].seen[t] = NoEvent
                 \/ ~ event[run[r].seen[t]].active
                 \/ run[r].phase = "clear" /\ t \in run[r].page

LEMMA StepOfOne ==
  ASSUME run \in [Runs -> Places], NEW r \in Runs, RunStep(r) \/ Die(r)
  PROVE  r \in On /\ Others(r)
<1>1. CASE ReadActive(r)
  BY <1>1, ReadActiveFields DEF On
<1>2. CASE ReadActiveFails(r)
  BY <1>2, ReadActiveFailsFields DEF On
<1>3. CASE ListTasks(r)
  BY <1>3, ListTasksFields DEF On
<1>4. ASSUME NEW t \in Tasks, Detect(r, t) PROVE r \in On /\ Others(r)
  BY <1>4, DetectFields DEF On
<1>5. CASE ScanFails(r)
  BY <1>5, ScanFailsFields DEF On
<1>6. CASE EndScan(r)
  BY <1>6, EndScanFields DEF On
<1>7. ASSUME NEW t \in Tasks, Clear(r, t) PROVE r \in On /\ Others(r)
  BY <1>7, ClearFields DEF On
<1>8. CASE Send(r)
  BY <1>8, SendFields DEF On
<1>9. CASE Stamp(r)
  BY <1>9, StampFields DEF On
<1>10. CASE SendFails(r) \/ Finish(r) \/ Die(r)
  <2>1. Stop(r) /\ run[r].phase # "off"
    BY <1>10 DEF SendFails, Finish, Die, Ready, On
  <2> QED BY <2>1, StopFields DEF On
<1> QED
  BY <1>1, <1>2, <1>3, <1>4, <1>5, <1>6, <1>7, <1>8, <1>9, <1>10 DEF RunStep

\* While a lone run is about, only it moves, and no run begins.
LEMMA LoneMoves ==
  ASSUME TypeOK, Apart, NEW r \in Runs, Lone(r)'
  PROVE  /\ \A q \in Runs : RunStep(q) \/ Die(q) => q = r
         /\ \A q \in Runs : \A dry \in BOOLEAN : ~ Begin(q, dry)
<1>t. run \in [Runs -> Places]
  BY DEF TypeOK
<1>1. ASSUME NEW q \in Runs, RunStep(q) \/ Die(q), q # r PROVE FALSE
  <2>1. q \in On /\ run'[r] = run[r]
    BY <1>1, <1>t, StepOfOne DEF Others
  <2>2. r \in On /\ run[r].alone
    BY <2>1 DEF Lone, On
  <2> QED BY <1>1, <2>1, <2>2 DEF Apart
<1>2. ASSUME NEW q \in Runs, NEW dry \in BOOLEAN, Begin(q, dry) PROVE FALSE
  <2>1. CASE q = r
    BY <1>2, <1>t, <2>1, BeginFields DEF Lone
  <2>2. CASE q # r
    <3>1. run'[r].phase = run[r].phase /\ (r \in On => ~ run'[r].alone)
      BY <1>2, <1>t, <2>2, BeginFields
    <3> QED BY <3>1 DEF Lone, On
  <2> QED BY <2>1, <2>2
<1> QED BY <1>1, <1>2

\* What a detection does to the rows: nothing, or a row for an unused id.
LEMMA DetectRows ==
  ASSUME TypeOK, NEW r \in Runs, NEW u \in Tasks, Detect(r, u)
  PROVE  /\ run[r].seen[u] # NoEvent => event' = event
         /\ run[r].seen[u] = NoEvent =>
              /\ Row(r, u) \in Events /\ event[Row(r, u)].of = {}
              /\ event'[Row(r, u)] = Created(u)
              /\ \A e \in Events \ {Row(r, u)} : event'[e] = event[e]
<1>1. CASE run[r].seen[u] # NoEvent
  BY <1>1 DEF Detect
<1>2. CASE run[r].seen[u] = NoEvent
  <2>1. Row(r, u) \in Unused
    BY <1>2, UnusedRow DEF Detect, Row
  <2>2. event' = [event EXCEPT ![Row(r, u)] = Created(u)]
    BY <1>2 DEF Detect, Row
  <2> QED BY <1>2, <2>1, <2>2 DEF Unused, TypeOK
<1> QED BY <1>1, <1>2

LEMMA ToldNext == TypeOK /\ ToldMailed /\ BegunEmpty /\ [Next]_vars => ToldMailed'
<1> SUFFICES ASSUME TypeOK, ToldMailed, BegunEmpty, [Next]_vars PROVE ToldMailed'
  OBVIOUS
<1>t. /\ run \in [Runs -> Places]
      /\ event \in [Events -> [of : SUBSET Tasks, active : BOOLEAN, told : Told]]
      /\ \A r \in Runs : run[r].bundle \subseteq Events
  BY Fields DEF TypeOK
<1>a. ASSUME \A e \in Events : event'[e].told # "never" => event[e].told # "never",
             mailed \subseteq mailed',
             \A q \in Runs : run'[q].phase = "stamp" =>
               run[q].phase = "stamp" /\ run'[q].bundle \subseteq run[q].bundle
      PROVE  ToldMailed'
  BY <1>a DEF ToldMailed
<1>b. ASSUME NEW r \in Runs, Others(r), event' = event, mailed \subseteq mailed',
             run'[r].phase # "stamp"
      PROVE  ToldMailed'
  BY <1>a, <1>b DEF Others
<1>1. CASE Elapse
  <2>1. \A e \in Events : event'[e].told # "never" => event[e].told # "never"
    BY <1>1, <1>t DEF Elapse, Age
  <2>2. mailed' = mailed
    BY <1>1 DEF Elapse
  <2> QED BY <1>1, <1>a, <1>t, <2>1, <2>2, ElapseFields
<1>2. CASE (\E t \in Tasks : TaskChanges(t)) \/ EditConfig \/ UNCHANGED vars
  <2>1. UNCHANGED <<run, event, mailed>>
    BY <1>2 DEF TaskChanges, EditConfig, vars, history
  <2> QED BY <2>1, <1>a
<1>3. ASSUME NEW r \in Runs, NEW dry \in BOOLEAN, Begin(r, dry) PROVE ToldMailed'
  <2>1. UNCHANGED <<event, mailed>>
    BY <1>3 DEF Begin
  <2>2. /\ run'[r].phase = "begun"
        /\ \A q \in Runs \ {r} :
             run'[q].phase = run[q].phase /\ run'[q].bundle = run[q].bundle
    BY <1>3, <1>t, BeginFields
  <2> QED BY <2>1, <2>2, <1>a
<1>4. ASSUME NEW r \in Runs, NEW t \in Tasks, Detect(r, t) PROVE ToldMailed'
  <2>1. \A e \in Events : event'[e].told # "never" => event[e].told # "never"
    <3>1. CASE run[r].seen[t] # NoEvent
      BY <1>4, <3>1, DetectRows
    <3>2. CASE run[r].seen[t] = NoEvent
      <4>1. event'[Row(r, t)].told = "never"
        <5>1. event'[Row(r, t)] = Created(t)
          BY <1>4, <3>2, DetectRows
        <5> QED BY <5>1 DEF Created
      <4> QED BY <1>4, <3>2, <4>1, DetectRows
    <3> QED BY <3>1, <3>2
  <2>2. mailed' = mailed
    BY <1>4 DEF Detect
  <2>3. run'[r].phase = "scan" /\ \A q \in Runs \ {r} : run'[q] = run[q]
    BY <1>4, <1>t, DetectFields DEF Others
  <2> QED BY <1>a, <2>1, <2>2, <2>3
<1>5. ASSUME NEW r \in Runs, NEW t \in Tasks, Clear(r, t) PROVE ToldMailed'
  <2>1. \A e \in Events : event'[e].told = event[e].told
    BY <1>5, <1>t DEF Clear
  <2>2. mailed' = mailed
    BY <1>5 DEF Clear, history
  <2>3. run'[r].phase = "clear" /\ \A q \in Runs \ {r} : run'[q] = run[q]
    BY <1>5, <1>t, ClearFields DEF Others
  <2> QED BY <1>a, <2>1, <2>2, <2>3
<1>6. ASSUME NEW r \in Runs, Send(r) PROVE ToldMailed'
  <2>1. event' = event /\ mailed' = mailed \cup run[r].bundle
    BY <1>6 DEF Send, Delivered
  <2>2. run'[r].bundle = run[r].bundle /\ \A q \in Runs \ {r} : run'[q] = run[q]
    BY <1>6, <1>t, SendFields DEF Others
  <2> QED BY <2>1, <2>2 DEF ToldMailed
<1>7. ASSUME NEW r \in Runs, Stamp(r) PROVE ToldMailed'
  <2>1. PICK s \in run[r].bundle : /\ event' = [event EXCEPT ![s].told = "fresh"]
                                   /\ run'[r].bundle = run[r].bundle \ {s}
    BY <1>7, <1>t, StampFields
  <2>2. /\ run[r].phase = "stamp" /\ \A q \in Runs \ {r} : run'[q] = run[q]
        /\ mailed' = mailed
    BY <1>7, <1>t, StampFields DEF Others, Stamp, history
  <2>3. s \in mailed
    BY <2>2 DEF ToldMailed
  <2>4. \A e \in Events \ {s} : event'[e] = event[e]
    BY <2>1, <1>t
  <2> QED BY <2>1, <2>2, <2>3, <2>4 DEF ToldMailed
<1>8. ASSUME NEW r \in Runs, ReadActive(r) PROVE ToldMailed'
  BY <1>8, <1>b, <1>t, ReadActiveFields DEF ReadActive, history
<1>9. ASSUME NEW r \in Runs, ReadActiveFails(r) PROVE ToldMailed'
  BY <1>9, <1>b, <1>t, ReadActiveFailsFields DEF ReadActiveFails
<1>10. ASSUME NEW r \in Runs, ListTasks(r) PROVE ToldMailed'
  BY <1>10, <1>b, <1>t, ListTasksFields DEF ListTasks, history
<1>11. ASSUME NEW r \in Runs, ScanFails(r) PROVE ToldMailed'
  BY <1>11, <1>b, <1>t, ScanFailsFields DEF ScanFails, history
<1>12. ASSUME NEW r \in Runs, EndScan(r) PROVE ToldMailed'
  BY <1>12, <1>b, <1>t, EndScanFields DEF EndScan, history
<1>13. ASSUME NEW r \in Runs, SendFails(r) \/ Finish(r) \/ Die(r) PROVE ToldMailed'
  <2>1. Stop(r) /\ event' = event /\ mailed \subseteq mailed'
    BY <1>13 DEF SendFails, Finish, Die, Delivered
  <2> QED BY <2>1, <1>b, <1>t, StopFields
<1> QED
  BY <1>1, <1>2, <1>3, <1>4, <1>5, <1>6, <1>7, <1>8, <1>9, <1>10, <1>11, <1>12,
     <1>13 DEF Next, RunStep

\* A scan that is over has met every task that fires steadily.
LEMMA AllDetected ==
  ASSUME TypeOK, Listed, NEW r \in Runs, EndScan(r), NEW t \in Tasks \ lapsed[r]
  PROVE  t \in run[r].detected
<1>1. /\ run[r].phase = "scan" /\ run[r].page = {}
      /\ \A i \in DOMAIN Statuses : i < run[r].at
  BY EndScanFields DEF TypeOK
<1>2. task[t] \in Range(Statuses)
  BY <1>1 DEF Listed, On
<1>3. PICK i \in DOMAIN Statuses : Statuses[i] = task[t]
  BY <1>2 DEF Range
<1> QED BY <1>1, <1>3 DEF Listed

LEMMA AttendedNext ==
  TypeOK /\ OneInv /\ BegunEmpty /\ Listed /\ ClearKnown /\ ToldMailed /\ Attended
    /\ [Next]_vars => Attended'
<1> SUFFICES ASSUME TypeOK, OneInv, BegunEmpty, Listed, ClearKnown, ToldMailed,
                    Attended, [Next]_vars, NEW r \in Runs, Lone(r)'
             PROVE  /\ run'[r].phase # "send"
                    /\ \A t \in Tasks \ lapsed'[r] :
                         /\ run'[r].seen[t] # NoEvent =>
                              /\ event'[run'[r].seen[t]].active
                              /\ run'[r].told[t] = "never" \/ run'[r].seen[t] \in mailed'
                         /\ t \in run'[r].detected =>
                              \E e \in ActiveOf(t)' : e \in run'[r].bundle \cup mailed'
                         /\ run'[r].phase # "scan" => t \in run'[r].detected
  BY DEF Attended
<1> DEFINE Goal(t) == /\ run'[r].seen[t] # NoEvent =>
                           /\ event'[run'[r].seen[t]].active
                           /\ run'[r].told[t] = "never" \/ run'[r].seen[t] \in mailed'
                      /\ t \in run'[r].detected =>
                           \E e \in ActiveOf(t)' : e \in run'[r].bundle \cup mailed'
                      /\ run'[r].phase # "scan" => t \in run'[r].detected
<1>t. /\ run \in [Runs -> Places]
      /\ event \in [Events -> [of : SUBSET Tasks, active : BOOLEAN, told : Told]]
      /\ \A t \in Tasks : run[r].seen[t] \in Events \cup {NoEvent}
      /\ Lone(r)' <=> /\ run'[r].alone /\ run'[r].sound
                      /\ run'[r].phase \in {"scan", "clear", "send", "stamp"}
  BY Fields DEF TypeOK, Lone
<1>m. /\ \A q \in Runs : RunStep(q) \/ Die(q) => q = r
      /\ \A q \in Runs : \A dry \in BOOLEAN : ~ Begin(q, dry)
  BY LoneMoves DEF OneInv
<1>o. SeenOwn
  BY DEF OneInv
\* Rows keep their tasks and their standing, and the run what it holds of them.
<1>a. ASSUME Lone(r), run'[r].phase = run[r].phase,
             run'[r].seen = run[r].seen, mailed' = mailed,
             \A t \in Tasks : run[r].told[t] = "never" => run'[r].told[t] = "never",
             run'[r].detected = run[r].detected,
             run[r].bundle \subseteq run'[r].bundle \cup mailed,
             \A e \in Events : /\ event'[e].of = event[e].of
                               /\ event'[e].active = event[e].active,
             lapsed[r] \subseteq lapsed'[r]
      PROVE  run'[r].phase # "send" /\ \A t \in Tasks \ lapsed'[r] : Goal(t)
  <2>1. \A t \in Tasks : ActiveOf(t)' = ActiveOf(t)
    BY <1>a DEF ActiveOf
  <2> QED BY <1>a, <1>t, <2>1 DEF Attended
<1>1. CASE Elapse
  <2>1. /\ \A e \in Events : event'[e].of = event[e].of /\ event'[e].active = event[e].active
        /\ mailed' = mailed /\ lapsed' = lapsed
    BY <1>1, <1>t DEF Elapse
  <2>2. /\ run'[r].phase = run[r].phase /\ run'[r].seen = run[r].seen
        /\ run'[r].detected = run[r].detected /\ run'[r].bundle = run[r].bundle
        /\ run'[r].alone = run[r].alone /\ run'[r].sound = run[r].sound
        /\ \A t \in Tasks : run'[r].told[t] = Age(run[r].told[t])
    BY <1>1, <1>t, ElapseFields
  <2> QED BY <2>1, <2>2, <1>a, <1>t DEF Age, Lone
<1>2. ASSUME NEW u \in Tasks, TaskChanges(u)
      PROVE  run'[r].phase # "send" /\ \A t \in Tasks \ lapsed'[r] : Goal(t)
  <2>1. UNCHANGED <<event, run, mailed>>
    BY <1>2 DEF TaskChanges
  <2>2. lapsed'[r] = lapsed[r] \cup {u}
    BY <1>2, <1>t, <2>1 DEF TaskChanges, On, Lone
  <2> QED BY <2>1, <2>2, <1>a, <1>t DEF Lone
<1>3. CASE EditConfig \/ UNCHANGED vars
  <2>1. UNCHANGED <<event, run, mailed, lapsed>>
    BY <1>3 DEF EditConfig, vars, history
  <2> QED BY <2>1, <1>a, <1>t DEF Lone
<1>4. CASE ReadActive(r)
  <2>1. UNCHANGED <<event, mailed, lapsed>>
    BY <1>4 DEF ReadActive, history
  <2>2. /\ run[r].phase = "begun" /\ run'[r].phase = "scan"
        /\ run'[r].detected = {}
        /\ \A t \in Tasks :
             /\ run'[r].seen[t] \in IF ActiveOf(t) = {} THEN {NoEvent} ELSE ActiveOf(t)
             /\ run'[r].seen[t] # NoEvent =>
                  run'[r].told[t] = event[run'[r].seen[t]].told
    BY <1>4, <1>t, ReadActiveFields DEF BegunEmpty
  <2>3. ASSUME NEW t \in Tasks, run'[r].seen[t] # NoEvent
        PROVE  /\ event[run'[r].seen[t]].active
               /\ run'[r].told[t] = "never" \/ run'[r].seen[t] \in mailed
    <3>1. run'[r].seen[t] \in ActiveOf(t)
      BY <2>2, <2>3
    <3> QED BY <2>2, <2>3, <3>1 DEF ActiveOf, ToldMailed
  <2> QED BY <2>1, <2>2, <2>3
<1>5. CASE ReadActiveFails(r) \/ ScanFails(r)
  BY <1>5, <1>t, ReadActiveFailsFields, ScanFailsFields
<1>6. CASE ListTasks(r)
  <2>1. UNCHANGED <<event, mailed, lapsed>>
    BY <1>6 DEF ListTasks, history
  <2> QED BY <2>1, <1>6, <1>a, <1>t, ListTasksFields DEF Lone, Keeps
<1>7. ASSUME NEW u \in Tasks, Detect(r, u)
      PROVE  run'[r].phase # "send" /\ \A t \in Tasks \ lapsed'[r] : Goal(t)
  <2>1. UNCHANGED <<mailed, lapsed>>
    BY <1>7 DEF Detect
  <2>2. /\ run[r].phase = "scan" /\ run'[r].phase = "scan"
        /\ run'[r].detected = run[r].detected \cup {u}
        /\ run'[r].seen = run[r].seen /\ run'[r].told = run[r].told
        /\ run'[r].bundle =
             IF run[r].seen[u] = NoEvent \/ Renotifies(r, u)
             THEN run[r].bundle \cup {Row(r, u)} ELSE run[r].bundle
        /\ Lone(r)
    BY <1>7, <1>t, DetectFields DEF Keeps, Lone
  <2>3. \A e \in Events : /\ event[e].active => event'[e].active
                          /\ event[e].of # {} => event'[e] = event[e]
    <3>1. CASE run[r].seen[u] # NoEvent
      BY <1>7, <3>1, DetectRows
    <3>2. CASE run[r].seen[u] = NoEvent
      <4>1. event'[Row(r, u)].active
        <5>1. event'[Row(r, u)] = Created(u)
          BY <1>7, <3>2, DetectRows
        <5> QED BY <5>1 DEF Created
      <4> QED BY <1>7, <3>2, <4>1, DetectRows
    <3> QED BY <3>1, <3>2
  <2>4. \A t \in Tasks : ActiveOf(t) \subseteq ActiveOf(t)'
    BY <2>3 DEF ActiveOf
  <2>5. ASSUME NEW t \in Tasks \ lapsed[r], run[r].seen[t] # NoEvent
        PROVE  /\ event'[run[r].seen[t]].active /\ run[r].seen[t] \in ActiveOf(t)
               /\ run[r].told[t] = "never" \/ run[r].seen[t] \in mailed
    <3>1. event[run[r].seen[t]].of = {t} /\ run[r].seen[t] \in Events
      BY <1>o, <1>t, <2>5 DEF SeenOwn
    <3> QED BY <2>2, <2>3, <2>5, <3>1 DEF Attended, ActiveOf
  <2>6. ASSUME NEW t \in Tasks \ lapsed[r], t \in run'[r].detected
        PROVE  \E e \in ActiveOf(t)' : e \in run'[r].bundle \cup mailed
    <3>1. CASE t # u
      <4>1. PICK e \in ActiveOf(t) : e \in run[r].bundle \cup mailed
        BY <2>2, <2>6, <3>1 DEF Attended
      <4> QED BY <2>2, <2>4, <4>1
    <3>2. CASE t = u /\ run[r].seen[t] = NoEvent
      <4>1. Row(r, t) \in ActiveOf(t)'
        <5>1. Row(r, t) \in Events /\ event'[Row(r, t)] = Created(t)
          BY <1>7, <3>2, DetectRows
        <5> QED BY <5>1 DEF Created, ActiveOf
      <4> QED BY <2>2, <3>2, <4>1
    <3>3. CASE t = u /\ run[r].seen[t] # NoEvent
      <4>1. run[r].seen[t] \in ActiveOf(t)' /\ Row(r, t) = run[r].seen[t]
        BY <2>4, <2>5, <3>3 DEF Row
      <4>2. run[r].seen[t] \in run'[r].bundle \cup mailed
        BY <2>2, <2>5, <3>3, <4>1 DEF Renotifies
      <4> QED BY <4>1, <4>2
    <3> QED BY <3>1, <3>2, <3>3
  <2> QED BY <2>1, <2>2, <2>5, <2>6
<1>8. CASE EndScan(r)
  <2>1. UNCHANGED <<event, mailed, lapsed>>
    BY <1>8 DEF EndScan, history
  <2>2. /\ run[r].phase = "scan" /\ run'[r].phase = "clear"
        /\ run'[r].detected = run[r].detected
        /\ run'[r].seen = run[r].seen /\ run'[r].told = run[r].told
        /\ run'[r].bundle = run[r].bundle /\ Lone(r)
    BY <1>8, <1>t, EndScanFields DEF Keeps, Lone
  <2>3. \A t \in Tasks \ lapsed[r] : t \in run[r].detected
    BY <1>8, AllDetected
  <2>4. \A t \in Tasks : ActiveOf(t)' = ActiveOf(t)
    BY <2>1 DEF ActiveOf
  <2> QED BY <2>1, <2>2, <2>3, <2>4 DEF Attended
<1>9. ASSUME NEW u \in Tasks, Clear(r, u)
      PROVE  run'[r].phase # "send" /\ \A t \in Tasks \ lapsed'[r] : Goal(t)
  <2>1. UNCHANGED <<mailed, lapsed>>
    BY <1>9 DEF Clear, history
  <2>2. /\ run[r].phase = "clear" /\ run'[r].phase = "clear" /\ u \in run[r].page
        /\ run'[r].detected = run[r].detected
        /\ run'[r].seen = run[r].seen /\ run'[r].told = run[r].told
        /\ run'[r].bundle = run[r].bundle /\ Lone(r)
        /\ event' = [event EXCEPT ![run[r].seen[u]].active = FALSE]
    BY <1>9, <1>t, ClearFields DEF Keeps, Lone
  <2>3. u \in lapsed[r] /\ run[r].seen[u] \in Events /\ event[run[r].seen[u]].of = {u}
    BY <1>o, <1>t, <2>2 DEF Listed, ClearKnown, SeenOwn
  <2>4. \A e \in Events : e # run[r].seen[u] => event'[e] = event[e]
    BY <1>t, <2>2
  <2>5. \A t \in Tasks \ lapsed[r] : ActiveOf(t) \subseteq ActiveOf(t)'
    BY <2>3, <2>4 DEF ActiveOf
  <2>6. \A t \in Tasks \ lapsed[r] : run[r].seen[t] # NoEvent =>
           event'[run[r].seen[t]] = event[run[r].seen[t]]
    <3> SUFFICES ASSUME NEW t \in Tasks \ lapsed[r], run[r].seen[t] # NoEvent
                 PROVE  event'[run[r].seen[t]] = event[run[r].seen[t]]
      OBVIOUS
    <3>1. event[run[r].seen[t]].of = {t} /\ run[r].seen[t] \in Events
      BY <1>o, <1>t DEF SeenOwn
    <3>2. run[r].seen[t] # run[r].seen[u]
      BY <2>3, <3>1
    <3> QED BY <2>4, <3>1, <3>2
  <2> QED BY <2>1, <2>2, <2>5, <2>6 DEF Attended
<1>10. CASE Send(r)
  <2>1. UNCHANGED <<event, lapsed>> /\ mailed' = mailed \cup run[r].bundle
    BY <1>10 DEF Send, Delivered
  <2>2. /\ run[r].phase \in {"clear", "send"} /\ run'[r].phase = "stamp"
        /\ run'[r].detected = run[r].detected
        /\ run'[r].seen = run[r].seen /\ run'[r].told = run[r].told
        /\ run'[r].bundle = run[r].bundle /\ Lone(r)
    BY <1>10, <1>t, SendFields DEF Keeps, Lone
  <2>3. \A t \in Tasks : ActiveOf(t)' = ActiveOf(t)
    BY <2>1 DEF ActiveOf
  <2> QED BY <2>1, <2>2, <2>3 DEF Attended
<1>11. CASE Stamp(r)
  <2>1. PICK s \in run[r].bundle : /\ event' = [event EXCEPT ![s].told = "fresh"]
                                   /\ run'[r].bundle = run[r].bundle \ {s}
    BY <1>11, <1>t, StampFields
  <2>2. /\ run[r].phase = "stamp" /\ run'[r].phase = run[r].phase
        /\ run'[r].detected = run[r].detected
        /\ run'[r].seen = run[r].seen /\ run'[r].told = run[r].told /\ Lone(r)
    BY <1>11, <1>t, StampFields DEF Keeps, Lone
  <2>3. UNCHANGED <<mailed, lapsed>>
    BY <1>11 DEF Stamp, history
  <2>4. run[r].bundle \subseteq mailed
    BY <2>2 DEF ToldMailed
  <2>5. \A e \in Events : event'[e].of = event[e].of /\ event'[e].active = event[e].active
    BY <2>1, <1>t
  <2> QED BY <2>1, <2>2, <2>3, <2>4, <2>5, <1>a
<1>12. CASE SendFails(r) \/ Finish(r) \/ Die(r)
  <2>1. Stop(r)
    BY <1>12 DEF SendFails, Finish, Die
  <2> QED BY <2>1, <1>t, StopFields
<1> QED
  BY <1>m, <1>1, <1>2, <1>3, <1>4, <1>5, <1>6, <1>7, <1>8, <1>9, <1>10, <1>11,
     <1>12 DEF Next, RunStep

\* Whatever earlier runs left: a run that went through by itself, with mails
\* on, leaves no task that fired steadily without an active event somebody was
\* mailed about.
THEOREM RunMailsFiringHolds == Spec => RunMailsFiring
<1> DEFINE A == \A r \in Runs : Finish(r) /\ run[r].alone /\ run[r].sound /\ run[r].mail =>
                  \A t \in Tasks \ lapsed[r] : ActiveOf(t) \cap mailed # {}
<1>1. Attended => [A]_vars
  <2> SUFFICES ASSUME Attended, NEW r \in Runs, Finish(r), run[r].alone, run[r].sound,
                      run[r].mail, NEW t \in Tasks \ lapsed[r]
               PROVE  ActiveOf(t) \cap mailed # {}
    OBVIOUS
  <2>1. run[r].phase \in {"send", "clear", "stamp"} /\ run[r].bundle = {}
    BY DEF Finish, Ready, Worth
  <2>2. Lone(r)
    BY <2>1 DEF Lone
  <2> QED BY <2>1, <2>2 DEF Attended
<1>2. Init => BegunEmpty /\ Listed /\ ClearKnown /\ ToldMailed /\ Attended
  BY DEF Init, Idle, BegunEmpty, Listed, ClearKnown, On, ToldMailed, Attended, Lone
<1> QED BY <1>1, <1>2, TypeInit, TypeNext, OneInit, OneNext, BegunNext, ListNext,
           ToldNext, AttendedNext, PTL DEF Spec, RunMailsFiring

LEMMA UnlistedNext == TypeOK /\ BegunEmpty /\ Unlisted /\ [Next]_vars => Unlisted'
<1> SUFFICES ASSUME TypeOK, BegunEmpty, Unlisted, [Next]_vars PROVE Unlisted'
  OBVIOUS
<1>t. run \in [Runs -> Places] /\ stirred \in [Runs -> SUBSET Tasks]
  BY DEF TypeOK
\* A step of r that lists nothing, while no task changes.
<1>a. ASSUME NEW r \in Runs, Others(r), r \in On, task' = task,
             stirred' = stirred,
             run'[r].phase = "scan" =>
               run'[r].page \cup run'[r].detected \subseteq
                 IF run[r].phase = "scan" THEN run[r].page \cup run[r].detected ELSE {}
      PROVE  Unlisted'
  BY <1>a DEF Unlisted, Others, On
<1>1. CASE Elapse
  <2>1. task' = task /\ stirred' = stirred
    BY <1>1 DEF Elapse
  <2> QED BY <2>1, <1>1, <1>t, ElapseFields DEF Unlisted, On
<1>2. ASSUME NEW u \in Tasks, TaskChanges(u) PROVE Unlisted'
  <2>1. /\ run' = run /\ \A t \in Tasks \ {u} : task'[t] = task[t]
        /\ \A r \in On : stirred'[r] = stirred[r] \cup {u}
    BY <1>2, <1>t DEF TaskChanges, TypeOK, On
  <2> QED BY <2>1 DEF Unlisted, On
<1>3. CASE EditConfig \/ UNCHANGED vars
  <2>1. UNCHANGED <<task, run, stirred>>
    BY <1>3 DEF EditConfig, history, vars
  <2> QED BY <2>1 DEF Unlisted, On
<1>4. ASSUME NEW r \in Runs, NEW dry \in BOOLEAN, Begin(r, dry) PROVE Unlisted'
  <2>1. /\ task' = task /\ stirred'[r] = {t \in Tasks : task[t] # "quiet"}
        /\ \A q \in Runs \ {r} : stirred'[q] = stirred[q]
    BY <1>4, <1>t DEF Begin
  <2>2. /\ run'[r].phase = "begun"
        /\ \A q \in Runs \ {r} :
             /\ run'[q].phase = run[q].phase /\ run'[q].page = run[q].page
             /\ run'[q].detected = run[q].detected
    BY <1>4, <1>t, BeginFields
  <2> QED BY <2>1, <2>2 DEF Unlisted, On
<1>5. ASSUME NEW r \in Runs, ListTasks(r) PROVE Unlisted'
  <2>1. task' = task /\ stirred' = stirred
    BY <1>5 DEF ListTasks, history
  <2>2. /\ run[r].phase = "scan" /\ run'[r].phase = "scan"
        /\ run[r].at \in DOMAIN Statuses
        /\ run'[r].page = {t \in Tasks : task[t] = Statuses[run[r].at]}
        /\ run'[r].detected = run[r].detected
        /\ \A q \in Runs \ {r} : run'[q] = run[q]
    BY <1>5, <1>t, ListTasksFields DEF Others
  <2>3. Statuses[run[r].at] # "quiet"
    BY <2>2, AlarmAssumption DEF Range
  <2> QED BY <2>1, <2>2, <2>3 DEF Unlisted, On
<1>6. ASSUME NEW r \in Runs, NEW t \in Tasks, Detect(r, t) PROVE Unlisted'
  <2>1. task' = task /\ stirred' = stirred /\ t \in run[r].page
    BY <1>6 DEF Detect
  <2>2. /\ run[r].phase = "scan" /\ Others(r)
        /\ run'[r].page = run[r].page \ {t}
        /\ run'[r].detected = run[r].detected \cup {t}
    BY <1>6, <1>t, DetectFields
  <2> QED BY <2>1, <2>2, <1>a DEF On
<1>7. ASSUME NEW r \in Runs, ReadActive(r) \/ ReadActiveFails(r) PROVE Unlisted'
  <2>1. task' = task /\ stirred' = stirred
    BY <1>7 DEF ReadActive, ReadActiveFails, history
  <2>2. run'[r].page = {} /\ run'[r].detected = {} /\ r \in On /\ Others(r)
    BY <1>7, <1>t, ReadActiveFields, ReadActiveFailsFields DEF BegunEmpty, On
  <2> QED BY <2>1, <2>2, <1>a
<1>8. ASSUME NEW r \in Runs,
             ScanFails(r) \/ EndScan(r) \/ Send(r) \/ Stamp(r)
               \/ \E t \in Tasks : Clear(r, t)
      PROVE  Unlisted'
  <2>1. task' = task /\ stirred' = stirred
    BY <1>8 DEF ScanFails, EndScan, Send, Stamp, Clear, history
  <2>2. run'[r].phase # "scan" /\ r \in On /\ Others(r)
    BY <1>8, <1>t, ScanFailsFields, EndScanFields, SendFields, StampFields,
       ClearFields DEF On
  <2> QED BY <2>1, <2>2, <1>a
<1>9. ASSUME NEW r \in Runs, SendFails(r) \/ Finish(r) \/ Die(r) PROVE Unlisted'
  <2>1. /\ Stop(r) /\ task' = task
        /\ \A q \in Runs \ {r} : stirred'[q] = stirred[q]
    BY <1>9, <1>t DEF SendFails, Finish, Die, Stop
  <2>2. run'[r].phase = "off" /\ \A q \in Runs \ {r} : run'[q] = run[q]
    BY <2>1, <1>t, StopFields DEF Others
  <2> QED BY <2>1, <2>2 DEF Unlisted, On
<1> QED
  BY <1>1, <1>2, <1>3, <1>4, <1>5, <1>6, <1>7, <1>8, <1>9 DEF Next, RunStep

LEMMA SweptNext ==
  TypeOK /\ OneInv /\ BegunEmpty /\ Unlisted /\ ClearKnown /\ Attended /\ Swept
    /\ [Next]_vars => Swept'
<1> SUFFICES ASSUME TypeOK, OneInv, BegunEmpty, Unlisted, ClearKnown, Attended, Swept,
                    [Next]_vars, NEW r \in Runs, Lone(r)', NEW t \in Tasks \ stirred'[r]
             PROVE  /\ run'[r].seen[t] = NoEvent => ActiveOf(t)' = {}
                    /\ run'[r].phase \in {"clear", "stamp"} =>
                         \/ run'[r].seen[t] = NoEvent
                         \/ ~ event'[run'[r].seen[t]].active
                         \/ run'[r].phase = "clear" /\ t \in run'[r].page
  BY DEF Swept
<1> DEFINE Goal == /\ run'[r].seen[t] = NoEvent => ActiveOf(t)' = {}
                   /\ run'[r].phase \in {"clear", "stamp"} =>
                        \/ run'[r].seen[t] = NoEvent
                        \/ ~ event'[run'[r].seen[t]].active
                        \/ run'[r].phase = "clear" /\ t \in run'[r].page
<1>t. /\ run \in [Runs -> Places] /\ stirred \in [Runs -> SUBSET Tasks]
      /\ event \in [Events -> [of : SUBSET Tasks, active : BOOLEAN, told : Told]]
      /\ \A u \in Tasks : run[r].seen[u] \in Events \cup {NoEvent}
      /\ Lone(r)' <=> /\ run'[r].alone /\ run'[r].sound
                      /\ run'[r].phase \in {"scan", "clear", "send", "stamp"}
  BY Fields DEF TypeOK, Lone
<1>m. /\ \A q \in Runs : RunStep(q) \/ Die(q) => q = r
      /\ \A q \in Runs : \A dry \in BOOLEAN : ~ Begin(q, dry)
  BY LoneMoves DEF OneInv
<1>o. SeenOwn
  BY DEF OneInv
\* Nothing of the task's rows changes, and what the run holds of them stays.
<1>a. ASSUME Lone(r), run'[r].seen = run[r].seen, t \notin stirred[r],
             \A e \in Events : /\ event'[e].of = event[e].of
                               /\ event'[e].active = event[e].active,
             run'[r].phase \in {"clear", "stamp"} => run[r].phase = run'[r].phase,
             run'[r].phase = "clear" => run'[r].page = run[r].page
      PROVE  Goal
  <2>1. ActiveOf(t)' = ActiveOf(t)
    BY <1>a DEF ActiveOf
  <2> QED BY <1>a, <1>t, <2>1 DEF Swept
<1>1. CASE Elapse
  <2>1. /\ \A e \in Events : event'[e].of = event[e].of /\ event'[e].active = event[e].active
        /\ stirred' = stirred
    BY <1>1, <1>t DEF Elapse
  <2>2. /\ run'[r].phase = run[r].phase /\ run'[r].seen = run[r].seen
        /\ run'[r].page = run[r].page
        /\ run'[r].alone = run[r].alone /\ run'[r].sound = run[r].sound
    BY <1>1, <1>t, ElapseFields
  <2> QED BY <2>1, <2>2, <1>a, <1>t DEF Lone
<1>2. ASSUME NEW u \in Tasks, TaskChanges(u) PROVE Goal
  <2>1. UNCHANGED <<event, run>>
    BY <1>2 DEF TaskChanges
  <2>2. stirred'[r] = stirred[r] \cup {u}
    BY <1>2, <1>t, <2>1 DEF TaskChanges, On, Lone
  <2> QED BY <2>1, <2>2, <1>a, <1>t DEF Lone
<1>3. CASE EditConfig \/ UNCHANGED vars
  <2>1. UNCHANGED <<event, run, stirred>>
    BY <1>3 DEF EditConfig, vars, history
  <2> QED BY <2>1, <1>a, <1>t DEF Lone
<1>4. CASE ReadActive(r)
  <2>1. event' = event
    BY <1>4 DEF ReadActive, history
  <2>2. run'[r].phase = "scan" /\ run'[r].seen[t] \in IF ActiveOf(t) = {} THEN {NoEvent}
                                                      ELSE ActiveOf(t)
    BY <1>4, <1>t, ReadActiveFields
  <2>3. NoEvent \notin ActiveOf(t)
    BY AlarmAssumption DEF ActiveOf
  <2>4. ActiveOf(t)' = ActiveOf(t)
    BY <2>1 DEF ActiveOf
  <2> QED BY <2>2, <2>3, <2>4
<1>5. CASE ReadActiveFails(r) \/ ScanFails(r)
  BY <1>5, <1>t, ReadActiveFailsFields, ScanFailsFields
<1>6. CASE ListTasks(r)
  <2>1. UNCHANGED <<event, stirred>>
    BY <1>6 DEF ListTasks, history
  <2> QED BY <2>1, <1>6, <1>a, <1>t, ListTasksFields DEF Lone, Keeps
<1>7. ASSUME NEW u \in Tasks, Detect(r, u) PROVE Goal
  <2>1. stirred' = stirred /\ u \in run[r].page
    BY <1>7 DEF Detect
  <2>2. /\ run[r].phase = "scan" /\ run'[r].phase = "scan"
        /\ run'[r].seen = run[r].seen /\ Lone(r)
    BY <1>7, <1>t, DetectFields DEF Keeps, Lone
  <2>3. t # u
    BY <2>1, <2>2 DEF Unlisted, On
  <2>4. ActiveOf(t)' = ActiveOf(t)
    <3>1. CASE run[r].seen[u] # NoEvent
      BY <1>7, <3>1, DetectRows DEF ActiveOf
    <3>2. CASE run[r].seen[u] = NoEvent
      <4>1. /\ t \notin event[Row(r, u)].of /\ t \notin event'[Row(r, u)].of
            /\ \A e \in Events \ {Row(r, u)} : event'[e] = event[e]
        <5>1. /\ event[Row(r, u)].of = {} /\ event'[Row(r, u)] = Created(u)
              /\ \A e \in Events \ {Row(r, u)} : event'[e] = event[e]
          BY <1>7, <3>2, DetectRows
        <5> QED BY <2>3, <5>1 DEF Created
      <4> QED BY <4>1 DEF ActiveOf
    <3> QED BY <3>1, <3>2
  <2> QED BY <2>1, <2>2, <2>4 DEF Swept
<1>8. CASE EndScan(r)
  <2>1. UNCHANGED <<event, stirred>>
    BY <1>8 DEF EndScan, history
  <2>2. /\ run[r].phase = "scan" /\ run'[r].phase = "clear"
        /\ run'[r].page = {u \in Tasks : run[r].seen[u] # NoEvent} \ run[r].detected
        /\ run'[r].seen = run[r].seen /\ Lone(r)
    BY <1>8, <1>t, EndScanFields DEF Keeps, Lone
  <2>3. t \notin run[r].detected
    BY <2>1, <2>2 DEF Unlisted, On
  <2>4. ActiveOf(t)' = ActiveOf(t)
    BY <2>1 DEF ActiveOf
  <2> QED BY <2>1, <2>2, <2>3, <2>4 DEF Swept
<1>9. ASSUME NEW u \in Tasks, Clear(r, u) PROVE Goal
  <2>1. stirred' = stirred
    BY <1>9 DEF Clear, history
  <2>2. /\ run[r].phase = "clear" /\ run'[r].phase = "clear" /\ u \in run[r].page
        /\ run'[r].page = run[r].page \ {u}
        /\ run'[r].seen = run[r].seen /\ Lone(r)
        /\ event' = [event EXCEPT ![run[r].seen[u]].active = FALSE]
    BY <1>9, <1>t, ClearFields DEF Keeps, Lone
  <2>3. run[r].seen[u] \in Events
    BY <1>t, <2>2 DEF ClearKnown
  <2>4. /\ event'[run[r].seen[u]].active = FALSE
        /\ \A e \in Events : /\ event'[e].of = event[e].of
                             /\ event'[e].active => event[e].active
    BY <1>t, <2>2, <2>3
  <2>5. ActiveOf(t)' \subseteq ActiveOf(t)
    BY <2>4 DEF ActiveOf
  <2>6. \/ run[r].seen[t] = NoEvent \/ ~ event[run[r].seen[t]].active
        \/ t \in run[r].page
    BY <2>1, <2>2 DEF Swept
  <2>7. run[r].seen[t] # NoEvent /\ ~ event[run[r].seen[t]].active =>
          ~ event'[run[r].seen[t]].active
    BY <1>t, <2>4
  <2> QED BY <2>1, <2>2, <2>4, <2>5, <2>6, <2>7 DEF Swept
<1>10. CASE Send(r)
  <2>1. UNCHANGED <<event, stirred>>
    BY <1>10 DEF Send
  <2>2. /\ run[r].phase \in {"clear", "send"} /\ run'[r].phase = "stamp"
        /\ run[r].phase = "clear" => run[r].page = {}
        /\ run'[r].seen = run[r].seen /\ Lone(r)
    BY <1>10, <1>t, SendFields DEF Keeps, Lone
  <2>3. run[r].phase = "clear"
    BY <2>2 DEF Attended
  <2>4. ActiveOf(t)' = ActiveOf(t)
    BY <2>1 DEF ActiveOf
  <2> QED BY <2>1, <2>2, <2>3, <2>4 DEF Swept
<1>11. CASE Stamp(r)
  <2>1. PICK s \in run[r].bundle : event' = [event EXCEPT ![s].told = "fresh"]
    BY <1>11, <1>t, StampFields
  <2>2. /\ run[r].phase = "stamp" /\ run'[r].phase = run[r].phase
        /\ run'[r].seen = run[r].seen /\ Lone(r)
    BY <1>11, <1>t, StampFields DEF Keeps, Lone
  <2>3. stirred' = stirred
    BY <1>11 DEF Stamp, history
  <2>4. \A e \in Events : event'[e].of = event[e].of /\ event'[e].active = event[e].active
    BY <2>1, <1>t
  <2> QED BY <2>2, <2>3, <2>4, <1>a
<1>12. CASE SendFails(r) \/ Finish(r) \/ Die(r)
  <2>1. Stop(r)
    BY <1>12 DEF SendFails, Finish, Die
  <2> QED BY <2>1, <1>t, StopFields
<1> QED
  BY <1>m, <1>1, <1>2, <1>3, <1>4, <1>5, <1>6, <1>7, <1>8, <1>9, <1>10, <1>11,
     <1>12 DEF Next, RunStep

\* However many events earlier runs left a task that does not fire any more: a
\* run that went through by itself leaves it with one fewer, or with none.
THEOREM RunClearsQuietHolds == Spec => RunClearsQuiet
<1> DEFINE A == \A r \in Runs : Finish(r) /\ run[r].alone /\ run[r].sound =>
                  \A t \in Tasks \ stirred[r] :
                    ActiveOf(t) # {} => run[r].seen[t] \in Events \ ActiveOf(t)
<1>1. TypeOK /\ Attended /\ Swept => [A]_vars
  <2> SUFFICES ASSUME TypeOK, Attended, Swept, NEW r \in Runs, Finish(r), run[r].alone,
                      run[r].sound, NEW t \in Tasks \ stirred[r], ActiveOf(t) # {}
               PROVE  run[r].seen[t] \in Events \ ActiveOf(t)
    OBVIOUS
  <2>1. /\ run[r].phase \in {"send", "clear", "stamp"}
        /\ run[r].phase = "clear" => run[r].page = {}
    BY DEF Finish, Ready
  <2>2. Lone(r)
    BY <2>1 DEF Lone
  <2>3. run[r].seen[t] # NoEvent /\ ~ event[run[r].seen[t]].active
    BY <2>1, <2>2 DEF Attended, Swept
  <2>4. run[r].seen[t] \in Events \cup {NoEvent}
    BY Fields DEF TypeOK
  <2> QED BY <2>3, <2>4 DEF ActiveOf
<1>2. Init => /\ BegunEmpty /\ Listed /\ ClearKnown /\ ToldMailed /\ Attended
              /\ Unlisted /\ Swept
  BY DEF Init, Idle, BegunEmpty, Listed, ClearKnown, On, ToldMailed, Attended, Lone,
         Unlisted, Swept
<1> QED BY <1>1, <1>2, TypeInit, TypeNext, OneInit, OneNext, BegunNext, ListNext,
           ToldNext, AttendedNext, UnlistedNext, SweptNext, PTL
        DEF Spec, RunClearsQuiet

-------------------------------------------------------------------------------
(* AlarmEngine implements AlarmLog.                                        *)

StandingOf(e) ==
    IF event[e].of = {} THEN "unused"
    ELSE IF event[e].active THEN "active" ELSE "cleared"

\* The rows stand as they stood; somebody may be told of raised events.
LEMMA LogTells ==
  ASSUME \A e \in Events : /\ event'[e].of = event[e].of
                           /\ event'[e].active = event[e].active,
         mailed \subseteq mailed',
         \A e \in mailed' \ mailed : e \in Events /\ event[e].of # {}
  PROVE  Log!Tell
<1>1. \A e \in Events : StandingOf(e)' = StandingOf(e)
  BY DEF StandingOf
<1>2. [e \in Events |-> StandingOf(e)]' = [e \in Events |-> StandingOf(e)]
  BY <1>1
<1>3. [e \in Events |-> event[e].of]' = [e \in Events |-> event[e].of]
  OBVIOUS
<1>4. \A e \in mailed' \ mailed : e \in Events /\ StandingOf(e) # "unused"
  BY DEF StandingOf
<1> QED BY <1>2, <1>3, <1>4 DEF Log!Tell, StandingOf

\* One row changes: it is new, or it was active and is not any more.
LEMMA LogMoves ==
  ASSUME NEW e \in Events, NEW t \in Tasks, mailed' = mailed,
         \A f \in Events \ {e} : event'[f] = event[f],
         event'[e].of = {t},
         \/ event[e].of = {} /\ event'[e].active
         \/ event[e].of = {t} /\ event[e].active /\ ~ event'[e].active
  PROVE  Log!LogNext
<1> DEFINE S == [f \in Events |-> StandingOf(f)]
           A == [f \in Events |-> event[f].of]
<1>1. \A f \in Events \ {e} : StandingOf(f)' = StandingOf(f)
  BY DEF StandingOf
<1>2. S' = [S EXCEPT ![e] = StandingOf(e)'] /\ A' = [A EXCEPT ![e] = {t}]
  BY <1>1
<1>3. S[e] = StandingOf(e) /\ A[e] = event[e].of
  OBVIOUS
<1>4. CASE event[e].of = {}
  <2>1. StandingOf(e) = "unused" /\ StandingOf(e)' = "active"
    BY <1>4 DEF StandingOf
  <2>2. Log!Raise(e, t)
    BY <1>2, <1>3, <2>1 DEF Log!Raise, StandingOf
  <2> QED BY <2>2 DEF Log!LogNext
<1>5. CASE event[e].of # {}
  <2>1. StandingOf(e) = "active" /\ StandingOf(e)' = "cleared"
    BY <1>5 DEF StandingOf
  <2>2. A' = A
    BY <1>5, <1>2, <1>3
  <2>3. Log!Clear(e)
    BY <1>2, <1>3, <2>1, <2>2 DEF Log!Clear, StandingOf
  <2> QED BY <2>3 DEF Log!LogNext
<1> QED BY <1>4, <1>5

LEMMA LogStep ==
  ASSUME TypeOK, SeenOwn, InUse, ClearKnown, [Next]_vars
  PROVE  [Log!LogNext]_(Log!logVars)
<1>t. /\ run \in [Runs -> Places]
      /\ event \in [Events -> [of : SUBSET Tasks, active : BOOLEAN, told : Told]]
      /\ \A r \in Runs : run[r].bundle \subseteq Events
      /\ \A r \in Runs : \A t \in Tasks : run[r].seen[t] \in Events \cup {NoEvent}
  BY Fields DEF TypeOK
<1>a. ASSUME \A e \in Events : /\ event'[e].of = event[e].of
                               /\ event'[e].active = event[e].active,
             mailed' = mailed
      PROVE  [Log!LogNext]_(Log!logVars)
  BY <1>a, LogTells DEF Log!LogNext
<1>1. CASE Elapse
  BY <1>1, <1>a, <1>t DEF Elapse
<1>2. ASSUME NEW r \in Runs, NEW t \in Tasks, Detect(r, t)
      PROVE  [Log!LogNext]_(Log!logVars)
  <2>1. mailed' = mailed
    BY <1>2 DEF Detect, Created
  <2>2. CASE run[r].seen[t] # NoEvent
    BY <1>2, <1>a, <2>1, <2>2 DEF Detect
  <2>3. CASE run[r].seen[t] = NoEvent
    <3>1. Row(r, t) \in Unused
      BY <1>2, <2>3, UnusedRow DEF Detect, Row
    <3>2. event' = [event EXCEPT ![Row(r, t)] = Created(t)]
      BY <1>2, <2>3 DEF Detect, Row
    <3>3. Row(r, t) \in Events /\ event[Row(r, t)].of = {}
      BY <3>1 DEF Unused
    <3>4. /\ event'[Row(r, t)].of = {t} /\ event'[Row(r, t)].active
          /\ \A f \in Events \ {Row(r, t)} : event'[f] = event[f]
      BY <1>t, <3>2, <3>3 DEF Created
    <3> QED BY <2>1, <3>3, <3>4, LogMoves
  <2> QED BY <2>2, <2>3
<1>3. ASSUME NEW r \in Runs, NEW t \in Tasks, Clear(r, t)
      PROVE  [Log!LogNext]_(Log!logVars)
  <2> DEFINE e == run[r].seen[t]
  <2>1. mailed' = mailed
    BY <1>3 DEF Clear, history
  <2>2. e \in Events /\ event[e].of = {t}
    BY <1>3, <1>t DEF Clear, ClearKnown, SeenOwn
  <2>3. CASE event' = event
    BY <2>1, <2>3, <1>a
  <2>4. CASE event' = [event EXCEPT ![e].active = FALSE]
    <3>1. /\ event'[e].of = {t} /\ ~ event'[e].active
          /\ \A f \in Events \ {e} : event'[f] = event[f]
      BY <1>t, <2>2, <2>4
    \* Another run has cleared it already.
    <3>2. CASE ~ event[e].active
      <4>1. event[e].active = FALSE /\ event'[e].active = FALSE
        BY <1>t, <2>2, <2>4, <3>2
      <4>2. \A f \in Events : /\ event'[f].of = event[f].of
                              /\ event'[f].active = event[f].active
        BY <2>2, <3>1, <4>1
      <4> QED BY <1>a, <2>1, <4>2
    <3>3. CASE event[e].active
      BY <2>1, <2>2, <3>1, <3>3, LogMoves
    <3> QED BY <3>2, <3>3
  <2> QED BY <1>3, <2>3, <2>4 DEF Clear
<1>4. ASSUME NEW r \in Runs, Stamp(r) PROVE [Log!LogNext]_(Log!logVars)
  <2>1. mailed' = mailed
    BY <1>4 DEF Stamp, history
  <2>2. \A e \in Events : /\ event'[e].of = event[e].of
                          /\ event'[e].active = event[e].active
    BY <1>4, <1>t DEF Stamp
  <2> QED BY <1>a, <2>1, <2>2
<1>5. ASSUME NEW r \in Runs, Send(r) \/ SendFails(r)
      PROVE  [Log!LogNext]_(Log!logVars)
  <2>1. event' = event
    BY <1>5 DEF Send, SendFails
  <2>2. mailed' = mailed \/ mailed' = mailed \cup run[r].bundle
    BY <1>5 DEF Send, SendFails, Delivered
  <2>3. \A e \in run[r].bundle : e \in Events /\ event[e].of # {}
    BY <1>t DEF InUse
  <2>4. Log!Tell
    BY <2>1, <2>2, <2>3, LogTells
  <2> QED BY <2>4 DEF Log!LogNext
<1>6. ASSUME UNCHANGED <<event, mailed>> PROVE [Log!LogNext]_(Log!logVars)
  BY <1>6, <1>a
<1>7. ASSUME NEW r \in Runs,
             \/ ReadActive(r) \/ ReadActiveFails(r) \/ ListTasks(r)
             \/ ScanFails(r) \/ EndScan(r) \/ Finish(r) \/ Die(r)
             \/ \E dry \in BOOLEAN : Begin(r, dry)
      PROVE  UNCHANGED <<event, mailed>>
  BY <1>7 DEF ReadActive, ReadActiveFails, ListTasks, ScanFails, EndScan, Finish,
              Die, Begin, history
<1>8. ASSUME (\E t \in Tasks : TaskChanges(t)) \/ EditConfig \/ UNCHANGED vars
      PROVE  UNCHANGED <<event, mailed>>
  BY <1>8 DEF TaskChanges, EditConfig, vars, history
<1> QED
  BY <1>1, <1>2, <1>3, <1>4, <1>5, <1>6, <1>7, <1>8 DEF Next, RunStep

\* However runs overlap, fail and die: a row is raised once for one task, stays
\* that task's, never comes back once it is cleared, and only raised events
\* are mailed.
THEOREM EngineImplementsLog == Spec => ImplementsLog
<1>1. Init => BegunEmpty /\ InUse /\ Listed /\ ClearKnown
  BY DEF Init, Idle, BegunEmpty, InUse, Listed, ClearKnown, On
<1>2. OneInv => SeenOwn
  BY DEF OneInv
<1>3. Init => Log!LogInit
  BY DEF Init, Log!LogInit
<1>4. TypeOK /\ SeenOwn /\ InUse /\ ClearKnown /\ [Next]_vars =>
        [Log!LogNext]_(Log!logVars)
  BY LogStep
<1> QED BY <1>1, <1>2, <1>3, <1>4, TypeInit, TypeNext, OneInit, OneNext,
           BegunNext, InUseNext, ListNext, PTL DEF Spec, ImplementsLog, Log!LogSpec
===============================================================================
