----------------------------- MODULE StageoutGuard -----------------------------
(***************************************************************************)
(* The nightly guard (scripts/stageout_index.py: guard, status_since,      *)
(* reporting_keys, key_status, disable_reporting_key).                     *)
(*                                                                         *)
(* The guard counts the last day's rows, asks IAM for the reporting        *)
(* user's keys, disables them one call at a time if the count breaches a   *)
(* ceiling, and only then commits what it saw.  Any AWS call may fail, and *)
(* an operator may switch keys at any moment.                              *)
(*                                                                         *)
(* A row and a status write are known by their age in ticks of the clock;  *)
(* rows older than Week count for nothing.  Bytes are counted and compared *)
(* exactly as objects are, and are left out.                               *)
(***************************************************************************)
EXTENDS Integers, FiniteSetsExt

CONSTANTS
    KeyIds,         \* access keys the reporting user may hold
    Day, Week,      \* the guard's windows, in ticks
    HardCeiling,    \* OBJECT_HARD_CEILING_PER_DAY
    Floor, Multiple,\* RELATIVE_FLOOR and RELATIVE_MULTIPLE
    MaxRows,        \* bound on the writes of a week
    MaxOperator,    \* bound on the operator's interventions
    MaxFaults       \* bound on failing AWS calls

ASSUME WindowsAssumption == Day \in Nat /\ Week \in Nat /\ 0 < Day /\ Day < Week
ASSUME CeilingsAssumption ==
    {HardCeiling, Floor, Multiple, MaxRows, MaxOperator, MaxFaults} \subseteq Nat

Ages  == 0..(Week - 1)

VARIABLES
    rows,           \* objects rows by age of seen_at
    status,         \* status writes by age of their hour
    written,        \* objects and status writes made, by age: bounds Write
    keys,           \* the reporting user's keys in IAM
    guard,          \* the guard run
    lastGuard,      \* last_guard: what the last completed run recorded
    touched,        \* history: a key was made active since the run began,
    overtaken,      \* history: ... since the run behind last_guard began
    acts,           \* operator interventions so far
    faults

tableVars == <<rows, status, written>>
vars == <<rows, status, written, keys, guard, lastGuard, touched, overtaken,
          acts, faults>>

IdleGuard == [phase |-> "idle", breach |-> FALSE, armed |-> FALSE,
              stopped |-> FALSE, todo |-> {}]

TypeOK ==
    /\ {rows, status, written} \subseteq [Ages -> Nat]
    /\ keys \in [KeyIds -> {"none", "Active", "Inactive"}]
    /\ {touched, overtaken} \subseteq BOOLEAN
    /\ guard \in [phase : {"idle", "status", "list", "disable", "commit"},
                  breach : BOOLEAN, armed : BOOLEAN, stopped : BOOLEAN,
                  todo : SUBSET KeyIds]
    /\ lastGuard \in [breach : BOOLEAN, stopped : BOOLEAN]
    /\ acts \in 0..MaxOperator
    /\ faults \in 0..MaxFaults

Init ==
    /\ rows = [a \in Ages |-> 0]
    /\ status = rows
    /\ written = rows
    /\ keys \in {f \in [KeyIds -> {"none", "Active"}] : \E k \in KeyIds : f[k] = "Active"}
    /\ guard = IdleGuard
    /\ lastGuard = [breach |-> FALSE, stopped |-> FALSE]
    /\ touched = FALSE
    /\ overtaken = FALSE
    /\ acts = 0
    /\ faults = 0

Fault ==
    /\ faults < MaxFaults
    /\ faults' = faults + 1

Total(f, A) == MapThenSumSet(LAMBDA a : f[a], A)

Active == {k \in KeyIds : keys[k] = "Active"}
Held   == {k \in KeyIds : keys[k] # "none"}

-------------------------------------------------------------------------------
(* The tables, as drain, apply, reconcile, wipe and time change them.      *)

\* A job with an active key writes an object or a status file; the drain
\* has recorded it.
Write ==
    /\ Active # {}
    /\ Total(written, Ages) < MaxRows
    /\ written' = [written EXCEPT ![0] = @ + 1]
    /\ \/ rows' = [rows EXCEPT ![0] = @ + 1] /\ UNCHANGED status
       \/ status' = [status EXCEPT ![0] = @ + 1] /\ UNCHANGED rows
    /\ UNCHANGED <<keys, guard, lastGuard, touched, overtaken, acts, faults>>

\* A sweep pass is applied, or a reconcile or wipe prunes: rows are retired.
Retire(a) ==
    /\ rows[a] > 0
    /\ rows' = [rows EXCEPT ![a] = @ - 1]
    /\ UNCHANGED <<status, written, keys, guard, lastGuard, touched, overtaken, acts, faults>>

\* The clock moves on.
Older(f) == [a \in Ages |-> IF a = 0 THEN 0 ELSE f[a - 1]]

Tick ==
    /\ rows' = Older(rows)
    /\ status' = Older(status)
    /\ written' = Older(written)
    /\ UNCHANGED <<keys, guard, lastGuard, touched, overtaken, acts, faults>>

-------------------------------------------------------------------------------
(* The operator.                                                           *)

\* Enables, disables, creates or deletes an access key.
SwitchKey(k, s) ==
    /\ acts < MaxOperator
    /\ acts' = acts + 1
    /\ keys[k] # s
    /\ keys' = [keys EXCEPT ![k] = s]
    /\ touched' = (touched \/ s = "Active")
    /\ overtaken' = (overtaken \/ s = "Active")
    /\ UNCHANGED <<tableVars, guard, lastGuard, faults>>

-------------------------------------------------------------------------------
(* guard, step by step.                                                    *)

DayCount  == Total(rows, 0..(Day - 1)) + Total(status, 0..(Day - 1))
PriorRows == Total(rows, Day..(Week - 1))
\* prior_days / 6.0 in the code: the days of the week before the last one.
\* Comparisons with the norm are multiplied out.
Span == Week - Day

Breach ==
    \/ DayCount > HardCeiling
    \/ /\ PriorRows * Day >= Floor * Span
       /\ DayCount * Span > PriorRows * Day * Multiple

\* The SELECTs, a moment apart at most; --no-arm makes a run unarmed.
GuardCount(armed) ==
    /\ guard.phase = "idle"
    /\ guard' = [IdleGuard EXCEPT !.phase = "status", !.breach = Breach,
                   !.armed = armed]
    /\ touched' = FALSE
    /\ UNCHANGED <<tableVars, keys, lastGuard, overtaken, acts, faults>>

\* A slip: one inactive key is taken for all of them.
StoppedByAny == \E k \in KeyIds : keys[k] = "Inactive"

\* key_status(): Inactive only if there are keys and none is active;
\* unreadable and missing count as not stopped.
Stopped == Held # {} /\ Active = {}

\* A slip: --no-arm is forgotten.
MustDisableUnarmed(stopped) == guard.breach /\ ~ stopped

MustDisable(stopped) == guard.breach /\ guard.armed /\ ~ stopped

GuardStatus ==
    /\ guard.phase = "status"
    /\ \E read \in BOOLEAN :
         /\ IF read THEN UNCHANGED faults ELSE Fault
         /\ guard' = [guard EXCEPT !.stopped = read /\ Stopped,
              !.phase = IF MustDisable(read /\ Stopped) THEN "list" ELSE "commit"]
    /\ UNCHANGED <<tableVars, keys, lastGuard, touched, overtaken, acts>>

\* A slip: the user is taken to hold one key.
OneActive == IF Active = {} THEN {} ELSE {CHOOSE k \in Active : TRUE}

\* "Every key is considered."
ToDisable == Active

\* disable_reporting_key lists again; no active key raises.
GuardList ==
    /\ guard.phase = "list"
    /\ guard' = IF ToDisable = {} THEN IdleGuard
                ELSE [guard EXCEPT !.phase = "disable", !.todo = ToDisable]
    /\ UNCHANGED <<tableVars, keys, lastGuard, touched, overtaken, acts, faults>>

\* update-access-key --status
Off == "Inactive"

\* One update-access-key.
GuardDisable(k) ==
    /\ guard.phase = "disable"
    /\ k \in guard.todo
    /\ keys[k] # "none"
    /\ keys' = [keys EXCEPT ![k] = Off]
    /\ guard' = [guard EXCEPT !.todo = @ \ {k},
                   !.phase = IF guard.todo = {k} THEN "commit" ELSE "disable",
                   !.stopped = guard.todo = {k}]
    /\ UNCHANGED <<tableVars, lastGuard, touched, overtaken, acts, faults>>

\* A key of the listing is no longer there: the call fails and raises.
GuardMisses(k) ==
    /\ guard.phase = "disable"
    /\ k \in guard.todo
    /\ keys[k] = "none"
    /\ guard' = IdleGuard
    /\ UNCHANGED <<tableVars, keys, lastGuard, touched, overtaken, acts, faults>>

\* An AWS call of disable_reporting_key raises, or the run dies: nothing is
\* recorded, and keys disabled so far stay disabled.
GuardAborts ==
    /\ guard.phase # "idle"
    /\ Fault
    /\ guard' = IdleGuard
    /\ UNCHANGED <<tableVars, keys, lastGuard, touched, overtaken, acts>>

\* daily and last_guard, in one commit.
GuardCommit ==
    /\ guard.phase = "commit"
    /\ lastGuard' = [breach |-> guard.breach, stopped |-> guard.stopped]
    /\ overtaken' = touched
    /\ guard' = IdleGuard
    /\ UNCHANGED <<tableVars, keys, touched, acts, faults>>

GuardStep ==
    \/ GuardStatus \/ GuardList \/ GuardCommit
    \/ \E k \in KeyIds : GuardDisable(k) \/ GuardMisses(k)

Next ==
    \/ Write \/ (\E a \in Ages : Retire(a)) \/ Tick
    \/ \E k \in KeyIds, s \in {"none", "Active", "Inactive"} : SwitchKey(k, s)
    \/ \E armed \in BOOLEAN : GuardCount(armed)
    \/ GuardStep
    \/ GuardAborts

Spec == Init /\ [][Next]_vars

(***************************************************************************)
(* Cron starts an armed guard run night after night, and a started run     *)
(* goes on.  Nothing else is certain to happen.                            *)
(***************************************************************************)
FairSpec == Spec /\ SF_vars(GuardCount(TRUE)) /\ WF_vars(GuardStep)

-------------------------------------------------------------------------------
(* Properties.                                                             *)

\* A recorded stop is true: unless somebody made a key active since that
\* run began, no key of the reporting user can write once last_guard says
\* reporting_key_stopped.  Every key is considered, failed calls, partial
\* disabling and an operator's switching notwithstanding.
RecordedStopHolds == lastGuard.stopped /\ ~ overtaken => Active = {}

\* The guard takes a key away only in an armed run whose count breached a
\* ceiling; nothing but an operator makes an active key inactive otherwise.
\* And such a run leaves none that was active throughout before it records
\* anything: where it is about to commit, no key is active that nobody has
\* just switched on.
BreachBeforeCommit ==
    [][/\ \A k \in KeyIds : keys[k] = "Active" /\ keys'[k] # "Active"
              => acts' # acts \/ (guard.breach /\ guard.armed)
       /\ guard.phase = "commit" /\ guard.breach /\ guard.armed /\ ~ touched
              => Active = {}]_vars

\* A breach that stands is the end of writing: if the ceilings stay
\* breached then, faults and operators having had their say, the keys end
\* and stay without an active one.
BreachStops == <>[]Breach => <>[](Active = {})
===============================================================================
