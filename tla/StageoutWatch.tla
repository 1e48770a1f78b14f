----------------------------- MODULE StageoutWatch -----------------------------
(***************************************************************************)
(* What the watch shows of the stage-out (scripts/stageout_index.py:       *)
(* sweep_state and summary).                                               *)
(*                                                                         *)
(* A sweeper that has never reported is neither healthy nor stalled until  *)
(* somebody declares it; a gateway wipe sits in the same table as the      *)
(* sweeper's passes and says nothing of the sweeper; and several signals   *)
(* compete for one verdict.                                                *)
(***************************************************************************)
EXTENDS Integers, FiniteSetsExt

CONSTANTS
    Stall,          \* PASS_STALL_SECONDS, in ticks
    RateCeiling,    \* RATE_CEILING_PER_HOUR
    MaxHour         \* bound on the last hour's count

ASSUME WatchAssumption == {Stall, RateCeiling, MaxHour} \subseteq Nat

\* Ages of things, in ticks; ages past Stall + 1 are alike, and Never is
\* the age of what has not happened.
Never  == Stall + 2
Sights == 0..Never

\* The reporter column of the passes table: the sweeper's account, none
\* (records older than the column), or the wipe's own.
Reporters == {"swf-sweeper", "", "gateway-wipe"}

VARIABLES
    passAge,        \* age of the youngest row of the passes table, by reporter
    heardAge,       \* history: age of the last pass that was the sweeper's
    expected,       \* age of the stamp sweeper_expected_from
    hour,           \* rows and status writes of the last hour
    looping,        \* the busiest subject is over the per-job ceiling
    unheard,        \* last_reconcile has unheard objects
    keyStopped      \* last_guard has reporting_key_stopped

signals == <<hour, looping, unheard, keyStopped>>
vars == <<passAge, heardAge, expected, hour, looping, unheard, keyStopped>>

TypeOK ==
    /\ passAge \in [Reporters -> Sights]
    /\ heardAge \in Sights
    /\ expected \in Sights
    /\ hour \in 0..MaxHour
    /\ {looping, unheard, keyStopped} \subseteq BOOLEAN

Init ==
    /\ passAge = [r \in Reporters |-> Never]
    /\ heardAge = Never
    /\ expected = Never
    /\ hour = 0
    /\ looping = FALSE /\ unheard = FALSE /\ keyStopped = FALSE

\* apply_passes or wipe inserts a row with applied_at = now.
PassApplied(r) ==
    /\ passAge' = [passAge EXCEPT ![r] = 0]
    /\ heardAge' = IF r = "gateway-wipe" THEN heardAge ELSE 0
    /\ UNCHANGED <<expected, signals>>

\* sweeper_expected_from is set by hand.
Commission ==
    /\ expected' = 0
    /\ UNCHANGED <<passAge, heardAge, signals>>

Aged(n) == IF n > Stall THEN n ELSE n + 1

Tick ==
    /\ passAge' = [r \in Reporters |-> Aged(passAge[r])]
    /\ heardAge' = Aged(heardAge)
    /\ expected' = Aged(expected)
    /\ UNCHANGED signals

\* The drain counts, a reconcile or a guard run commits its record.
Recount   == hour' \in 0..MaxHour /\ looping' \in BOOLEAN
             /\ UNCHANGED <<passAge, heardAge, expected, unheard, keyStopped>>
Reconcile == unheard' \in BOOLEAN
             /\ UNCHANGED <<passAge, heardAge, expected, hour, looping, keyStopped>>
Guard     == keyStopped' \in BOOLEAN
             /\ UNCHANGED <<passAge, heardAge, expected, hour, looping, unheard>>

Next ==
    \/ \E r \in Reporters : PassApplied(r)
    \/ Commission \/ Tick \/ Recount \/ Reconcile \/ Guard

Spec == Init /\ [][Next]_vars

\* Time passes; nothing else must happen.
FairSpec == Spec /\ WF_vars(Tick)

-------------------------------------------------------------------------------
\* A slip: a wipe counts as a sign of the sweeper.
LastPassOrWipe == Min({passAge[r] : r \in Reporters})

\* MAX(applied_at) over the rows whose reporter is not gateway-wipe.
LastPass == Min({passAge[r] : r \in Reporters \ {"gateway-wipe"}})

\* A slip: a sweeper that was declared and never came is forgotten.
StalledOnceHeard == LastPass # Never /\ LastPass > Stall

\* sweep_state: whether there is a stall text.
Stalled ==
    IF LastPass # Never THEN LastPass > Stall
    ELSE expected # Never /\ expected > Stall

\* A slip: the elif chain begins with the looping job.
VerdictLoopFirst ==
    IF keyStopped THEN "alarm"
    ELSE IF looping THEN "warning"
    ELSE IF hour > RateCeiling THEN "alarm"
    ELSE IF unheard \/ Stalled THEN "warning"
    ELSE "ok"

\* summary's verdict: assigned in order, later assignments winning.
Verdict ==
    LET afterSweep == IF Stalled THEN "warning" ELSE "ok"
        afterCount == IF hour > RateCeiling THEN "alarm"
                      ELSE IF looping THEN "warning"
                      ELSE IF unheard THEN "warning"
                      ELSE afterSweep
    IN  IF keyStopped THEN "alarm" ELSE afterCount

-------------------------------------------------------------------------------
\* "Three states, not two": stalled is said of a sweeper that reported once
\* and has been silent too long, or was declared and never came; a wipe is
\* no sign of life and an undeclared sweeper is never stalled.
StallIsSilence ==
    Stalled <=> \/ heardAge = Stall + 1
                \/ heardAge = Never /\ expected = Stall + 1

\* No signal hides a graver one, whatever the order the code looks at them.
VerdictIsWorst ==
    /\ Verdict = "alarm" <=> hour > RateCeiling \/ keyStopped
    /\ Verdict = "ok" <=> /\ hour <= RateCeiling
                          /\ ~ (looping \/ unheard \/ keyStopped \/ Stalled)

\* A sweeper that was declared or has once reported, and then falls silent
\* for good, is noticed and stays noticed, wipes and recounts notwithstanding.
SilenceIsNoticed ==
    /\ <>(expected # Never \/ heardAge # Never)
    /\ <>[](heardAge # 0 /\ expected # 0)
    => <>[](Verdict # "ok")
===============================================================================
