---------------------------- MODULE AuthorityRecord ----------------------------
(***************************************************************************)
(* What the monitor's record of an account and the menu's copy of it       *)
(* promise, whatever sign-ins, backfills and late writes work on them: an  *)
(* eic is written only when GitHub has answered so, a report of a failure  *)
(* says nothing else, one field's write leaves the other field alone, and  *)
(* the menu shows only what the monitor took.  Authority implements it.    *)
(***************************************************************************)
CONSTANTS
    Accounts,
    Answers,    \* what GitHub may answer
    Rights      \* what an account may be given

VARIABLES
    known,      \* the answers GitHub gave about each account
    record,     \* the monitor's record of each account
    taken,      \* the answers the monitor took into the record
    menu        \* the menu's copy

recordVars == <<known, record, taken, menu>>

RecordTypeOK ==
    /\ known \in [Accounts -> SUBSET Answers]
    /\ record \in [Accounts -> [eic : {"unset"} \cup Answers, rights : Rights, failed : BOOLEAN]]
    /\ taken \in [Accounts -> SUBSET Answers]
    /\ menu \in [Accounts -> [eic : {"unset"} \cup Answers, failed : BOOLEAN]]

RecordInit ==
    /\ known = [a \in Accounts |-> {}]
    /\ record = [a \in Accounts |-> [eic |-> "unset", rights |-> "unset", failed |-> FALSE]]
    /\ taken = [a \in Accounts |-> {}]
    /\ menu = [a \in Accounts |-> [eic |-> "unset", failed |-> FALSE]]

\* One listing answers for several accounts.
Learn ==
    /\ known' \in [Accounts -> SUBSET Answers]
    /\ \A a \in Accounts : known[a] \subseteq known'[a]
    /\ UNCHANGED <<record, taken, menu>>

SetEic(a, answer) ==
    /\ answer \in known[a]
    /\ record' = [record EXCEPT ![a].eic = answer, ![a].failed = FALSE]
    /\ taken' = [taken EXCEPT ![a] = @ \cup {answer}]
    /\ UNCHANGED <<known, menu>>

SetRights(a, rights) ==
    /\ record' = [record EXCEPT ![a].rights = rights]
    /\ UNCHANGED <<known, taken, menu>>

NoteFailure(a) ==
    /\ record' = [record EXCEPT ![a].failed = TRUE]
    /\ UNCHANGED <<known, taken, menu>>

Show(a, answer) ==
    /\ answer \in taken[a]
    /\ menu' = [menu EXCEPT ![a] = [eic |-> answer, failed |-> FALSE]]
    /\ UNCHANGED <<known, record, taken>>

\* The menu keeps the answer it shows beside the failure.
ShowFailure(a) ==
    /\ menu' = [menu EXCEPT ![a].failed = TRUE]
    /\ UNCHANGED <<known, record, taken>>

RecordNext ==
    \/ Learn
    \/ \E a \in Accounts :
          \/ \E answer \in Answers : SetEic(a, answer) \/ Show(a, answer)
          \/ \E rights \in Rights : SetRights(a, rights)
          \/ NoteFailure(a)
          \/ ShowFailure(a)

RecordSpec == RecordInit /\ [][RecordNext]_recordVars
===============================================================================
