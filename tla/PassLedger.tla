------------------------------ MODULE PassLedger ------------------------------
(***************************************************************************)
(* What the gateway promises the production sweeper about its pass         *)
(* records, whatever the processes, files and tables that keep the promise:*)
(* a record that was acknowledged is held until it is either applied to    *)
(* the index or set aside for a human, is applied at most once, and is     *)
(* never forgotten.  SweepSpool implements it.                             *)
(***************************************************************************)
CONSTANT PassIds        \* the ids under which records are taken in

VARIABLES
    ledger,             \* where each record stands
    acknowledged        \* ids whose acceptance the sweeper was told of

ledgerVars == <<ledger, acknowledged>>

Standing == {"new", "held", "aside", "applied"}

LedgerTypeOK ==
    /\ ledger \in [PassIds -> Standing]
    /\ acknowledged \subseteq PassIds

LedgerInit ==
    /\ ledger = [p \in PassIds |-> "new"]
    /\ acknowledged = {}

Hold(p) ==
    /\ ledger[p] = "new"
    /\ ledger' = [ledger EXCEPT ![p] = "held"]
    /\ UNCHANGED acknowledged

\* Only a record that is already held may be acknowledged.
Acknowledge(p) ==
    /\ ledger[p] # "new"
    /\ acknowledged' = acknowledged \cup {p}
    /\ UNCHANGED ledger

SetAside(p) ==
    /\ ledger[p] = "held"
    /\ ledger' = [ledger EXCEPT ![p] = "aside"]
    /\ UNCHANGED acknowledged

\* A reader that opened the record before it was set aside still applies it.
Apply(p) ==
    /\ ledger[p] \in {"held", "aside"}
    /\ ledger' = [ledger EXCEPT ![p] = "applied"]
    /\ UNCHANGED acknowledged

LedgerNext ==
    \E p \in PassIds : Hold(p) \/ Acknowledge(p) \/ SetAside(p) \/ Apply(p)

LedgerSpec == LedgerInit /\ [][LedgerNext]_ledgerVars
===============================================================================
