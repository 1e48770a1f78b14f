------------------------------ MODULE CrashLedger ------------------------------
(***************************************************************************)
(* PassLedger on a host that may lose power: what is left of its promise.  *)
(* A record falls back at most to an earlier standing, one that is durable *)
(* never as far as being unknown, and one that was applied not at all.     *)
(* What an acknowledged record loses that way it does not get back.        *)
(***************************************************************************)
EXTENDS PassLedger

VARIABLE durable        \* ids whose record no power loss takes away

crashVars == <<ledger, acknowledged, durable>>

Taken == {p \in PassIds : ledger[p] # "new"}
Due   == {p \in Taken : ledger[p] # "applied"}

CrashInit == LedgerInit /\ durable = {}

\* The ledger at work.  A record that was acknowledged is not taken in anew.
Work ==
    /\ \E p \in PassIds :
          \/ p \notin acknowledged /\ Hold(p)
          \/ Acknowledge(p) \/ SetAside(p) \/ Apply(p)
    /\ UNCHANGED durable

\* More becomes durable, of what was taken in.
Settle ==
    /\ durable \subseteq durable' /\ durable' \subseteq Taken
    /\ UNCHANGED ledgerVars

\* What a loss of power may make of a standing.
Earlier(standing) ==
    CASE standing = "aside" -> {"aside", "held", "new"}
      [] standing = "held"  -> {"held", "new"}
      [] OTHER              -> {standing}

\* What is still due after a loss of power is durable.
PowerLoss ==
    /\ ledger' \in [PassIds -> Standing]
    /\ \A p \in PassIds : ledger'[p] \in Earlier(ledger[p])
    /\ durable \cup Due' \subseteq durable' /\ durable' \subseteq Taken'
    /\ UNCHANGED acknowledged

CrashNext == Work \/ Settle \/ PowerLoss

CrashSpec == CrashInit /\ [][CrashNext]_crashVars
===============================================================================
