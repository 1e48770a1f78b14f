-------------------------------- MODULE AlarmLog --------------------------------
(***************************************************************************)
(* What the event rows of an alarm promise a reader of the alarm's page,   *)
(* whatever runs, deaths and failing statements write them: an event is    *)
(* raised once, for one task, stays that task's, and once cleared never    *)
(* comes back; and nobody is told of an event that was never raised.       *)
(* AlarmEngine implements it.                                              *)
(***************************************************************************)
CONSTANTS
    Tasks,      \* what events are about
    Events      \* ids of events

VARIABLES
    about,      \* the task of each event, as a set: empty before it is raised
    standing,   \* how each event stands
    told        \* events somebody was told of

logVars == <<about, standing, told>>

LogTypeOK ==
    /\ about \in [Events -> SUBSET Tasks]
    /\ standing \in [Events -> {"unused", "active", "cleared"}]
    /\ told \subseteq Events

LogInit ==
    /\ about = [e \in Events |-> {}]
    /\ standing = [e \in Events |-> "unused"]
    /\ told = {}

Raise(e, t) ==
    /\ standing[e] = "unused"
    /\ standing' = [standing EXCEPT ![e] = "active"]
    /\ about' = [about EXCEPT ![e] = {t}]
    /\ UNCHANGED told

Clear(e) ==
    /\ standing[e] = "active"
    /\ standing' = [standing EXCEPT ![e] = "cleared"]
    /\ UNCHANGED <<about, told>>

\* One mail speaks of several events, of cleared ones too: another run may
\* have cleared what this one is about to mail.
Tell ==
    /\ told \subseteq told'
    /\ \A e \in told' \ told : e \in Events /\ standing[e] # "unused"
    /\ UNCHANGED <<about, standing>>

LogNext ==
    \/ Tell
    \/ \E e \in Events : Clear(e) \/ \E t \in Tasks : Raise(e, t)

LogSpec == LogInit /\ [][LogNext]_logVars
===============================================================================
