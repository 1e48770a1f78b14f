------------------------------ MODULE AlarmEngine ------------------------------
(***************************************************************************)
(* One alarm of the alarm engine (alarms/swf_alarms: run.main, db, notify, *)
(* fetch, lib.failure_rate).  A run reads the alarm's active events, asks  *)
(* the monitor status by status for the tasks that fail too often, writes, *)
(* clears and mails.                                                       *)
(*                                                                         *)
(* Nothing keeps two runs apart, tasks change status while a run reads,    *)
(* every statement commits on its own, and a run can die anywhere.         *)
(*                                                                         *)
(* The engine is kept for rollback: its cron is disabled and the login     *)
(* wall turns its fetches away, so that a run started by hand today is one *)
(* whose scan fails.  Nothing is assumed of when runs start, nor that any  *)
(* fetch succeeds, and nothing is claimed that would need it.              *)
(***************************************************************************)
EXTENDS Integers, Sequences, FiniteSets, Functions

CONSTANTS
    Tasks,          \* tasks, the entities of dedupe_key
    Statuses,       \* the statuses listed, in order (DEFAULT_STATUSES)
    Runs,           \* processes that may run the engine
    Events,         \* ids of event rows, a bound on how many there are
    NoEvent,        \* not an event
    MaxChanges,     \* bound on changes of tasks and configuration, on dry
                    \* runs, and on runs started beside another
    MaxFaults       \* bound on failing calls and deaths

ASSUME AlarmAssumption ==
    /\ NoEvent \notin Events
    /\ Statuses \in Seq(STRING) /\ "quiet" \notin Range(Statuses)
    /\ MaxChanges \in Nat /\ MaxFaults \in Nat

VARIABLES
    task,           \* the status in which a task fires; "quiet" if it does not
    config,         \* data of the alarm's entry, and its archived flag
    event,          \* event rows: whose, active, and last_notified
    run,            \* each process's place in main
    lapsed,         \* history: tasks not steadily firing since the run began
    stirred,        \* history: tasks that fired at some time since it began
    causes,         \* history: known causes for another event of a task
    mailed,         \* history: events a delivered mail has listed
    inbox,          \* history: mails listing the event since the window elapsed
    unsure,         \* history: mails unstamped, or of overlapping runs, as inbox
    changes, faults \* counts against the bounds

history == <<lapsed, stirred, causes, mailed, inbox, unsure>>
vars == <<task, config, event, run, history, changes, faults>>

\* last_notified: missing, within the window, or a window and more ago.
Told == {"never", "fresh", "due"}

\* "alone" and "sound" are history: no other run was about, and no call but
\* that of the mail failed.
Idle == [phase |-> "off", mail |-> FALSE, window |-> FALSE, alone |-> TRUE, sound |-> TRUE,
         seen |-> [t \in Tasks |-> NoEvent], told |-> [t \in Tasks |-> "never"],
         at |-> 1, page |-> {}, detected |-> {}, bundle |-> {}]

Places ==
    [phase : {"off", "begun", "scan", "clear", "send", "stamp"},
     mail : BOOLEAN, window : BOOLEAN, alone : BOOLEAN, sound : BOOLEAN,
     seen : [Tasks -> Events \cup {NoEvent}], told : [Tasks -> Told],
     at : 1..(Len(Statuses) + 1),
     page : SUBSET Tasks, detected : SUBSET Tasks, bundle : SUBSET Events]

TypeOK ==
    /\ task \in [Tasks -> Range(Statuses) \cup {"quiet"}]
    /\ config \in [enabled : BOOLEAN, window : BOOLEAN, archived : BOOLEAN]
    /\ event \in [Events -> [of : SUBSET Tasks, active : BOOLEAN, told : Told]]
    /\ run \in [Runs -> Places]
    /\ lapsed \in [Runs -> SUBSET Tasks] /\ stirred \in [Runs -> SUBSET Tasks]
    /\ causes \in [Tasks -> Nat]
    /\ mailed \subseteq Events
    /\ inbox \in [Events -> Nat] /\ unsure \in [Events -> Nat]
    /\ changes \in 0..MaxChanges /\ faults \in 0..MaxFaults

On == {r \in Runs : run[r].phase # "off"}
ActiveOf(t) == {e \in Events : event[e].active /\ t \in event[e].of}

\* A slip: the row of a cleared event is written over.
NotActive == {e \in Events : ~ event[e].active}

Unused == {e \in Events : event[e].of = {}}

\* create_event: active, and nobody told of it yet.
Created(t) == [of |-> {t}, active |-> TRUE, told |-> "never"]

Init ==
    /\ task = [t \in Tasks |-> "quiet"]
    /\ config = [enabled |-> TRUE, window |-> TRUE, archived |-> FALSE]
    /\ event = [e \in Events |-> [of |-> {}, active |-> FALSE, told |-> "never"]]
    /\ run = [r \in Runs |-> Idle]
    /\ lapsed = [r \in Runs |-> {}] /\ stirred = lapsed
    /\ causes = [t \in Tasks |-> 0]
    /\ mailed = {} /\ inbox = [e \in Events |-> 0] /\ unsure = inbox
    /\ changes = 0 /\ faults = 0

-------------------------------------------------------------------------------
\* The world: tasks, operators, time.

Change == changes < MaxChanges /\ changes' = changes + 1
Fault  == faults < MaxFaults /\ faults' = faults + 1

\* A task begins to fail too often, recovers, or changes status.
TaskChanges(t) ==
    /\ Change
    /\ \E s \in (Range(Statuses) \cup {"quiet"}) \ {task[t]} :
        task' = [task EXCEPT ![t] = s]
    /\ lapsed' = [r \in Runs |-> IF r \in On THEN lapsed[r] \cup {t} ELSE {}]
    /\ stirred' = [r \in Runs |-> IF r \in On THEN stirred[r] \cup {t} ELSE {}]
    /\ UNCHANGED <<config, event, run, causes, mailed, inbox, unsure, faults>>

\* alarm_config_save, or the archived flag set by hand.
EditConfig ==
    /\ Change
    /\ \E f \in {"enabled", "window", "archived"} :
        config' = [config EXCEPT ![f] = ~ @]
    /\ UNCHANGED <<task, event, run, history, faults>>

Age(n) == IF n = "fresh" THEN "due" ELSE n

\* Hours pass: every stamp, and every copy of one, is now a window old.
Elapse ==
    /\ event' = [e \in Events |-> [event[e] EXCEPT !.told = Age(@)]]
    /\ run' = [r \in Runs |->
                [run[r] EXCEPT !.told = [t \in Tasks |-> Age(@[t])]]]
    /\ inbox' = [e \in Events |-> 0]
    /\ unsure' = [e \in Events |-> 0]
    /\ UNCHANGED <<task, config, lapsed, stirred, causes, mailed, changes, faults>>

-------------------------------------------------------------------------------
\* A run. Every action up to Finish is one statement or one call of main.

Become(r, s) == run' = [run EXCEPT ![r] = s]

Stop(r) ==
    /\ Become(r, Idle)
    /\ lapsed' = [lapsed EXCEPT ![r] = {}]
    /\ stirred' = [stirred EXCEPT ![r] = {}]

\* A task may have one more event than it would.
AnotherFor(A) == causes' = [t \in Tasks |-> IF t \in A THEN causes[t] + 1 ELSE causes[t]]

\* list_alarm_configs leaves an archived alarm out.
Loaded == ~ config.archived

\* main starts: the config is read once, for the whole run; a dry run sends
\* no mail. An archived alarm is not loaded, and the run ignores it.  What
\* excused events that are all cleared is forgotten when no run is about.
Begin(r, dry) ==
    /\ run[r].phase = "off" /\ Loaded
    /\ IF dry \/ On # {} THEN Change ELSE UNCHANGED changes
    /\ run' = [x \in Runs |->
                IF x = r THEN [Idle EXCEPT !.phase = "begun", !.alone = On = {},
                                           !.mail = config.enabled /\ ~ dry,
                                           !.window = config.window]
                ELSE IF x \in On THEN [run[x] EXCEPT !.alone = FALSE] ELSE run[x]]
    /\ lapsed' = [lapsed EXCEPT ![r] = {t \in Tasks : task[t] = "quiet"}]
    /\ stirred' = [stirred EXCEPT ![r] = {t \in Tasks : task[t] # "quiet"}]
    /\ IF On # {} THEN AnotherFor(Tasks)
       ELSE causes' = [t \in Tasks |-> IF ActiveOf(t) = {} THEN 0 ELSE causes[t]]
    /\ UNCHANGED <<task, config, event, mailed, inbox, unsure, faults>>

\* A slip: only events already notified are read as active.
ReadActiveNotified(r) ==
    /\ run[r].phase = "begun"
    /\ \E rows \in [Tasks -> Events \cup {NoEvent}] :
        /\ \A t \in Tasks :
            LET known == {e \in ActiveOf(t) : event[e].told # "never"}
            IN  rows[t] \in IF known = {} THEN {NoEvent} ELSE known
        /\ Become(r, [run[r] EXCEPT !.phase = "scan", !.seen = rows,
                        !.told = [t \in Tasks |-> IF rows[t] = NoEvent THEN "never"
                                                  ELSE event[rows[t]].told]])
    /\ UNCHANGED <<task, config, event, history, changes, faults>>

\* active_by_key: of several active rows of a task, one, in no fixed order.
ReadActive(r) ==
    /\ run[r].phase = "begun"
    /\ \E rows \in [Tasks -> Events \cup {NoEvent}] :
        /\ \A t \in Tasks : rows[t] \in IF ActiveOf(t) = {} THEN {NoEvent}
                                        ELSE ActiveOf(t)
        /\ Become(r, [run[r] EXCEPT !.phase = "scan", !.seen = rows,
                        !.told = [t \in Tasks |-> IF rows[t] = NoEvent THEN "never"
                                                  ELSE event[rows[t]].told]])
    /\ UNCHANGED <<task, config, event, history, changes, faults>>

\* The query raises: logged, and the run goes on as if nothing were active.
ReadActiveFails(r) ==
    /\ run[r].phase = "begun" /\ Fault
    /\ Become(r, [run[r] EXCEPT !.phase = "scan", !.sound = FALSE])
    /\ AnotherFor(Tasks)
    /\ UNCHANGED <<task, config, event, lapsed, stirred, mailed, inbox, unsure, changes>>

Scanning(r) == run[r].phase = "scan"

\* iter_all_tasks for the next status: the tasks that fire in it now.
ListTasks(r) ==
    /\ Scanning(r) /\ run[r].page = {} /\ run[r].at <= Len(Statuses)
    /\ Become(r, [run[r] EXCEPT !.at = @ + 1,
                    !.page = {t \in Tasks : task[t] = Statuses[run[r].at]}])
    /\ UNCHANGED <<task, config, event, history, changes, faults>>

\* A slip: the age of the last notification is not asked for.
RenotifiesEachTick(r, t) == run[r].told[t] = "never" \/ run[r].window

\* What is listed of a task already active: nothing new to say, or a first
\* or a renewed notification, by the snapshot's last_notified.
Renotifies(r, t) ==
    \/ run[r].told[t] = "never"
    \/ run[r].told[t] = "due" /\ run[r].window

\* One detection: touch the row read at the start, or create one.
Detect(r, t) ==
    /\ Scanning(r) /\ t \in run[r].page
    /\ LET known == run[r].seen[t]
           row   == IF known = NoEvent THEN CHOOSE e \in Unused : TRUE ELSE known
       IN  /\ known = NoEvent => Unused # {}
           /\ event' = IF known # NoEvent THEN event
                       ELSE [event EXCEPT ![row] = Created(t)]
           /\ Become(r, [run[r] EXCEPT
                !.page = @ \ {t}, !.detected = @ \cup {t},
                !.bundle = IF known = NoEvent \/ Renotifies(r, t)
                           THEN @ \cup {row} ELSE @])
    /\ AnotherFor(IF t \in run[r].detected THEN {t} ELSE {})
    /\ UNCHANGED <<task, config, lapsed, stirred, mailed, inbox, unsure, changes, faults>>

\* A slip: a failed scan clears too.
ScanFailsClearing(r) ==
    /\ Scanning(r) /\ Fault
    /\ run[r].page # {} \/ run[r].at <= Len(Statuses)
    /\ Become(r, [run[r] EXCEPT !.phase = "clear", !.sound = FALSE,
            !.page = {t \in Tasks : run[r].seen[t] # NoEvent} \ run[r].detected])
    /\ UNCHANGED <<task, config, event, history, changes>>

\* A fetch fails, or a statement under the same try: the scan ends, nothing
\* is cleared, what is bundled so far is still sent.
ScanFails(r) ==
    /\ Scanning(r) /\ Fault
    /\ run[r].page # {} \/ run[r].at <= Len(Statuses)
    /\ Become(r, [run[r] EXCEPT !.phase = "send", !.page = {}, !.sound = FALSE])
    /\ UNCHANGED <<task, config, event, history, changes>>

\* A slip: clearing waits for the alarm's mails to be on.
EndScanMailing(r) ==
    /\ Scanning(r) /\ run[r].page = {} /\ run[r].at > Len(Statuses)
    /\ Become(r, [run[r] EXCEPT !.phase = "clear",
            !.page = IF run[r].mail
                     THEN {t \in Tasks : run[r].seen[t] # NoEvent} \ run[r].detected
                     ELSE {}])
    /\ UNCHANGED <<task, config, event, history, changes, faults>>

\* The scan is over: the rows not seen again are to be cleared.
EndScan(r) ==
    /\ Scanning(r) /\ run[r].page = {} /\ run[r].at > Len(Statuses)
    /\ Become(r, [run[r] EXCEPT !.phase = "clear",
            !.page = {t \in Tasks : run[r].seen[t] # NoEvent} \ run[r].detected])
    /\ UNCHANGED <<task, config, event, history, changes, faults>>

\* clear_event on one of them; a failure is logged and the next one tried.
Clear(r, t) ==
    /\ run[r].phase = "clear" /\ t \in run[r].page
    /\ \/ /\ event' = [event EXCEPT ![run[r].seen[t]].active = FALSE]
          /\ Become(r, [run[r] EXCEPT !.page = @ \ {t}])
          /\ UNCHANGED faults
       \/ /\ Fault
          /\ Become(r, [run[r] EXCEPT !.page = @ \ {t}, !.sound = FALSE])
          /\ UNCHANGED event
    /\ UNCHANGED <<task, config, history, changes>>

Ready(r) ==
    \/ run[r].phase = "send"
    \/ run[r].phase = "clear" /\ run[r].page = {}

Worth(r) == run[r].mail /\ run[r].bundle # {}

\* One more, for each event of a run's mail.
Listing(r, count) == [e \in Events |-> IF e \in run[r].bundle THEN count[e] + 1 ELSE count[e]]

Delivered(r) ==
    /\ mailed' = mailed \cup run[r].bundle
    /\ inbox' = Listing(r, inbox)

\* send_email_ses returns True; the stamps follow.
Send(r) ==
    /\ Ready(r) /\ Worth(r)
    /\ Delivered(r)
    /\ Become(r, [run[r] EXCEPT !.phase = "stamp"])
    /\ unsure' = IF run[r].alone THEN unsure ELSE Listing(r, unsure)
    /\ UNCHANGED <<task, config, event, lapsed, stirred, causes, changes, faults>>

\* A slip: the stamps follow whatever it returns.
SendFailsStamping(r) ==
    /\ Ready(r) /\ Worth(r) /\ Fault
    /\ Become(r, [run[r] EXCEPT !.phase = "stamp"])
    /\ UNCHANGED <<task, config, event, history, changes>>

\* It returns False, whether the mail went out or not, and the run is over.
SendFails(r) ==
    /\ Ready(r) /\ Worth(r) /\ Fault
    /\ \/ Delivered(r) /\ unsure' = Listing(r, unsure)
       \/ UNCHANGED <<mailed, inbox, unsure>>
    /\ Stop(r)
    /\ UNCHANGED <<task, config, event, causes, changes>>

\* mark_event_notified, one row after the other.
Stamp(r) ==
    /\ run[r].phase = "stamp"
    /\ \E e \in run[r].bundle :
        /\ event' = [event EXCEPT ![e].told = "fresh"]
        /\ Become(r, [run[r] EXCEPT !.bundle = @ \ {e}])
    /\ UNCHANGED <<task, config, history, changes, faults>>

\* finish_engine_run, with nothing to send, no leave to, or all stamped.
Finish(r) ==
    /\ \/ Ready(r) /\ ~ Worth(r)
       \/ run[r].phase = "stamp" /\ run[r].bundle = {}
    /\ Stop(r)
    /\ UNCHANGED <<task, config, event, causes, mailed, inbox, unsure, changes,
                   faults>>

\* The process dies, or an exception no handler takes ends it: a stamp's.
Die(r) ==
    /\ r \in On /\ Fault
    /\ Stop(r)
    /\ unsure' = IF run[r].phase = "stamp" THEN Listing(r, unsure) ELSE unsure
    /\ UNCHANGED <<task, config, event, causes, mailed, inbox, changes>>

RunStep(r) ==
    \/ ReadActive(r) \/ ReadActiveFails(r) \/ ListTasks(r) \/ ScanFails(r)
    \/ \E t \in Tasks : Detect(r, t) \/ Clear(r, t)
    \/ EndScan(r) \/ Send(r) \/ SendFails(r) \/ Stamp(r) \/ Finish(r)

Next ==
    \/ \E t \in Tasks : TaskChanges(t)
    \/ EditConfig \/ Elapse
    \/ \E r \in Runs : RunStep(r) \/ Die(r) \/ \E dry \in BOOLEAN : Begin(r, dry)

Spec == Init /\ [][Next]_vars

-------------------------------------------------------------------------------
\* An event is cleared only by a run during which its task did not fire
\* steadily: a failed fetch, a dead run or a failed query clears nothing.
ClearsOnlyLapsed ==
    [][\A e \in Events : event[e].active /\ ~ event'[e].active =>
        \E r \in Runs : run[r] # run'[r] /\ event[e].of \subseteq lapsed[r]]_vars

\* A task has one active event, and one more for each thing that can have
\* raised another beside it: a run started while others were about, a query of
\* active events that failed, a scan that listed the task once more.
OneActive == \A t \in Tasks : Cardinality(ActiveOf(t)) <= 1 + causes[t]

\* Within one window an event is mailed once, and once more for each of its
\* mails whose answer or stamp was lost, or that an overlapping run sent.
OneMailPerWindow == \A e \in Events : inbox[e] <= 1 + unsure[e]

\* A run that went through by itself, with mails on, leaves no task that fired
\* steadily without an active event somebody was mailed about, whatever earlier
\* runs left: events raised while mails were off, or whose mail or stamp failed.
RunMailsFiring ==
    [][\A r \in Runs : Finish(r) /\ run[r].alone /\ run[r].sound /\ run[r].mail =>
        \A t \in Tasks \ lapsed[r] : ActiveOf(t) \cap mailed # {}]_vars

\* It leaves a task that never fired meanwhile with an active event fewer, or
\* with none, mails on or off: of several events one goes at a time.
RunClearsQuiet ==
    [][\A r \in Runs : Finish(r) /\ run[r].alone /\ run[r].sound =>
        \A t \in Tasks \ stirred[r] :
            ActiveOf(t) # {} => run[r].seen[t] \in Events \ ActiveOf(t)]_vars

\* The rows as a reader sees them.
Log == INSTANCE AlarmLog WITH
    about <- [e \in Events |-> event[e].of],
    standing <- [e \in Events |-> IF event[e].of = {} THEN "unused"
                                  ELSE IF event[e].active THEN "active"
                                  ELSE "cleared"],
    told <- mailed

\* Overlapping runs that hold each other's rows, and stamp and clear them late,
\* neither revive a cleared event, nor give it to another task, nor mail of one
\* that has no row.
ImplementsLog == Log!LogSpec
===============================================================================
