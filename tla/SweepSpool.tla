------------------------------ MODULE SweepSpool ------------------------------
(***************************************************************************)
(* The path of a sweep pass record through the gateway.                    *)
(*                                                                         *)
(* The production sweeper posts a record; a web worker running             *)
(* stageout_sweep_pass (remote_app/views.py) writes it to a temporary      *)
(* file, fsyncs it, renames it to <uuid>.json in the spool directory and   *)
(* answers 202.  apply_passes (scripts/stageout_index.py) lists the spool  *)
(* once, opens each record in name order, commits its rows, and removes    *)
(* the file.  The cron drain ends with apply_passes and an operator may    *)
(* run the "apply" mode by hand at the same moment: no lock is shared.     *)
(*                                                                         *)
(* A directory change is seen by every process at once (dir) and reaches   *)
(* the disk later (disk); a host crash may put any entry back to what the  *)
(* disk had.  Workers and appliers may die between any two steps.          *)
(***************************************************************************)
EXTENDS Integers

CONSTANTS
    Records,        \* pass records the sweeper wants to report
    Shape,          \* what each record looks like (see Shapes)
    PassIds,        \* the uuids drawn by the web workers, ordered by name
    Workers,        \* web workers
    Appliers,       \* processes that run apply_passes
    Scheduled,      \* those of them that cron starts
    HostMayCrash,   \* whether the host may lose power
    MaxFaults       \* bound on deaths, I/O errors and host crashes

(***************************************************************************)
(* "refused": fails the view's own checks (outcome, key lists).            *)
(* "misshapen": passes them, but "window" is no object or "filed" has no   *)
(* length, which apply_passes does not expect.                             *)
(***************************************************************************)
Shapes == {"good", "misshapen", "refused"}

ASSUME PassIdsAssumption == PassIds \subseteq Nat \ {0}
ASSUME ShapeAssumption == Shape \in [Records -> Shapes]
ASSUME ScheduledAssumption == Scheduled \subseteq Appliers
ASSUME FaultsAssumption == MaxFaults \in Nat /\ HostMayCrash \in BOOLEAN
ASSUME RecordsAssumption == "none" \notin Records

VARIABLES
    content,    \* the record each id was drawn for, or "none"
    file,       \* how much of the record's bytes exist
    dir,        \* the directory entry of each id, as processes see it
    disk,       \* the directory entry of each id, as the disk holds it
    worker,     \* each worker's place in stageout_sweep_pass
    answered,   \* ids answered with 202
    delivered,  \* records whose 202 reached the sweeper
    applier,    \* each applier's place in apply_passes
    passes,     \* pass_id column of the passes table
    journaled,  \* history: ids whose entry has reached the disk
    faults      \* faults so far

webVars  == <<content, file, worker, answered, delivered>>
diskVars == <<disk, journaled>>
vars == <<content, file, dir, disk, worker, answered, delivered, applier,
          passes, journaled, faults>>

NoPass  == 0
Entries == {"absent", "json", "rejected"}
IdleWorker  == [phase |-> "idle", pid |-> NoPass]
IdleApplier == [phase |-> "idle", cur |-> NoPass, todo |-> {}]

TypeOK ==
    /\ content \in [PassIds -> Records \cup {"none"}]
    /\ file \in [PassIds -> {"none", "partial", "cached", "synced"}]
    /\ dir \in [PassIds -> Entries]
    /\ disk \in [PassIds -> Entries]
    /\ worker \in [Workers ->
         [phase : {"idle", "tmp", "flushed", "synced", "named"},
          pid : PassIds \cup {NoPass}]]
    /\ answered \subseteq PassIds
    /\ delivered \subseteq Records
    /\ applier \in [Appliers ->
         [phase : {"idle", "scan", "read", "refuse", "committed"},
          cur : PassIds \cup {NoPass}, todo : SUBSET PassIds]]
    /\ passes \subseteq PassIds
    /\ journaled \subseteq PassIds
    /\ faults \in Nat

Init ==
    /\ content = [p \in PassIds |-> "none"]
    /\ file = [p \in PassIds |-> "none"]
    /\ dir = [p \in PassIds |-> "absent"]
    /\ disk = [p \in PassIds |-> "absent"]
    /\ worker = [w \in Workers |-> IdleWorker]
    /\ answered = {}
    /\ delivered = {}
    /\ applier = [a \in Appliers |-> IdleApplier]
    /\ passes = {}
    /\ journaled = {}
    /\ faults = 0

Fault ==
    /\ faults < MaxFaults
    /\ faults' = faults + 1

-------------------------------------------------------------------------------
(* stageout_sweep_pass, step by step.                                      *)

\* A slip: the view takes any JSON object.
AcceptsAnything(r) == r \in Records

\* The view's own checks on the record: outcome and the two key lists.
Accepts(r) == Shape[r] # "refused"

\* A post arrives: checks, uuid4, mkstemp.  The sweeper stops posting a
\* record once it has had a 202 for it; until then it may post it again,
\* even while an earlier post of it is still being served.
Post(w, r, p) ==
    /\ worker[w].phase = "idle"
    /\ r \notin delivered
    /\ Accepts(r)
    /\ content[p] = "none"
    /\ content' = [content EXCEPT ![p] = r]
    /\ file' = [file EXCEPT ![p] = "partial"]
    /\ worker' = [worker EXCEPT ![w] = [phase |-> "tmp", pid |-> p]]
    /\ UNCHANGED <<dir, diskVars, answered, delivered, applier, passes, faults>>

\* json.dump and flush: complete in the page cache.
Dump(w) ==
    /\ worker[w].phase = "tmp"
    /\ file' = [file EXCEPT ![worker[w].pid] = "cached"]
    /\ worker' = [worker EXCEPT ![w].phase = "flushed"]
    /\ UNCHANGED <<content, dir, diskVars, answered, delivered, applier,
                   passes, faults>>

\* os.fsync of the temporary file.
Fsync(w) ==
    /\ worker[w].phase = "flushed"
    /\ file' = [file EXCEPT ![worker[w].pid] = "synced"]
    /\ worker' = [worker EXCEPT ![w].phase = "synced"]
    /\ UNCHANGED <<content, dir, diskVars, answered, delivered, applier,
                   passes, faults>>

\* Slips: the rename comes before the bytes, or before the fsync.
NamesEmpty(w)    == worker[w].phase \in {"tmp", "synced"}
NamesUnsynced(w) == worker[w].phase \in {"flushed", "synced"}

\* "Rename last: a reader never sees a partial record."
ReadyToName(w) == worker[w].phase = "synced"

\* os.rename to <uuid>.json.  The directory itself is not fsynced.
Rename(w) ==
    /\ ReadyToName(w)
    /\ dir' = [dir EXCEPT ![worker[w].pid] = "json"]
    /\ worker' = [worker EXCEPT ![w].phase = "named"]
    /\ UNCHANGED <<content, file, diskVars, answered, delivered, applier,
                   passes, faults>>

\* Slips: the 202 goes out before the rename, or names no pass.
AnswersEarly(w) == worker[w].phase \in {"synced", "named"}
AnswersBlank(w) == IdleWorker.pid

ReadyToAnswer(w) == worker[w].phase = "named"

\* The pass_id in the body of the 202.
Ticket(w) == worker[w].pid

\* The 202 goes out and may or may not reach the sweeper.
Answer(w) ==
    /\ ReadyToAnswer(w)
    /\ answered' = answered \cup {Ticket(w)}
    /\ \/ delivered' = delivered \cup {content[worker[w].pid]}
       \/ delivered' = delivered
    /\ worker' = [worker EXCEPT ![w] = IdleWorker]
    /\ UNCHANGED <<content, file, dir, diskVars, applier, passes, faults>>

\* An OSError on the way to the rename is answered 503; the temporary file
\* stays behind and is never read.
SpoolFails(w) ==
    /\ worker[w].phase \in {"tmp", "flushed", "synced"}
    /\ Fault
    /\ worker' = [worker EXCEPT ![w] = IdleWorker]
    /\ UNCHANGED <<content, file, dir, diskVars, answered, delivered, applier,
                   passes>>

\* The worker process dies, at any point.
WorkerDies(w) ==
    /\ worker[w].phase # "idle"
    /\ Fault
    /\ worker' = [worker EXCEPT ![w] = IdleWorker]
    /\ UNCHANGED <<content, file, dir, diskVars, answered, delivered, applier,
                   passes>>

WorkerNext(w) ==
    \/ \E r \in Records, p \in PassIds : Post(w, r, p)
    \/ Dump(w) \/ Fsync(w) \/ Rename(w) \/ Answer(w)
    \/ SpoolFails(w) \/ WorkerDies(w)

-------------------------------------------------------------------------------
(* apply_passes, step by step.                                             *)

\* sorted(os.listdir(PASS_SPOOL)), once per run, *.json only.
ListSpool(a) ==
    /\ applier[a].phase = "idle"
    /\ applier' = [applier EXCEPT ![a] =
         [phase |-> "scan", cur |-> NoPass,
          todo |-> {p \in PassIds : dir[p] = "json"}]]
    /\ UNCHANGED <<webVars, dir, diskVars, passes, faults>>

\* The next name of the listing.
IsNext(a, p) ==
    /\ applier[a].phase = "scan"
    /\ p \in applier[a].todo
    /\ \A q \in applier[a].todo : p <= q

Readable(p) == dir[p] = "json" /\ file[p] \in {"cached", "synced"}

\* open and json.load succeed, or raise because the file is gone or cut short.
Open(a, p) ==
    /\ IsNext(a, p)
    /\ applier' = [applier EXCEPT ![a] =
         [phase |-> IF Readable(p) THEN "read" ELSE "refuse",
          cur |-> p, todo |-> @.todo \ {p}]]
    /\ UNCHANGED <<webVars, dir, diskVars, passes, faults>>

\* open or read fails for a reason that is not the record's.
OpenFails(a, p) ==
    /\ IsNext(a, p)
    /\ Fault
    /\ applier' = [applier EXCEPT ![a] =
         [phase |-> "refuse", cur |-> p, todo |-> @.todo \ {p}]]
    /\ UNCHANGED <<webVars, dir, diskVars, passes>>

\* A slip: an unreadable record is deleted.
Discarded(entry) == "absent"

SetAside(entry) == IF entry = "json" THEN "rejected" ELSE entry

\* os.rename to .rejected; its own failure (the file is gone) is ignored.
MoveAside(a) ==
    /\ applier[a].phase = "refuse"
    /\ dir' = [dir EXCEPT ![applier[a].cur] = SetAside(@)]
    /\ applier' = [applier EXCEPT ![a].phase = "scan"]
    /\ UNCHANGED <<webVars, diskVars, passes, faults>>

\* The record's rows, in one SQLite transaction: INSERT ... ON CONFLICT
\* DO NOTHING, so a pass_id already there stays as it is.
Commit(a) ==
    /\ applier[a].phase = "read"
    /\ Shape[content[applier[a].cur]] = "good"
    /\ passes' = passes \cup {applier[a].cur}
    /\ applier' = [applier EXCEPT ![a].phase = "committed"]
    /\ UNCHANGED <<webVars, dir, diskVars, faults>>

\* A misshapen record raises outside the try: nothing is committed, the
\* file stays, and the whole run ends.
Stumble(a) ==
    /\ applier[a].phase = "read"
    /\ Shape[content[applier[a].cur]] # "good"
    /\ applier' = [applier EXCEPT ![a] = IdleApplier]
    /\ UNCHANGED <<webVars, dir, diskVars, passes, faults>>

\* A slip: the file goes before the commit.
RemovesEarly(a) == applier[a].phase \in {"read", "committed"}

ReadyToRemove(a) == applier[a].phase = "committed"

\* os.remove.  If another applier removed the file or moved it aside first,
\* the call raises and the run ends.
Remove(a) ==
    /\ ReadyToRemove(a)
    /\ IF dir[applier[a].cur] = "json"
       THEN /\ dir' = [dir EXCEPT ![applier[a].cur] = "absent"]
            /\ applier' = [applier EXCEPT ![a].phase = "scan"]
       ELSE /\ applier' = [applier EXCEPT ![a] = IdleApplier]
            /\ UNCHANGED dir
    /\ UNCHANGED <<webVars, diskVars, passes, faults>>

\* The listing is exhausted.
Finish(a) ==
    /\ applier[a].phase = "scan"
    /\ applier[a].todo = {}
    /\ applier' = [applier EXCEPT ![a] = IdleApplier]
    /\ UNCHANGED <<webVars, dir, diskVars, passes, faults>>

\* The process dies between two steps; an open transaction rolls back.
ApplierDies(a) ==
    /\ applier[a].phase # "idle"
    /\ Fault
    /\ applier' = [applier EXCEPT ![a] = IdleApplier]
    /\ UNCHANGED <<webVars, dir, diskVars, passes>>

\* What a started run does of itself.
ApplierStep(a) ==
    \/ \E p \in PassIds : Open(a, p)
    \/ MoveAside(a) \/ Commit(a) \/ Stumble(a) \/ Remove(a) \/ Finish(a)

ApplierNext(a) ==
    \/ ListSpool(a)
    \/ ApplierStep(a)
    \/ \E p \in PassIds : OpenFails(a, p)
    \/ ApplierDies(a)

-------------------------------------------------------------------------------
(* The host: directory entries reach the disk, and power may be lost.      *)

JournalSync ==
    /\ HostMayCrash
    /\ disk # dir
    /\ disk' = dir
    /\ journaled' = journaled \cup {p \in PassIds : dir[p] # "absent"}
    /\ UNCHANGED <<webVars, dir, applier, passes, faults>>

\* Any entry may fall back to what the disk held, bytes that were never
\* fsynced are lost, every process dies; committed SQLite rows survive.
HostCrash ==
    /\ HostMayCrash
    /\ Fault
    /\ \E back \in SUBSET PassIds :
         dir' = [p \in PassIds |-> IF p \in back THEN disk[p] ELSE dir[p]]
    /\ disk' = dir'
    /\ journaled' = journaled \cup {p \in PassIds : dir'[p] # "absent"}
    /\ file' = [p \in PassIds |-> IF file[p] = "cached" THEN "partial" ELSE file[p]]
    /\ worker' = [w \in Workers |-> IdleWorker]
    /\ applier' = [a \in Appliers |-> IdleApplier]
    /\ UNCHANGED <<content, answered, delivered, passes>>

Next ==
    \/ \E w \in Workers : WorkerNext(w)
    \/ \E a \in Appliers : ApplierNext(a)
    \/ JournalSync
    \/ HostCrash

(***************************************************************************)
(* Cron starts a run whenever the last one has ended, and a run that has   *)
(* started goes on until it ends or dies.  Nothing makes the sweeper post, *)
(* an operator run "apply", or a web worker finish.                        *)
(***************************************************************************)
Fairness ==
    /\ \A a \in Scheduled : WF_vars(ListSpool(a))
    /\ \A a \in Appliers : WF_vars(ApplierStep(a))

Spec == Init /\ [][Next]_vars
FairSpec == Spec /\ Fairness

-------------------------------------------------------------------------------
(* Properties.                                                             *)

Kept(p) == p \in passes \/ dir[p] # "absent"

\* A pass id that was answered 202 is applied, or its file is still in the
\* spool (perhaps set aside): "anything lost after a 202 is lost for good"
\* (views.py).  Two appliers, deaths and retries notwithstanding.
AcceptedKept == \A p \in answered : Kept(p)

\* Once a record's directory entry has reached the disk, no crash of a
\* process or of the host loses the record: it leaves the disk only after
\* the commit of its rows.
JournaledKept ==
    \A p \in journaled : p \in passes \/ (dir[p] # "absent" /\ disk[p] # "absent")

\* "A reader never sees a partial record": what is named .json is complete
\* and on disk, even after power was lost.
NoPartialRecord == \A p \in PassIds : dir[p] = "json" => file[p] = "synced"

\* As long as nothing failed, two appliers racing over the same listing
\* never set a record aside: the loser's rename finds no file.
AsideOnlyOnFault == faults = 0 => \A p \in PassIds : dir[p] # "rejected"

\* A record on whose application a 202 stands is, sooner or later, applied
\* or set aside where a human finds it; it is not retried forever.
AcceptedSettles ==
    \A p \in PassIds :
        p \in answered ~> (p \in passes \/ dir[p] = "rejected")

\* Where a record stands, as the sweeper may think of it.
Standing(p) ==
    IF p \in passes THEN "applied"
    ELSE IF dir[p] = "json" THEN "held"
    ELSE IF dir[p] = "rejected" THEN "aside"
    ELSE "new"

\* The abstract ledger this path implements, as long as the host stays up.
Ledger == INSTANCE PassLedger WITH
    ledger <- [p \in PassIds |-> Standing(p)],
    acknowledged <- answered

\* Acknowledged only when held, applied at most once, never forgotten.
ImplementsLedger == Ledger!LedgerSpec

\* The ledger this path implements on any host: durable is what the disk has
\* had a name for.
Crash == INSTANCE CrashLedger WITH
    ledger <- [p \in PassIds |-> Standing(p)],
    acknowledged <- answered,
    durable <- journaled

\* "Anything lost after a 202 is lost for good", and power loss is the one way
\* to lose it: never what has once reached the disk or was applied, and what
\* it loses does not turn up again.
ImplementsCrashLedger == Crash!CrashSpec
===============================================================================
