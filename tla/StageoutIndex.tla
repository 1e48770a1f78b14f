----------------------------- MODULE StageoutIndex -----------------------------
(***************************************************************************)
(* The index of the stage-out bucket (scripts/stageout_index.py) against   *)
(* the bucket itself.                                                      *)
(*                                                                         *)
(* Jobs put objects; S3 announces each put on a queue; "drain" records the *)
(* announcements in SQLite and then applies the sweeper's pass records;    *)
(* the sweeper, the bucket's expiry and "wipe" delete objects, of which S3 *)
(* says nothing; "reconcile" lists the bucket nightly and mends the index. *)
(* drain is alone by flock, but nothing keeps reconcile or wipe away from  *)
(* it.  A SQLite transaction runs from its first write to its commit, so   *)
(* each commit is one action, and what a mode read before it (a listing,   *)
(* the indexed keys) is held in that mode's own record and may be stale.   *)
(*                                                                         *)
(* Puts are numbered in the order of time: put m of key k is the object's  *)
(* m-th version, and puts up to `aged` are older than the grace period.    *)
(***************************************************************************)
EXTENDS Integers, FiniteSets

CONSTANTS
    ReportKeys,     \* keys under reports/
    Status,         \* stands for any key under status/
    Noise,          \* a message with no usable key: test event, bad body
    PassIds,        \* pass records the sweeper may write
    NoPass,         \* no pass record
    MaxPuts,        \* bound on puts
    MaxFaults,      \* bound on crashes, failed deletes and lost events
    BatchSize,      \* messages per receive (ten in the code)
    MayExpire,      \* whether expiry deletes objects
    MayWipe         \* whether an operator runs wipe

Kinds == ReportKeys \cup {Status, Noise}
Puts  == 1..MaxPuts

ASSUME KindsAssumption ==
    /\ Status \notin ReportKeys /\ Noise \notin ReportKeys /\ Status # Noise
    /\ NoPass \notin PassIds
ASSUME BoundsAssumption ==
    MaxPuts \in Nat /\ MaxFaults \in Nat /\ BatchSize \in Nat

VARIABLES
    puts,           \* number of puts so far
    keyOf,          \* what each put was of
    aged,           \* puts up to this one are older than the grace period
    bucket,         \* the version of each report key in S3, 0 for none
    queue,          \* announcements SQS still holds
    lost,           \* announcements that never reached the queue
    index,          \* objects table: the version whose size the row holds, or 0
    statusWrites,   \* status_writes table, its hours added up
    recorded,       \* history: announcements whose rows were committed
    passKeys,       \* keys each pass record says were deleted
    passState,      \* where each pass record stands
    takenAt,        \* history: puts so far when the sweeper deleted
    drain,          \* the drain run
    rec,            \* the reconcile run
    unheard,        \* last_reconcile: keys no event announced
    wipe,           \* the wipe run
    faults

s3Vars    == <<puts, keyOf, aged, bucket, lost>>
passVars  == <<passKeys, passState, takenAt>>
indexVars == <<index, statusWrites, recorded, unheard>>
vars == <<puts, keyOf, aged, bucket, queue, lost, index, statusWrites, recorded,
          passKeys, passState, takenAt, drain, rec, unheard, wipe, faults>>

Versions == 0..MaxPuts
Present(f) == {k \in ReportKeys : f[k] # 0}
Nothing == [k \in ReportKeys |-> 0]

IdleDrain == [phase |-> "idle", batch |-> {}, todo |-> {}, cur |-> NoPass]
IdleRec   == [phase |-> "idle", start |-> 0, todo |-> {}, listed |-> Nothing,
              indexed |-> {}]
IdleWipe  == [phase |-> "idle", start |-> 0, todo |-> {}, page |-> {}]

TypeOK ==
    /\ puts \in Versions
    /\ keyOf \in [Puts -> Kinds]
    /\ aged \in 0..puts
    /\ bucket \in [ReportKeys -> 0..puts]
    /\ queue \subseteq 1..puts
    /\ lost \subseteq 1..puts
    /\ index \in [ReportKeys -> 0..puts]
    /\ statusWrites \in Nat
    /\ recorded \subseteq 1..puts
    /\ passKeys \in [PassIds -> SUBSET ReportKeys]
    /\ passState \in [PassIds -> {"none", "spooled", "applied", "done"}]
    /\ takenAt \in [PassIds -> 0..puts]
    /\ drain \in [phase : {"idle", "receive", "record", "delete", "apply", "unlink"},
                  batch : SUBSET (1..puts), todo : SUBSET PassIds,
                  cur : PassIds \cup {NoPass}]
    /\ rec \in [phase : {"idle", "list", "commit"}, start : 0..puts,
                todo : SUBSET ReportKeys, listed : [ReportKeys -> 0..puts],
                indexed : SUBSET ReportKeys]
    /\ unheard \subseteq ReportKeys
    /\ wipe \in [phase : {"idle", "list", "delete", "rows"}, start : 0..puts,
                 todo : SUBSET ReportKeys, page : SUBSET ReportKeys]
    /\ faults \in Nat

Init ==
    /\ puts = 0
    /\ keyOf = [m \in Puts |-> Noise]
    /\ aged = 0
    /\ bucket = Nothing
    /\ queue = {}
    /\ lost = {}
    /\ index = Nothing
    /\ statusWrites = 0
    /\ recorded = {}
    /\ passKeys = [n \in PassIds |-> {}]
    /\ passState = [n \in PassIds |-> "none"]
    /\ takenAt = [n \in PassIds |-> 0]
    /\ drain = IdleDrain
    /\ rec = IdleRec
    /\ unheard = {}
    /\ wipe = IdleWipe
    /\ faults = 0

Fault ==
    /\ faults < MaxFaults
    /\ faults' = faults + 1

-------------------------------------------------------------------------------
(* S3, the queue and the sweeper: not in this repository, modelled from    *)
(* how the index uses them.                                                *)

\* A job writes an object, or S3 sends a message of its own; the queue
\* takes the announcement, or it is lost on the way.
Put(k) ==
    /\ puts < MaxPuts
    /\ puts' = puts + 1
    /\ keyOf' = [keyOf EXCEPT ![puts'] = k]
    /\ bucket' = IF k \in ReportKeys THEN [bucket EXCEPT ![k] = puts'] ELSE bucket
    /\ \/ queue' = queue \cup {puts'} /\ UNCHANGED <<lost, faults>>
       \/ Fault /\ lost' = lost \cup {puts'} /\ UNCHANGED queue
    /\ UNCHANGED <<aged, indexVars, passVars, drain, rec, wipe>>

\* A put passes the grace period.
Age ==
    /\ aged < puts
    /\ aged' = aged + 1
    /\ UNCHANGED <<puts, keyOf, bucket, queue, lost, indexVars, passVars,
                   drain, rec, wipe, faults>>

\* The sweeper deletes the objects it took and reports them in one record.
Sweep(n, K) ==
    /\ passState[n] = "none"
    /\ K # {} /\ K \subseteq Present(bucket)
    /\ bucket' = [k \in ReportKeys |-> IF k \in K THEN 0 ELSE bucket[k]]
    /\ passKeys' = [passKeys EXCEPT ![n] = K]
    /\ passState' = [passState EXCEPT ![n] = "spooled"]
    /\ takenAt' = [takenAt EXCEPT ![n] = puts]
    /\ UNCHANGED <<puts, keyOf, aged, queue, lost, indexVars, drain, rec, wipe,
                   faults>>

\* The bucket's lifecycle rule deletes an old object.
Expire(k) ==
    /\ MayExpire
    /\ bucket[k] \in 1..aged
    /\ bucket' = [bucket EXCEPT ![k] = 0]
    /\ UNCHANGED <<puts, keyOf, aged, queue, lost, indexVars, passVars, drain,
                   rec, wipe, faults>>

World ==
    \/ \E k \in Kinds : Put(k)
    \/ Age
    \/ \E n \in PassIds, K \in SUBSET ReportKeys : Sweep(n, K)
    \/ \E k \in ReportKeys : Expire(k)

-------------------------------------------------------------------------------
(* drain and, in the same run, apply_passes.                               *)

DrainStart ==
    /\ drain.phase = "idle"
    /\ drain' = [IdleDrain EXCEPT !.phase = "receive"]
    /\ UNCHANGED <<s3Vars, queue, indexVars, passVars, rec, wipe, faults>>

Receive(B) ==
    /\ drain.phase = "receive"
    /\ B # {} /\ B \subseteq queue /\ Cardinality(B) <= BatchSize
    /\ drain' = [drain EXCEPT !.phase = "record", !.batch = B]
    /\ UNCHANGED <<s3Vars, queue, indexVars, passVars, rec, wipe, faults>>

\* Messages of batch B about key k.
About(B, k) == {m \in B : keyOf[m] = k}

\* The rows of a batch that may hold several messages about one key, in any
\* order: the last one taken gives the row its size.
Upserts(B) ==
    {f \in [ReportKeys -> 0..puts] :
        \A k \in ReportKeys :
            IF About(B, k) = {} THEN f[k] = index[k] ELSE f[k] \in About(B, k)}

\* A slip: a second message of the hour does nothing on conflict.
FirstStatusOnly(B) ==
    IF statusWrites = 0 THEN Cardinality(About(B, Status)) ELSE statusWrites

\* writes = writes + 1 on conflict.
StatusCount(B) == statusWrites + Cardinality(About(B, Status))

\* conn.commit() of a batch: an upsert per report object, one more write
\* per status message; a message with no usable key records nothing.
Record ==
    /\ drain.phase = "record"
    /\ index' \in Upserts(drain.batch)
    /\ statusWrites' = StatusCount(drain.batch)
    /\ recorded' = recorded \cup drain.batch
    /\ drain' = [drain EXCEPT !.phase = "delete"]
    /\ UNCHANGED <<s3Vars, queue, unheard, passVars, rec, wipe, faults>>

\* A slip: messages are deleted as they are read.
DeletesEarly == drain.phase \in {"record", "delete"}

\* "A message is deleted only after its rows are committed."
ReadyToDelete == drain.phase = "delete"

\* delete_message_batch: every message of the batch, decoded or not; those
\* listed under Failed come back after their visibility timeout.
DeleteBatch ==
    /\ ReadyToDelete
    /\ \/ queue' = queue \ drain.batch /\ UNCHANGED faults
       \/ /\ Fault
          /\ \E failed \in SUBSET drain.batch \ {{}} :
               queue' = (queue \ drain.batch) \cup failed
    /\ drain' = [drain EXCEPT !.phase = "receive", !.batch = {}]
    /\ UNCHANGED <<s3Vars, indexVars, passVars, rec, wipe>>

\* A receive comes back empty (some messages may be invisible for now), or
\* the run has had its rounds; apply_passes lists the spool.
StopReceiving ==
    /\ drain.phase = "receive"
    /\ drain' = [drain EXCEPT !.phase = "apply",
         !.todo = {n \in PassIds : passState[n] \in {"spooled", "applied"}}]
    /\ UNCHANGED <<s3Vars, queue, indexVars, passVars, rec, wipe, faults>>

\* A slip: every row older than the sweep is retired, named or not.
RetiredByAge(n) ==
    [k \in ReportKeys |-> IF index[k] <= takenAt[n] THEN 0 ELSE index[k]]

\* Rows after the record's keys are retired.
Retired(n) == [k \in ReportKeys |-> IF k \in passKeys[n] THEN 0 ELSE index[k]]

\* One record: its rows deleted and the pass inserted in one transaction.
\* A record whose file outlived its commit is read again by a later run:
\* the insert does nothing the second time, the deletes do.
ApplyPass(n) ==
    /\ drain.phase = "apply"
    /\ n \in drain.todo
    /\ index' = Retired(n)
    /\ passState' = [passState EXCEPT ![n] = "applied"]
    /\ drain' = [drain EXCEPT !.phase = "unlink", !.todo = @ \ {n}, !.cur = n]
    /\ UNCHANGED <<s3Vars, queue, statusWrites, recorded, unheard, passKeys,
                   takenAt, rec, wipe, faults>>

\* os.remove of the applied record's file.
RemovePass ==
    /\ drain.phase = "unlink"
    /\ passState' = [passState EXCEPT ![drain.cur] = "done"]
    /\ drain' = [drain EXCEPT !.phase = "apply", !.cur = NoPass]
    /\ UNCHANGED <<s3Vars, queue, indexVars, passKeys, takenAt, rec, wipe, faults>>

DrainEnd ==
    /\ drain.phase = "apply"
    /\ drain.todo = {}
    /\ drain' = IdleDrain
    /\ UNCHANGED <<s3Vars, queue, indexVars, passVars, rec, wipe, faults>>

\* The run dies or an SQS call raises: nothing uncommitted stays.
DrainDies ==
    /\ drain.phase # "idle"
    /\ Fault
    /\ drain' = IdleDrain
    /\ UNCHANGED <<s3Vars, queue, indexVars, passVars, rec, wipe>>

DrainStep ==
    \/ Record \/ DeleteBatch \/ StopReceiving
    \/ \E n \in PassIds : ApplyPass(n)
    \/ RemovePass \/ DrainEnd

-------------------------------------------------------------------------------
(* reconcile.                                                              *)

ReconcileStart ==
    /\ rec.phase = "idle"
    /\ rec' = [IdleRec EXCEPT !.phase = "list", !.start = puts, !.todo = ReportKeys]
    /\ UNCHANGED <<s3Vars, queue, indexVars, passVars, drain, wipe, faults>>

\* A page of list-objects-v2 is true of the moment it is read.  A page
\* holds one key here, the finest case; S3 lists in key order, but names
\* may be given to keys in any order.
ListPage(k) ==
    /\ rec.phase = "list"
    /\ k \in rec.todo
    /\ rec' = [rec EXCEPT !.todo = @ \ {k}, !.listed[k] = bucket[k]]
    /\ UNCHANGED <<s3Vars, queue, indexVars, passVars, drain, wipe, faults>>

\* A slip: the continuation token is not followed.
AnyPage == rec.todo # ReportKeys

\* No IsTruncated with a token: the listing is complete.
LastPage == rec.todo = {}

\* SELECT key FROM objects, after the last page.
ReadIndex ==
    /\ rec.phase = "list"
    /\ LastPage
    /\ rec' = [rec EXCEPT !.phase = "commit", !.indexed = Present(index)]
    /\ UNCHANGED <<s3Vars, queue, indexVars, passVars, drain, wipe, faults>>

Gone    == rec.indexed \ Present(rec.listed)
Pending == {k \in Present(rec.listed) \ rec.indexed : rec.listed[k] > aged}
Unheard == (Present(rec.listed) \ rec.indexed) \ Pending

\* Slips: nothing is dropped, or nothing is added.
MendedKeepsAll ==
    [k \in ReportKeys |->
        IF k \in Unheard /\ index[k] = 0 THEN rec.listed[k] ELSE index[k]]
MendedAddsNone ==
    [k \in ReportKeys |-> IF k \in Gone THEN 0 ELSE index[k]]

\* Rows of keys not listed go; listed keys without a row and past the grace
\* period come in, unless the drain has brought them in meanwhile.
Mended ==
    [k \in ReportKeys |->
        IF k \in Gone THEN 0
        ELSE IF k \in Unheard /\ index[k] = 0 THEN rec.listed[k]
        ELSE index[k]]

ReconcileCommit ==
    /\ rec.phase = "commit"
    /\ index' = Mended
    /\ unheard' = Unheard
    /\ rec' = IdleRec
    /\ UNCHANGED <<s3Vars, queue, statusWrites, recorded, passVars, drain, wipe,
                   faults>>

\* A listing call fails or the run dies: nothing is written.
ReconcileDies ==
    /\ rec.phase # "idle"
    /\ Fault
    /\ rec' = IdleRec
    /\ UNCHANGED <<s3Vars, queue, indexVars, passVars, drain, wipe>>

ReconcileStep ==
    \/ \E k \in ReportKeys : ListPage(k)
    \/ ReadIndex \/ ReconcileCommit

-------------------------------------------------------------------------------
(* wipe, by hand.                                                          *)

WipeStart ==
    /\ MayWipe
    /\ wipe.phase = "idle"
    /\ wipe' = [IdleWipe EXCEPT !.phase = "list", !.start = puts, !.todo = ReportKeys]
    /\ UNCHANGED <<s3Vars, queue, indexVars, passVars, drain, rec, faults>>

\* A page of the listing, less what was written since the run began.
WipePage(K) ==
    /\ wipe.phase = "list"
    /\ K # {} /\ K \subseteq wipe.todo
    /\ wipe' = [wipe EXCEPT !.phase = "delete", !.todo = @ \ K,
                  !.page = {k \in K : bucket[k] \in 1..wipe.start}]
    /\ UNCHANGED <<s3Vars, queue, indexVars, passVars, drain, rec, faults>>

\* A slip: the reply's Errors are not looked at.
WholePage(failed) == wipe.page

\* gone: the page's keys less those the reply lists under Errors.
WipedKeys(failed) == wipe.page \ failed

\* delete_objects of the page, by key; keys under Errors stay.
WipeDelete ==
    /\ wipe.phase = "delete"
    /\ \E failed \in SUBSET wipe.page :
         /\ IF failed = {} THEN UNCHANGED faults ELSE Fault
         /\ wipe' = [wipe EXCEPT !.phase = "rows", !.page = WipedKeys(failed)]
         /\ bucket' = [k \in ReportKeys |->
                         IF k \in wipe.page \ failed THEN 0 ELSE bucket[k]]
    /\ UNCHANGED <<puts, keyOf, aged, lost, queue, indexVars, passVars, drain, rec>>

\* The rows of the deleted keys, committed page by page.
WipeRows ==
    /\ wipe.phase = "rows"
    /\ index' = [k \in ReportKeys |-> IF k \in wipe.page THEN 0 ELSE index[k]]
    /\ wipe' = [wipe EXCEPT !.phase = "list", !.page = {}]
    /\ UNCHANGED <<s3Vars, queue, statusWrites, recorded, unheard, passVars,
                   drain, rec, faults>>

\* The last page is done; the run is recorded as a pass of its own, which
\* changes nothing here.
WipeEnd ==
    /\ wipe.phase = "list"
    /\ wipe.todo = {}
    /\ wipe' = IdleWipe
    /\ UNCHANGED <<s3Vars, queue, indexVars, passVars, drain, rec, faults>>

WipeDies ==
    /\ wipe.phase # "idle"
    /\ Fault
    /\ wipe' = IdleWipe
    /\ UNCHANGED <<s3Vars, queue, indexVars, passVars, drain, rec>>

WipeNext ==
    \/ WipeStart
    \/ \E K \in SUBSET ReportKeys : WipePage(K)
    \/ WipeDelete \/ WipeRows \/ WipeEnd \/ WipeDies

-------------------------------------------------------------------------------
Next ==
    \/ World
    \/ DrainStart \/ DrainStep \/ DrainDies
    \/ \E B \in SUBSET queue : Receive(B)
    \/ ReconcileStart \/ ReconcileStep \/ ReconcileDies
    \/ WipeNext

Spec == Init /\ [][Next]_vars

(***************************************************************************)
(* Cron starts drain and reconcile again and again and a started run goes  *)
(* on.  An empty receive may happen with messages waiting, so a message is *)
(* received only if receiving it is possible again and again.  Time        *)
(* passes.  Nothing makes a job write, the sweeper sweep, an object expire *)
(* or an operator wipe, but a wipe once begun goes on.                     *)
(***************************************************************************)
Fairness ==
    /\ WF_vars(DrainStart)
    /\ WF_vars(DrainStep)
    /\ \A m \in Puts : SF_vars(\E B \in SUBSET queue : m \in B /\ Receive(B))
    /\ WF_vars(ReconcileStart)
    /\ WF_vars(ReconcileStep)
    /\ WF_vars(Age)
    /\ WF_vars(WipeDelete \/ WipeRows)

FairSpec == Spec /\ Fairness

-------------------------------------------------------------------------------
(* Properties.                                                             *)

\* Every announcement the queue took is still in the queue or has had its
\* rows committed: "a message is deleted only after its rows are committed,
\* so a crash repeats work rather than losing it" (drain).
NoEventLost == \A m \in 1..puts : m \in queue \/ m \in recorded \/ m \in lost

\* Status writes are never under-counted: each status announcement that
\* left the queue has been counted at least once.
StatusNeverUnderCounted ==
    statusWrites >= Cardinality({m \in 1..puts \ (queue \cup lost) : keyOf[m] = Status})

\* The cross-check drops the row of a live object only if the object was
\* written after the listing began; an object that was in the bucket
\* throughout keeps its row, whatever the drain, the sweeper or a wipe do.
PruneSparesStanding ==
    [][ReconcileCommit =>
         \A k \in ReportKeys :
            index[k] # 0 /\ index'[k] = 0 /\ bucket[k] # 0
              => bucket[k] > rec.start]_vars

\* A pass record retires the row of a live object only if the object was
\* written after the sweeper took that key: the record names keys, and
\* rows it does not name stay.
RetiresOnlyTaken ==
    [][\A n \in PassIds : ApplyPass(n) =>
         \A k \in ReportKeys :
            index[k] # 0 /\ index'[k] = 0 /\ bucket[k] # 0
              => bucket[k] > takenAt[n]]_vars

\* A wipe leaves the row of an object that outlived it, unless the object
\* was written after the run began: failed deletes and objects listed too
\* late keep theirs.
WipeKeepsSurvivors ==
    [][WipeRows =>
         \A k \in ReportKeys :
            index[k] # 0 /\ index'[k] = 0 /\ bucket[k] # 0
              => bucket[k] > wipe.start]_vars

\* Nothing under way speaks against what the bucket holds of the key: no
\* announcement of an absent object, no pass record and no wiped page that name
\* a present one, no listing and no reading of the rows that is out of date.
NoStaleNews(k)  == bucket[k] = 0 => \A m \in queue : keyOf[m] # k
NoStalePass(k)  == bucket[k] # 0 =>
    \A n \in PassIds : passState[n] \in {"spooled", "applied"} => k \notin passKeys[n]
NoStaleWipe(k)  == bucket[k] # 0 /\ wipe.phase = "rows" => k \notin wipe.page
ListedTruly(k)  == rec.phase # "idle" /\ k \notin rec.todo => rec.listed[k] = bucket[k]
IndexedTruly(k) == rec.phase = "commit" =>
    IF bucket[k] = 0 THEN index[k] # 0 => k \in rec.indexed
                     ELSE k \in rec.indexed => index[k] # 0

Calm(k) ==
    NoStaleNews(k) /\ NoStalePass(k) /\ NoStaleWipe(k) /\ ListedTruly(k) /\ IndexedTruly(k)

Agrees(k) == (index[k] = 0) = (bucket[k] = 0)

\* Until the key's object changes: what is calm stays calm and what agrees
\* then goes on agreeing, whatever happens to the other keys and whichever runs
\* overlap or die; and the next cross-check to finish makes the key agree, once
\* its object is old enough not to be "left to the drain" (reconcile).
CalmKeysSettle ==
    [][\A k \in ReportKeys : Calm(k) /\ bucket'[k] = bucket[k] =>
          /\ Calm(k)'
          /\ Agrees(k) \/ (ReconcileCommit /\ bucket[k] <= aged) => Agrees(k)']_vars

\* Whatever was lost, repeated, reordered, swept, expired or raced, once
\* writing ends the index comes to hold exactly the keys in the bucket.
EventuallyAgrees == <>[](Present(index) = Present(bucket))

\* ... and the "objects no event announced" warning is withdrawn.
WarningClears == <>[](unheard = {})
===============================================================================
