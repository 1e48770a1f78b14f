--------------------------- MODULE SweepSpool_proofs ---------------------------
(***************************************************************************)
(* Proofs about SweepSpool for any records, ids, workers and appliers.     *)
(*                                                                         *)
(* The strengthening says who may know of a pass id.  An id whose record a *)
(* worker is still writing is known to no applier, is in no directory and  *)
(* in no table (Spooled is false of it), and no two workers write the same *)
(* id; so the rename that publishes it cannot bring back an id that was    *)
(* already applied, and the removal of a file concerns an applied id only. *)
(***************************************************************************)
EXTENDS SweepSpool, TLAPS

Writing == {"tmp", "flushed", "synced"}

\* The record of p has been written and named at some time.
Spooled(p) ==
    /\ content[p] # "none"
    /\ \A w \in Workers : worker[w].phase \in Writing => worker[w].pid # p

WorkersApart ==
    \A w \in Workers : worker[w].phase # "idle" =>
        /\ worker[w].pid \in PassIds
        /\ content[worker[w].pid] # "none"
        /\ \A v \in Workers \ {w} :
             worker[v].phase # "idle" => worker[v].pid # worker[w].pid
        /\ worker[w].phase = "named" => Spooled(worker[w].pid)

OnlySpooledKnown ==
    \A p \in PassIds :
        \/ p \in passes \cup journaled \cup answered
        \/ dir[p] # "absent"
        \/ disk[p] # "absent"
        => Spooled(p)

AppliersInformed ==
    \A a \in Appliers :
        /\ \A p \in applier[a].todo : Spooled(p)
        /\ applier[a].phase \in {"read", "refuse", "committed"} =>
             /\ applier[a].cur \in PassIds
             /\ Spooled(applier[a].cur)
        /\ applier[a].phase = "committed" => applier[a].cur \in passes

BytesBeforeName ==
    /\ \A w \in Workers :
         worker[w].phase = "synced" => file[worker[w].pid] = "synced"
    /\ \A p \in PassIds :
         dir[p] = "json" \/ disk[p] = "json" => file[p] = "synced"

Core == TypeOK /\ WorkersApart /\ OnlySpooledKnown /\ AppliersInformed

IInv == Core /\ BytesBeforeName /\ JournaledKept

-------------------------------------------------------------------------------
LEMMA CoreInit == Init => Core
  BY FaultsAssumption
  DEF Init, Core, TypeOK, WorkersApart, OnlySpooledKnown, AppliersInformed,
      IdleWorker, IdleApplier, Entries, NoPass

\* The core strengthening is inductive, whatever crashes.
LEMMA CoreNext == Core /\ [Next]_vars => Core'
<1> SUFFICES ASSUME Core, [Next]_vars PROVE Core'
  OBVIOUS
<1> USE FaultsAssumption, RecordsAssumption
    DEF Core, TypeOK, IdleWorker, IdleApplier, Entries, NoPass, ReadyToName,
        ReadyToAnswer, Ticket, SetAside, ReadyToRemove
<1>1. ASSUME NEW w \in Workers, NEW r \in Records, NEW p \in PassIds, Post(w, r, p)
      PROVE  Core'
  <2> USE <1>1 DEF Post, webVars, diskVars
  <2>1. TypeOK'
    OBVIOUS
  <2>2. \A q \in PassIds : Spooled(q) => Spooled(q)'
    BY DEF Spooled, Writing
  <2>3. WorkersApart'
    BY <2>2 DEF WorkersApart, Spooled, Writing
  <2>4. OnlySpooledKnown'
    BY <2>2 DEF OnlySpooledKnown
  <2>5. AppliersInformed'
    BY <2>2 DEF AppliersInformed
  <2> QED BY <2>1, <2>3, <2>4, <2>5
<1>2. ASSUME NEW w \in Workers, Dump(w) \/ Fsync(w) PROVE Core'
  <2> USE <1>2 DEF Dump, Fsync, webVars, diskVars
  <2>1. TypeOK'
    BY DEF WorkersApart
  <2>2. \A q \in PassIds : Spooled(q) => Spooled(q)'
    BY DEF Spooled, Writing
  <2>3. WorkersApart'
    <3>1. \A v \in Workers :
            /\ worker'[v].pid = worker[v].pid
            /\ worker'[v].phase = "idle" <=> worker[v].phase = "idle"
            /\ worker'[v].phase = "named" => worker[v].phase = "named"
      OBVIOUS
    <3> QED BY <2>2, <3>1 DEF WorkersApart
  <2>4. OnlySpooledKnown'
    BY <2>2 DEF OnlySpooledKnown
  <2>5. AppliersInformed'
    BY <2>2 DEF AppliersInformed
  <2> QED BY <2>1, <2>3, <2>4, <2>5
<1>3. ASSUME NEW w \in Workers, Rename(w) PROVE Core'
  <2> USE <1>3 DEF Rename, webVars, diskVars
  <2>1. TypeOK'
    BY DEF WorkersApart
  <2>2. \A q \in PassIds : Spooled(q) => Spooled(q)'
    BY DEF Spooled, Writing
  <2>3. Spooled(worker[w].pid)'
    BY DEF Spooled, Writing, WorkersApart
  <2>4. WorkersApart'
    BY <2>2, <2>3 DEF WorkersApart
  <2>5. OnlySpooledKnown'
    BY <2>2, <2>3 DEF OnlySpooledKnown
  <2>6. AppliersInformed'
    BY <2>2 DEF AppliersInformed
  <2> QED BY <2>1, <2>4, <2>5, <2>6
<1>4. ASSUME NEW w \in Workers, Answer(w) PROVE Core'
  <2> USE <1>4 DEF Answer, webVars, diskVars
  <2>1. TypeOK'
    BY DEF WorkersApart
  <2>2. \A q \in PassIds : Spooled(q) => Spooled(q)'
    BY DEF Spooled, Writing
  <2>3. WorkersApart'
    BY <2>2 DEF WorkersApart
  <2>4. OnlySpooledKnown'
    BY <2>2 DEF OnlySpooledKnown, WorkersApart
  <2>5. AppliersInformed'
    BY <2>2 DEF AppliersInformed
  <2> QED BY <2>1, <2>3, <2>4, <2>5
<1>5. ASSUME NEW w \in Workers, SpoolFails(w) \/ WorkerDies(w) PROVE Core'
  <2> USE <1>5 DEF SpoolFails, WorkerDies, Fault, webVars, diskVars
  <2>1. TypeOK'
    OBVIOUS
  <2>2. \A q \in PassIds : Spooled(q) => Spooled(q)'
    BY DEF Spooled, Writing
  <2>3. WorkersApart'
    BY <2>2 DEF WorkersApart
  <2>4. OnlySpooledKnown'
    BY <2>2 DEF OnlySpooledKnown
  <2>5. AppliersInformed'
    BY <2>2 DEF AppliersInformed
  <2> QED BY <2>1, <2>3, <2>4, <2>5
<1>6. ASSUME NEW a \in Appliers, ListSpool(a) \/ Stumble(a) \/ Finish(a)
      PROVE  Core'
  <2> USE <1>6 DEF ListSpool, Stumble, Finish, webVars, diskVars
  <2>1. TypeOK'
    OBVIOUS
  <2>2. \A q \in PassIds : Spooled(q) => Spooled(q)'
    BY DEF Spooled
  <2>3. WorkersApart' /\ OnlySpooledKnown'
    BY <2>2 DEF WorkersApart, OnlySpooledKnown
  <2>4. AppliersInformed'
    BY <2>2 DEF AppliersInformed, OnlySpooledKnown
  <2> QED BY <2>1, <2>3, <2>4
<1>7. ASSUME NEW a \in Appliers, NEW p \in PassIds, Open(a, p) \/ OpenFails(a, p)
      PROVE  Core'
  <2> USE <1>7 DEF Open, OpenFails, IsNext, Fault, webVars, diskVars
  <2>1. TypeOK'
    OBVIOUS
  <2>2. \A q \in PassIds : Spooled(q) => Spooled(q)'
    BY DEF Spooled
  <2>3. WorkersApart' /\ OnlySpooledKnown'
    BY <2>2 DEF WorkersApart, OnlySpooledKnown
  <2>4. AppliersInformed'
    BY <2>2 DEF AppliersInformed
  <2> QED BY <2>1, <2>3, <2>4
<1>8. ASSUME NEW a \in Appliers, MoveAside(a) \/ Commit(a) \/ Remove(a)
      PROVE  Core'
  <2> USE <1>8 DEF MoveAside, Commit, Remove, webVars, diskVars
  <2>1. TypeOK'
    <3>1. applier[a].cur \in PassIds
      BY DEF AppliersInformed
    <3>2. CASE MoveAside(a)
      BY <3>1, <3>2
    <3>3. CASE Commit(a)
      BY <3>1, <3>3
    <3>4. CASE Remove(a)
      BY <3>1, <3>4
    <3> QED BY <3>2, <3>3, <3>4
  <2>2. \A q \in PassIds : Spooled(q) => Spooled(q)'
    BY DEF Spooled
  <2>3. WorkersApart'
    BY <2>2 DEF WorkersApart
  <2>4. OnlySpooledKnown'
    BY <2>2 DEF OnlySpooledKnown, AppliersInformed
  <2>5. AppliersInformed'
    BY <2>2 DEF AppliersInformed
  <2> QED BY <2>1, <2>3, <2>4, <2>5
<1>9. ASSUME NEW a \in Appliers, ApplierDies(a) PROVE Core'
  <2> USE <1>9 DEF ApplierDies, Fault, webVars, diskVars
  <2>1. TypeOK'
    OBVIOUS
  <2>2. \A q \in PassIds : Spooled(q) => Spooled(q)'
    BY DEF Spooled
  <2>3. WorkersApart' /\ OnlySpooledKnown' /\ AppliersInformed'
    BY <2>2 DEF WorkersApart, OnlySpooledKnown, AppliersInformed
  <2> QED BY <2>1, <2>3
<1>10. ASSUME JournalSync PROVE Core'
  <2> USE <1>10 DEF JournalSync, webVars
  <2>1. TypeOK'
    OBVIOUS
  <2>2. \A q \in PassIds : Spooled(q) => Spooled(q)'
    BY DEF Spooled
  <2>3. WorkersApart' /\ OnlySpooledKnown' /\ AppliersInformed'
    BY <2>2 DEF WorkersApart, OnlySpooledKnown, AppliersInformed
  <2> QED BY <2>1, <2>3
<1>11. ASSUME HostCrash PROVE Core'
  <2> USE <1>11 DEF HostCrash, Fault
  <2>1. PICK back \in SUBSET PassIds :
          dir' = [p \in PassIds |-> IF p \in back THEN disk[p] ELSE dir[p]]
    OBVIOUS
  <2>2. dir' \in [PassIds -> Entries] /\ disk' \in [PassIds -> Entries]
    BY <2>1
  <2>3. file' \in [PassIds -> {"none", "partial", "cached", "synced"}]
    OBVIOUS
  <2>4. journaled' \subseteq PassIds
    OBVIOUS
  <2>5. worker' \in [Workers -> [phase : {"idle", "tmp", "flushed", "synced", "named"},
                                 pid : PassIds \cup {NoPass}]]
    OBVIOUS
  <2>6. applier' \in [Appliers ->
          [phase : {"idle", "scan", "read", "refuse", "committed"},
           cur : PassIds \cup {NoPass}, todo : SUBSET PassIds]]
    OBVIOUS
  <2>7. TypeOK'
    BY <2>2, <2>3, <2>4, <2>5, <2>6
  <2>8. \A q \in PassIds : Spooled(q) => Spooled(q)'
    BY DEF Spooled, Writing
  <2>9. WorkersApart' /\ AppliersInformed'
    BY DEF WorkersApart, AppliersInformed
  <2>10. OnlySpooledKnown'
    BY <2>1, <2>8 DEF OnlySpooledKnown
  <2> QED BY <2>7, <2>9, <2>10
<1>12. CASE UNCHANGED vars
  BY <1>12 DEF vars, webVars, diskVars, WorkersApart, OnlySpooledKnown,
               AppliersInformed, Spooled, Writing
<1> QED
  BY <1>1, <1>2, <1>3, <1>4, <1>5, <1>6, <1>7, <1>8, <1>9, <1>10, <1>11, <1>12
  DEF Next, WorkerNext, ApplierNext, ApplierStep

-------------------------------------------------------------------------------
\* Every variable stays in its domain.
THEOREM TypeCorrect == Spec => []TypeOK
<1>1. Core => TypeOK
  BY DEF Core
<1> QED BY <1>1, CoreInit, CoreNext, PTL DEF Spec

-------------------------------------------------------------------------------
(* Power loss.                                                             *)

LEMMA BytesNext == Core /\ BytesBeforeName /\ [Next]_vars => BytesBeforeName'
<1> SUFFICES ASSUME Core, BytesBeforeName, [Next]_vars PROVE BytesBeforeName'
  OBVIOUS
<1> USE DEF Core, TypeOK, ReadyToName, ReadyToAnswer, Ticket, SetAside, ReadyToRemove, BytesBeforeName, IdleWorker
<1>1. ASSUME NEW w \in Workers, NEW r \in Records, NEW p \in PassIds, Post(w, r, p)
      PROVE  BytesBeforeName'
  <2>1. dir[p] = "absent" /\ disk[p] = "absent"
    BY <1>1 DEF Post, OnlySpooledKnown, Spooled
  <2>2. \A v \in Workers \ {w} : worker[v].phase = "synced" => worker[v].pid # p
    BY <1>1 DEF Post, WorkersApart
  <2> QED BY <1>1, <2>1, <2>2 DEF Post, diskVars
<1>2. ASSUME NEW w \in Workers, Dump(w) \/ Fsync(w) PROVE BytesBeforeName'
  <2>1. ~ Spooled(worker[w].pid) /\ worker[w].pid \in PassIds
    BY <1>2 DEF Dump, Fsync, Spooled, Writing, WorkersApart
  <2>2. dir[worker[w].pid] = "absent" /\ disk[worker[w].pid] = "absent"
    BY <2>1 DEF OnlySpooledKnown
  <2>3. \A v \in Workers \ {w} :
          worker[v].phase = "synced" => worker[v].pid # worker[w].pid
    BY <1>2 DEF Dump, Fsync, WorkersApart
  <2>4. \A p \in PassIds : p # worker[w].pid => file'[p] = file[p]
    BY <1>2 DEF Dump, Fsync
  <2>5. \A v \in Workers \ {w} : worker'[v] = worker[v]
    BY <1>2 DEF Dump, Fsync
  <2>6. worker'[w].phase = "synced" => file'[worker'[w].pid] = "synced"
    BY <1>2, <2>1 DEF Dump, Fsync
  <2>7. \A v \in Workers :
          worker'[v].phase = "synced" => file'[worker'[v].pid] = "synced"
    <3> SUFFICES ASSUME NEW v \in Workers, worker'[v].phase = "synced", v # w
                 PROVE  file'[worker'[v].pid] = "synced"
      BY <2>6
    <3>1. worker[v].pid \in PassIds /\ worker[v].pid # worker[w].pid
      BY <2>3, <2>5 DEF WorkersApart
    <3> QED BY <2>4, <2>5, <3>1
  <2>8. \A p \in PassIds :
          dir'[p] = "json" \/ disk'[p] = "json" => file'[p] = "synced"
    BY <1>2, <2>2, <2>4 DEF Dump, Fsync, diskVars
  <2> QED BY <2>7, <2>8
<1>3. ASSUME NEW w \in Workers, Rename(w) PROVE BytesBeforeName'
  BY <1>3 DEF Rename, diskVars, WorkersApart
<1>4. ASSUME NEW w \in Workers, Answer(w) \/ SpoolFails(w) \/ WorkerDies(w)
      PROVE  BytesBeforeName'
  BY <1>4 DEF Answer, SpoolFails, WorkerDies, diskVars
<1>5. ASSUME NEW a \in Appliers, ApplierNext(a) PROVE BytesBeforeName'
  BY <1>5 DEF ApplierNext, ApplierStep, ListSpool, Open, OpenFails, MoveAside,
              Commit, Stumble, Remove, Finish, ApplierDies, webVars, diskVars
<1>6. CASE JournalSync
  BY <1>6 DEF JournalSync, webVars
<1>7. CASE HostCrash
  <2>1. \A p \in PassIds : dir'[p] = "json" \/ disk'[p] = "json"
                           => dir[p] = "json" \/ disk[p] = "json"
    BY <1>7 DEF HostCrash
  <2> QED BY <1>7, <2>1 DEF HostCrash
<1>8. CASE UNCHANGED vars
  BY <1>8 DEF vars, diskVars
<1> QED
  BY <1>1, <1>2, <1>3, <1>4, <1>5, <1>6, <1>7, <1>8 DEF Next, WorkerNext

LEMMA JournaledNext == Core /\ JournaledKept /\ [Next]_vars => JournaledKept'
<1> SUFFICES ASSUME Core, JournaledKept, [Next]_vars PROVE JournaledKept'
  OBVIOUS
<1> USE DEF Core, TypeOK, ReadyToName, ReadyToAnswer, Ticket, SetAside, ReadyToRemove, JournaledKept, Entries
<1>1. ASSUME NEW w \in Workers, WorkerNext(w) PROVE JournaledKept'
  BY <1>1 DEF WorkerNext, Post, Dump, Fsync, Rename, Answer, SpoolFails,
              WorkerDies, diskVars, WorkersApart
<1>2. ASSUME NEW a \in Appliers, MoveAside(a) \/ Commit(a) PROVE JournaledKept'
  BY <1>2 DEF MoveAside, Commit, diskVars
<1>3. ASSUME NEW a \in Appliers, Remove(a) PROVE JournaledKept'
  \* The one step that takes a name away does so after the commit.
  <2>1. applier[a].cur \in passes
    BY <1>3 DEF Remove, AppliersInformed
  <2> QED BY <1>3, <2>1 DEF Remove, diskVars
<1>4. ASSUME NEW a \in Appliers,
             ListSpool(a) \/ Stumble(a) \/ Finish(a) \/ ApplierDies(a)
      PROVE  JournaledKept'
  BY <1>4 DEF ListSpool, Stumble, Finish, ApplierDies, diskVars
<1>5. ASSUME NEW a \in Appliers, NEW p \in PassIds, Open(a, p) \/ OpenFails(a, p)
      PROVE  JournaledKept'
  BY <1>5 DEF Open, OpenFails, diskVars
<1>6. CASE JournalSync
  BY <1>6 DEF JournalSync
<1>7. CASE HostCrash
  <2>1. \A p \in PassIds : dir'[p] \in {dir[p], disk[p]} /\ disk'[p] = dir'[p]
    BY <1>7 DEF HostCrash
  <2> QED BY <1>7, <2>1 DEF HostCrash
<1>8. CASE UNCHANGED vars
  BY <1>8 DEF vars, diskVars
<1> QED
  BY <1>1, <1>2, <1>3, <1>4, <1>5, <1>6, <1>7, <1>8
  DEF Next, ApplierNext, ApplierStep

LEMMA IInvInit == Init => IInv
  BY CoreInit
  DEF Init, IInv, BytesBeforeName, JournaledKept, IdleWorker

\* A record whose name has reached the disk outlives every crash: it is in
\* the passes table, or its file is there for the processes and on the disk.
THEOREM PowerLossSafe == Spec => []JournaledKept
<1>1. IInv /\ [Next]_vars => IInv'
  BY CoreNext, BytesNext, JournaledNext DEF IInv
<1>2. IInv => JournaledKept
  BY DEF IInv
<1> QED BY IInvInit, <1>1, <1>2, PTL DEF Spec

\* A reader that finds a .json file finds all of its bytes, power loss or not.
THEOREM WholeRecords == Spec => []NoPartialRecord
<1>1. IInv /\ [Next]_vars => IInv'
  BY CoreNext, BytesNext, JournaledNext DEF IInv
<1>2. IInv => NoPartialRecord
  BY DEF IInv, BytesBeforeName, NoPartialRecord
<1> QED BY IInvInit, <1>1, <1>2, PTL DEF Spec

\* As long as nothing failed, an applier that gives up on a record gives up on
\* one whose file is no longer there.
NoFaultNoAside ==
    faults = 0 =>
        /\ \A p \in PassIds : dir[p] # "rejected" /\ disk[p] # "rejected"
        /\ \A a \in Appliers :
             applier[a].phase = "refuse" => dir[applier[a].cur] # "json"

LEMMA NoAsideNext == IInv /\ NoFaultNoAside /\ [Next]_vars => NoFaultNoAside'
<1> SUFFICES ASSUME Core, BytesBeforeName, NoFaultNoAside, [Next]_vars,
                    faults' = 0
             PROVE  NoFaultNoAside'
  BY DEF IInv, NoFaultNoAside
<1> USE DEF Core, TypeOK, ReadyToName, ReadyToAnswer, Ticket, SetAside, ReadyToRemove, Entries
<1>1. faults = 0 /\ ~ Fault
  BY DEF Next, WorkerNext, Post, Dump, Fsync, Rename, Answer, SpoolFails,
         WorkerDies, ApplierNext, ApplierStep, ListSpool, Open, OpenFails,
         MoveAside, Commit, Stumble, Remove, Finish, ApplierDies, JournalSync,
         HostCrash, Fault, vars
<1>2. ASSUME NEW w \in Workers, Rename(w) PROVE NoFaultNoAside'
  \* No applier knows the id whose name this step brings into the directory.
  <2>1. worker[w].pid \in PassIds /\ ~ Spooled(worker[w].pid)
    BY <1>2 DEF Rename, WorkersApart, Spooled, Writing
  <2>2. \A a \in Appliers :
          applier[a].phase = "refuse" => applier[a].cur # worker[w].pid
    BY <2>1 DEF AppliersInformed
  <2> QED
    BY <1>1, <1>2, <2>1, <2>2
    DEF Rename, NoFaultNoAside, AppliersInformed, diskVars
<1>3. ASSUME NEW w \in Workers, WorkerNext(w), ~ Rename(w) PROVE NoFaultNoAside'
  BY <1>1, <1>3
  DEF WorkerNext, Post, Dump, Fsync, Answer, SpoolFails, WorkerDies,
      NoFaultNoAside, diskVars
<1>4. ASSUME NEW a \in Appliers, NEW p \in PassIds, Open(a, p)
      PROVE  NoFaultNoAside'
  \* What is named .json is complete, so only a missing file is refused.
  <2>1. dir[p] = "json" => Readable(p)
    BY DEF BytesBeforeName, Readable
  <2>2. applier'[a].phase = "refuse" => dir[applier'[a].cur] # "json"
    BY <1>4, <2>1 DEF Open
  <2>3. \A b \in Appliers \ {a} : applier'[b] = applier[b]
    BY <1>4 DEF Open
  <2>4. UNCHANGED <<dir, disk>>
    BY <1>4 DEF Open, diskVars
  <2> QED BY <1>1, <2>2, <2>3, <2>4 DEF NoFaultNoAside
<1>5. ASSUME NEW a \in Appliers, MoveAside(a) PROVE NoFaultNoAside'
  BY <1>1, <1>5 DEF MoveAside, NoFaultNoAside, AppliersInformed, diskVars
<1>6. ASSUME NEW a \in Appliers,
             ListSpool(a) \/ Commit(a) \/ Stumble(a) \/ Remove(a) \/ Finish(a)
      PROVE  NoFaultNoAside'
  BY <1>1, <1>6
  DEF ListSpool, Commit, Stumble, Remove, Finish, IdleApplier, NoFaultNoAside,
      AppliersInformed, diskVars
<1>7. CASE JournalSync
  BY <1>1, <1>7 DEF JournalSync, NoFaultNoAside
<1>8. CASE UNCHANGED vars
  BY <1>1, <1>8 DEF vars, diskVars, NoFaultNoAside
<1> QED
  BY <1>1, <1>2, <1>3, <1>4, <1>5, <1>6, <1>7, <1>8
  DEF Next, ApplierNext, ApplierStep, OpenFails, ApplierDies, HostCrash

\* Two appliers racing over one listing set no record aside between them: the
\* loser's rename finds no file.  Only a fault puts a record aside.
THEOREM AsideNeedsAFault == Spec => []AsideOnlyOnFault
<1>1. Init => NoFaultNoAside
  BY DEF Init, NoFaultNoAside, IdleApplier
<1>2. IInv /\ [Next]_vars => IInv'
  BY CoreNext, BytesNext, JournaledNext DEF IInv
<1>3. NoFaultNoAside => AsideOnlyOnFault
  BY DEF NoFaultNoAside, AsideOnlyOnFault
<1> QED BY IInvInit, NoAsideNext, <1>1, <1>2, <1>3, PTL DEF Spec

-------------------------------------------------------------------------------
(* A host that stays up.                                                   *)

NamedKept ==
    \A w \in Workers : worker[w].phase = "named" => Kept(worker[w].pid)

LEMMA KeptMonotonic ==
  ASSUME Core, [Next]_vars, ~ HostCrash, NEW p \in PassIds, Kept(p)
  PROVE  Kept(p)'
<1> USE DEF Core, TypeOK, ReadyToName, ReadyToAnswer, Ticket, SetAside, ReadyToRemove, Kept, Entries
<1>1. ASSUME NEW w \in Workers, WorkerNext(w) PROVE Kept(p)'
  BY <1>1 DEF WorkerNext, Post, Dump, Fsync, Rename, Answer, SpoolFails, WorkerDies
<1>2. ASSUME NEW a \in Appliers, Remove(a) PROVE Kept(p)'
  <2>1. applier[a].cur \in passes
    BY <1>2 DEF Remove, AppliersInformed
  <2> QED BY <1>2, <2>1 DEF Remove
<1>3. ASSUME NEW a \in Appliers, ApplierNext(a), ~ Remove(a) PROVE Kept(p)'
  BY <1>3 DEF ApplierNext, ApplierStep, ListSpool, Open, OpenFails, MoveAside,
              Commit, Stumble, Finish, ApplierDies
<1>4. CASE UNCHANGED vars
  BY <1>4 DEF vars
<1>5. CASE JournalSync
  BY <1>5 DEF JournalSync
<1> QED
  BY <1>1, <1>2, <1>3, <1>4, <1>5 DEF Next

\* A loss of power ends every worker, so nobody is left who has named a record.
LEMMA NamedNext == Core /\ NamedKept /\ [Next]_vars => NamedKept'
<1> SUFFICES ASSUME Core, NamedKept, [Next]_vars PROVE NamedKept'
  OBVIOUS
<1> USE DEF Core, TypeOK, ReadyToName, ReadyToAnswer, Ticket
<1>1. CASE HostCrash
  BY <1>1 DEF HostCrash, NamedKept, IdleWorker
<1>2. ASSUME ~ HostCrash, NEW p \in PassIds, Kept(p) PROVE Kept(p)'
  BY <1>2, KeptMonotonic
<1>3. ASSUME ~ HostCrash, NEW w \in Workers, Rename(w) PROVE NamedKept'
  <2>1. Kept(worker[w].pid)' /\ worker[w].pid \in PassIds
    BY <1>3 DEF Rename, Kept, WorkersApart
  <2>2. \A v \in Workers : worker'[v].pid = worker[v].pid
    BY <1>3 DEF Rename
  <2>3. \A v \in Workers \ {w} : worker'[v] = worker[v]
    BY <1>3 DEF Rename
  <2> QED BY <1>2, <1>3, <2>1, <2>2, <2>3 DEF NamedKept, WorkersApart, Kept
<1>4. ASSUME ~ HostCrash,
             \A v \in Workers : worker'[v].phase = "named" => worker'[v] = worker[v]
      PROVE  NamedKept'
  BY <1>2, <1>4 DEF NamedKept, WorkersApart, Kept
<1>5. ASSUME NEW w \in Workers, WorkerNext(w), ~ Rename(w)
      PROVE  \A v \in Workers : worker'[v].phase = "named" => worker'[v] = worker[v]
  BY <1>5 DEF WorkerNext, Post, Dump, Fsync, Answer, SpoolFails, WorkerDies,
              IdleWorker
<1>6. ASSUME NEW a \in Appliers, ApplierNext(a) PROVE UNCHANGED worker
  BY <1>6 DEF ApplierNext, ApplierStep, ListSpool, Open, OpenFails, MoveAside,
              Commit, Stumble, Remove, Finish, ApplierDies, webVars
<1>7. CASE JournalSync \/ UNCHANGED vars
  BY <1>7, <1>4, <1>1 DEF JournalSync, webVars, vars
<1> QED
  BY <1>1, <1>3, <1>4, <1>5, <1>6, <1>7 DEF Next

LEMMA AcceptedNext ==
  Core /\ NamedKept /\ AcceptedKept /\ ~ HostMayCrash /\ [Next]_vars
    => NamedKept' /\ AcceptedKept'
<1> SUFFICES ASSUME Core, NamedKept, AcceptedKept, ~ HostMayCrash, [Next]_vars
             PROVE  NamedKept' /\ AcceptedKept'
  OBVIOUS
<1>n. NamedKept'
  BY NamedNext
<1>h. ~ HostCrash
  BY DEF HostCrash
<1> USE DEF Core, TypeOK, ReadyToName, ReadyToAnswer, Ticket, SetAside, ReadyToRemove
<1>1. \A p \in PassIds : Kept(p) => Kept(p)'
  BY <1>h, KeptMonotonic
<1>2. ASSUME NEW w \in Workers, WorkerNext(w) PROVE AcceptedKept'
  <2>1. \A p \in answered' : p \in PassIds /\ Kept(p)
    BY <1>2 DEF WorkerNext, Post, Dump, Fsync, Rename, Answer, SpoolFails,
                WorkerDies, WorkersApart, NamedKept, AcceptedKept
  <2> QED BY <1>1, <2>1 DEF AcceptedKept
<1>3. ASSUME UNCHANGED answered PROVE AcceptedKept'
  BY <1>1, <1>3 DEF AcceptedKept
<1>4. ASSUME NEW a \in Appliers, ApplierNext(a) PROVE UNCHANGED answered
  BY <1>4 DEF ApplierNext, ApplierStep, ListSpool, Open, OpenFails, MoveAside,
              Commit, Stumble, Remove, Finish, ApplierDies, webVars
<1> QED
  BY <1>n, <1>h, <1>2, <1>3, <1>4 DEF Next, JournalSync, webVars, vars

\* A pass id answered 202 is in the passes table or in the spool, for any
\* number of workers, appliers, deaths and I/O errors, as long as the host
\* itself does not lose power.
THEOREM AcceptedNeverLost ==
  ASSUME ~ HostMayCrash
  PROVE  Spec => []AcceptedKept
<1>1. Init => Core /\ NamedKept /\ AcceptedKept
  BY CoreInit DEF Init, NamedKept, AcceptedKept, IdleWorker
<1>2. Core /\ NamedKept /\ AcceptedKept /\ [Next]_vars
        => (Core /\ NamedKept /\ AcceptedKept)'
  BY CoreNext, AcceptedNext
<1> QED BY <1>1, <1>2, PTL DEF Spec

-------------------------------------------------------------------------------
(* SweepSpool implements PassLedger.                                       *)

\* A step that changes the standing of p alone, in the way the ledger allows.
LedgerMoves(p) ==
    /\ \A q \in PassIds \ {p} : Standing(q)' = Standing(q)
    /\ answered' = answered
    /\ \/ Standing(p)' = Standing(p)
       \/ Standing(p) = "new" /\ Standing(p)' = "held"
       \/ Standing(p) = "held" /\ Standing(p)' = "aside"
       \/ Standing(p) \in {"held", "aside"} /\ Standing(p)' = "applied"

LEMMA LedgerMovesAreSteps ==
  ASSUME NEW p \in PassIds, LedgerMoves(p)
  PROVE  [Ledger!LedgerNext]_(Ledger!ledgerVars)
<1> DEFINE L == [q \in PassIds |-> Standing(q)]
<1>1. L' = [q \in PassIds |-> Standing(q)']
  OBVIOUS
<1>2. L' = [L EXCEPT ![p] = Standing(p)']
  BY <1>1 DEF LedgerMoves
<1>3. CASE Standing(p)' = Standing(p)
  <2>1. L' = L
    BY <1>1, <1>3 DEF LedgerMoves
  <2> QED BY <2>1 DEF Ledger!ledgerVars, LedgerMoves
<1>4. CASE Standing(p) = "new" /\ Standing(p)' = "held"
  <2>1. Ledger!Hold(p)
    BY <1>2, <1>4 DEF Ledger!Hold, LedgerMoves
  <2> QED BY <2>1 DEF Ledger!LedgerNext
<1>5. CASE Standing(p) = "held" /\ Standing(p)' = "aside"
  <2>1. Ledger!SetAside(p)
    BY <1>2, <1>5 DEF Ledger!SetAside, LedgerMoves
  <2> QED BY <2>1 DEF Ledger!LedgerNext
<1>6. CASE Standing(p) \in {"held", "aside"} /\ Standing(p)' = "applied"
  <2>1. Ledger!Apply(p)
    BY <1>2, <1>6 DEF Ledger!Apply, LedgerMoves
  <2> QED BY <2>1 DEF Ledger!LedgerNext
<1> QED BY <1>3, <1>4, <1>5, <1>6 DEF LedgerMoves

\* An applier commits only what was named, and what was named is not "new".
ReadKept ==
    \A a \in Appliers :
        applier[a].phase = "read" => Kept(applier[a].cur)

LEMMA ReadKeptNext == Core /\ ReadKept /\ [Next]_vars => ReadKept'
<1>c. CASE HostCrash
  BY <1>c DEF HostCrash, ReadKept, IdleApplier
<1> SUFFICES ASSUME Core, ReadKept, ~ HostCrash, [Next]_vars PROVE ReadKept'
  BY <1>c
<1> USE DEF Core, TypeOK, ReadyToName, ReadyToAnswer, Ticket, SetAside, ReadyToRemove
<1>1. \A p \in PassIds : Kept(p) => Kept(p)'
  BY KeptMonotonic
<1>2. ASSUME NEW a \in Appliers, NEW p \in PassIds, Open(a, p) PROVE ReadKept'
  <2>1. applier'[a].phase = "read" => applier'[a].cur = p /\ Kept(p)'
    BY <1>2 DEF Open, Readable, Kept, IsNext
  <2>2. \A b \in Appliers \ {a} : applier'[b] = applier[b]
    BY <1>2 DEF Open
  <2> QED BY <1>1, <2>1, <2>2 DEF ReadKept, AppliersInformed, Kept
<1>3. ASSUME NEW a \in Appliers, ApplierNext(a), ~ \E p \in PassIds : Open(a, p)
      PROVE  ReadKept'
  <2>1. \A b \in Appliers :
          applier'[b].phase = "read" => applier'[b] = applier[b]
    BY <1>3 DEF ApplierNext, ApplierStep, ListSpool, OpenFails, MoveAside,
                Commit, Stumble, Remove, Finish, ApplierDies, IdleApplier
  <2> QED BY <1>1, <2>1 DEF ReadKept, AppliersInformed, Kept
<1>4. ASSUME UNCHANGED applier PROVE ReadKept'
  BY <1>1, <1>4 DEF ReadKept, AppliersInformed, Kept
<1>5. ASSUME NEW w \in Workers, WorkerNext(w) PROVE UNCHANGED applier
  BY <1>5 DEF WorkerNext, Post, Dump, Fsync, Rename, Answer, SpoolFails, WorkerDies
<1> QED
  BY <1>2, <1>3, <1>4, <1>5 DEF Next, JournalSync, webVars, vars

LEMMA LedgerStep ==
  Core /\ NamedKept /\ ReadKept /\ ~ HostCrash /\ [Next]_vars
    => [Ledger!LedgerNext]_(Ledger!ledgerVars)
<1> SUFFICES ASSUME Core, NamedKept, ReadKept, ~ HostCrash, [Next]_vars
             PROVE  [Ledger!LedgerNext]_(Ledger!ledgerVars)
  OBVIOUS
<1> USE DEF Core, TypeOK, ReadyToName, ReadyToAnswer, Ticket, SetAside, ReadyToRemove, Entries
<1>1. ASSUME UNCHANGED <<passes, dir, answered>>
      PROVE  [Ledger!LedgerNext]_(Ledger!ledgerVars)
  <2>1. \A p \in PassIds : Standing(p)' = Standing(p)
    BY <1>1 DEF Standing
  <2> QED BY <1>1, <2>1 DEF Ledger!ledgerVars
<1>2. ASSUME NEW w \in Workers, Rename(w)
      PROVE  [Ledger!LedgerNext]_(Ledger!ledgerVars)
  <2>1. PICK p \in PassIds : p = worker[w].pid
    BY <1>2 DEF Rename, WorkersApart
  <2>2. ~ Spooled(p)
    BY <1>2, <2>1 DEF Rename, Spooled, Writing
  <2>3. Standing(p) = "new"
    BY <2>2 DEF OnlySpooledKnown, Standing
  <2>4. LedgerMoves(p)
    BY <1>2, <2>1, <2>3 DEF LedgerMoves, Rename, Standing
  <2> QED BY <2>4, LedgerMovesAreSteps
<1>3. ASSUME NEW w \in Workers, Answer(w)
      PROVE  [Ledger!LedgerNext]_(Ledger!ledgerVars)
  <2>0. PICK p \in PassIds : p = worker[w].pid
    BY <1>3 DEF Answer, WorkersApart
  <2>1. Standing(p) # "new"
    BY <1>3, <2>0 DEF Answer, NamedKept, Kept, Standing
  <2>2. \A q \in PassIds : Standing(q)' = Standing(q)
    BY <1>3 DEF Answer, Standing
  <2>3. answered' = answered \cup {p}
    BY <1>3, <2>0 DEF Answer
  <2>4. Ledger!Acknowledge(p)
    BY <2>1, <2>2, <2>3 DEF Ledger!Acknowledge
  <2> QED BY <2>1, <2>4 DEF Ledger!LedgerNext
<1>4. ASSUME NEW a \in Appliers, MoveAside(a) \/ Commit(a) \/ Remove(a)
      PROVE  [Ledger!LedgerNext]_(Ledger!ledgerVars)
  <2>1. PICK p \in PassIds : p = applier[a].cur
    BY <1>4 DEF MoveAside, Commit, Remove, AppliersInformed
  <2>2. ASSUME MoveAside(a) PROVE LedgerMoves(p)
    BY <2>1, <2>2 DEF MoveAside, webVars, LedgerMoves, Standing
  <2>3. ASSUME Commit(a) PROVE LedgerMoves(p)
    <3>1. Standing(p) # "new"
      BY <2>1, <2>3 DEF Commit, ReadKept, Kept, Standing
    <3> QED BY <2>1, <2>3, <3>1 DEF Commit, webVars, LedgerMoves, Standing
  <2>4. ASSUME Remove(a) PROVE LedgerMoves(p)
    <3>1. p \in passes
      BY <2>1, <2>4 DEF Remove, AppliersInformed
    <3>2. \A q \in PassIds \ {p} : dir'[q] = dir[q]
      BY <2>1, <2>4 DEF Remove
    <3>3. passes' = passes /\ answered' = answered
      BY <2>4 DEF Remove, webVars
    <3> QED BY <3>1, <3>2, <3>3 DEF LedgerMoves, Standing
  <2>5. LedgerMoves(p)
    BY <1>4, <2>2, <2>3, <2>4
  <2> QED BY <2>5, LedgerMovesAreSteps
<1>5. ASSUME NEW w \in Workers, WorkerNext(w), ~ Rename(w), ~ Answer(w)
      PROVE  UNCHANGED <<passes, dir, answered>>
  BY <1>5 DEF WorkerNext, Post, Dump, Fsync, SpoolFails, WorkerDies
<1>6. ASSUME NEW a \in Appliers, ApplierNext(a),
             ~ (MoveAside(a) \/ Commit(a) \/ Remove(a))
      PROVE  UNCHANGED <<passes, dir, answered>>
  BY <1>6 DEF ApplierNext, ApplierStep, ListSpool, Open, OpenFails, Stumble,
              Finish, ApplierDies, webVars
<1> QED
  BY <1>1, <1>2, <1>3, <1>4, <1>5, <1>6 DEF Next, JournalSync, webVars, vars

\* While the host stays up, workers and appliers together are the ledger:
\* acknowledged only when held, applied at most once, never forgotten.
THEOREM SpoolImplementsLedger ==
  ASSUME ~ HostMayCrash
  PROVE  Spec => ImplementsLedger
<1>1. Init => Core /\ NamedKept /\ AcceptedKept /\ ReadKept
  BY CoreInit DEF Init, NamedKept, AcceptedKept, ReadKept, IdleWorker, IdleApplier
<1>2. (Core /\ NamedKept /\ AcceptedKept /\ ReadKept) /\ [Next]_vars
        => (Core /\ NamedKept /\ AcceptedKept /\ ReadKept)'
  BY CoreNext, AcceptedNext, ReadKeptNext
<1>3. Init => Ledger!LedgerInit
  BY DEF Init, Ledger!LedgerInit, Standing
<1>4. (Core /\ NamedKept /\ AcceptedKept /\ ReadKept) /\ [Next]_vars
        => [Ledger!LedgerNext]_(Ledger!ledgerVars)
  BY LedgerStep DEF HostCrash
<1> QED BY <1>1, <1>2, <1>3, <1>4, PTL
        DEF Spec, ImplementsLedger, Ledger!LedgerSpec

-------------------------------------------------------------------------------
(* SweepSpool implements CrashLedger, on any host.                         *)

\* What the disk may put an entry back to: never to a name the disk was not
\* known to have, never from .json to .rejected.
DiskBehind ==
    \A p \in PassIds :
        /\ disk[p] # "absent" => p \in journaled
        /\ disk[p] = "rejected" => dir[p] = "rejected"

LEMMA DiskBehindNext == Core /\ DiskBehind /\ [Next]_vars => DiskBehind'
<1> SUFFICES ASSUME Core, DiskBehind, [Next]_vars PROVE DiskBehind'
  OBVIOUS
<1> USE DEF Core, TypeOK, ReadyToName, ReadyToAnswer, Ticket, SetAside,
            ReadyToRemove, Entries
<1>1. ASSUME NEW w \in Workers, Rename(w) PROVE DiskBehind'
  <2>1. ~ Spooled(worker[w].pid) /\ worker[w].pid \in PassIds
    BY <1>1 DEF Rename, Spooled, Writing, WorkersApart
  <2>2. disk[worker[w].pid] = "absent"
    BY <2>1 DEF OnlySpooledKnown
  <2> QED BY <1>1, <2>1, <2>2 DEF Rename, diskVars, DiskBehind
<1>2. ASSUME NEW w \in Workers, WorkerNext(w), ~ Rename(w) PROVE DiskBehind'
  BY <1>2 DEF WorkerNext, Post, Dump, Fsync, Answer, SpoolFails, WorkerDies,
              diskVars, DiskBehind
<1>3. ASSUME NEW a \in Appliers, MoveAside(a) PROVE DiskBehind'
  BY <1>3 DEF MoveAside, diskVars, DiskBehind
<1>4. ASSUME NEW a \in Appliers, Remove(a) PROVE DiskBehind'
  BY <1>4 DEF Remove, diskVars, DiskBehind
<1>5. ASSUME NEW a \in Appliers, ApplierNext(a), ~ MoveAside(a), ~ Remove(a)
      PROVE  DiskBehind'
  BY <1>5 DEF ApplierNext, ApplierStep, ListSpool, Open, OpenFails, Commit,
              Stumble, Finish, ApplierDies, diskVars, DiskBehind
<1>6. CASE JournalSync
  BY <1>6 DEF JournalSync, DiskBehind
<1>7. CASE HostCrash
  BY <1>7 DEF HostCrash, DiskBehind
<1>8. CASE UNCHANGED vars
  BY <1>8 DEF vars, DiskBehind
<1> QED
  BY <1>1, <1>2, <1>3, <1>4, <1>5, <1>6, <1>7, <1>8 DEF Next

\* A record that was answered and then lost is not named again.
LEMMA LostForGood ==
  ASSUME Core, ReadKept, [Next]_vars, ~ HostCrash,
         NEW p \in answered, Standing(p) = "new"
  PROVE  Standing(p)' = "new"
<1> USE DEF Core, TypeOK, ReadyToName, ReadyToAnswer, Ticket, SetAside,
            ReadyToRemove, Standing, Entries
<1>1. Spooled(p) /\ p \in PassIds /\ p \notin passes /\ dir[p] = "absent"
  BY DEF OnlySpooledKnown
<1>2. ASSUME NEW w \in Workers, Rename(w) PROVE UNCHANGED <<dir[p], passes>>
  <2>1. worker[w].pid # p
    BY <1>1, <1>2 DEF Rename, Spooled, Writing
  <2> QED BY <1>1, <1>2, <2>1 DEF Rename
<1>3. ASSUME NEW w \in Workers, WorkerNext(w), ~ Rename(w)
      PROVE  UNCHANGED <<dir[p], passes>>
  BY <1>3 DEF WorkerNext, Post, Dump, Fsync, Answer, SpoolFails, WorkerDies
<1>4. ASSUME NEW a \in Appliers, MoveAside(a) \/ Remove(a)
      PROVE  UNCHANGED <<dir[p], passes>>
  BY <1>1, <1>4 DEF MoveAside, Remove, AppliersInformed
<1>5. ASSUME NEW a \in Appliers, Commit(a)
      PROVE  dir'[p] = "absent" /\ p \notin passes'
  \* What an applier has read is not lost: it would have died with the power.
  <2>1. applier[a].cur # p
    BY <1>1, <1>5 DEF Commit, ReadKept, Kept
  <2> QED BY <1>1, <1>5, <2>1 DEF Commit
<1>6. ASSUME NEW a \in Appliers, ApplierNext(a),
             ~ (MoveAside(a) \/ Remove(a) \/ Commit(a))
      PROVE  UNCHANGED <<dir[p], passes>>
  BY <1>6 DEF ApplierNext, ApplierStep, ListSpool, Open, OpenFails, Stumble,
              Finish, ApplierDies
<1>7. ASSUME JournalSync \/ UNCHANGED vars PROVE UNCHANGED <<dir[p], passes>>
  BY <1>7 DEF JournalSync, vars
<1>8. dir'[p] = "absent" /\ p \notin passes'
  BY <1>1, <1>2, <1>3, <1>4, <1>5, <1>6, <1>7 DEF Next
<1> QED BY <1>8

\* A step other than a loss of power is one of the ledger at work, or makes
\* more of it durable.
LEMMA CrashWork ==
  ASSUME IInv, NamedKept, ReadKept, ~ HostCrash, [Next]_vars
  PROVE  [Crash!CrashNext]_(Crash!crashVars)
<1>0. Core /\ [Ledger!LedgerNext]_(Ledger!ledgerVars)
  BY LedgerStep DEF IInv
<1>1. CASE JournalSync
  <2>1. \A p \in PassIds : Standing(p)' = Standing(p)
    BY <1>1 DEF JournalSync, Standing
  <2>2. journaled' = journaled \cup {p \in PassIds : dir[p] # "absent"}
    BY <1>1 DEF JournalSync
  <2>3. \A p \in journaled' : p \in PassIds /\ Standing(p) # "new"
    BY <2>2 DEF IInv, Core, TypeOK, JournaledKept, Standing, Entries
  <2>4. answered' = answered
    BY <1>1 DEF JournalSync, webVars
  <2>5. Crash!Settle
    BY <2>1, <2>2, <2>3, <2>4 DEF Crash!Settle, Crash!Taken, Crash!ledgerVars
  <2> QED BY <2>5 DEF Crash!CrashNext
<1>2. CASE ~ JournalSync
  <2>1. journaled' = journaled
    BY <1>2 DEF Next, WorkerNext, Post, Dump, Fsync, Rename, Answer, SpoolFails,
        WorkerDies, ApplierNext, ApplierStep, ListSpool, Open, OpenFails,
        MoveAside, Commit, Stumble, Remove, Finish, ApplierDies, diskVars, vars
  <2>2. CASE UNCHANGED Ledger!ledgerVars
    BY <2>1, <2>2 DEF Ledger!ledgerVars, Crash!crashVars
  <2>3. ASSUME NEW p \in PassIds, Ledger!Hold(p) PROVE Crash!Work
    <3>1. Standing(p) = "new" /\ Standing(p)' = "held"
      BY <2>3 DEF Ledger!Hold
    <3>2. p \notin answered
      BY <1>0, <3>1, LostForGood
    <3> QED BY <2>1, <2>3, <3>2 DEF Crash!Work, Crash!Hold, Ledger!Hold
  <2>4. ASSUME NEW p \in PassIds,
               Ledger!Acknowledge(p) \/ Ledger!SetAside(p) \/ Ledger!Apply(p)
        PROVE  Crash!Work
    BY <2>1, <2>4
    DEF Crash!Work, Crash!Acknowledge, Crash!SetAside, Crash!Apply,
        Ledger!Acknowledge, Ledger!SetAside, Ledger!Apply
  <2> QED
    BY <1>0, <2>2, <2>3, <2>4 DEF Ledger!LedgerNext, Crash!CrashNext
<1> QED BY <1>1, <1>2

LEMMA CrashLoss ==
  ASSUME IInv, IInv', DiskBehind, HostCrash
  PROVE  Crash!PowerLoss
<1> DEFINE L == [p \in PassIds |-> Standing(p)]
<1>t. /\ dir \in [PassIds -> Entries] /\ disk \in [PassIds -> Entries]
      /\ journaled' \subseteq PassIds
  BY DEF IInv, Core, TypeOK
<1>1. /\ \A p \in PassIds : dir'[p] \in {dir[p], disk[p]}
      /\ passes' = passes /\ answered' = answered
      /\ journaled' = journaled \cup {p \in PassIds : dir'[p] # "absent"}
  BY DEF HostCrash
<1>2. ASSUME NEW p \in PassIds PROVE Standing(p)' \in Crash!Earlier(Standing(p))
  <2>1. p \in passes \/ dir[p] # "absent" \/ disk[p] = "absent"
    BY DEF IInv, JournaledKept, DiskBehind
  <2> QED
    BY <1>t, <1>1, <2>1 DEF DiskBehind, Standing, Crash!Earlier, Entries
<1>3. \A p \in PassIds : Standing(p)' \in {"new", "held", "aside", "applied"}
  BY DEF Standing
<1>4. L' \in [PassIds -> Crash!Standing]
  BY <1>3 DEF Crash!Standing
<1>5. ASSUME NEW p \in PassIds, Standing(p)' \notin {"new", "applied"}
      PROVE  p \in journaled'
  BY <1>1, <1>5 DEF Standing
<1>6. ASSUME NEW p \in journaled' PROVE p \in PassIds /\ Standing(p)' # "new"
  <2>1. p \in PassIds /\ (p \in passes' \/ dir'[p] # "absent")
    BY <1>t DEF IInv, JournaledKept
  <2>2. dir'[p] \in Entries
    BY <1>t, <1>1, <2>1
  <2> QED BY <2>1, <2>2 DEF Standing, Entries
<1>7. \A p \in PassIds : L[p] = Standing(p) /\ L'[p] = Standing(p)'
  OBVIOUS
<1>8. /\ Crash!Due' = {p \in PassIds : Standing(p)' \notin {"new", "applied"}}
      /\ Crash!Taken' = {p \in PassIds : Standing(p)' # "new"}
  BY DEF Crash!Due, Crash!Taken
<1> QED
  BY <1>1, <1>2, <1>4, <1>5, <1>6, <1>7, <1>8 DEF Crash!PowerLoss

\* Whatever crashes, workers, appliers and the disk together are the ledger
\* that may lose power: only that takes a record back, never one that has
\* reached the disk or was applied, and a lost record stays lost.
THEOREM SpoolImplementsCrashLedger == Spec => ImplementsCrashLedger
<1> DEFINE Inv == IInv /\ NamedKept /\ ReadKept /\ DiskBehind
<1>1. Init => Inv
  BY IInvInit DEF Init, NamedKept, ReadKept, DiskBehind, IdleWorker, IdleApplier
<1>2. Inv /\ [Next]_vars => Inv'
  BY CoreNext, BytesNext, JournaledNext, NamedNext, ReadKeptNext, DiskBehindNext
  DEF IInv
<1>3. Init => Crash!CrashInit
  BY DEF Init, Crash!CrashInit, Crash!LedgerInit, Standing
<1>4. Inv /\ Inv' /\ [Next]_vars => [Crash!CrashNext]_(Crash!crashVars)
  BY CrashWork, CrashLoss DEF Crash!CrashNext
<1> QED BY <1>1, <1>2, <1>3, <1>4, PTL
        DEF Spec, ImplementsCrashLedger, Crash!CrashSpec
===============================================================================
