------------------------- MODULE StageoutIndex_proofs -------------------------
(***************************************************************************)
(* Proofs about StageoutIndex for any keys, pass records and bounds.       *)
(*                                                                         *)
(* What a mode holds while others run is stale, and each conjunct of the   *)
(* strengthening says how stale it can be: a key the listing found absent, *)
(* a key a pass record names and a key a wipe has deleted are absent from  *)
(* the bucket, or were written again since; a batch about to be deleted    *)
(* from the queue has been recorded.                                       *)
(***************************************************************************)
EXTENDS StageoutIndex, TLAPS, FiniteSetTheorems

\* The domains of the three runs' records.
DrainRuns ==
    [phase : {"idle", "receive", "record", "delete", "apply", "unlink"},
     batch : SUBSET (1..puts), todo : SUBSET PassIds, cur : PassIds \cup {NoPass}]
RecRuns ==
    [phase : {"idle", "list", "commit"}, start : 0..puts, todo : SUBSET ReportKeys,
     listed : [ReportKeys -> 0..puts], indexed : SUBSET ReportKeys]
WipeRuns ==
    [phase : {"idle", "list", "delete", "rows"}, start : 0..puts,
     todo : SUBSET ReportKeys, page : SUBSET ReportKeys]

DrainInv == drain.phase = "delete" => drain.batch \subseteq recorded

RecInv ==
    /\ rec.phase # "idle" =>
         \A k \in ReportKeys \ rec.todo :
            rec.listed[k] = 0 => bucket[k] = 0 \/ bucket[k] > rec.start
    /\ rec.phase = "commit" => rec.todo = {}

PassInv ==
    \A n \in PassIds : \A k \in passKeys[n] : bucket[k] = 0 \/ bucket[k] > takenAt[n]

WipeInv ==
    wipe.phase = "rows" =>
        \A k \in wipe.page : bucket[k] = 0 \/ bucket[k] > wipe.start

IInv == TypeOK /\ DrainInv /\ NoEventLost /\ RecInv /\ PassInv /\ WipeInv

-------------------------------------------------------------------------------
LEMMA IInvInit == Init => IInv
  BY BoundsAssumption, KindsAssumption
  DEF Init, IInv, TypeOK, DrainInv, NoEventLost, RecInv, PassInv, WipeInv,
      Kinds, Versions, Puts, Nothing, IdleDrain, IdleRec, IdleWipe

LEMMA TypeNext == TypeOK /\ [Next]_vars => TypeOK'
<1> SUFFICES ASSUME TypeOK, [Next]_vars PROVE TypeOK'
  OBVIOUS
<1> USE BoundsAssumption, KindsAssumption
    DEF TypeOK, Versions, Puts, Kinds, s3Vars, passVars, indexVars
<1>1. ASSUME NEW k \in Kinds, Put(k) PROVE TypeOK'
  <2> USE <1>1 DEF Put
  <2>1. puts' = puts + 1 /\ puts' \in 0..MaxPuts /\ puts \in Nat
    OBVIOUS
  <2>2. 1..puts \subseteq 1..puts' /\ 0..puts \subseteq 0..puts' /\ puts' \in 1..puts'
    BY <2>1
  <2>3. bucket' \in [ReportKeys -> 0..puts']
    BY <2>1, <2>2
  <2>4. queue' \subseteq 1..puts' /\ lost' \subseteq 1..puts' /\ faults' \in Nat
    <3>1. CASE queue' = queue \cup {puts'} /\ UNCHANGED <<lost, faults>>
      BY <3>1, <2>2
    <3>2. CASE Fault /\ lost' = lost \cup {puts'} /\ UNCHANGED queue
      BY <3>2, <2>2 DEF Fault
    <3> QED BY <3>1, <3>2
  <2>5. keyOf' \in [Puts -> Kinds]
    BY <2>1
  <2>6. /\ index' \in [ReportKeys -> 0..puts'] /\ statusWrites' \in Nat
        /\ recorded' \subseteq 1..puts' /\ unheard' \subseteq ReportKeys
    BY <2>2
  <2>7. /\ passKeys' \in [PassIds -> SUBSET ReportKeys]
        /\ passState' \in [PassIds -> {"none", "spooled", "applied", "done"}]
        /\ takenAt' \in [PassIds -> 0..puts']
    BY <2>2
  <2>8. aged' \in 0..puts'
    BY <2>2
  <2>9. drain' \in DrainRuns' /\ rec' \in RecRuns' /\ wipe' \in WipeRuns'
    BY <2>2 DEF DrainRuns, RecRuns, WipeRuns
  <2> QED
    BY <2>1, <2>3, <2>4, <2>5, <2>6, <2>7, <2>8, <2>9 DEF DrainRuns, RecRuns, WipeRuns
<1>2. CASE Age
  BY <1>2 DEF Age
<1>3. ASSUME NEW n \in PassIds, NEW K \in SUBSET ReportKeys, Sweep(n, K) PROVE TypeOK'
  BY <1>3 DEF Sweep
<1>4. ASSUME NEW k \in ReportKeys, Expire(k) PROVE TypeOK'
  BY <1>4 DEF Expire
<1>5. CASE DrainStart \/ DrainEnd \/ DrainDies
  <2>0. IdleDrain \in DrainRuns
    BY DEF IdleDrain, DrainRuns
  <2>1. drain' \in DrainRuns
    BY <1>5, <2>0 DEF DrainStart, DrainEnd, DrainDies, DrainRuns
  <2>2. faults' \in Nat
    BY <1>5 DEF DrainStart, DrainEnd, DrainDies, Fault
  <2> QED BY <1>5, <2>1, <2>2 DEF DrainStart, DrainEnd, DrainDies, DrainRuns
<1>6. ASSUME NEW B \in SUBSET queue, Receive(B) PROVE TypeOK'
  BY <1>6 DEF Receive
<1>7. CASE Record
  <2>1. index' \in [ReportKeys -> 0..puts]
    BY <1>7 DEF Record, Upserts
  <2>2. IsFiniteSet(About(drain.batch, Status))
    <3>1. IsFiniteSet(1..puts)
      BY FS_Interval
    <3> QED BY <3>1, FS_Subset DEF About
  <2>3. statusWrites' \in Nat
    BY <1>7, <2>2, FS_CardinalityType DEF Record, StatusCount
  <2> QED BY <1>7, <2>1, <2>3 DEF Record
<1>8. CASE DeleteBatch
  <2>1. queue' \subseteq 1..puts /\ faults' \in Nat
    BY <1>8 DEF DeleteBatch, Fault
  <2>2. drain' \in DrainRuns
    BY <1>8 DEF DeleteBatch, DrainRuns
  <2> QED BY <1>8, <2>1, <2>2 DEF DeleteBatch, DrainRuns
<1>9. CASE StopReceiving
  BY <1>9 DEF StopReceiving
<1>10. ASSUME NEW n \in PassIds, ApplyPass(n) PROVE TypeOK'
  <2>1. index' \in [ReportKeys -> 0..puts]
    BY <1>10 DEF ApplyPass, Retired
  <2>2. drain' \in DrainRuns
    BY <1>10 DEF ApplyPass, DrainRuns
  <2>3. passState' \in [PassIds -> {"none", "spooled", "applied", "done"}]
    BY <1>10 DEF ApplyPass
  <2> QED BY <1>10, <2>1, <2>2, <2>3 DEF ApplyPass, DrainRuns
<1>11. CASE RemovePass
  BY <1>11 DEF RemovePass
<1>12. CASE ReconcileStart
  <2>0. IdleRec \in RecRuns
    BY DEF IdleRec, Nothing, RecRuns
  <2>1. rec' \in RecRuns
    <3>1. puts \in 0..puts
      OBVIOUS
    <3>2. [IdleRec EXCEPT !.phase = "list", !.start = puts, !.todo = ReportKeys]
            \in RecRuns
      BY <2>0, <3>1 DEF RecRuns
    <3> QED BY <1>12, <3>2 DEF ReconcileStart
  <2> QED BY <1>12, <2>1 DEF ReconcileStart, RecRuns
<1>13. ASSUME NEW k \in ReportKeys, ListPage(k) PROVE TypeOK'
  BY <1>13 DEF ListPage
<1>14. CASE ReadIndex
  BY <1>14 DEF ReadIndex, Present
<1>15. CASE ReconcileCommit \/ ReconcileDies
  <2>1. rec' \in RecRuns
    BY <1>15 DEF ReconcileCommit, ReconcileDies, IdleRec, Nothing, RecRuns
  <2>2. Mended \in [ReportKeys -> 0..puts]
    BY DEF Mended
  <2>3. Unheard \subseteq ReportKeys
    BY DEF Unheard, Present
  <2>4. /\ index' \in [ReportKeys -> 0..puts] /\ unheard' \subseteq ReportKeys
        /\ faults' \in Nat
    BY <1>15, <2>2, <2>3 DEF ReconcileCommit, ReconcileDies, Fault
  <2> QED BY <1>15, <2>1, <2>4 DEF ReconcileCommit, ReconcileDies, RecRuns
<1>16. CASE WipeStart \/ WipeEnd \/ WipeDies
  <2>0. IdleWipe \in WipeRuns
    BY DEF IdleWipe, WipeRuns
  <2>1. wipe' \in WipeRuns
    <3>1. puts \in 0..puts
      OBVIOUS
    <3>2. [IdleWipe EXCEPT !.phase = "list", !.start = puts, !.todo = ReportKeys]
            \in WipeRuns
      BY <2>0, <3>1 DEF WipeRuns
    <3> QED BY <1>16, <2>0, <3>2 DEF WipeStart, WipeEnd, WipeDies
  <2>2. faults' \in Nat
    BY <1>16 DEF WipeStart, WipeEnd, WipeDies, Fault
  <2> QED BY <1>16, <2>1, <2>2 DEF WipeStart, WipeEnd, WipeDies, WipeRuns
<1>17. ASSUME NEW K \in SUBSET ReportKeys, WipePage(K) PROVE TypeOK'
  BY <1>17 DEF WipePage
<1>18. CASE WipeDelete
  <2>0. PICK failed \in SUBSET wipe.page :
          /\ IF failed = {} THEN UNCHANGED faults ELSE Fault
          /\ wipe' = [wipe EXCEPT !.phase = "rows", !.page = wipe.page \ failed]
    BY <1>18 DEF WipeDelete, WipedKeys
  <2>1. wipe' \in WipeRuns /\ faults' \in Nat
    <3>1. wipe.page \ failed \in SUBSET ReportKeys
      OBVIOUS
    <3>2. [wipe EXCEPT !.phase = "rows", !.page = wipe.page \ failed] \in WipeRuns
      BY <3>1 DEF WipeRuns
    <3>3. faults' \in Nat
      BY <2>0 DEF Fault
    <3> QED BY <2>0, <3>2, <3>3
  <2>2. bucket' \in [ReportKeys -> 0..puts]
    BY <1>18 DEF WipeDelete
  <2> QED BY <1>18, <2>1, <2>2 DEF WipeDelete, WipeRuns
<1>19. CASE WipeRows
  <2>1. wipe' \in WipeRuns
    BY <1>19 DEF WipeRows, WipeRuns
  <2>2. index' \in [ReportKeys -> 0..puts]
    BY <1>19 DEF WipeRows
  <2> QED BY <1>19, <2>1, <2>2 DEF WipeRows, WipeRuns
<1>20. CASE UNCHANGED vars
  BY <1>20 DEF vars
<1> QED
  BY <1>1, <1>2, <1>3, <1>4, <1>5, <1>6, <1>7, <1>8, <1>9, <1>10, <1>11, <1>12,
     <1>13, <1>14, <1>15, <1>16, <1>17, <1>18, <1>19, <1>20
  DEF Next, World, DrainStep, ReconcileStep, WipeNext

-------------------------------------------------------------------------------
(* Nothing announced is forgotten.                                         *)

LEMMA EventsNext ==
  TypeOK /\ DrainInv /\ NoEventLost /\ [Next]_vars => DrainInv' /\ NoEventLost'
<1> SUFFICES ASSUME TypeOK, DrainInv, NoEventLost, [Next]_vars
             PROVE  DrainInv' /\ NoEventLost'
  OBVIOUS
<1> USE DEF DrainInv, NoEventLost, s3Vars, passVars, indexVars
<1>1. ASSUME NEW k \in Kinds, Put(k) PROVE DrainInv' /\ NoEventLost'
  <2>1. puts \in Nat /\ puts' = puts + 1
    BY <1>1 DEF Put, TypeOK, Versions
  <2>2. \A m \in 1..puts' : m \in 1..puts \/ m = puts'
    BY <2>1
  <2>3. queue \subseteq queue' /\ lost \subseteq lost' /\ puts' \in queue' \cup lost'
    BY <1>1 DEF Put
  <2> QED BY <1>1, <2>2, <2>3 DEF Put
<1>2. CASE Record
  BY <1>2 DEF Record
<1>3. CASE DeleteBatch
  \* What leaves the queue is part of a batch that has been recorded.
  <2>1. drain.batch \subseteq recorded /\ queue \ drain.batch \subseteq queue'
    BY <1>3 DEF DeleteBatch, ReadyToDelete
  <2> QED BY <1>3, <2>1 DEF DeleteBatch
<1>4. CASE DrainStart \/ DrainEnd \/ DrainDies
  <2>1. drain'.phase # "delete"
    BY <1>4 DEF DrainStart, DrainEnd, DrainDies, IdleDrain
  <2> QED BY <1>4, <2>1 DEF DrainStart, DrainEnd, DrainDies
<1>5. ASSUME NEW B \in SUBSET queue, Receive(B) PROVE DrainInv' /\ NoEventLost'
  BY <1>5 DEF Receive, TypeOK
<1>6. CASE StopReceiving \/ RemovePass
  <2>1. drain'.phase # "delete"
    BY <1>6 DEF StopReceiving, RemovePass, TypeOK
  <2> QED BY <1>6, <2>1 DEF StopReceiving, RemovePass
<1>7. ASSUME NEW n \in PassIds, ApplyPass(n) PROVE DrainInv' /\ NoEventLost'
  BY <1>7 DEF ApplyPass, TypeOK
<1>8. ASSUME UNCHANGED <<puts, queue, lost, recorded, drain>>
      PROVE  DrainInv' /\ NoEventLost'
  BY <1>8
<1>9. ASSUME Age \/ (\E n \in PassIds, K \in SUBSET ReportKeys : Sweep(n, K))
               \/ (\E k \in ReportKeys : Expire(k))
      PROVE  UNCHANGED <<puts, queue, lost, recorded, drain>>
  BY <1>9 DEF Age, Sweep, Expire
<1>10. ASSUME ReconcileStart \/ ReconcileStep \/ ReconcileDies
       PROVE  UNCHANGED <<puts, queue, lost, recorded, drain>>
  BY <1>10 DEF ReconcileStart, ReconcileStep, ReconcileDies, ListPage, ReadIndex,
               ReconcileCommit
<1>11. ASSUME WipeNext
       PROVE  UNCHANGED <<puts, queue, lost, recorded, drain>>
  BY <1>11 DEF WipeNext, WipeStart, WipePage, WipeDelete, WipeRows, WipeEnd, WipeDies
<1> QED
  BY <1>1, <1>2, <1>3, <1>4, <1>5, <1>6, <1>7, <1>8, <1>9, <1>10, <1>11
  DEF Next, World, DrainStep, vars

-------------------------------------------------------------------------------
(* How the bucket moves under what the modes remember of it.               *)

\* Whatever a step does, a key of the bucket ends as it was, absent, or
\* newer than every put so far; and time does not run back.
LEMMA BucketMoves ==
  ASSUME TypeOK, [Next]_vars, NEW k \in ReportKeys
  PROVE  /\ bucket'[k] = bucket[k] \/ bucket'[k] = 0 \/ bucket'[k] > puts
         /\ puts' >= puts
<1> USE DEF TypeOK, Versions
<1>1. ASSUME NEW q \in Kinds, Put(q)
      PROVE  (bucket'[k] = bucket[k] \/ bucket'[k] > puts) /\ puts' >= puts
  BY <1>1 DEF Put
<1>2. ASSUME NEW n \in PassIds, NEW K \in SUBSET ReportKeys, Sweep(n, K)
      PROVE  (bucket'[k] = bucket[k] \/ bucket'[k] = 0) /\ puts' = puts
  BY <1>2 DEF Sweep
<1>3. ASSUME NEW q \in ReportKeys, Expire(q)
      PROVE  (bucket'[k] = bucket[k] \/ bucket'[k] = 0) /\ puts' = puts
  BY <1>3 DEF Expire
<1>4. CASE WipeDelete
  BY <1>4 DEF WipeDelete
<1>5. ASSUME DrainStart \/ DrainStep \/ DrainDies \/ (\E B \in SUBSET queue : Receive(B))
      PROVE  UNCHANGED <<bucket, puts>>
  BY <1>5 DEF DrainStart, DrainStep, DrainDies, Receive, Record, DeleteBatch,
              StopReceiving, ApplyPass, RemovePass, DrainEnd, s3Vars
<1>6. ASSUME ReconcileStart \/ ReconcileStep \/ ReconcileDies
      PROVE  UNCHANGED <<bucket, puts>>
  BY <1>6 DEF ReconcileStart, ReconcileStep, ReconcileDies, ListPage, ReadIndex,
              ReconcileCommit, s3Vars
<1>7. ASSUME WipeNext, ~ WipeDelete PROVE UNCHANGED <<bucket, puts>>
  BY <1>7 DEF WipeNext, WipeStart, WipePage, WipeRows, WipeEnd, WipeDies, s3Vars
<1>8. ASSUME Age \/ UNCHANGED vars PROVE UNCHANGED <<bucket, puts>>
  BY <1>8 DEF Age, vars
<1> QED BY <1>1, <1>2, <1>3, <1>4, <1>5, <1>6, <1>7, <1>8 DEF Next, World

LEMMA RecNext == TypeOK /\ RecInv /\ [Next]_vars => RecInv'
<1> SUFFICES ASSUME TypeOK, RecInv, [Next]_vars PROVE RecInv'
  OBVIOUS
<1> USE DEF TypeOK, Versions, RecInv
<1>1. CASE UNCHANGED rec
  <2> SUFFICES ASSUME rec.phase # "idle", NEW k \in ReportKeys \ rec.todo,
                      rec.listed[k] = 0
               PROVE  bucket'[k] = 0 \/ bucket'[k] > rec.start
    BY <1>1
  <2>1. bucket[k] = 0 \/ bucket[k] > rec.start
    OBVIOUS
  <2>2. bucket'[k] = bucket[k] \/ bucket'[k] = 0 \/ bucket'[k] > puts
    BY BucketMoves
  <2>3. bucket' [k] \in Nat /\ rec.start \in 0..puts
    BY TypeNext
  <2> QED BY <2>1, <2>2, <2>3
<1>2. CASE ReconcileStart
  <2>1. rec'.todo = ReportKeys /\ rec'.phase = "list"
    BY <1>2 DEF ReconcileStart, IdleRec
  <2> QED BY <2>1
<1>3. ASSUME NEW k \in ReportKeys, ListPage(k) PROVE RecInv'
  <2>1. rec' = [rec EXCEPT !.todo = @ \ {k}, !.listed[k] = bucket[k]]
    BY <1>3 DEF ListPage
  <2>2. /\ rec'.phase = "list" /\ rec'.todo = rec.todo \ {k}
        /\ rec'.start = rec.start
        /\ rec'.listed = [rec.listed EXCEPT ![k] = bucket[k]]
    BY <1>3, <2>1 DEF ListPage
  <2>3. bucket' = bucket /\ rec.phase = "list"
    BY <1>3 DEF ListPage, s3Vars
  <2> QED BY <2>2, <2>3
<1>4. CASE ReadIndex
  <2>1. /\ rec'.phase = "commit" /\ rec'.todo = {} /\ rec.todo = {}
        /\ rec'.start = rec.start /\ rec'.listed = rec.listed
        /\ bucket' = bucket /\ rec.phase = "list"
    BY <1>4 DEF ReadIndex, LastPage, s3Vars
  <2> QED BY <2>1
<1>5. CASE ReconcileCommit \/ ReconcileDies
  <2>1. rec'.phase = "idle"
    BY <1>5 DEF ReconcileCommit, ReconcileDies, IdleRec
  <2> QED BY <2>1
<1>6. ASSUME World \/ DrainStart \/ DrainStep \/ DrainDies
               \/ (\E B \in SUBSET queue : Receive(B))
      PROVE  UNCHANGED rec
  BY <1>6 DEF World, Put, Age, Sweep, Expire, DrainStart, DrainStep, DrainDies,
              Receive, Record, DeleteBatch, StopReceiving, ApplyPass, RemovePass,
              DrainEnd
<1>7. ASSUME WipeNext PROVE UNCHANGED rec
  BY <1>7 DEF WipeNext, WipeStart, WipePage, WipeDelete, WipeRows, WipeEnd, WipeDies
<1> QED
  BY <1>1, <1>2, <1>3, <1>4, <1>5, <1>6, <1>7 DEF Next, ReconcileStep, vars

LEMMA PassNext == TypeOK /\ PassInv /\ [Next]_vars => PassInv'
<1> SUFFICES ASSUME TypeOK, PassInv, [Next]_vars PROVE PassInv'
  OBVIOUS
<1> USE DEF TypeOK, Versions, PassInv
<1>1. CASE UNCHANGED <<passKeys, takenAt>>
  <2> SUFFICES ASSUME NEW n \in PassIds, NEW k \in passKeys[n]
               PROVE  bucket'[k] = 0 \/ bucket'[k] > takenAt[n]
    BY <1>1
  <2>1. k \in ReportKeys /\ takenAt[n] \in 0..puts /\ bucket[k] \in Nat
    OBVIOUS
  <2>2. bucket[k] = 0 \/ bucket[k] > takenAt[n]
    OBVIOUS
  <2>3. bucket'[k] = bucket[k] \/ bucket'[k] = 0 \/ bucket'[k] > puts
    BY <2>1, BucketMoves
  <2>4. bucket'[k] \in Nat
    BY <2>1, TypeNext
  <2> QED BY <2>1, <2>2, <2>3, <2>4
<1>2. ASSUME NEW n \in PassIds, NEW K \in SUBSET ReportKeys, Sweep(n, K)
      PROVE  PassInv'
  BY <1>2 DEF Sweep
<1>3. ASSUME ~ \E n \in PassIds, K \in SUBSET ReportKeys : Sweep(n, K)
      PROVE  UNCHANGED <<passKeys, takenAt>>
  <2>1. CASE World
    BY <1>3, <2>1 DEF World, Put, Age, Expire, passVars
  <2>2. CASE DrainStart \/ DrainStep \/ DrainDies \/ \E B \in SUBSET queue : Receive(B)
    BY <2>2 DEF DrainStart, DrainStep, DrainDies, Receive, Record, DeleteBatch,
                StopReceiving, ApplyPass, RemovePass, DrainEnd, passVars
  <2>3. CASE ReconcileStart \/ ReconcileStep \/ ReconcileDies
    BY <2>3 DEF ReconcileStart, ReconcileStep, ReconcileDies, ListPage, ReadIndex,
                ReconcileCommit, passVars
  <2>4. CASE WipeNext
    BY <2>4 DEF WipeNext, WipeStart, WipePage, WipeDelete, WipeRows, WipeEnd,
                WipeDies, passVars
  <2> QED BY <2>1, <2>2, <2>3, <2>4 DEF Next, vars
<1> QED BY <1>1, <1>2, <1>3

LEMMA WipeInvNext == TypeOK /\ WipeInv /\ [Next]_vars => WipeInv'
<1> SUFFICES ASSUME TypeOK, WipeInv, [Next]_vars PROVE WipeInv'
  OBVIOUS
<1> USE DEF TypeOK, Versions, WipeInv
<1>1. CASE UNCHANGED wipe
  <2> SUFFICES ASSUME wipe.phase = "rows", NEW k \in wipe.page
               PROVE  bucket'[k] = 0 \/ bucket'[k] > wipe.start
    BY <1>1
  <2>1. k \in ReportKeys /\ wipe.start \in 0..puts /\ bucket[k] \in Nat
    OBVIOUS
  <2>2. bucket[k] = 0 \/ bucket[k] > wipe.start
    OBVIOUS
  <2>3. bucket'[k] = bucket[k] \/ bucket'[k] = 0 \/ bucket'[k] > puts
    BY <2>1, BucketMoves
  <2>4. bucket'[k] \in Nat
    BY <2>1, TypeNext
  <2> QED BY <2>1, <2>2, <2>3, <2>4
<1>2. CASE WipeDelete
  <2>1. \A k \in wipe'.page : bucket'[k] = 0
    <3>1. wipe'.page \subseteq ReportKeys
      BY TypeNext
    <3> QED BY <1>2, <3>1 DEF WipeDelete, WipedKeys
  <2> QED BY <2>1
<1>3. ASSUME WipeNext, ~ WipeDelete PROVE wipe'.phase # "rows"
  <2>1. CASE WipeStart
    BY <2>1 DEF WipeStart, IdleWipe
  <2>2. ASSUME NEW K \in SUBSET ReportKeys, WipePage(K) PROVE wipe'.phase # "rows"
    BY <2>2 DEF WipePage
  <2>3. CASE WipeRows
    BY <2>3 DEF WipeRows
  <2>4. CASE WipeEnd \/ WipeDies
    BY <2>4 DEF WipeEnd, WipeDies, IdleWipe
  <2> QED BY <1>3, <2>1, <2>2, <2>3, <2>4 DEF WipeNext
<1>4. ASSUME ~ WipeNext PROVE UNCHANGED wipe
  <2>1. CASE World
    BY <2>1 DEF World, Put, Age, Sweep, Expire
  <2>2. CASE DrainStart \/ DrainStep \/ DrainDies \/ \E B \in SUBSET queue : Receive(B)
    BY <2>2 DEF DrainStart, DrainStep, DrainDies, Receive, Record, DeleteBatch,
                StopReceiving, ApplyPass, RemovePass, DrainEnd
  <2>3. CASE ReconcileStart \/ ReconcileStep \/ ReconcileDies
    BY <2>3 DEF ReconcileStart, ReconcileStep, ReconcileDies, ListPage, ReadIndex,
                ReconcileCommit
  <2> QED BY <1>4, <2>1, <2>2, <2>3 DEF Next, vars
<1> QED BY <1>1, <1>2, <1>3, <1>4

LEMMA IInvNext == IInv /\ [Next]_vars => IInv'
  BY TypeNext, EventsNext, RecNext, PassNext, WipeInvNext DEF IInv

-------------------------------------------------------------------------------
\* Every variable stays in its domain.
THEOREM TypeCorrect == Spec => []TypeOK
<1>1. IInv => TypeOK
  BY DEF IInv
<1> QED BY <1>1, IInvInit, IInvNext, PTL DEF Spec

\* An announcement the queue took is in the queue until its rows are
\* committed, through any crashes, failed deletes and repeats.
THEOREM NoAnnouncementLost == Spec => []NoEventLost
<1>1. IInv => NoEventLost
  BY DEF IInv
<1> QED BY <1>1, IInvInit, IInvNext, PTL DEF Spec

\* The cross-check never drops the row of an object that was in the bucket
\* throughout its listing.
THEOREM CrossCheckSparesStanding == Spec => PruneSparesStanding
<1> DEFINE Spares ==
      ReconcileCommit =>
        \A k \in ReportKeys :
           index[k] # 0 /\ index'[k] = 0 /\ bucket[k] # 0 => bucket[k] > rec.start
<1>1. IInv /\ [Next]_vars => [Spares]_vars
  <2> SUFFICES ASSUME IInv, ReconcileCommit, NEW k \in ReportKeys,
                      index[k] # 0, index'[k] = 0, bucket[k] # 0
               PROVE  bucket[k] > rec.start
    OBVIOUS
  <2>1. index'[k] = IF k \in Gone THEN 0
                    ELSE IF k \in Unheard /\ index[k] = 0 THEN rec.listed[k]
                    ELSE index[k]
    BY DEF ReconcileCommit, Mended
  <2>2. rec.listed[k] = 0
    BY <2>1 DEF Gone, Present, IInv, TypeOK
  <2>3. rec.phase = "commit" /\ rec.todo = {}
    BY DEF ReconcileCommit, IInv, RecInv
  <2> QED BY <2>2, <2>3 DEF IInv, RecInv
<1> QED BY <1>1, IInvInit, IInvNext, PTL DEF Spec, PruneSparesStanding

\* A pass record retires no row of an object older than the sweep it reports.
THEOREM PassesRetireOnlyTaken == Spec => RetiresOnlyTaken
<1> DEFINE Spares ==
      \A n \in PassIds : ApplyPass(n) =>
        \A k \in ReportKeys :
           index[k] # 0 /\ index'[k] = 0 /\ bucket[k] # 0 => bucket[k] > takenAt[n]
<1>1. IInv /\ [Next]_vars => [Spares]_vars
  <2> SUFFICES ASSUME IInv, NEW n \in PassIds, ApplyPass(n), NEW k \in ReportKeys,
                      index[k] # 0, index'[k] = 0, bucket[k] # 0
               PROVE  bucket[k] > takenAt[n]
    OBVIOUS
  <2>1. k \in passKeys[n]
    BY DEF ApplyPass, Retired
  <2> QED BY <2>1 DEF IInv, PassInv
<1> QED BY <1>1, IInvInit, IInvNext, PTL DEF Spec, RetiresOnlyTaken

\* A wipe takes no row of an object that outlived it and is older than it.
THEOREM WipesKeepSurvivors == Spec => WipeKeepsSurvivors
<1> DEFINE Spares ==
      WipeRows =>
        \A k \in ReportKeys :
           index[k] # 0 /\ index'[k] = 0 /\ bucket[k] # 0 => bucket[k] > wipe.start
<1>1. IInv /\ [Next]_vars => [Spares]_vars
  <2> SUFFICES ASSUME IInv, WipeRows, NEW k \in ReportKeys,
                      index[k] # 0, index'[k] = 0, bucket[k] # 0
               PROVE  bucket[k] > wipe.start
    OBVIOUS
  <2>1. k \in wipe.page /\ wipe.phase = "rows"
    BY DEF WipeRows
  <2> QED BY <2>1 DEF IInv, WipeInv
<1> QED BY <1>1, IInvInit, IInvNext, PTL DEF Spec, WipeKeepsSurvivors

-------------------------------------------------------------------------------
(* Status writes.                                                          *)

Counted == {m \in recorded : keyOf[m] = Status}

StatusInv == statusWrites >= Cardinality(Counted)

LEMMA FiniteSubsets ==
  ASSUME TypeOK, NEW S \in SUBSET (1..puts)
  PROVE  IsFiniteSet(S) /\ Cardinality(S) \in Nat
<1>1. IsFiniteSet(1..puts)
  BY FS_Interval DEF TypeOK, Versions
<1>2. IsFiniteSet(S)
  BY <1>1, FS_Subset
<1> QED BY <1>2, FS_CardinalityType

LEMMA StatusInvNext == TypeOK /\ StatusInv /\ [Next]_vars => StatusInv'
<1> SUFFICES ASSUME TypeOK, StatusInv, [Next]_vars PROVE StatusInv'
  OBVIOUS
<1>1. CASE Record
  <2> DEFINE B == About(drain.batch, Status)
  <2>1. Counted' = Counted \cup B
    BY <1>1 DEF Record, Counted, About, s3Vars
  <2>2. Counted \in SUBSET (1..puts) /\ B \in SUBSET (1..puts)
        /\ Counted \cap B \in SUBSET (1..puts)
    BY DEF TypeOK, Counted, About
  <2>3. /\ IsFiniteSet(Counted) /\ Cardinality(Counted) \in Nat
        /\ IsFiniteSet(B) /\ Cardinality(B) \in Nat
        /\ Cardinality(Counted \cap B) \in Nat
    BY <2>2, FiniteSubsets
  <2> HIDE DEF B
  <2>4. Cardinality(Counted \cup B)
          = Cardinality(Counted) + Cardinality(B) - Cardinality(Counted \cap B)
    BY <2>3, FS_Union
  <2>5. statusWrites' = statusWrites + Cardinality(B)
    BY <1>1 DEF Record, StatusCount, B
  <2> QED BY <2>1, <2>3, <2>4, <2>5 DEF StatusInv, TypeOK
<1>2. ASSUME NEW k \in Kinds, Put(k) PROVE StatusInv'
  <2>1. puts' \notin recorded
    BY <1>2 DEF Put, TypeOK, Versions
  <2>2. \A m \in recorded : keyOf'[m] = keyOf[m]
    BY <1>2, <2>1 DEF Put, TypeOK, Puts
  <2>3. recorded' = recorded /\ statusWrites' = statusWrites
    BY <1>2 DEF Put, indexVars
  <2>4. Counted' = Counted
    BY <2>2, <2>3 DEF Counted
  <2> QED BY <2>3, <2>4 DEF StatusInv
<1>3. ASSUME UNCHANGED <<statusWrites, recorded, keyOf>> PROVE StatusInv'
  BY <1>3 DEF StatusInv, Counted
<1>4. ASSUME [Next]_vars, ~ Record, ~ \E k \in Kinds : Put(k)
      PROVE  UNCHANGED <<statusWrites, recorded, keyOf>>
  <2>1. CASE World
    BY <1>4, <2>1 DEF World, Age, Sweep, Expire, indexVars
  <2>2. CASE DrainStart \/ DrainStep \/ DrainDies \/ \E B \in SUBSET queue : Receive(B)
    BY <1>4, <2>2 DEF DrainStart, DrainStep, DrainDies, Receive, DeleteBatch,
                StopReceiving, ApplyPass, RemovePass, DrainEnd, indexVars, s3Vars
  <2>3. CASE ReconcileStart \/ ReconcileStep \/ ReconcileDies
    BY <2>3 DEF ReconcileStart, ReconcileStep, ReconcileDies, ListPage, ReadIndex,
                ReconcileCommit, indexVars, s3Vars
  <2>4. CASE WipeNext
    BY <2>4 DEF WipeNext, WipeStart, WipePage, WipeDelete, WipeRows, WipeEnd,
                WipeDies, indexVars, s3Vars
  <2> QED BY <1>4, <2>1, <2>2, <2>3, <2>4 DEF Next, vars
<1> QED BY <1>1, <1>2, <1>3, <1>4

\* Status writes are never under-counted, whatever crashes or comes twice.
THEOREM StatusCounted == Spec => []StatusNeverUnderCounted
<1>1. Init => StatusInv
  <2> SUFFICES ASSUME Init PROVE StatusInv
    OBVIOUS
  <2>1. Counted = {}
    BY DEF Init, Counted
  <2> QED BY <2>1, FS_EmptySet DEF Init, StatusInv
<1>2. IInv /\ StatusInv /\ [Next]_vars => (IInv /\ StatusInv)'
  BY IInvNext, StatusInvNext DEF IInv
<1>3. IInv /\ StatusInv => StatusNeverUnderCounted
  <2> SUFFICES ASSUME IInv, StatusInv PROVE StatusNeverUnderCounted
    OBVIOUS
  <2> DEFINE S == {m \in 1..puts \ (queue \cup lost) : keyOf[m] = Status}
  <2>1. S \subseteq Counted
    BY DEF IInv, NoEventLost, Counted
  <2>2. Counted \in SUBSET (1..puts) /\ S \in SUBSET (1..puts)
    BY DEF IInv, TypeOK, Counted
  <2>3. /\ IsFiniteSet(Counted) /\ Cardinality(Counted) \in Nat
        /\ Cardinality(S) \in Nat
    BY <2>2, FiniteSubsets DEF IInv
  <2>4. Cardinality(S) <= Cardinality(Counted)
    BY <2>1, <2>3, FS_Subset
  <2> QED BY <2>3, <2>4 DEF StatusInv, StatusNeverUnderCounted, IInv, TypeOK
<1> QED BY <1>1, <1>2, <1>3, IInvInit, PTL DEF Spec
-------------------------------------------------------------------------------
(* A calm key settles.  drain holds only what the queue and the spool hold *)
(* too, so that a key nobody there speaks of is safe from it.              *)
DrainHolds ==
    /\ drain.phase \in {"record", "delete"} => drain.batch \subseteq queue
    /\ \A n \in drain.todo : passState[n] \in {"spooled", "applied"}
    /\ drain.phase = "unlink" =>
          /\ drain.cur \in PassIds \ drain.todo
          /\ passState[drain.cur] \in {"spooled", "applied"}

LEMMA DrainHoldsNext == TypeOK /\ DrainHolds /\ [Next]_vars => DrainHolds'
<1> SUFFICES ASSUME TypeOK, DrainHolds, [Next]_vars PROVE DrainHolds'
  OBVIOUS
<1> USE DEF DrainHolds
<1>1. ASSUME NEW k \in Kinds, Put(k) PROVE DrainHolds'
  <2>1. queue \subseteq queue' /\ UNCHANGED <<drain, passState>>
    BY <1>1 DEF Put, passVars
  <2> QED BY <2>1
<1>2. ASSUME NEW n \in PassIds, NEW K \in SUBSET ReportKeys, Sweep(n, K) PROVE DrainHolds'
  <2>1. /\ UNCHANGED <<drain, queue>>
        /\ passState[n] = "none"
        /\ \A p \in PassIds \ {n} : passState'[p] = passState[p]
    BY <1>2 DEF Sweep, TypeOK
  <2>2. drain.todo \subseteq PassIds
    BY DEF TypeOK
  <2> QED BY <2>1, <2>2
<1>3. ASSUME DrainStart \/ DrainEnd \/ DrainDies PROVE DrainHolds'
  BY <1>3 DEF DrainStart, DrainEnd, DrainDies, IdleDrain
<1>4. ASSUME NEW B \in SUBSET queue, Receive(B) PROVE DrainHolds'
  BY <1>4 DEF Receive, TypeOK, passVars
<1>5. CASE Record
  BY <1>5 DEF Record, TypeOK, passVars
<1>6. CASE DeleteBatch
  BY <1>6 DEF DeleteBatch, TypeOK, passVars
<1>7. CASE StopReceiving
  BY <1>7 DEF StopReceiving, TypeOK, passVars
<1>8. ASSUME NEW n \in PassIds, ApplyPass(n) PROVE DrainHolds'
  BY <1>8 DEF ApplyPass, TypeOK
<1>9. CASE RemovePass
  BY <1>9 DEF RemovePass, TypeOK
<1>10. ASSUME UNCHANGED <<queue, passState, drain>> PROVE DrainHolds'
  BY <1>10
<1>11. ASSUME \/ Age \/ (\E k \in ReportKeys : Expire(k))
              \/ ReconcileStart \/ ReconcileStep \/ ReconcileDies \/ UNCHANGED vars
       PROVE  UNCHANGED <<queue, passState, drain>>
  BY <1>11 DEF Age, Expire, ReconcileStart, ReconcileStep, ReconcileDies, ListPage,
               ReadIndex, ReconcileCommit, vars, passVars
<1>12. ASSUME WipeNext PROVE UNCHANGED <<queue, passState, drain>>
  BY <1>12 DEF WipeNext, WipeStart, WipePage, WipeDelete, WipeRows, WipeEnd, WipeDies, passVars
<1> QED
  BY <1>1, <1>2, <1>3, <1>4, <1>5, <1>6, <1>7, <1>8, <1>9, <1>10, <1>11, <1>12
  DEF Next, World, DrainStep

\* What any mode does to the row of a calm key makes it agree.
LEMMA CalmRow ==
  ASSUME IInv, DrainHolds, [Next]_vars, NEW k \in ReportKeys, Calm(k),
         bucket'[k] = bucket[k]
  PROVE  index'[k] = index[k] \/ Agrees(k)'
<1> USE DEF IInv, Agrees
<1>1. CASE Record
  <2>1. /\ drain.batch \subseteq queue
        /\ index'[k] = index[k] \/ index'[k] \in About(drain.batch, k)
    BY <1>1 DEF Record, Upserts, DrainHolds
  <2>2. ASSUME index'[k] \in About(drain.batch, k) PROVE bucket[k] # 0 /\ index'[k] # 0
    BY <2>1, <2>2 DEF About, Calm, NoStaleNews, TypeOK, Versions
  <2> QED BY <2>1, <2>2
<1>2. ASSUME NEW n \in PassIds, ApplyPass(n) PROVE index'[k] = index[k] \/ Agrees(k)'
  <2>1. passState[n] \in {"spooled", "applied"}
    BY <1>2 DEF ApplyPass, DrainHolds
  <2>2. k \in passKeys[n] => bucket[k] = 0
    BY <2>1 DEF Calm, NoStalePass
  <2>3. index'[k] = IF k \in passKeys[n] THEN 0 ELSE index[k]
    BY <1>2 DEF ApplyPass, Retired
  <2> QED BY <2>2, <2>3
<1>3. CASE ReconcileCommit
  <2>1. rec.listed[k] = bucket[k]
    BY <1>3 DEF ReconcileCommit, RecInv, Calm, ListedTruly
  <2>2. index'[k] = IF k \in Gone THEN 0
                    ELSE IF k \in Unheard /\ index[k] = 0 THEN rec.listed[k]
                    ELSE index[k]
    BY <1>3 DEF ReconcileCommit, Mended
  <2> QED BY <2>1, <2>2 DEF Gone, Unheard, Present
<1>4. CASE WipeRows
  <2>1. k \in wipe.page => bucket[k] = 0
    BY <1>4 DEF WipeRows, Calm, NoStaleWipe
  <2>2. index'[k] = IF k \in wipe.page THEN 0 ELSE index[k]
    BY <1>4 DEF WipeRows
  <2> QED BY <2>1, <2>2
<1>5. ASSUME World \/ DrainStart \/ DrainDies \/ (\E B \in SUBSET queue : Receive(B))
      PROVE  index' = index
  BY <1>5 DEF World, Put, Age, Sweep, Expire, DrainStart, DrainDies, Receive, indexVars
<1>6. ASSUME DeleteBatch \/ StopReceiving \/ RemovePass \/ DrainEnd PROVE index' = index
  BY <1>6 DEF DeleteBatch, StopReceiving, RemovePass, DrainEnd, indexVars
<1>7. ASSUME \/ ReconcileStart \/ ReadIndex \/ ReconcileDies
             \/ \E q \in ReportKeys : ListPage(q)
      PROVE  index' = index
  BY <1>7 DEF ReconcileStart, ReadIndex, ReconcileDies, ListPage, indexVars
<1>8. ASSUME WipeNext, ~ WipeRows PROVE index' = index
  BY <1>8 DEF WipeNext, WipeStart, WipePage, WipeDelete, WipeEnd, WipeDies, indexVars
<1> QED BY <1>1, <1>2, <1>3, <1>4, <1>5, <1>6, <1>7, <1>8
        DEF Next, DrainStep, ReconcileStep, vars

\* No news, pass record or wiped page comes to speak against it.
LEMMA CalmWorld ==
  ASSUME IInv, DrainHolds, [Next]_vars, NEW k \in ReportKeys, Calm(k),
         bucket'[k] = bucket[k]
  PROVE  NoStaleNews(k)' /\ NoStalePass(k)' /\ NoStaleWipe(k)'
<1> USE DEF IInv
<1>1. \A m \in queue' : keyOf'[m] # k \/ (m \in queue /\ keyOf[m] = k)
  <2>1. ASSUME NEW q \in Kinds, Put(q), NEW m \in queue', keyOf'[m] = k
        PROVE  m \in queue /\ keyOf[m] = k
    <3>1. /\ puts \in Nat /\ puts' = puts + 1 /\ puts' \in Puts
          /\ keyOf' = [keyOf EXCEPT ![puts'] = q]
      BY <2>1, BoundsAssumption DEF Put, TypeOK, Versions, Puts
    <3>0. queue' \subseteq queue \cup {puts'}
      BY <2>1 DEF Put
    <3>2. bucket[k] <= puts /\ \A i \in queue : i # puts'
      BY <3>1 DEF TypeOK
    <3>3. q # k
      <4>1. q \in ReportKeys => bucket' = [bucket EXCEPT ![q] = puts']
        BY <2>1 DEF Put
      <4> QED BY <3>1, <3>2, <4>1 DEF TypeOK
    <3> QED BY <2>1, <3>0, <3>1, <3>2, <3>3 DEF TypeOK
  <2>2. CASE DeleteBatch
    <3>1. drain.batch \subseteq queue
      BY <2>2 DEF DeleteBatch, ReadyToDelete, DrainHolds
    <3>2. queue' \subseteq queue /\ keyOf' = keyOf
      BY <2>2, <3>1 DEF DeleteBatch, s3Vars
    <3> QED BY <3>2
  <2>3. ASSUME UNCHANGED <<queue, keyOf>>
        PROVE  \A m \in queue' : keyOf'[m] # k \/ (m \in queue /\ keyOf[m] = k)
    BY <2>3
  <2>4. ASSUME \/ Age \/ (\E n \in PassIds, K \in SUBSET ReportKeys : Sweep(n, K))
               \/ (\E q \in ReportKeys : Expire(q))
               \/ DrainStart \/ DrainDies \/ (\E B \in SUBSET queue : Receive(B))
               \/ Record \/ StopReceiving \/ (\E n \in PassIds : ApplyPass(n))
               \/ RemovePass \/ DrainEnd \/ UNCHANGED vars
        PROVE  UNCHANGED <<queue, keyOf>>
    BY <2>4 DEF Age, Sweep, Expire, DrainStart, DrainDies, Receive, Record, StopReceiving,
                ApplyPass, RemovePass, DrainEnd, vars, s3Vars
  <2>5. ASSUME ReconcileStart \/ ReconcileStep \/ ReconcileDies \/ WipeNext
        PROVE  UNCHANGED <<queue, keyOf>>
    BY <2>5 DEF ReconcileStart, ReconcileStep, ReconcileDies, ListPage, ReadIndex,
                ReconcileCommit, WipeNext, WipeStart, WipePage, WipeDelete, WipeRows,
                WipeEnd, WipeDies, s3Vars
  <2> QED BY <2>1, <2>2, <2>3, <2>4, <2>5 DEF Next, World, DrainStep
<1>2. \A n \in PassIds :
         passState'[n] \in {"spooled", "applied"} /\ k \in passKeys'[n] =>
            \/ bucket'[k] = 0
            \/ passState[n] \in {"spooled", "applied"} /\ k \in passKeys[n]
  <2>1. ASSUME NEW p \in PassIds, NEW K \in SUBSET ReportKeys, Sweep(p, K)
        PROVE  /\ \A n \in PassIds \ {p} : passState'[n] = passState[n] /\ passKeys'[n] = passKeys[n]
               /\ k \in passKeys'[p] => bucket'[k] = 0
    BY <2>1 DEF Sweep, TypeOK
  <2>2. ASSUME NEW p \in PassIds, ApplyPass(p)
        PROVE  /\ passState[p] \in {"spooled", "applied"}
               /\ \A n \in PassIds \ {p} : passState'[n] = passState[n]
               /\ passKeys' = passKeys
    BY <2>2 DEF ApplyPass, DrainHolds, TypeOK
  <2>3. ASSUME RemovePass
        PROVE  /\ passKeys' = passKeys
               /\ \A n \in PassIds : passState'[n] = passState[n] \/ passState'[n] = "done"
    BY <2>3 DEF RemovePass, TypeOK
  <2>4. ASSUME \/ (\E q \in Kinds : Put(q)) \/ Age \/ (\E q \in ReportKeys : Expire(q))
               \/ DrainStart \/ DrainDies \/ (\E B \in SUBSET queue : Receive(B))
               \/ Record \/ DeleteBatch \/ StopReceiving \/ DrainEnd \/ UNCHANGED vars
        PROVE  UNCHANGED <<passState, passKeys>>
    BY <2>4 DEF Put, Age, Expire, DrainStart, DrainDies, Receive, Record, DeleteBatch,
                StopReceiving, DrainEnd, vars, passVars
  <2>5. ASSUME ReconcileStart \/ ReconcileStep \/ ReconcileDies \/ WipeNext
        PROVE  UNCHANGED <<passState, passKeys>>
    BY <2>5 DEF ReconcileStart, ReconcileStep, ReconcileDies, ListPage, ReadIndex,
                ReconcileCommit, WipeNext, WipeStart, WipePage, WipeDelete, WipeRows,
                WipeEnd, WipeDies, passVars
  <2> QED BY <2>1, <2>2, <2>3, <2>4, <2>5 DEF Next, World, DrainStep
<1>3. wipe'.phase = "rows" /\ k \in wipe'.page =>
         bucket'[k] = 0 \/ (wipe.phase = "rows" /\ k \in wipe.page)
  <2>1. CASE WipeDelete
    BY <2>1 DEF WipeDelete, WipedKeys, TypeOK
  <2>2. ASSUME WipeStart \/ WipeRows \/ WipeEnd \/ WipeDies \/ (\E K \in SUBSET ReportKeys : WipePage(K))
        PROVE  wipe'.phase # "rows"
    <3>1. ASSUME WipeStart \/ WipeEnd \/ WipeDies PROVE wipe'.phase # "rows"
      <4>1. CASE wipe' = IdleWipe
        BY ONLY <4>1 DEF IdleWipe
      <4>2. CASE WipeStart
        <5>1. wipe' = [IdleWipe EXCEPT !.phase = "list", !.start = puts, !.todo = ReportKeys]
          BY <4>2 DEF WipeStart
        <5> QED BY ONLY <5>1 DEF IdleWipe
      <4> QED BY <3>1, <4>1, <4>2 DEF WipeEnd, WipeDies
    <3>2. ASSUME WipeRows \/ (\E K \in SUBSET ReportKeys : WipePage(K)) PROVE wipe'.phase # "rows"
      BY <3>2 DEF WipeRows, WipePage, TypeOK
    <3> QED BY <2>2, <3>1, <3>2
  <2>3. ASSUME World \/ DrainStart \/ DrainStep \/ DrainDies \/ (\E B \in SUBSET queue : Receive(B))
        PROVE  wipe' = wipe
    BY <2>3 DEF World, Put, Age, Sweep, Expire, DrainStart, DrainStep, DrainDies, Receive,
                Record, DeleteBatch, StopReceiving, ApplyPass, RemovePass, DrainEnd
  <2>4. ASSUME ReconcileStart \/ ReconcileStep \/ ReconcileDies \/ UNCHANGED vars
        PROVE  wipe' = wipe
    BY <2>4 DEF ReconcileStart, ReconcileStep, ReconcileDies, ListPage, ReadIndex,
                ReconcileCommit, vars
  <2> QED BY <2>1, <2>2, <2>3, <2>4 DEF Next, WipeNext
<1> QED BY <1>1, <1>2, <1>3 DEF Calm, NoStaleNews, NoStalePass, NoStaleWipe

\* What the cross-check has listed and read of it goes on being true.
LEMMA CalmListing ==
  ASSUME IInv, DrainHolds, [Next]_vars, NEW k \in ReportKeys, Calm(k),
         bucket'[k] = bucket[k]
  PROVE  ListedTruly(k)' /\ IndexedTruly(k)'
<1> USE DEF IInv, Calm, ListedTruly, IndexedTruly
<1>1. CASE rec' = rec
  BY <1>1, CalmRow DEF Agrees
<1>2. CASE ReconcileStart \/ ReconcileCommit \/ ReconcileDies
  <2>1. rec'.phase = "idle" \/ (rec'.phase = "list" /\ k \in rec'.todo)
    <3>1. CASE ReconcileStart
      <4>1. rec' = [IdleRec EXCEPT !.phase = "list", !.start = puts, !.todo = ReportKeys]
        BY <3>1 DEF ReconcileStart
      <4> QED BY ONLY <4>1, k \in ReportKeys DEF IdleRec
    <3>2. CASE ReconcileCommit \/ ReconcileDies
      BY ONLY <3>2 DEF ReconcileCommit, ReconcileDies, IdleRec
    <3> QED BY <1>2, <3>1, <3>2
  <2> QED BY <2>1
<1>3. ASSUME NEW q \in ReportKeys, ListPage(q) PROVE ListedTruly(k)' /\ IndexedTruly(k)'
  BY <1>3 DEF ListPage, TypeOK
<1>4. CASE ReadIndex
  <2>1. /\ rec'.phase = "commit" /\ rec'.todo = rec.todo /\ rec'.listed = rec.listed
        /\ rec'.indexed = Present(index) /\ index' = index /\ rec.phase # "idle"
    BY <1>4 DEF ReadIndex, TypeOK, indexVars
  <2> QED BY <2>1 DEF Present
<1>5. ASSUME World \/ DrainStart \/ DrainStep \/ DrainDies \/ (\E B \in SUBSET queue : Receive(B))
      PROVE  rec' = rec
  BY <1>5 DEF World, Put, Age, Sweep, Expire, DrainStart, DrainStep, DrainDies, Receive,
              Record, DeleteBatch, StopReceiving, ApplyPass, RemovePass, DrainEnd
<1>6. ASSUME WipeNext \/ UNCHANGED vars PROVE rec' = rec
  BY <1>6 DEF WipeNext, WipeStart, WipePage, WipeDelete, WipeRows, WipeEnd, WipeDies, vars
<1> QED BY <1>1, <1>2, <1>3, <1>4, <1>5, <1>6 DEF Next, ReconcileStep

\* The cross-check makes a calm key agree.
LEMMA CommitSettles ==
  ASSUME IInv, ReconcileCommit, NEW k \in ReportKeys, Calm(k), bucket'[k] = bucket[k],
         bucket[k] <= aged
  PROVE  Agrees(k)'
<1>1. /\ rec.listed[k] = bucket[k]
      /\ IF bucket[k] = 0 THEN index[k] # 0 => k \in rec.indexed
                          ELSE k \in rec.indexed => index[k] # 0
  BY DEF ReconcileCommit, IInv, RecInv, Calm, ListedTruly, IndexedTruly
<1>2. index'[k] = IF k \in Gone THEN 0
                  ELSE IF k \in Unheard /\ index[k] = 0 THEN rec.listed[k]
                  ELSE index[k]
  BY DEF ReconcileCommit, Mended
<1>3. CASE bucket[k] = 0
  BY <1>1, <1>2, <1>3 DEF Gone, Unheard, Present, Agrees
<1>4. CASE bucket[k] # 0
  <2>1. k \notin Gone /\ (k \in rec.indexed \/ k \in Unheard)
    BY <1>1, <1>4 DEF Gone, Unheard, Pending, Present, IInv, TypeOK
  <2> QED BY <1>1, <1>2, <1>4, <2>1 DEF Agrees
<1> QED BY <1>3, <1>4

(* A key about which nothing under way is out of date agrees from the next *)
(* cross-check on, and nothing disturbs that until its own object changes: *)
(* the steps of healing, of which EventuallyAgrees says that they happen.  *)
THEOREM CalmSettles == Spec => CalmKeysSettle
<1> DEFINE Settles ==
      \A k \in ReportKeys : Calm(k) /\ bucket'[k] = bucket[k] =>
          /\ Calm(k)'
          /\ Agrees(k) \/ (ReconcileCommit /\ bucket[k] <= aged) => Agrees(k)'
<1>1. Init => DrainHolds
  BY DEF Init, DrainHolds, IdleDrain
<1>2. IInv /\ DrainHolds /\ [Next]_vars => DrainHolds'
  BY DrainHoldsNext DEF IInv
<1>3. IInv /\ DrainHolds /\ [Next]_vars => [Settles]_vars
  <2> SUFFICES ASSUME IInv, DrainHolds, [Next]_vars, NEW k \in ReportKeys, Calm(k),
                      bucket'[k] = bucket[k]
               PROVE  /\ Calm(k)'
                      /\ Agrees(k) \/ (ReconcileCommit /\ bucket[k] <= aged) => Agrees(k)'
    OBVIOUS
  <2>1. Calm(k)'
    BY CalmWorld, CalmListing DEF Calm
  <2>2. Agrees(k) => Agrees(k)'
    BY CalmRow DEF Agrees
  <2>3. ReconcileCommit /\ bucket[k] <= aged => Agrees(k)'
    BY CommitSettles
  <2> QED BY <2>1, <2>2, <2>3
<1> QED BY <1>1, <1>2, <1>3, IInvInit, IInvNext, PTL DEF Spec, CalmKeysSettle
-------------------------------------------------------------------------------
(* Whatever is repeated, reordered or out of date, a size in the index is  *)
(* one that this very object had.                                          *)
OwnVersion(k, m) == m # 0 => keyOf[m] = k

VersionsInv ==
    \A k \in ReportKeys :
        OwnVersion(k, bucket[k]) /\ OwnVersion(k, index[k]) /\ OwnVersion(k, rec.listed[k])

LEMMA OnlyPuts ==
  ASSUME [Next]_vars, \A q \in Kinds : ~ Put(q)
  PROVE  UNCHANGED <<puts, keyOf>>
<1>1. ASSUME \/ Age \/ (\E n \in PassIds, K \in SUBSET ReportKeys : Sweep(n, K))
             \/ (\E q \in ReportKeys : Expire(q))
             \/ DrainStart \/ DrainStep \/ DrainDies \/ (\E B \in SUBSET queue : Receive(B))
      PROVE  UNCHANGED <<puts, keyOf>>
  BY <1>1 DEF Age, Sweep, Expire, DrainStart, DrainStep, DrainDies, Receive, Record,
              DeleteBatch, StopReceiving, ApplyPass, RemovePass, DrainEnd, s3Vars
<1>2. ASSUME ReconcileStart \/ ReconcileStep \/ ReconcileDies \/ WipeNext \/ UNCHANGED vars
      PROVE  UNCHANGED <<puts, keyOf>>
  BY <1>2 DEF ReconcileStart, ReconcileStep, ReconcileDies, ListPage, ReadIndex,
              ReconcileCommit, WipeNext, WipeStart, WipePage, WipeDelete, WipeRows,
              WipeEnd, WipeDies, vars, s3Vars
<1> QED BY <1>1, <1>2 DEF Next, World

LEMMA VersionsNext == TypeOK /\ VersionsInv /\ [Next]_vars => VersionsInv'
<1> SUFFICES ASSUME TypeOK, VersionsInv, [Next]_vars, NEW k \in ReportKeys
             PROVE  /\ OwnVersion(k, bucket[k])' /\ OwnVersion(k, index[k])'
                    /\ OwnVersion(k, rec.listed[k])'
  BY DEF VersionsInv
<1>k. \A m \in 1..puts : keyOf'[m] = keyOf[m]
  <2>1. ASSUME NEW q \in Kinds, Put(q) PROVE \A m \in 1..puts : keyOf'[m] = keyOf[m]
    BY <2>1 DEF Put, TypeOK, Versions, Puts
  <2> QED BY <2>1, OnlyPuts
<1>t. bucket[k] \in 0..puts /\ index[k] \in 0..puts /\ rec.listed[k] \in 0..puts
  BY DEF TypeOK
<1>o. \A m \in 0..puts : OwnVersion(k, m) => OwnVersion(k, m)'
  BY <1>k DEF OwnVersion, TypeOK, Versions
<1>i. OwnVersion(k, bucket[k])' /\ OwnVersion(k, index[k])' /\ OwnVersion(k, rec.listed[k])'
      <=> /\ bucket'[k] # 0 => keyOf'[bucket'[k]] = k
          /\ index'[k] # 0 => keyOf'[index'[k]] = k
          /\ rec'.listed[k] # 0 => keyOf'[rec'.listed[k]] = k
  BY DEF OwnVersion
\* The bucket.
<1>1. bucket'[k] # 0 => keyOf'[bucket'[k]] = k
  <2>1. ASSUME NEW q \in Kinds, Put(q), bucket'[k] # bucket[k]
        PROVE  keyOf'[bucket'[k]] = k
    <3>1. puts' \in Puts /\ keyOf' = [keyOf EXCEPT ![puts'] = q]
      BY <2>1, BoundsAssumption DEF Put, TypeOK, Versions, Puts
    <3>2. q = k /\ bucket'[k] = puts'
      BY <2>1 DEF Put, TypeOK
    <3> QED BY <3>1, <3>2 DEF TypeOK
  <2>2. ASSUME ~ (\E q \in Kinds : Put(q)) PROVE bucket'[k] = bucket[k] \/ bucket'[k] = 0
    <3>1. puts' = puts
      BY <2>2, OnlyPuts
    <3>2. bucket'[k] \in 0..puts
      BY <3>1, TypeNext DEF TypeOK
    <3> QED BY <3>2, BucketMoves DEF TypeOK, Versions
  <2>3. bucket'[k] = bucket[k] /\ bucket'[k] # 0 => keyOf'[bucket'[k]] = k
    BY <1>o, <1>t DEF VersionsInv, OwnVersion
  <2> QED BY <2>1, <2>2, <2>3
\* A row takes its size from an announcement or from a listing.
<1>2. index'[k] # 0 => keyOf'[index'[k]] = k
  <2>1. index'[k] \in {0, index[k], rec.listed[k]} \/ (index'[k] \in 1..puts /\ keyOf[index'[k]] = k)
    <3>1. CASE Record
      BY <3>1 DEF Record, Upserts, About, TypeOK
    <3>2. CASE ReconcileCommit
      BY <3>2 DEF ReconcileCommit, Mended
    <3>3. ASSUME NEW n \in PassIds, ApplyPass(n) PROVE index'[k] \in {0, index[k]}
      BY <3>3 DEF ApplyPass, Retired
    <3>4. CASE WipeRows
      BY <3>4 DEF WipeRows
    <3>5. ASSUME World \/ DrainStart \/ DrainDies \/ (\E B \in SUBSET queue : Receive(B))
          PROVE  index' = index
      BY <3>5 DEF World, Put, Age, Sweep, Expire, DrainStart, DrainDies, Receive, indexVars
    <3>6. ASSUME DeleteBatch \/ StopReceiving \/ RemovePass \/ DrainEnd PROVE index' = index
      BY <3>6 DEF DeleteBatch, StopReceiving, RemovePass, DrainEnd, indexVars
    <3>7. ASSUME \/ ReconcileStart \/ ReadIndex \/ ReconcileDies
                 \/ \E q \in ReportKeys : ListPage(q)
          PROVE  index' = index
      BY <3>7 DEF ReconcileStart, ReadIndex, ReconcileDies, ListPage, indexVars
    <3>8. ASSUME WipeNext, ~ WipeRows PROVE index' = index
      BY <3>8 DEF WipeNext, WipeStart, WipePage, WipeDelete, WipeEnd, WipeDies, indexVars
    <3> QED BY <3>1, <3>2, <3>3, <3>4, <3>5, <3>6, <3>7, <3>8
            DEF Next, DrainStep, ReconcileStep, vars
  <2>2. \A m \in {0, index[k], rec.listed[k]} : m # 0 => keyOf'[m] = k
    BY <1>o, <1>t DEF VersionsInv, OwnVersion
  <2> QED BY <1>k, <2>1, <2>2
\* A listing shows what the bucket holds.
<1>3. rec'.listed[k] # 0 => keyOf'[rec'.listed[k]] = k
  <2>1. rec'.listed[k] \in {0, rec.listed[k], bucket[k]}
    <3>1. CASE rec' = rec
      BY <3>1
    <3>2. CASE ReconcileStart
      <4>1. rec' = [IdleRec EXCEPT !.phase = "list", !.start = puts, !.todo = ReportKeys]
        BY <3>2 DEF ReconcileStart
      <4> QED BY ONLY <4>1, k \in ReportKeys DEF IdleRec, Nothing
    <3>3. CASE ReconcileCommit \/ ReconcileDies
      BY <3>3 DEF ReconcileCommit, ReconcileDies, IdleRec, Nothing
    <3>4. ASSUME NEW q \in ReportKeys, ListPage(q) PROVE rec'.listed[k] \in {rec.listed[k], bucket[k]}
      BY <3>4 DEF ListPage, TypeOK
    <3>5. CASE ReadIndex
      BY <3>5 DEF ReadIndex, TypeOK
    <3>6. ASSUME World \/ DrainStart \/ DrainStep \/ DrainDies \/ (\E B \in SUBSET queue : Receive(B))
          PROVE  rec' = rec
      BY <3>6 DEF World, Put, Age, Sweep, Expire, DrainStart, DrainStep, DrainDies, Receive,
                  Record, DeleteBatch, StopReceiving, ApplyPass, RemovePass, DrainEnd
    <3>7. ASSUME WipeNext \/ UNCHANGED vars PROVE rec' = rec
      BY <3>7 DEF WipeNext, WipeStart, WipePage, WipeDelete, WipeRows, WipeEnd, WipeDies, vars
    <3> QED BY <3>1, <3>2, <3>3, <3>4, <3>5, <3>6, <3>7 DEF Next, ReconcileStep
  <2>2. \A m \in {0, rec.listed[k], bucket[k]} : m # 0 => keyOf'[m] = k
    BY <1>o, <1>t DEF VersionsInv, OwnVersion
  <2> QED BY <2>1, <2>2
<1> QED BY <1>1, <1>2, <1>3, <1>i

(* A row never holds the size of another key's object, or one its own      *)
(* never had: the index may be out of date, and makes nothing up.          *)
THEOREM RowsHoldOwnVersions ==
    Spec => [](\A k \in ReportKeys : index[k] # 0 => keyOf[index[k]] = k)
<1>1. Init => VersionsInv
  BY DEF Init, VersionsInv, OwnVersion, Nothing, IdleRec
<1>2. VersionsInv => \A k \in ReportKeys : index[k] # 0 => keyOf[index[k]] = k
  BY DEF VersionsInv, OwnVersion
<1> QED BY <1>1, <1>2, VersionsNext, TypeCorrect, PTL DEF Spec
===============================================================================
