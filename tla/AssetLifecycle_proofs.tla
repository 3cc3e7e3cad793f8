------------------------ MODULE AssetLifecycle_proofs ------------------------
(***************************************************************************)
(* Proofs about AssetLifecycle for any number of assets and threads: its    *)
(* types, the three safety invariants and the two action properties.        *)
(***************************************************************************)
EXTENDS AssetLifecycle, TLAPS

\* The type invariant is inductive as it stands.
THEOREM TypeCorrect == Spec => []TypeOK
<1> USE BoundsAssumption, NoAssetAssumption DEF MaxAge, Daily, Kind
<1>1. Init => TypeOK
  BY DEF Init, TypeOK, Idle
<1>2. TypeOK /\ [Next]_vars => TypeOK'
  <2> SUFFICES ASSUME TypeOK, [Next]_vars PROVE TypeOK'
    OBVIOUS
  <2> USE DEF TypeOK, vars, stampVars, tableVars, s3Vars, jobVars, videoVars, dailyVars, faultVars
  <2>1. ASSUME NEW a \in Asset, Request(a) PROVE TypeOK'
    <3>1. CASE Create(a)
      BY <3>1 DEF Create
    <3>2. CASE CompleteUpload(a)
      BY <3>2 DEF CompleteUpload
    <3>3. CASE Store(a)
      BY <3>3 DEF Store
    <3>4. CASE Delete(a)
      BY <3>4 DEF Delete, Trash, Stamp
    <3>5. CASE AdminDestroy(a)
      BY <3>5 DEF AdminDestroy, Trash, Stamp, Remove
    <3>6. CASE Restore(a)
      BY <3>6 DEF Restore, Stamp
    <3>7. QED
      BY <2>1, <3>1, <3>2, <3>3, <3>4, <3>5, <3>6 DEF Request
  <2>2. ASSUME NEW a \in Asset, Callback(a) PROVE TypeOK'
    BY <2>2 DEF Callback, PingLoads, PingSaves, PingFindsNothing, Exists
  <2>3. ASSUME NEW a \in Asset, SkipProcessed(a) \/ SubmitVideo(a) \/ SkipClearance(a)
        PROVE  TypeOK'
    <3>1. CASE SkipProcessed(a)
      BY <3>1 DEF SkipProcessed, TakeJob
    <3>2. CASE SubmitVideo(a)
      BY <3>2 DEF SubmitVideo, TakeJob
    <3>3. CASE SkipClearance(a)
      BY <3>3 DEF SkipClearance
    <3>4. QED
      BY <2>3, <3>1, <3>2, <3>3
  <2>4. ASSUME NEW a \in Asset, DestroyUnprocessed(a) PROVE TypeOK'
    <3>1. CASE Trash(a)
      BY <2>4, <3>1 DEF DestroyUnprocessed, Trash, Stamp
    <3>2. CASE Remove(a)
      BY <2>4, <3>2 DEF DestroyUnprocessed, Remove
    <3>3. CASE UNCHANGED stampVars
      BY <2>4, <3>3 DEF DestroyUnprocessed
    <3>4. QED
      BY <2>4, <3>1, <3>2, <3>3 DEF DestroyUnprocessed
  <2>5. ASSUME NEW t \in Thread, Reprocess(t) \/ Flag(t) PROVE TypeOK'
    <3>1. thread[t].step # "idle" => thread[t] \in Busy
      BY DEF Busy, Idle
    <3>2. CASE Reprocess(t)
      BY <3>1, <3>2 DEF Reprocess, Busy
    <3>3. CASE Flag(t)
      BY <3>1, <3>3 DEF Flag, Busy, Exists
    <3>4. QED
      BY <2>5, <3>2, <3>3
  <2>6. ASSUME NEW t \in Thread, FinishClearance(t) PROVE TypeOK'
    <3>1. thread[t] \in Busy
      BY <2>6 DEF FinishClearance, Idle
    <3>2. CASE Remove(thread[t].asset)
      BY <2>6, <3>1, <3>2 DEF FinishClearance, Remove, Busy
    <3>3. CASE UNCHANGED stampVars
      BY <2>6, <3>1, <3>3 DEF FinishClearance, Busy
    <3>4. QED
      BY <2>6, <3>2, <3>3 DEF FinishClearance
  <2>7. ASSUME NEW t \in Thread, NEW a \in Asset,
               StartProcessing(t, a) \/ StartClearance(t, a)
        PROVE  TypeOK'
    <3>1. CASE StartProcessing(t, a)
      BY <3>1 DEF StartProcessing, TakeJob, Busy
    <3>2. CASE StartClearance(t, a)
      BY <3>2 DEF StartClearance, Busy
    <3>3. QED
      BY <2>7, <3>1, <3>2
  <2>8. CASE NextDay
    BY <2>8 DEF NextDay, OneMoreDay
  <2>9. CASE ScanUnprocessed \/ ClearDeletedEntities
    BY <2>9 DEF ScanUnprocessed, ClearDeletedEntities, Unprocessed
  <2>10. CASE Fault
    <3>1. CASE SidekiqCrash
      BY <3>1 DEF SidekiqCrash
    <3>2. ASSUME NEW a \in Asset, JobDies(a) PROVE TypeOK'
      BY <3>2 DEF JobDies, TakeJob
    <3>3. ASSUME NEW a \in Asset, PingReportsError(a) PROVE TypeOK'
      BY <3>3 DEF PingReportsError
    <3>4. ASSUME NEW t \in Thread, ReprocessFails(t) PROVE TypeOK'
      BY <3>4 DEF ReprocessFails, Busy, Idle
    <3>5. QED
      BY <2>10, <3>1, <3>2, <3>3, <3>4 DEF Fault
  <2>11. CASE UNCHANGED vars
    BY <2>11
  <2>12. QED
    BY <2>1, <2>2, <2>3, <2>4, <2>5, <2>6, <2>7, <2>8, <2>9, <2>10, <2>11
       DEF Next, ThreadStep
<1>3. QED
  BY <1>1, <1>2, PTL DEF Spec

-----------------------------------------------------------------------------
(* The flag and the styles.                                                  *)

\* A thread that is about to set the flag has written the styles.
FlagAfterStyles ==
    \A t \in Thread : thread[t].step = "flag" => renditions[thread[t].asset]

RenderInv == FlagAfterStyles /\ ProcessedMeansRendered

LEMMA RenderStep == TypeOK /\ RenderInv /\ [Next]_vars => RenderInv'
<1> SUFFICES ASSUME TypeOK, RenderInv, [Next]_vars PROVE RenderInv'
  OBVIOUS
<1> USE DEF TypeOK, RenderInv, FlagAfterStyles, ProcessedMeansRendered, Exists, Document,
            stampVars, tableVars, s3Vars, jobVars, videoVars, dailyVars, faultVars
<1>1. ASSUME NEW a \in Asset, Request(a) PROVE RenderInv'
  <2>1. CASE Create(a)
    <3>1. \A b \in Asset \ {a} : /\ row'[b] = row[b] /\ kind'[b] = kind[b]
                                 /\ processed'[b] = processed[b]
      BY <2>1 DEF Create
    <3>2. processed'[a] <=> Document(a)'
      BY <2>1 DEF Create, Kind
    <3>3. UNCHANGED <<renditions, thread>>
      BY <2>1 DEF Create
    <3>4. QED
      BY <3>1, <3>2, <3>3
  <2>2. CASE CompleteUpload(a)
    BY <2>2 DEF CompleteUpload
  <2>3. CASE Store(a)
    BY <2>3 DEF Store
  <2>4. CASE Delete(a)
    BY <2>4 DEF Delete, Trash
  <2>5. CASE AdminDestroy(a)
    BY <2>5 DEF AdminDestroy, Trash, Remove
  <2>6. CASE Restore(a)
    BY <2>6 DEF Restore
  <2>7. QED
    BY <1>1, <2>1, <2>2, <2>3, <2>4, <2>5, <2>6 DEF Request
<1>2. ASSUME NEW a \in Asset, Callback(a) PROVE RenderInv'
  <2>1. CASE PingSaves(a)
    <3>1. \A b \in Asset : renditions[b] => renditions'[b]
      BY <2>1 DEF PingSaves
    <3>2. \A b \in Asset : processed'[b] => processed[b] \/ (Exists(b) => renditions'[b])
      BY <2>1 DEF PingSaves
    <3>3. UNCHANGED <<row, kind, thread>>
      BY <2>1 DEF PingSaves
    <3>4. FlagAfterStyles'
      BY <3>1, <3>3 DEF Busy, Idle
    <3>5. ProcessedMeansRendered'
      BY <3>1, <3>2, <3>3
    <3>6. QED
      BY <3>4, <3>5
  <2>2. QED
    BY <1>2, <2>1 DEF Callback, PingLoads, PingFindsNothing
<1>3. ASSUME NEW a \in Asset,
             SkipProcessed(a) \/ SubmitVideo(a) \/ SkipClearance(a) \/ DestroyUnprocessed(a)
      PROVE  RenderInv'
  BY <1>3 DEF SkipProcessed, SubmitVideo, SkipClearance, DestroyUnprocessed, Trash, Remove
<1>4. ASSUME NEW t \in Thread, Reprocess(t) PROVE RenderInv'
  <2>1. thread[t] \in Busy
    BY <1>4 DEF Reprocess, Idle
  <2>2. \A b \in Asset : renditions[b] => renditions'[b]
    BY <1>4, <2>1 DEF Reprocess, Busy
  <2>3. thread'[t].asset = thread[t].asset /\ renditions'[thread[t].asset]
    BY <1>4, <2>1 DEF Reprocess, Busy
  <2>4. \A u \in Thread \ {t} : thread'[u] = thread[u]
    BY <1>4 DEF Reprocess
  <2>5. FlagAfterStyles'
    BY <2>2, <2>3, <2>4 DEF Busy, Idle
  <2>6. ProcessedMeansRendered'
    BY <1>4, <2>2 DEF Reprocess
  <2>7. QED
    BY <2>5, <2>6
<1>5. ASSUME NEW t \in Thread, Flag(t) PROVE RenderInv'
  <2>1. FlagAfterStyles'
    BY <1>5 DEF Flag, Idle
  <2>2. ProcessedMeansRendered'
    BY <1>5 DEF Flag
  <2>3. QED
    BY <2>1, <2>2
<1>6. ASSUME NEW t \in Thread, FinishClearance(t) PROVE RenderInv'
  <2>1. FlagAfterStyles'
    BY <1>6 DEF FinishClearance, Idle
  <2>2. ProcessedMeansRendered'
    BY <1>6 DEF FinishClearance, Remove
  <2>3. QED
    BY <2>1, <2>2
<1>7. ASSUME NEW t \in Thread, NEW a \in Asset,
             StartProcessing(t, a) \/ StartClearance(t, a)
      PROVE  RenderInv'
  BY <1>7 DEF StartProcessing, StartClearance
<1>8. CASE NextDay \/ ScanUnprocessed \/ ClearDeletedEntities
  BY <1>8 DEF NextDay, ScanUnprocessed, ClearDeletedEntities
<1>9. CASE Fault
  BY <1>9 DEF Fault, SidekiqCrash, JobDies, PingReportsError, ReprocessFails, Idle
<1>10. CASE UNCHANGED vars
  BY <1>10 DEF vars
<1>11. QED
  BY <1>1, <1>2, <1>3, <1>4, <1>5, <1>6, <1>7, <1>8, <1>9, <1>10 DEF Next, ThreadStep

\* ProcessedMeansRendered, for every number of assets, threads, jobs and faults.
THEOREM RenderedCorrect == Spec => []ProcessedMeansRendered
<1>1. Init => RenderInv
  BY DEF Init, Idle, RenderInv, FlagAfterStyles, ProcessedMeansRendered, Exists
<1>2. RenderInv => ProcessedMeansRendered
  BY DEF RenderInv
<1>3. QED
  BY <1>1, <1>2, RenderStep, TypeCorrect, PTL DEF Spec

-----------------------------------------------------------------------------
(* Ages: what is queued for removal was old enough when it was queued, and   *)
(* rows only grow older.                                                     *)

AgedWork ==
    \A a \in Asset : /\ trashedFor[a] <= age[a]
                     /\ a \in clearance => age[a] > RetentionDays
                     /\ a \in liveBatch \cup trashedBatch => age[a] >= 1

AgedThreads ==
    \A t \in Thread : thread[t].step = "clear" => age[thread[t].asset] > RetentionDays

AgeInv == AgedWork /\ AgedThreads

LEMMA AgeStep == TypeOK /\ AgeInv /\ [Next]_vars => AgeInv'
<1> SUFFICES ASSUME TypeOK, AgeInv, [Next]_vars PROVE AgeInv'
  OBVIOUS
<1> USE BoundsAssumption
    DEF TypeOK, AgeInv, AgedWork, AgedThreads, MaxAge,
        stampVars, tableVars, s3Vars, jobVars, videoVars, dailyVars, faultVars
<1>1. ASSUME NEW a \in Asset, Request(a) PROVE AgeInv'
  <2>1. UNCHANGED <<age, clearance, liveBatch, trashedBatch, thread>>
    BY <1>1 DEF Request, Create, CompleteUpload, Store, Delete, AdminDestroy, Restore
  <2>2. \A b \in Asset : trashedFor'[b] = trashedFor[b] \/ trashedFor'[b] = 0
    BY <1>1 DEF Request, Create, CompleteUpload, Store, Delete, AdminDestroy, Restore,
                Trash, Stamp, Remove
  <2>3. QED
    BY <2>1, <2>2
<1>2. ASSUME NEW a \in Asset, Callback(a) PROVE AgeInv'
  BY <1>2 DEF Callback, PingLoads, PingSaves, PingFindsNothing
<1>3. ASSUME NEW a \in Asset, SkipProcessed(a) \/ SubmitVideo(a) \/ SkipClearance(a)
      PROVE  AgeInv'
  BY <1>3 DEF SkipProcessed, SubmitVideo, SkipClearance
<1>4. ASSUME NEW a \in Asset, DestroyUnprocessed(a) PROVE AgeInv'
  <2>1. \A b \in Asset : trashedFor'[b] = trashedFor[b] \/ trashedFor'[b] = 0
    BY <1>4 DEF DestroyUnprocessed, Trash, Stamp, Remove
  <2>2. QED
    BY <1>4, <2>1 DEF DestroyUnprocessed
<1>5. ASSUME NEW t \in Thread, Reprocess(t) \/ Flag(t) PROVE AgeInv'
  <2>1. AgedWork'
    BY <1>5 DEF Reprocess, Flag
  <2>2. AgedThreads'
    BY <1>5 DEF Reprocess, Flag, Busy, Idle
  <2>3. QED
    BY <2>1, <2>2
<1>6. ASSUME NEW t \in Thread, FinishClearance(t) PROVE AgeInv'
  <2>1. thread[t] \in Busy
    BY <1>6 DEF FinishClearance, Idle
  <2>2. \A b \in Asset : trashedFor'[b] = trashedFor[b] \/ trashedFor'[b] = 0
    BY <1>6 DEF FinishClearance, Remove
  <2>3. AgedWork'
    BY <1>6, <2>1, <2>2 DEF FinishClearance, Busy
  <2>4. AgedThreads'
    BY <1>6 DEF FinishClearance, Idle
  <2>5. QED
    BY <2>3, <2>4
<1>7. ASSUME NEW t \in Thread, NEW a \in Asset,
             StartProcessing(t, a) \/ StartClearance(t, a)
      PROVE  AgeInv'
  BY <1>7 DEF StartProcessing, StartClearance
<1>8. CASE NextDay
  <2>1. \A a \in Asset : age'[a] >= age[a]
    BY <1>8 DEF NextDay, OneMoreDay
  <2>2. \A a \in Asset : trashedFor'[a] <= age'[a]
    BY <1>8 DEF NextDay, OneMoreDay, Exists
  <2>3. UNCHANGED <<clearance, liveBatch, trashedBatch, thread>>
    BY <1>8 DEF NextDay
  <2>4. AgedWork'
    <3>1. ASSUME NEW a \in Asset PROVE age[a] \in Nat /\ age'[a] \in Nat
      BY <1>8 DEF NextDay, OneMoreDay
    <3>2. QED
      BY <2>1, <2>2, <2>3, <3>1
  <2>5. AgedThreads'
    <3>1. ASSUME NEW t \in Thread, thread[t].step = "clear"
          PROVE  age'[thread[t].asset] > RetentionDays
      <4>1. thread[t].asset \in Asset
        BY <3>1 DEF Busy, Idle
      <4>2. age[thread[t].asset] > RetentionDays
        BY <3>1
      <4>3. age'[thread[t].asset] \in Nat
        BY <4>1, <1>8 DEF NextDay, OneMoreDay
      <4>4. QED
        BY <2>1, <4>1, <4>2, <4>3
    <3>2. QED
      BY <2>3, <3>1
  <2>6. QED
    BY <2>4, <2>5
<1>9. CASE ScanUnprocessed
  BY <1>9 DEF ScanUnprocessed, Unprocessed
<1>10. CASE ClearDeletedEntities
  <2>1. \A a \in clearance' : age[a] > RetentionDays
    BY <1>10 DEF ClearDeletedEntities
  <2>2. QED
    BY <1>10, <2>1 DEF ClearDeletedEntities
<1>11. CASE Fault
  BY <1>11 DEF Fault, SidekiqCrash, JobDies, PingReportsError, ReprocessFails, Idle
<1>12. CASE UNCHANGED vars
  BY <1>12 DEF vars
<1>13. QED
  BY <1>1, <1>2, <1>3, <1>4, <1>5, <1>6, <1>7, <1>8, <1>9, <1>10, <1>11, <1>12
     DEF Next, ThreadStep

LEMMA AgeCorrect == Spec => []AgeInv
<1>1. Init => AgeInv
  BY DEF Init, Idle, AgeInv, AgedWork, AgedThreads
<1>2. QED
  BY <1>1, AgeStep, TypeCorrect, PTL DEF Spec

\* The steps that take a live row out of the library or a row out of the table.
LEMMA Removals ==
    ASSUME TypeOK, [Next]_vars, NEW a \in Asset, Exists(a), row'[a] # row[a]
    PROVE  \/ Delete(a) /\ row'[a] = "trashed"
           \/ AdminDestroy(a)
           \/ Restore(a) /\ row'[a] = "live"
           \/ a \in liveBatch /\ row'[a] = "trashed"
           \/ a \in trashedBatch
           \/ \E t \in Thread : thread[t].step = "clear" /\ thread[t].asset = a
<1> USE DEF TypeOK, Exists, stampVars, tableVars
<1>1. ASSUME NEW b \in Asset, Request(b), row'[a] # row[a]
      PROVE  \/ Delete(a) /\ row'[a] = "trashed"
             \/ AdminDestroy(a)
             \/ Restore(a) /\ row'[a] = "live"
  <2>1. a = b
    BY <1>1 DEF Request, Create, CompleteUpload, Store, Delete, AdminDestroy, Restore,
                Trash, Remove
  <2>2. Delete(a) \/ AdminDestroy(a) \/ Restore(a)
    BY <1>1, <2>1 DEF Request, Create, CompleteUpload, Store
  <2>3. QED
    BY <2>2 DEF Delete, Trash, Restore
<1>2. ASSUME NEW b \in Asset, DestroyUnprocessed(b), row'[a] # row[a]
      PROVE  (a \in liveBatch /\ row'[a] = "trashed") \/ a \in trashedBatch
  BY <1>2 DEF DestroyUnprocessed, Trash, Remove
<1>3. ASSUME NEW t \in Thread, FinishClearance(t), row'[a] # row[a]
      PROVE  thread[t].step = "clear" /\ thread[t].asset = a
  BY <1>3 DEF FinishClearance, Remove
<1>4. ASSUME NEW b \in Asset,
             Callback(b) \/ SkipProcessed(b) \/ SubmitVideo(b) \/ SkipClearance(b)
      PROVE  row' = row
  BY <1>4 DEF Callback, PingLoads, PingSaves, PingFindsNothing, SkipProcessed,
              SubmitVideo, SkipClearance
<1>5. ASSUME NEW t \in Thread, Reprocess(t) \/ Flag(t)
      PROVE  row' = row
  BY <1>5 DEF Reprocess, Flag
<1>6. ASSUME NEW t \in Thread, NEW b \in Asset,
             StartProcessing(t, b) \/ StartClearance(t, b)
      PROVE  row' = row
  BY <1>6 DEF StartProcessing, StartClearance
<1>7. CASE NextDay \/ ScanUnprocessed \/ ClearDeletedEntities \/ Fault
  BY <1>7 DEF NextDay, ScanUnprocessed, ClearDeletedEntities, Fault, SidekiqCrash,
              JobDies, PingReportsError, ReprocessFails
<1>8. QED
  BY <1>1, <1>2, <1>3, <1>4, <1>5, <1>6, <1>7 DEF Next, ThreadStep, vars

\* FreshAssetsSpared, whatever the retention period and the numbers of assets,
\* threads and faults.
THEOREM FreshCorrect == Spec => FreshAssetsSpared
<1>1. ASSUME TypeOK, AgeInv, [Next]_vars, NEW a \in Asset,
             row[a] = "live", row'[a] \in {"trashed", "gone"}
      PROVE  Delete(a) \/ AdminDestroy(a) \/ age[a] >= 1
  BY <1>1, Removals, BoundsAssumption
     DEF Exists, AgeInv, AgedWork, AgedThreads, TypeOK, MaxAge
<1>2. TypeOK /\ AgeInv /\ [Next]_vars =>
        [\A a \in Asset : row[a] = "live" /\ row'[a] \in {"trashed", "gone"} =>
             Delete(a) \/ AdminDestroy(a) \/ age[a] >= 1]_vars
  BY <1>1
<1>3. QED
  BY <1>2, TypeCorrect, AgeCorrect, PTL DEF Spec, FreshAssetsSpared

\* A row with a clearance on its way is old enough in the trash, or gone, or its
\* deleted_at was written since.
Accounted(a) == \/ a \in renewed /\ row[a] # "none"
                \/ row[a] = "gone"
                \/ row[a] = "trashed" /\ trashedFor[a] > RetentionDays

ClearanceInv == \A a \in Asset : Clearing(a) => Accounted(a)

\* Who writes deleted_at or the row.
LEMMA Stamps ==
    ASSUME TypeOK, [Next]_vars, NEW a \in Asset
    PROVE  \/ row'[a] = "gone" \/ row[a] = "none" \/ (Stamp(a) /\ row'[a] # "none")
           \/ /\ row'[a] = row[a] /\ (a \in renewed => a \in renewed')
              /\ trashedFor[a] > RetentionDays => trashedFor'[a] > RetentionDays
<1> USE BoundsAssumption
    DEF TypeOK, stampVars, tableVars, s3Vars, jobVars, videoVars, dailyVars, faultVars
<1> DEFINE Kept == /\ row'[a] = row[a] /\ (a \in renewed => a \in renewed')
                   /\ trashedFor[a] > RetentionDays => trashedFor'[a] > RetentionDays
           Goal == \/ row'[a] = "gone" \/ row[a] = "none" \/ Kept
                   \/ Stamp(a) /\ row'[a] # "none"
<1>1. ASSUME NEW b \in Asset, Trash(b) \/ Remove(b) \/ UNCHANGED stampVars
      PROVE  Goal
  <2>1. CASE b = a
    BY <1>1, <2>1 DEF Trash, Remove
  <2>2. CASE b # a
    BY <1>1, <2>2 DEF Trash, Stamp, Remove
  <2>3. QED
    BY <2>1, <2>2
<1>2. ASSUME NEW b \in Asset, Request(b) PROVE Goal
  <2>1. CASE Create(b)
    BY <2>1 DEF Create
  <2>2. CASE CompleteUpload(b) \/ Store(b)
    BY <2>2 DEF CompleteUpload, Store
  <2>3. CASE Delete(b) \/ AdminDestroy(b)
    BY <1>1, <2>3 DEF Delete, AdminDestroy
  <2>4. CASE Restore(b)
    BY <2>4 DEF Restore, Stamp
  <2>5. QED
    BY <1>2, <2>1, <2>2, <2>3, <2>4 DEF Request
<1>3. ASSUME NEW b \in Asset,
             Callback(b) \/ SkipProcessed(b) \/ SubmitVideo(b) \/ SkipClearance(b)
      PROVE  Goal
  BY <1>3 DEF Callback, PingLoads, PingSaves, PingFindsNothing, SkipProcessed,
              SubmitVideo, SkipClearance
<1>4. ASSUME NEW b \in Asset, DestroyUnprocessed(b) PROVE Goal
  BY <1>1, <1>4 DEF DestroyUnprocessed
<1>5. ASSUME NEW t \in Thread, Reprocess(t) \/ Flag(t) PROVE Goal
  BY <1>5 DEF Reprocess, Flag
<1>6. ASSUME NEW t \in Thread, FinishClearance(t) PROVE Goal
  <2>1. thread[t].asset \in Asset
    BY <1>6 DEF FinishClearance, Busy, Idle
  <2>2. QED
    BY <1>1, <1>6, <2>1 DEF FinishClearance
<1>7. ASSUME NEW t \in Thread, NEW b \in Asset,
             StartProcessing(t, b) \/ StartClearance(t, b)
      PROVE  Goal
  BY <1>7 DEF StartProcessing, StartClearance
<1>8. CASE NextDay
  BY <1>8 DEF NextDay, OneMoreDay, MaxAge
<1>9. CASE ScanUnprocessed \/ ClearDeletedEntities \/ Fault
  BY <1>9 DEF ScanUnprocessed, ClearDeletedEntities, Fault, SidekiqCrash, JobDies,
              PingReportsError, ReprocessFails
<1>10. CASE UNCHANGED vars
  BY <1>10 DEF vars
<1>11. QED
  BY <1>2, <1>3, <1>4, <1>5, <1>6, <1>7, <1>8, <1>9, <1>10 DEF Next, ThreadStep

\* Only the daily schedule begins a clearance, of a row it has just selected.
LEMMA ClearancesBegin ==
    ASSUME TypeOK, [Next]_vars, NEW a \in Asset, Clearing(a)', ~Clearing(a)
    PROVE  row'[a] = "trashed" /\ trashedFor'[a] > RetentionDays
<1> USE DEF TypeOK, Clearing,
            stampVars, tableVars, s3Vars, jobVars, videoVars, dailyVars, faultVars
<1>1. ASSUME UNCHANGED <<clearance, thread>> PROVE FALSE
  BY <1>1
<1>2. ASSUME NEW b \in Asset, Request(b) \/ Callback(b) PROVE FALSE
  BY <1>1, <1>2 DEF Request, Create, CompleteUpload, Store, Delete, AdminDestroy, Restore,
                    Callback, PingLoads, PingSaves, PingFindsNothing
<1>3. ASSUME NEW b \in Asset, SkipProcessed(b) \/ SubmitVideo(b) \/ SkipClearance(b)
      PROVE  FALSE
  BY <1>3 DEF SkipProcessed, SubmitVideo, SkipClearance
<1>4. ASSUME NEW b \in Asset, DestroyUnprocessed(b) PROVE FALSE
  BY <1>1, <1>4 DEF DestroyUnprocessed
<1>5. ASSUME NEW t \in Thread, Reprocess(t) \/ Flag(t) PROVE FALSE
  BY <1>5 DEF Reprocess, Flag, Idle, Busy
<1>6. ASSUME NEW t \in Thread, FinishClearance(t) PROVE FALSE
  <2>1. thread[t] = [step |-> "clear", asset |-> thread[t].asset]
    BY <1>6 DEF FinishClearance, Idle, Busy
  <2>2. clearance' \subseteq clearance \cup {thread[t].asset}
    BY <1>6 DEF FinishClearance
  <2>3. \A u \in Thread : thread'[u] = thread[u] \/ thread'[u] = Idle
    BY <1>6 DEF FinishClearance
  <2>4. QED
    BY <2>1, <2>2, <2>3 DEF Idle
<1>7. ASSUME NEW t \in Thread, NEW b \in Asset,
             StartProcessing(t, b) \/ StartClearance(t, b)
      PROVE  FALSE
  BY <1>7 DEF StartProcessing, StartClearance
<1>8. CASE NextDay \/ ScanUnprocessed
  BY <1>1, <1>8 DEF NextDay, ScanUnprocessed
<1>9. CASE ClearDeletedEntities
  BY <1>9 DEF ClearDeletedEntities
<1>10. CASE Fault
  BY <1>10 DEF Fault, SidekiqCrash, JobDies, PingReportsError, ReprocessFails, Idle
<1>11. CASE UNCHANGED vars
  BY <1>1, <1>11 DEF vars
<1>12. QED
  BY <1>2, <1>3, <1>4, <1>5, <1>6, <1>7, <1>8, <1>9, <1>10, <1>11 DEF Next, ThreadStep

LEMMA ClearanceStep == TypeOK /\ ClearanceInv /\ [Next]_vars => ClearanceInv'
<1> SUFFICES ASSUME TypeOK, ClearanceInv, [Next]_vars, NEW a \in Asset, Clearing(a)'
             PROVE  Accounted(a)'
  BY DEF ClearanceInv
<1>1. CASE ~Clearing(a)
  BY <1>1, ClearancesBegin DEF Accounted
<1>2. CASE Clearing(a)
  <2>1. Accounted(a)
    BY <1>2 DEF ClearanceInv
  <2>2. CASE Stamp(a) /\ row'[a] # "none"
    BY <1>2, <2>2 DEF Stamp, Accounted
  <2>3. QED
    BY <2>1, <2>2, Stamps DEF Accounted
<1>3. QED
  BY <1>1, <1>2

LEMMA ClearanceCorrect == Spec => []ClearanceInv
<1>1. Init => ClearanceInv
  BY DEF Init, ClearanceInv, Clearing, Idle
<1>2. QED
  BY <1>1, ClearanceStep, TypeCorrect, PTL DEF Spec

\* RetentionKept, whatever the retention period and the numbers of assets,
\* threads and faults.
THEOREM RetentionCorrect == Spec => RetentionKept
<1> DEFINE Allowed(a) == \/ AdminDestroy(a)
                         \/ a \in trashedBatch /\ age[a] >= 1
                         \/ row[a] = "trashed" /\ trashedFor[a] > RetentionDays
                         \/ a \in renewed /\ Clearing(a) /\ age[a] > RetentionDays
<1>1. ASSUME TypeOK, AgeInv, ClearanceInv, [Next]_vars, NEW a \in Asset,
             Exists(a), row'[a] = "gone"
      PROVE  Allowed(a)
  <2>1. AdminDestroy(a) \/ a \in trashedBatch
        \/ \E t \in Thread : thread[t].step = "clear" /\ thread[t].asset = a
    BY <1>1, Removals DEF Exists
  <2>2. CASE a \in trashedBatch
    BY <1>1, <2>2 DEF AgeInv, AgedWork
  <2>3. ASSUME NEW t \in Thread, thread[t].step = "clear", thread[t].asset = a
        PROVE  Allowed(a)
    <3>1. Clearing(a)
      BY <1>1, <2>3 DEF TypeOK, Busy, Idle, Clearing
    <3>2. age[a] > RetentionDays
      BY <1>1, <2>3 DEF AgeInv, AgedThreads
    <3>3. QED
      BY <1>1, <3>1, <3>2 DEF ClearanceInv, Accounted, Exists
  <2>4. QED
    BY <2>1, <2>2, <2>3
<1>2. TypeOK /\ AgeInv /\ ClearanceInv /\ [Next]_vars =>
        [\A a \in Asset : Exists(a) /\ row'[a] = "gone" => Allowed(a)]_vars
  BY <1>1
<1>3. QED
  BY <1>2, TypeCorrect, AgeCorrect, ClearanceCorrect, PTL DEF Spec, RetentionKept

-----------------------------------------------------------------------------
(* No stored asset is forgotten.                                             *)

DocumentsProcessed == \A a \in Asset : Exists(a) /\ Document(a) => processed[a]

WorkInv == DocumentsProcessed /\ WorkConserved

\* The shape of most steps: nothing that WorkConserved reads changes, except
\* that rows are deleted or flags are set.
LEMMA WorkQuiet ==
    ASSUME TypeOK, WorkInv, UNCHANGED <<kind, shelf, queue, encoding, answering, lost>>,
           \A a \in Asset : Exists(a)' => Exists(a),
           \A a \in Asset : processed[a] => processed'[a],
           \A a \in Asset : Working(a) # {} => Working(a)' # {} \/ processed'[a] \/ ~Exists(a)'
    PROVE  WorkInv'
  BY DEF WorkInv, DocumentsProcessed, WorkConserved, InProgress, Document

LEMMA WorkStep == TypeOK /\ WorkInv /\ [Next]_vars => WorkInv'
<1> SUFFICES ASSUME TypeOK, WorkInv, [Next]_vars PROVE WorkInv'
  OBVIOUS
<1> USE DEF TypeOK, Exists, stampVars, tableVars, s3Vars, jobVars, videoVars, dailyVars, faultVars
<1>1. ASSUME NEW a \in Asset, Request(a) PROVE WorkInv'
  <2>1. CASE Create(a)
    <3>1. \A b \in Asset \ {a} : /\ row'[b] = row[b] /\ kind'[b] = kind[b]
                                 /\ processed'[b] = processed[b] /\ shelf'[b] = shelf[b]
      BY <2>1 DEF Create
    <3>2. processed'[a] <=> Document(a)'
      BY <2>1 DEF Create, Kind, Document
    <3>3. shelf'[a] # "stored"
      BY <2>1 DEF Create
    <3>4. UNCHANGED <<thread, queue, encoding, answering, lost>>
      BY <2>1 DEF Create
    <3>5. QED
      BY <3>1, <3>2, <3>3, <3>4
         DEF WorkInv, DocumentsProcessed, WorkConserved, InProgress, Working, Document
  <2>2. CASE CompleteUpload(a)
    BY <2>2, WorkQuiet DEF CompleteUpload, Working
  <2>3. CASE Store(a)
    <3>1. UNCHANGED <<kind, row, processed, thread, encoding, answering, lost>>
      BY <2>3 DEF Store
    <3>2. \A b \in Asset \ {a} : shelf'[b] = shelf[b] /\ queue'[b] = queue[b]
      BY <2>3 DEF Store
    <3>3. processed[a] \/ queue'[a] > 0
      BY <2>3 DEF Store, WorkInv, DocumentsProcessed
    <3>4. QED
      BY <3>1, <3>2, <3>3
         DEF WorkInv, DocumentsProcessed, WorkConserved, InProgress, Working, Document
  <2>4. CASE Delete(a)
    BY <2>4, WorkQuiet DEF Delete, Trash, Working
  <2>5. CASE AdminDestroy(a)
    BY <2>5, WorkQuiet DEF AdminDestroy, Trash, Remove, Working
  <2>6. CASE Restore(a)
    BY <2>6, WorkQuiet DEF Restore, Working
  <2>7. QED
    BY <1>1, <2>1, <2>2, <2>3, <2>4, <2>5, <2>6 DEF Request
<1>2. ASSUME NEW a \in Asset, Callback(a) PROVE WorkInv'
  <2>1. CASE PingLoads(a)
    BY <2>1 DEF PingLoads, WorkInv, DocumentsProcessed, WorkConserved, InProgress,
                Working, Document
  <2>2. CASE PingSaves(a)
    <3>1. UNCHANGED <<kind, row, shelf, thread, queue, encoding, lost>>
      BY <2>2 DEF PingSaves
    <3>2. answering' = answering \ {a}
      BY <2>2 DEF PingSaves
    <3>3. \A b \in Asset : processed[b] => processed'[b]
      BY <2>2 DEF PingSaves
    <3>4. Exists(a) => processed'[a]
      BY <2>2 DEF PingSaves
    <3>5. QED
      BY <3>1, <3>2, <3>3, <3>4
         DEF WorkInv, DocumentsProcessed, WorkConserved, InProgress, Working, Document
  <2>3. CASE PingFindsNothing(a)
    BY <2>3 DEF PingFindsNothing, WorkInv, DocumentsProcessed, WorkConserved, InProgress,
                Working, Document
  <2>4. QED
    BY <1>2, <2>1, <2>2, <2>3 DEF Callback
<1>3. ASSUME NEW a \in Asset, SkipProcessed(a) PROVE WorkInv'
  BY <1>3 DEF SkipProcessed, TakeJob, WorkInv, DocumentsProcessed, WorkConserved,
              InProgress, Working, Document
<1>4. ASSUME NEW a \in Asset, SubmitVideo(a) PROVE WorkInv'
  BY <1>4 DEF SubmitVideo, TakeJob, WorkInv, DocumentsProcessed, WorkConserved,
              InProgress, Working, Document
<1>5. ASSUME NEW a \in Asset, SkipClearance(a) \/ DestroyUnprocessed(a) PROVE WorkInv'
  <2>1. CASE SkipClearance(a)
    BY <2>1, WorkQuiet DEF SkipClearance, Working
  <2>2. CASE DestroyUnprocessed(a)
    <3>1. \A b \in Asset : Exists(b)' => Exists(b)
      BY <2>2 DEF DestroyUnprocessed, Trash, Remove
    <3>2. QED
      BY <2>2, <3>1, WorkQuiet DEF DestroyUnprocessed, Working
  <2>3. QED
    BY <1>5, <2>1, <2>2
<1>6. ASSUME NEW t \in Thread, Reprocess(t) PROVE WorkInv'
  <2>1. thread[t] \in Busy
    BY <1>6 DEF Reprocess, Idle
  <2>2. /\ \A u \in Thread \ {t} : thread'[u] = thread[u]
        /\ thread'[t].step = "flag" /\ thread'[t].asset = thread[t].asset
    BY <1>6, <2>1 DEF Reprocess, Busy
  <2>3. \A a \in Asset : Working(a)' = Working(a)
    BY <1>6, <2>2 DEF Working, Reprocess
  <2>4. QED
    BY <1>6, <2>3, WorkQuiet DEF Reprocess
<1>7. ASSUME NEW t \in Thread, Flag(t) PROVE WorkInv'
  <2>1. thread[t] \in Busy
    BY <1>7 DEF Flag, Idle
  <2>2. \A u \in Thread \ {t} : thread'[u] = thread[u]
    BY <1>7 DEF Flag
  <2>3. \A a \in Asset \ {thread[t].asset} : Working(a) \subseteq Working(a)'
    BY <2>2 DEF Working
  <2>4. Exists(thread[t].asset) => processed'[thread[t].asset]
    BY <1>7, <2>1 DEF Flag, Busy
  <2>5. \A a \in Asset : processed[a] => processed'[a]
    BY <1>7 DEF Flag
  <2>6. UNCHANGED <<kind, row, shelf, queue, encoding, answering, lost>>
    BY <1>7 DEF Flag
  <2>7. \A a \in Asset : Working(a) # {} => Working(a)' # {} \/ processed'[a] \/ ~Exists(a)'
    BY <2>3, <2>4, <2>6
  <2>8. \A a \in Asset : Exists(a)' => Exists(a)
    BY <2>6
  <2>9. QED
    BY <2>5, <2>6, <2>7, <2>8, WorkQuiet
<1>8. ASSUME NEW t \in Thread, FinishClearance(t) PROVE WorkInv'
  <2>1. \A a \in Asset : Working(a)' = Working(a)
    BY <1>8 DEF Working, FinishClearance, Idle
  <2>2. \A a \in Asset : Exists(a)' => Exists(a)
    BY <1>8 DEF FinishClearance, Remove
  <2>3. QED
    BY <1>8, <2>1, <2>2, WorkQuiet DEF FinishClearance
<1>9. ASSUME NEW t \in Thread, NEW a \in Asset, StartProcessing(t, a) PROVE WorkInv'
  <2>1. t \in Working(a)'
    BY <1>9 DEF StartProcessing, Working
  <2>2. \A b \in Asset : Working(b) \subseteq Working(b)'
    BY <1>9 DEF StartProcessing, Working, Idle
  <2>3. \A b \in Asset \ {a} : queue'[b] = queue[b]
    BY <1>9 DEF StartProcessing, TakeJob
  <2>4. UNCHANGED <<kind, row, processed, shelf, encoding, answering, lost>>
    BY <1>9 DEF StartProcessing
  <2>5. QED
    BY <2>1, <2>2, <2>3, <2>4
       DEF WorkInv, DocumentsProcessed, WorkConserved, InProgress, Document
<1>10. ASSUME NEW t \in Thread, NEW a \in Asset, StartClearance(t, a) PROVE WorkInv'
  <2>1. \A b \in Asset : Working(b) \subseteq Working(b)'
    BY <1>10 DEF StartClearance, Working, Idle
  <2>2. QED
    BY <1>10, <2>1, WorkQuiet DEF StartClearance
<1>11. CASE NextDay \/ ScanUnprocessed \/ ClearDeletedEntities
  BY <1>11, WorkQuiet DEF NextDay, ScanUnprocessed, ClearDeletedEntities, Working
<1>12. CASE SidekiqCrash
  <2>1. \A a \in Asset : Working(a) # {} => a \in lost'
    BY <1>12 DEF SidekiqCrash
  <2>2. QED
    BY <1>12, <2>1 DEF SidekiqCrash, WorkInv, DocumentsProcessed, WorkConserved,
                       InProgress, Document
<1>13. ASSUME NEW a \in Asset, JobDies(a) \/ PingReportsError(a) PROVE WorkInv'
  BY <1>13 DEF JobDies, PingReportsError, TakeJob, WorkInv, DocumentsProcessed,
               WorkConserved, InProgress, Working, Document
<1>14. ASSUME NEW t \in Thread, ReprocessFails(t) PROVE WorkInv'
  <2>1. thread[t] \in Busy
    BY <1>14 DEF ReprocessFails, Idle
  <2>2. queue'[thread[t].asset] > 0
    BY <1>14, <2>1 DEF ReprocessFails, Busy
  <2>3. \A a \in Asset \ {thread[t].asset} : queue'[a] = queue[a]
    BY <1>14 DEF ReprocessFails
  <2>4. \A a \in Asset \ {thread[t].asset} : Working(a) \subseteq Working(a)'
    BY <1>14 DEF ReprocessFails, Working
  <2>5. UNCHANGED <<kind, row, processed, shelf, encoding, answering, lost>>
    BY <1>14 DEF ReprocessFails
  <2>6. QED
    BY <2>2, <2>3, <2>4, <2>5
       DEF WorkInv, DocumentsProcessed, WorkConserved, InProgress, Document
<1>15. CASE UNCHANGED vars
  BY <1>15, WorkQuiet DEF vars, Working
<1>16. QED
  BY <1>1, <1>2, <1>3, <1>4, <1>5, <1>6, <1>7, <1>8, <1>9, <1>10, <1>11, <1>12, <1>13,
     <1>14, <1>15 DEF Next, ThreadStep, Fault

\* WorkConserved, for every number of assets, threads, jobs and faults.
THEOREM WorkCorrect == Spec => []WorkConserved
<1>1. Init => WorkInv
  BY DEF Init, WorkInv, DocumentsProcessed, WorkConserved, Exists
<1>2. WorkInv => WorkConserved
  BY DEF WorkInv
<1>3. QED
  BY <1>1, <1>2, WorkStep, TypeCorrect, PTL DEF Spec
=============================================================================
