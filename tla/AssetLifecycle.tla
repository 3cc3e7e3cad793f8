---------------------------- MODULE AssetLifecycle ----------------------------
(***************************************************************************)
(* The life of an asset row and of its file, from the upload dialog to the *)
(* daily purge: the requests of Assets::MyResource, the Sidekiq workers     *)
(* that transcode, the HeyWatch encoding service and its robot callback,    *)
(* the admin's restore, and the two daily schedules that clean up.          *)
(*                                                                         *)
(* Every request, worker thread and schedule interleaves freely.  A value   *)
(* that the code reads in one statement and uses in a later one is kept in  *)
(* the state between the two (thread, answering, liveBatch, trashedBatch).  *)
(***************************************************************************)
EXTENDS Integers, FiniteSets

CONSTANTS
    Asset,          \* ids of the assets table
    Thread,         \* Sidekiq threads (config/sidekiq.yml concurrency)
    NoAsset,        \* an idle thread's asset
    RetentionDays,  \* configatron.clear_deleted_entities_after
    MaxJobs,        \* bound: processing jobs of one asset at one time
    MaxFaults       \* bound: crashes, dead jobs and failed encodings

Kind == {"image", "audio", "video", "document"}

ASSUME NoAssetAssumption == NoAsset \notin Asset
ASSUME BoundsAssumption == /\ RetentionDays \in Nat \ {0}
                           /\ MaxJobs \in Nat \ {0}
                           /\ MaxFaults \in Nat

VARIABLES
    kind,         \* Asset#asset_type, from file_content_type
    row,          \* "none", "live", "trashed" (deleted_at set) or "gone"
    processed,    \* assets.processed
    shelf,        \* "unplaced" (no folder_id), "placed", or "stored": placed
                  \* by update_multiple
    original,     \* the uploaded file is on S3
    renditions,   \* the styles, or the encoded urls, exist
    age,          \* whole days since created_at
    trashedFor,   \* whole days since deleted_at
    renewed,      \* history: assets whose deleted_at was last written while an
                  \* AssetClearance from before was queued or at work
    queue,        \* processing jobs of an asset waiting in Redis, retries too
    clearance,    \* assets with an AssetClearance job in Redis
    thread,       \* what each Sidekiq thread is doing
    encoding,     \* videos that HeyWatch holds a job for
    answering,    \* videos a robot callback has loaded and not saved yet
    liveBatch,    \* ClearUnprocessedAssets' loaded rows, not deleted when read
    trashedBatch, \* and its loaded rows that were deleted when read
    due,          \* daily schedules that sidetiq has queued
    lost,         \* assets some job or answer of which was lost
    faults        \* how many faults the environment has committed

stampVars == <<row, trashedFor, renewed>>
tableVars == <<kind, processed, shelf, age, stampVars>>
s3Vars    == <<original, renditions>>
jobVars   == <<queue, clearance, thread>>
videoVars == <<encoding, answering>>
dailyVars == <<liveBatch, trashedBatch, due>>
faultVars == <<lost, faults>>
vars == <<tableVars, s3Vars, jobVars, videoVars, dailyVars, faultVars>>

MaxAge == RetentionDays + 1     \* bound: a row older than this stays so
Daily == {"unprocessed", "deleted"}
Idle == [step |-> "idle", asset |-> NoAsset]
Busy == [step : {"reprocess", "flag", "clear"}, asset : Asset]

Exists(a) == row[a] \in {"live", "trashed"}
Transcoded(a) == kind[a] \in {"image", "audio"}
Document(a) == kind[a] = "document"

\* Threads at work on a's processing job.
Working(a) == {t \in Thread : /\ thread[t].asset = a
                              /\ thread[t].step \in {"reprocess", "flag"}}

\* An AssetClearance of a is queued or has found its row.
Clearing(a) == \/ a \in clearance
               \/ \E t \in Thread : thread[t] = [step |-> "clear", asset |-> a]

Init ==
    /\ kind = [a \in Asset |-> "document"]
    /\ row = [a \in Asset |-> "none"]
    /\ processed = [a \in Asset |-> FALSE]
    /\ shelf = [a \in Asset |-> "unplaced"]
    /\ original = [a \in Asset |-> FALSE]
    /\ renditions = [a \in Asset |-> FALSE]
    /\ age = [a \in Asset |-> 0]
    /\ trashedFor = [a \in Asset |-> 0] /\ renewed = {}
    /\ queue = [a \in Asset |-> 0]
    /\ clearance = {}
    /\ thread = [t \in Thread |-> Idle]
    /\ encoding = {} /\ answering = {}
    /\ liveBatch = {} /\ trashedBatch = {} /\ due = {}
    /\ lost = {} /\ faults = 0

-----------------------------------------------------------------------------
(* Requests from the upload dialog and the library pages.                   *)

\* A broken Create: the column's default, processed = true, is kept.
CreateKeepsDefault(a) ==
    /\ row[a] = "none"
    /\ row' = [row EXCEPT ![a] = "live"]
    /\ processed' = [processed EXCEPT ![a] = TRUE]
    /\ \E k \in Kind : kind' = [kind EXCEPT ![a] = k]
    /\ \E place \in {"unplaced", "placed"} : shelf' = [shelf EXCEPT ![a] = place]
    /\ UNCHANGED <<age, trashedFor, renewed, s3Vars, jobVars, videoVars, dailyVars,
                   faultVars>>

\* POST /assets: the row is saved without validation before anything is
\* uploaded; documents are born processed; the folder chosen in the form, if
\* any, is already among the accessible attributes.
Create(a) ==
    /\ row[a] = "none"
    /\ row' = [row EXCEPT ![a] = "live"]
    /\ \E k \in Kind : /\ kind' = [kind EXCEPT ![a] = k]
                       /\ processed' = [processed EXCEPT ![a] = (k = "document")]
    /\ \E place \in {"unplaced", "placed"} : shelf' = [shelf EXCEPT ![a] = place]
    /\ UNCHANGED <<age, trashedFor, renewed, s3Vars, jobVars, videoVars, dailyVars,
                   faultVars>>

\* The browser posts the file straight to S3 with the signed policy.
CompleteUpload(a) ==
    /\ row[a] # "none" /\ ~original[a]
    /\ original' = [original EXCEPT ![a] = TRUE]
    /\ UNCHANGED <<tableVars, renditions, jobVars, videoVars, dailyVars, faultVars>>

\* A broken Store: the processing job is forgotten.
StoreWithoutJob(a) ==
    /\ row[a] = "live" /\ original[a]
    /\ shelf' = [shelf EXCEPT ![a] = "stored"]
    /\ UNCHANGED <<kind, processed, age, stampVars, s3Vars, jobVars, videoVars,
                   dailyVars, faultVars>>

\* POST /assets/update_multiple for an uploaded file: the asset gets its folder
\* and a processing job is queued, on every call, unless it is a document.
Store(a) ==
    /\ row[a] = "live" /\ original[a]
    /\ shelf' = [shelf EXCEPT ![a] = "stored"]
    /\ \/ Document(a) /\ UNCHANGED queue
       \/ /\ ~Document(a)
          /\ queue[a] + Cardinality(Working(a)) < MaxJobs
          /\ queue' = [queue EXCEPT ![a] = @ + 1]
    /\ UNCHANGED <<kind, processed, age, stampVars, s3Vars, clearance, thread,
                   videoVars, dailyVars, faultVars>>

\* deleted_at of a is written, now or to null.
Stamp(a) ==
    /\ trashedFor' = [trashedFor EXCEPT ![a] = 0]
    /\ renewed' = IF Clearing(a) THEN renewed \cup {a} ELSE renewed \ {a}

\* The row with deleted_at stamped now.
Trash(a) == row' = [row EXCEPT ![a] = "trashed"] /\ Stamp(a)

\* The row removed from the table.
Remove(a) == /\ row' = [row EXCEPT ![a] = "gone"]
             /\ trashedFor' = [trashedFor EXCEPT ![a] = 0]
             /\ renewed' = renewed \ {a}

\* DELETE /assets/:id by a user of the account.
Delete(a) ==
    /\ row[a] = "live"
    /\ Trash(a)
    /\ UNCHANGED <<kind, processed, shelf, age, s3Vars, jobVars, videoVars, dailyVars, faultVars>>

\* The admin's destroy button finds deleted rows too.
AdminDestroy(a) ==
    /\ \/ row[a] = "live" /\ Trash(a)
       \/ row[a] = "trashed" /\ Remove(a)
    /\ UNCHANGED <<kind, processed, shelf, age, s3Vars, jobVars, videoVars, dailyVars, faultVars>>

\* A broken Restore: the row is back, its deleted_at stays.
RestoreKeepsStamp(a) ==
    /\ row[a] = "trashed"
    /\ row' = [row EXCEPT ![a] = "live"]
    /\ UNCHANGED <<trashedFor, renewed, kind, processed, shelf, age, s3Vars, jobVars,
                   videoVars, dailyVars, faultVars>>

\* The admin's restore link: deleted_at is cleared.
Restore(a) ==
    /\ row[a] = "trashed"
    /\ row' = [row EXCEPT ![a] = "live"] /\ Stamp(a)
    /\ UNCHANGED <<kind, processed, shelf, age, s3Vars, jobVars, videoVars, dailyVars, faultVars>>

-----------------------------------------------------------------------------
(* Workers::ImageProcessing, AudioProcessor and VideoProcessor.  Asset.find  *)
(* raises while the row is trashed, so the job stays for a later retry.      *)

TakeJob(a) == queue[a] > 0 /\ queue' = [queue EXCEPT ![a] = @ - 1]

\* perform has found an image or audio row that is not processed yet.
StartProcessing(t, a) ==
    /\ thread[t] = Idle
    /\ TakeJob(a) /\ Transcoded(a) /\ row[a] = "live" /\ ~processed[a]
    /\ thread' = [thread EXCEPT ![t] = [step |-> "reprocess", asset |-> a]]
    /\ UNCHANGED <<tableVars, s3Vars, clearance, videoVars, dailyVars, faultVars>>

\* perform returns early: a second job of an asset that is processed.
SkipProcessed(a) ==
    /\ TakeJob(a) /\ Transcoded(a) /\ row[a] = "live" /\ processed[a]
    /\ UNCHANGED <<tableVars, s3Vars, clearance, thread, videoVars, dailyVars, faultVars>>

\* file.reprocess! writes the styles to S3.
Reprocess(t) ==
    /\ thread[t].step = "reprocess"
    /\ renditions' = [renditions EXCEPT ![thread[t].asset] = TRUE]
    /\ thread' = [thread EXCEPT ![t].step = "flag"]
    /\ UNCHANGED <<tableVars, original, queue, clearance, videoVars, dailyVars, faultVars>>

\* A broken worker: the error is rescued in perform, so nothing is retried.
ReprocessErrorSwallowed(t) ==
    /\ thread[t].step = "reprocess" /\ faults < MaxFaults
    /\ thread' = [thread EXCEPT ![t] = Idle]
    /\ faults' = faults + 1
    /\ UNCHANGED <<tableVars, s3Vars, queue, clearance, videoVars, dailyVars, lost>>

\* file.reprocess! raises: Sidekiq schedules a retry.
ReprocessFails(t) ==
    /\ thread[t].step = "reprocess" /\ faults < MaxFaults
    /\ queue' = [queue EXCEPT ![thread[t].asset] = @ + 1]
    /\ thread' = [thread EXCEPT ![t] = Idle]
    /\ faults' = faults + 1
    /\ UNCHANGED <<tableVars, s3Vars, clearance, videoVars, dailyVars, lost>>

\* update_column(:processed, true) reaches a trashed row, but not a removed one.
Flag(t) ==
    /\ thread[t].step = "flag"
    /\ processed' = [processed EXCEPT ![thread[t].asset] = @ \/ Exists(thread[t].asset)]
    /\ thread' = [thread EXCEPT ![t] = Idle]
    /\ UNCHANGED <<kind, shelf, age, stampVars, s3Vars, queue, clearance,
                   videoVars, dailyVars, faultVars>>

\* VideoProcessor hands the video to HeyWatch whether it is processed or not.
SubmitVideo(a) ==
    /\ TakeJob(a) /\ kind[a] = "video" /\ row[a] = "live"
    /\ encoding' = encoding \cup {a}
    /\ UNCHANGED <<tableVars, s3Vars, clearance, thread, answering, dailyVars, faultVars>>

-----------------------------------------------------------------------------
(* CallbacksController#robot and VideoHandler#process_robot_ping.            *)

\* The ping finds the row by its secret.  HeyWatch may send it again.
PingLoads(a) ==
    /\ a \in encoding /\ row[a] = "live"
    /\ answering' = answering \cup {a}
    /\ encoding' \in {encoding, encoding \ {a}}
    /\ UNCHANGED <<tableVars, s3Vars, jobVars, dailyVars, faultVars>>

\* The row loaded by a ping is saved with its urls and processed = true.
PingSaves(a) ==
    /\ a \in answering
    /\ answering' = answering \ {a}
    /\ processed' = [processed EXCEPT ![a] = @ \/ Exists(a)]
    /\ renditions' = [renditions EXCEPT ![a] = @ \/ Exists(a)]
    /\ UNCHANGED <<kind, shelf, age, stampVars, original, jobVars, encoding,
                   dailyVars, faultVars>>

\* No live row has the secret: the NoMethodError on nil is rescued, the answer
\* is OK, and HeyWatch never repeats it.
PingFindsNothing(a) ==
    /\ a \in encoding /\ row[a] # "live"
    /\ encoding' = encoding \ {a}
    /\ lost' = lost \cup {a}
    /\ UNCHANGED <<tableVars, s3Vars, jobVars, answering, dailyVars, faults>>

\* A ping without output_urls, rescued the same way.
PingReportsError(a) ==
    /\ a \in encoding /\ faults < MaxFaults
    /\ encoding' = encoding \ {a}
    /\ lost' = lost \cup {a}
    /\ faults' = faults + 1
    /\ UNCHANGED <<tableVars, s3Vars, jobVars, answering, dailyVars>>

-----------------------------------------------------------------------------
(* The daily schedules and the clearance worker.                             *)

OneMoreDay(days) == IF days < MaxAge THEN days + 1 ELSE days

\* Noon: every row is a day older and sidetiq queues both schedules.
NextDay ==
    /\ age' = [a \in Asset |-> IF Exists(a) THEN OneMoreDay(age[a]) ELSE age[a]]
    /\ trashedFor' = [a \in Asset |-> IF row[a] = "trashed"
                                        THEN OneMoreDay(trashedFor[a])
                                        ELSE trashedFor[a]]
    /\ due' = Daily
    /\ UNCHANGED <<kind, row, renewed, processed, shelf, s3Vars, jobVars, videoVars,
                   liveBatch, trashedBatch, faultVars>>

\* Broken selections: without the created_at condition, and of stored rows only.
UnprocessedOfAnyAge == {a \in Asset : Exists(a) /\ ~processed[a]}
UnprocessedStored ==
    {a \in Asset : Exists(a) /\ ~processed[a] /\ age[a] >= 1 /\ shelf[a] = "stored"}

\* Rows that ClearUnprocessedAssets selects, deleted ones included.
Unprocessed == {a \in Asset : Exists(a) /\ ~processed[a] /\ age[a] >= 1}

\* ClearUnprocessedAssets#perform loads its batch.
ScanUnprocessed ==
    /\ "unprocessed" \in due
    /\ due' = due \ {"unprocessed"}
    /\ liveBatch' = {a \in Unprocessed : row[a] = "live"}
    /\ trashedBatch' = {a \in Unprocessed : row[a] = "trashed"}
    /\ UNCHANGED <<tableVars, s3Vars, jobVars, videoVars, faultVars>>

\* One turn of its loop destroys a row as it was when it was loaded: a live one
\* gets a new deleted_at, a deleted one is removed.  The branch for an asset
\* without an account is left out: nothing in the application destroys an account
\* (app/admin/account.rb:5), and on a live row delete has the same effect.
DestroyUnprocessed(a) ==
    /\ \/ /\ a \in liveBatch
          /\ \/ Exists(a) /\ Trash(a)
             \/ ~Exists(a) /\ UNCHANGED stampVars
       \/ /\ a \in trashedBatch
          /\ Remove(a)
    /\ liveBatch' = liveBatch \ {a}
    /\ trashedBatch' = trashedBatch \ {a}
    /\ UNCHANGED <<kind, processed, shelf, age, s3Vars, jobVars, videoVars, due, faultVars>>

\* Broken schedules: without the deleted_at condition, and in the default scope,
\* which holds no deleted row.
ClearAllDeleted ==
    /\ "deleted" \in due
    /\ due' = due \ {"deleted"}
    /\ clearance' = clearance \cup {a \in Asset : row[a] = "trashed"}
    /\ UNCHANGED <<tableVars, s3Vars, queue, thread, videoVars, liveBatch,
                   trashedBatch, faultVars>>
ClearInDefaultScope ==
    /\ "deleted" \in due
    /\ due' = due \ {"deleted"}
    /\ clearance' = clearance \cup
           {a \in Asset : row[a] = "live" /\ trashedFor[a] > RetentionDays}
    /\ UNCHANGED <<tableVars, s3Vars, queue, thread, videoVars, liveBatch,
                   trashedBatch, faultVars>>

\* ClearDeletedEntities#perform queues a clearance for every asset that has been
\* deleted for longer than the retention period.
ClearDeletedEntities ==
    /\ "deleted" \in due
    /\ due' = due \ {"deleted"}
    /\ clearance' = clearance \cup
           {a \in Asset : row[a] = "trashed" /\ trashedFor[a] > RetentionDays}
    /\ UNCHANGED <<tableVars, s3Vars, queue, thread, videoVars, liveBatch,
                   trashedBatch, faultVars>>

\* AssetClearance#perform has seen the deleted row.
StartClearance(t, a) ==
    /\ thread[t] = Idle
    /\ a \in clearance /\ row[a] = "trashed"
    /\ clearance' = clearance \ {a}
    /\ thread' = [thread EXCEPT ![t] = [step |-> "clear", asset |-> a]]
    /\ UNCHANGED <<tableVars, s3Vars, queue, videoVars, dailyVars, faultVars>>

\* AssetClearance#perform returns early: the row is not deleted any more.
SkipClearance(a) ==
    /\ a \in clearance /\ row[a] # "trashed"
    /\ clearance' = clearance \ {a}
    /\ UNCHANGED <<tableVars, s3Vars, queue, thread, videoVars, dailyVars, faultVars>>

\* The second asset.first loads the row again and destroy! removes it; when the
\* second load finds nothing, nil.destroy! raises and the job is retried.
FinishClearance(t) ==
    LET a == thread[t].asset IN
    /\ thread[t].step = "clear"
    /\ thread' = [thread EXCEPT ![t] = Idle]
    /\ \/ Exists(a) /\ Remove(a) /\ UNCHANGED clearance
       \/ /\ row[a] # "trashed"
          /\ clearance' = clearance \cup {a}
          /\ UNCHANGED stampVars
    /\ UNCHANGED <<kind, processed, shelf, age, s3Vars, queue, videoVars, dailyVars, faultVars>>

-----------------------------------------------------------------------------
(* What the environment may do to jobs.                                      *)

\* The Sidekiq process dies: the jobs its threads had fetched are lost, and so
\* is the rest of the batch of a running schedule.
SidekiqCrash ==
    /\ faults < MaxFaults
    /\ faults' = faults + 1
    /\ lost' = lost \cup {a \in Asset : Working(a) # {}}
    /\ thread' = [t \in Thread |-> Idle]
    /\ liveBatch' = {} /\ trashedBatch' = {}
    /\ UNCHANGED <<tableVars, s3Vars, queue, clearance, videoVars, due>>

\* The last retry of a job whose row is not found: Sidekiq declares it dead.
JobDies(a) ==
    /\ TakeJob(a) /\ row[a] # "live" /\ faults < MaxFaults
    /\ faults' = faults + 1
    /\ lost' = lost \cup {a}
    /\ UNCHANGED <<tableVars, s3Vars, clearance, thread, videoVars, dailyVars>>

Request(a) == Create(a) \/ CompleteUpload(a) \/ Store(a) \/ Delete(a)
              \/ AdminDestroy(a) \/ Restore(a)

Callback(a) == PingLoads(a) \/ PingSaves(a) \/ PingFindsNothing(a)

ThreadStep(t) == Reprocess(t) \/ Flag(t) \/ FinishClearance(t)

Fault == \/ SidekiqCrash
         \/ \E a \in Asset : JobDies(a) \/ PingReportsError(a)
         \/ \E t \in Thread : ReprocessFails(t)

Next ==
    \/ \E a \in Asset : \/ Request(a) \/ Callback(a)
                        \/ SkipProcessed(a) \/ SubmitVideo(a)
                        \/ DestroyUnprocessed(a) \/ SkipClearance(a)
    \/ \E t \in Thread : \/ ThreadStep(t)
                         \/ \E a \in Asset : StartProcessing(t, a) \/ StartClearance(t, a)
    \/ NextDay \/ ScanUnprocessed \/ ClearDeletedEntities
    \/ Fault

Spec == Init /\ [][Next]_vars

\* sidetiq and Sidekiq run what is queued and HeyWatch answers; nothing makes the
\* clock advance or a user act.  A free thread takes a given job eventually even
\* if other jobs keep the threads busy now and then (the queues are polled with
\* weights, none has absolute priority).
Fairness ==
    /\ WF_vars(ScanUnprocessed) /\ WF_vars(ClearDeletedEntities)
    /\ \A a \in Asset : /\ WF_vars(DestroyUnprocessed(a))
                        /\ WF_vars(SkipClearance(a))
                        /\ WF_vars(SkipProcessed(a))
                        /\ WF_vars(SubmitVideo(a))
                        /\ WF_vars(Callback(a))
                        /\ WF_vars(PingSaves(a))
                        /\ SF_vars(\E t \in Thread : StartProcessing(t, a))
                        /\ SF_vars(\E t \in Thread : StartClearance(t, a))
    /\ \A t \in Thread : WF_vars(ThreadStep(t))

FairSpec == Spec /\ Fairness

-----------------------------------------------------------------------------
(* Properties.                                                               *)

\* The columns and queues have their types, and deleted_at is null (its age is
\* zero) for every row that is not in the trash.
TypeOK ==
    /\ kind \in [Asset -> Kind]
    /\ row \in [Asset -> {"none", "live", "trashed", "gone"}]
    /\ processed \in [Asset -> BOOLEAN]
    /\ shelf \in [Asset -> {"unplaced", "placed", "stored"}]
    /\ original \in [Asset -> BOOLEAN] /\ renditions \in [Asset -> BOOLEAN]
    /\ age \in [Asset -> 0..MaxAge] /\ trashedFor \in [Asset -> 0..MaxAge]
    /\ \A a \in Asset : row[a] # "trashed" => trashedFor[a] = 0
    /\ renewed \subseteq Asset
    /\ queue \in [Asset -> Nat] /\ clearance \subseteq Asset
    /\ thread \in [Thread -> Busy \cup {Idle}]
    /\ encoding \subseteq Asset /\ answering \subseteq Asset
    /\ liveBatch \subseteq Asset /\ trashedBatch \subseteq Asset
    /\ due \subseteq Daily
    /\ lost \subseteq Asset /\ faults \in 0..MaxFaults

\* A page that shows an asset as processed finds its styles or its encoded urls:
\* no order of workers, duplicate jobs, pings and deletions sets the flag first.
ProcessedMeansRendered ==
    \A a \in Asset : Exists(a) /\ processed[a] /\ ~Document(a) => renditions[a]

\* Some job, thread, encoding or callback is still going to process a.
InProgress(a) == \/ queue[a] > 0 \/ Working(a) # {}
                 \/ a \in encoding \/ a \in answering

\* A stored asset that still waits to be processed has someone working on it,
\* through deletes and restores, unless a fault or a ping that met a deleted row
\* lost its job.
WorkConserved ==
    \A a \in Asset :
        /\ Exists(a) /\ shelf[a] = "stored" /\ ~processed[a] /\ a \notin lost
        => InProgress(a)

\* Only a request of a user or of an admin deletes an asset on the day it was
\* created, however late it is processed: the daily jobs spare fresh uploads.
FreshAssetsSpared ==
    [][\A a \in Asset : row[a] = "live" /\ row'[a] \in {"trashed", "gone"} =>
           Delete(a) \/ AdminDestroy(a) \/ age[a] >= 1]_vars

\* A row leaves the table because an admin removes it, because the daily cleanup
\* has found it deleted, a day old and not processed, or because it is deleted for
\* longer than the retention period.  Only one row goes earlier: one that was
\* restored, or restored and deleted again, while the AssetClearance of its earlier
\* deletion was waiting, since the job looks at the row and not at its deleted_at.
RetentionKept ==
    [][\A a \in Asset : Exists(a) /\ row'[a] = "gone" =>
           \/ AdminDestroy(a)
           \/ a \in trashedBatch /\ age[a] >= 1
           \/ row[a] = "trashed" /\ trashedFor[a] > RetentionDays
           \/ a \in renewed /\ Clearing(a) /\ age[a] > RetentionDays]_vars

\* What is said of the daily schedules is said of a clock that keeps running.
DaysPass == WF_vars(NextDay)

\* An upload that is never processed, for whatever reason, does not stay in the
\* library for ever.
UnprocessedSettles ==
    DaysPass => \A a \in Asset : (row[a] = "live" /\ ~processed[a])
                                 ~> (row[a] # "live" \/ processed[a])

\* What is in the trash is restored or is removed for good some day.
TrashIsEmptied ==
    DaysPass => \A a \in Asset : (row[a] = "trashed") ~> (row[a] # "trashed")

\* Without faults the workers process every stored asset that is not deleted
\* meanwhile, with no help from the daily schedules.
StoredIsProcessed ==
    \A a \in Asset : (row[a] = "live" /\ shelf[a] = "stored" /\ a \notin lost)
                     ~> (processed[a] \/ row[a] # "live" \/ a \in lost)

\* What the frontend lists: Assets::BaseResource#build_collection.
Listed(a) == row[a] = "live" /\ processed[a] /\ shelf[a] # "unplaced"

\* uploader.js.coffee:70 says that update_multiple is what makes an asset visible.
VisibleOnlyAfterStore == \A a \in Asset : Listed(a) => shelf[a] = "stored"
=============================================================================
