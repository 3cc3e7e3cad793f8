---------------------------- MODULE Uploader_proofs ----------------------------
(***************************************************************************)
(* Proofs about Uploader for any files, form, number of clicks and number   *)
(* of failures.                                                             *)
(***************************************************************************)
EXTENDS Uploader, TLAPS

\* An answer "ok" tells that all assets of its request are in a folder.
OkIsPlaced == \A c \in calls : c.step = "ok" => c.files \subseteq placed

Inv == TypeOK /\ OkIsPlaced /\ StoredIsPlaced /\ UploadsAreKept

LEMMA PresetIsField == [text |-> Preset, box |-> Preset] \in Fields
BY DEF Fields

LEMMA FilledIsField ==
    ASSUME NEW form \in Form, NEW x \in Fields PROVE Filled(form, x) \in Fields
BY DEF Filled, Fields

LEMMA InitInv == Init => Inv
<1> SUFFICES ASSUME Init PROVE Inv
  OBVIOUS
<1> USE DEF Init
<1>1. Uploaded = {} /\ Pending = {}
  BY DEF Uploaded, Pending
<1>2. attrs \in [File -> Fields] /\ listed \in Seq(File)
  BY PresetIsField DEF Unset
<1>3. TypeOK
  BY <1>1, <1>2 DEF TypeOK
<1>4. OkIsPlaced /\ StoredIsPlaced /\ UploadsAreKept
  BY <1>1 DEF OkIsPlaced, StoredIsPlaced, UploadsAreKept
<1>5. QED
  BY <1>3, <1>4 DEF Inv

LEMMA AddStep ==
    ASSUME Inv, NEW f \in File, NEW form \in Form, Add(f, form) PROVE Inv'
<1> USE DEF Inv, Add
<1>1. listed' \in Seq(File) /\ listed' # <<>>
  BY DEF TypeOK
<1>2. attrs' \in [File -> Fields]
  BY DEF TypeOK, Fields
<1>3. Uploaded' = Uploaded
  BY DEF TypeOK, Uploaded
<1>4. button' \in {"hidden", "ready"} /\ (button' # "hidden" => Uploaded # {})
  BY DEF Refreshed
<1>5. TypeOK'
  BY <1>1, <1>2, <1>3, <1>4 DEF TypeOK, server
<1>6. QED
  BY <1>3, <1>5 DEF OkIsPlaced, StoredIsPlaced, UploadsAreKept, Pending, server

LEMMA CompletedStep ==
    ASSUME Inv, NEW f \in File, Completed(f) PROVE Inv'
<1> DEFINE files == {g \in Uploaded \cup {f} : ~stored[g]}
           new == [by |-> f, step |-> "out", files |-> files]
<1> USE DEF Inv
<1>1. Uploaded' = Uploaded \cup {f}
  BY DEF Completed, TypeOK, Uploaded
<1>2. files \subseteq File
  BY DEF Uploaded
<1>3. \/ calls' = calls \cup {new}
      \/ calls' = calls /\ files = {}
  BY DEF Completed, Request
<1>4. new \in Call
  BY <1>2 DEF Call
<1>5. TypeOK'
  <2>1. calls' \subseteq Call
    BY <1>3, <1>4 DEF TypeOK
  <2>2. batch' \in {"none", "running", "jammed"}
    BY DEF Completed, TypeOK
  <2>3. upload' \in [File -> {"none", "sending", "completed", "failed"}]
    BY DEF Completed, TypeOK
  <2>4. \A g \in File : upload'[g] # "none" => upload[g] # "none"
    BY DEF Completed, TypeOK
  <2>5. QED
    BY <1>1, <2>1, <2>2, <2>3, <2>4 DEF Completed, TypeOK, server
<1>6. OkIsPlaced' /\ StoredIsPlaced'
  BY <1>3 DEF OkIsPlaced, StoredIsPlaced, Completed, server
<1>7. UploadsAreKept'
  <2>1. files \subseteq Pending'
    <3>1. CASE calls' = calls \cup {new}
      <4>1. new \in calls' /\ new.step = "out" /\ new.files = files
        BY <3>1
      <4> HIDE DEF new, files
      <4>2. QED
        BY <4>1 DEF Pending
    <3>2. CASE files = {}
      BY <3>2
    <3>3. QED
      BY <1>3, <3>1, <3>2
  <2>2. Pending \subseteq Pending'
    BY <1>3 DEF Pending
  <2>3. f \in files \/ f \in placed \cup assumed
    BY DEF StoredIsPlaced
  <2>4. QED
    BY <1>1, <2>1, <2>2, <2>3 DEF UploadsAreKept, Completed, server
<1>8. QED
  BY <1>5, <1>6, <1>7

LEMMA SaveStep ==
    ASSUME Inv, NEW form \in Form, Save(form) PROVE Inv'
<1> DEFINE l == listed[Len(listed)]
           marks == [stored EXCEPT ![l] = ~Changed(form, attrs[l])]
           files == {f \in Uploaded : ~marks[f]}
           new == [by |-> saves + 1, step |-> "out", files |-> files]
<1> USE DEF Inv
<1>1. l \in File
  <2>1. listed \in Seq(File) /\ listed # <<>>
    BY DEF Save, TypeOK, Uploaded
  <2>2. QED
    BY <2>1
<1>2. marks \in [File -> BOOLEAN] /\ \A f \in File \ {l} : marks[f] = stored[f]
  BY <1>1 DEF TypeOK, Changed
<1>3. stored' = marks /\ assumed' = IF marks[l] THEN assumed \cup {l} ELSE assumed \ {l}
  BY DEF Save
<1>4. files \subseteq File /\ Uploaded' = Uploaded
  BY DEF Uploaded, Save
<1>5. \/ calls' = calls \cup {new}
      \/ calls' = calls /\ files = {}
  BY DEF Save, Request
<1>6. new \in Call
  BY <1>4 DEF Call, TypeOK
<1>7. TypeOK'
  <2>1. calls' \subseteq Call
    BY <1>5, <1>6 DEF TypeOK
  <2>2. attrs' \in [File -> Fields]
    BY <1>1, FilledIsField DEF Save, TypeOK
  <2>3. saves' \in Nat /\ button' = "unavailable"
    BY DEF Save, TypeOK
  <2>4. Uploaded # {}
    BY DEF Save, TypeOK
  <2>5. QED
    BY <1>1, <1>2, <1>3, <1>4, <2>1, <2>2, <2>3, <2>4 DEF Save, TypeOK, server
<1>8. OkIsPlaced' /\ StoredIsPlaced'
  BY <1>1, <1>2, <1>3, <1>5 DEF OkIsPlaced, StoredIsPlaced, Save, server
<1>9. UploadsAreKept'
  <2>1. files \subseteq Pending' /\ Pending \subseteq Pending'
    <3>1. Pending \subseteq Pending'
      BY <1>5 DEF Pending
    <3>2. CASE calls' = calls \cup {new}
      <4>1. new \in calls' /\ new.step = "out" /\ new.files = files
        BY <3>2
      <4> HIDE DEF new, files
      <4>2. QED
        BY <3>1, <4>1 DEF Pending
    <3>3. CASE files = {}
      BY <3>1, <3>3
    <3>4. QED
      BY <1>5, <3>2, <3>3
  <2>2. \A f \in Uploaded \ assumed' : f # l => f \notin assumed
    BY <1>3
  <2>3. l \in Uploaded \ assumed' => l \in files
    BY <1>1, <1>3
  <2>4. QED
    BY <1>4, <2>1, <2>2, <2>3 DEF UploadsAreKept, Save, server
<1>10. QED
  BY <1>7, <1>8, <1>9

LEMMA MovedStep ==
    ASSUME TypeOK, NEW c \in calls, NEW step \in {"out", "ok", "error"}, Moved(c, step)
    PROVE  /\ calls' \subseteq Call
           /\ \A d \in calls' : d \in calls \/ (d.files = c.files /\ d.step = step)
           /\ \A d \in calls \ {c} : d \in calls'
<1> DEFINE new == [c EXCEPT !.step = step]
<1>1. c \in Call
  BY DEF TypeOK
<1>2. new \in Call /\ new.files = c.files /\ new.step = step
  BY <1>1 DEF Call
<1>3. calls' = (calls \ {c}) \cup {new}
  BY DEF Moved
<1> HIDE DEF new
<1>4. QED
  BY <1>2, <1>3 DEF TypeOK

LEMMA UpdateMultipleStep ==
    ASSUME Inv, NEW c \in calls, UpdateMultiple(c) PROVE Inv'
<1> DEFINE done == Reached(c.files)
           step == IF done = c.files THEN "ok" ELSE "error"
<1> USE DEF Inv
<1>1. c.files \subseteq File /\ done \subseteq c.files
  BY DEF TypeOK, Call, Reached
<1>2. Moved(c, step) /\ placed' = placed \cup done /\ step \in {"ok", "error"}
  BY DEF UpdateMultiple
<1> HIDE DEF step
<1>3. /\ calls' \subseteq Call
      /\ \A d \in calls' : d \in calls \/ (d.files = c.files /\ d.step = step)
      /\ \A d \in calls \ {c} : d \in calls'
  BY <1>2, MovedStep
<1>4. TypeOK' /\ Uploaded' = Uploaded
  BY <1>1, <1>2, <1>3 DEF UpdateMultiple, TypeOK, dialog, client, Uploaded
<1>5. OkIsPlaced'
  <2>1. step = "ok" => c.files \subseteq placed'
    BY <1>2 DEF step
  <2>2. QED
    BY <1>2, <1>3, <2>1 DEF OkIsPlaced
<1>6. StoredIsPlaced'
  BY <1>2 DEF StoredIsPlaced, UpdateMultiple, client
<1>7. UploadsAreKept'
  <2>1. deleted = {} => done = c.files
    BY DEF Reached
  <2>2. \A f \in Pending : f \in Pending' \/ f \in c.files
    BY <1>3 DEF Pending
  <2>3. QED
    BY <1>2, <1>4, <2>1, <2>2 DEF UploadsAreKept, UpdateMultiple, client
<1>8. QED
  BY <1>4, <1>5, <1>6, <1>7

LEMMA FailStep ==
    ASSUME Inv, NEW c \in calls, Fail(c) PROVE Inv'
<1> USE DEF Inv
<1>1. /\ calls' \subseteq Call
      /\ \A d \in calls' : d \in calls \/ (d.files = c.files /\ d.step = "error")
      /\ \A d \in calls \ {c} : d \in calls'
  BY MovedStep DEF Fail
<1>2. failures' \in Nat /\ failures' # 0
  BY DEF Fail, TypeOK
<1>3. TypeOK'
  BY <1>1, <1>2 DEF Fail, TypeOK, dialog, client, server, Uploaded
<1>4. OkIsPlaced' /\ StoredIsPlaced' /\ UploadsAreKept'
  BY <1>1, <1>2 DEF Fail, OkIsPlaced, StoredIsPlaced, UploadsAreKept, client, server
<1>5. QED
  BY <1>3, <1>4

LEMMA SuccessStep ==
    ASSUME Inv, NEW c \in calls, Success(c) PROVE Inv'
<1> USE DEF Inv
<1>1. c \in Call /\ c.files \subseteq placed /\ calls' = calls \ {c} /\ c.step = "ok"
  BY DEF TypeOK, OkIsPlaced, Success
<1>2. Uploaded' = Uploaded /\ Pending' = Pending
  BY <1>1 DEF Success, Uploaded, Pending
<1>3. TypeOK'
  <2>1. open' \in {"open", "saved", "left"} /\ stored' \in [File -> BOOLEAN]
    BY DEF Success, TypeOK
  <2>2. assumed' \subseteq File
    BY DEF Success, TypeOK
  <2>3. QED
    BY <1>1, <1>2, <2>1, <2>2 DEF Success, TypeOK, server
<1>4. OkIsPlaced'
  BY <1>1 DEF OkIsPlaced, Success, server
<1>5. StoredIsPlaced' /\ UploadsAreKept'
  <2>1. CASE c.by \in File
    <3>1. /\ stored' = [stored EXCEPT ![c.by] = TRUE]
          /\ assumed' = IF c.by \in c.files THEN assumed \ {c.by} ELSE assumed \cup {c.by}
      BY <2>1 DEF Success
    <3>2. placed' = placed /\ failures' = failures /\ deleted' = deleted
      BY DEF Success, server
    <3>3. StoredIsPlaced'
      BY <1>1, <3>1, <3>2 DEF StoredIsPlaced, TypeOK
    <3>4. UploadsAreKept'
      BY <1>1, <1>2, <3>1, <3>2 DEF UploadsAreKept
    <3>5. QED
      BY <3>3, <3>4
  <2>2. CASE c.by \notin File
    BY <1>2, <2>2 DEF Success, StoredIsPlaced, UploadsAreKept, server
  <2>3. QED
    BY <2>1, <2>2
<1>6. QED
  BY <1>3, <1>4, <1>5

LEMMA ErrorStep ==
    ASSUME Inv, NEW c \in calls, Error(c) PROVE Inv'
<1> USE DEF Inv, Error, client, server
<1>1. TypeOK' /\ Uploaded' = Uploaded
  BY DEF TypeOK, Uploaded
<1>2. Pending' = Pending
  BY DEF Pending
<1>3. QED
  BY <1>1, <1>2 DEF OkIsPlaced, StoredIsPlaced, UploadsAreKept

\* The actions that leave the requests and the marks alone.
LEMMA OtherSteps ==
    ASSUME Inv, Stopped \/ Leave \/ \E f \in File : UploadFails(f) \/ Delete(f) PROVE Inv'
<1> USE DEF Inv, OkIsPlaced, StoredIsPlaced, UploadsAreKept, Pending, client, server
<1>1. CASE Stopped
  BY <1>1 DEF Stopped, TypeOK, Refreshed, Uploaded
<1>2. CASE Leave
  BY <1>2 DEF Leave, TypeOK, Uploaded
<1>3. ASSUME NEW f \in File, UploadFails(f) PROVE Inv'
  <2>1. Uploaded' = Uploaded
    BY <1>3 DEF UploadFails, TypeOK, Uploaded
  <2>2. upload' \in [File -> {"none", "sending", "completed", "failed"}]
    BY <1>3 DEF UploadFails, TypeOK
  <2>3. \A g \in File : upload'[g] # "none" => upload[g] # "none"
    BY <1>3 DEF UploadFails, TypeOK
  <2>4. TypeOK'
    BY <1>3, <2>1, <2>2, <2>3 DEF UploadFails, TypeOK, Refreshed
  <2>5. QED
    BY <1>3, <2>1, <2>4 DEF UploadFails
<1>4. ASSUME NEW f \in File, Delete(f) PROVE Inv'
  <2>1. TypeOK'
    BY <1>4 DEF Delete, TypeOK, Refreshed, Uploaded
  <2>2. deleted' # {}
    BY <1>4 DEF Delete
  <2>3. QED
    BY <1>4, <2>1, <2>2 DEF Delete
<1>5. QED
  BY <1>1, <1>2, <1>3, <1>4

LEMMA InvStep == Inv /\ [Next]_vars => Inv'
<1> SUFFICES ASSUME Inv, [Next]_vars PROVE Inv'
  OBVIOUS
<1>1. CASE Next
  <2>1. ASSUME NEW form \in Form, Save(form) PROVE Inv'
    BY <2>1, SaveStep
  <2>2. ASSUME NEW form \in Form, NEW f \in File, Add(f, form) PROVE Inv'
    BY <2>2, AddStep
  <2>3. ASSUME NEW f \in File, Completed(f) PROVE Inv'
    BY <2>3, CompletedStep
  <2>4. ASSUME NEW c \in calls, UpdateMultiple(c) \/ Fail(c) \/ Success(c) \/ Error(c)
        PROVE  Inv'
    BY <2>4, UpdateMultipleStep, FailStep, SuccessStep, ErrorStep
  <2>5. QED
    BY <1>1, <2>1, <2>2, <2>3, <2>4, OtherSteps DEF Next
<1>2. CASE UNCHANGED vars
  BY <1>2 DEF vars, dialog, client, server, Inv, TypeOK, OkIsPlaced, StoredIsPlaced,
     UploadsAreKept, Uploaded, Pending
<1>3. QED
  BY <1>1, <1>2

LEMMA Invariance == Spec => []Inv
<1>1. QED
  BY InitInv, InvStep, PTL DEF Spec

\* Every dialog, request and asset has its type at all times, and Save Files can
\* only be clicked when a file is uploaded.
THEOREM TypeCorrect == Spec => []TypeOK
<1>1. Inv => TypeOK
  BY DEF Inv
<1>2. QED
  BY Invariance, <1>1, PTL

\* The mark that makes storeAssetsOnServer leave a file out is true, unless Save Files
\* has set it from asset.changed, or an answer to a request that left the file out
\* because of such a mark: what is in assumed may be marked without being placed.
THEOREM StoredIsPlacedCorrect == Spec => []StoredIsPlaced
<1>1. Inv => StoredIsPlaced
  BY DEF Inv
<1>2. QED
  BY Invariance, <1>1, PTL

\* No order of uploads, clicks and answers loses an uploaded file, if no request fails
\* and no row is deleted, other than a file whose mark is in assumed.
THEOREM UploadsAreKeptCorrect == Spec => []UploadsAreKept
<1>1. Inv => UploadsAreKept
  BY DEF Inv
<1>2. QED
  BY Invariance, <1>1, PTL
=============================================================================
