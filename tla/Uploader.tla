------------------------------- MODULE Uploader -------------------------------
(***************************************************************************)
(* The upload dialog (views/backend/folder/uploader.js.coffee): files are   *)
(* created on the server, sent to S3 and stored by POST update_multiple,    *)
(* each by itself as soon as it has arrived, and once more by "Save Files"  *)
(* with what the form says of the last of them.  The callbacks of uploads   *)
(* and requests run in any order.                                           *)
(***************************************************************************)
EXTENDS Integers, Sequences

CONSTANTS
    File,         \* files the user may pick
    Form,         \* what the form holds when it is read, see FormAssumption
    Empty,        \* a field left empty
    Preset,       \* the value of a field that the user gave no value
    MaxSaves,     \* bound: clicks on Save Files
    MaxFailures   \* bound: lost or refused requests and lost answers

\* The fields of the form in two groups: the title and the description, which
\* the server answers back, come before the checkbox and the tags, which it does
\* not.  Some field is filled: if nothing else, the folder, counted as a box.
ASSUME FormAssumption == \A x \in Form : x.text # Empty \/ x.box # Empty
ASSUME BoundsAssumption == MaxSaves \in Nat /\ MaxFailures \in Nat
ASSUME FileAssumption == File \cap Nat = {}

VARIABLES
    open,      \* "open", "saved" (closed by Save Files) or "left"
    button,    \* Save Files: "hidden", "ready" or "unavailable"
    batch,     \* the plugin's uploads: "none", "running", or "jammed" by an error
    listed,    \* @assets, in the order of creation
    upload,    \* of a file: "none", "sending", "completed" or "failed"
    attrs,     \* the attributes of an asset of @assets
    stored,    \* its attribute "stored"
    calls,     \* update_multiple requests that are out
    saves,     \* clicks on Save Files
    deleted,   \* rows that the user deleted in the dialog
    placed,    \* rows that update_multiple has put into a folder
    failures,
    assumed    \* assets whose mark no answered request that carried them stands for

dialog == <<open, button, batch>>
client == <<listed, upload, attrs, stored, assumed>>
server == <<deleted, placed>>
vars == <<dialog, client, calls, saves, server, failures>>

Uploaded == {f \in File : upload[f] = "completed"}
Unset == [text |-> Preset, box |-> Preset]

Init ==
    /\ open = "open" /\ button = "hidden" /\ batch = "none"
    /\ listed = <<>> /\ upload = [f \in File |-> "none"]
    /\ attrs = [f \in File |-> Unset] /\ stored = [f \in File |-> FALSE]
    /\ calls = {} /\ saves = 0
    /\ deleted = {} /\ placed = {}
    /\ failures = 0 /\ assumed = {}

\* A broken Refreshed: an upload that has begun shows the button.
RefreshedTooEarly == IF \A f \in File : upload[f] = "none" THEN "hidden" ELSE "ready"

\* refreshCreateButtonVisibility
Refreshed == IF Uploaded = {} THEN "hidden" ELSE "ready"

-----------------------------------------------------------------------------
(* Uploads.                                                                  *)

\* A file is selected and doAdd runs when POST /assets has answered with the row, with
\* the title and the description of the form or one made from the file name; then the
\* upload begins.  Until then the dialog knows nothing of the file, so it is one step.
Add(f, form) ==
    /\ open = "open" /\ upload[f] = "none"
    /\ upload' = [upload EXCEPT ![f] = "sending"]
    /\ listed' = Append(listed, f)
    /\ attrs' = [attrs EXCEPT ![f].text = IF form.text = Empty THEN Preset ELSE form.text]
    /\ button' = Refreshed
    /\ batch' = IF \E g \in File : upload[g] = "sending" THEN batch ELSE "running"
    /\ UNCHANGED <<open, stored, assumed, calls, saves, server, failures>>

\* fileuploadfail, also when the user cancels.
UploadFails(f) ==
    /\ open = "open" /\ upload[f] = "sending"
    /\ upload' = [upload EXCEPT ![f] = "failed"]
    /\ button' = Refreshed
    /\ UNCHANGED <<open, batch, listed, attrs, stored, assumed, calls, saves, server, failures>>

\* The request of storeAssetsOnServer for these assets.
Request(by, files) ==
    calls' = calls \cup {[by |-> by, step |-> "out", files |-> files]}

\* A broken Completed: the asset counts as stored before the server answers.
CompletedIsStored(f) ==
    LET files == {g \in Uploaded \cup {f} : ~stored[g]} IN
    /\ open = "open" /\ upload[f] = "sending"
    /\ upload' = [upload EXCEPT ![f] = "completed"]
    /\ stored' = [stored EXCEPT ![f] = TRUE]
    /\ Request(f, files)
    /\ UNCHANGED <<dialog, listed, attrs, assumed, saves, server, failures>>

\* A broken Completed: a file that arrives while a request is out waits for one
\* that nobody sends.
CompletedIfIdle(f) ==
    LET files == {g \in Uploaded \cup {f} : ~stored[g]} IN
    /\ open = "open" /\ upload[f] = "sending"
    /\ upload' = [upload EXCEPT ![f] = "completed"]
    /\ IF calls = {} THEN Request(f, files) ELSE UNCHANGED calls
    /\ UNCHANGED <<dialog, listed, attrs, stored, assumed, saves, server, failures>>

\* fileuploadcompleted: the asset is stored, with all others that are uploaded
\* and not marked.  With none left there is no request: `true.success` is a
\* TypeError, and the plugin waits for this upload until its next start.
Completed(f) ==
    LET files == {g \in Uploaded \cup {f} : ~stored[g]} IN
    /\ open = "open" /\ upload[f] = "sending"
    /\ upload' = [upload EXCEPT ![f] = "completed"]
    /\ \/ /\ files # {}
          /\ Request(f, files)
          /\ UNCHANGED batch
       \/ /\ files = {}
          /\ batch' = "jammed"
          /\ UNCHANGED calls
    /\ UNCHANGED <<open, button, listed, attrs, stored, assumed, saves, server, failures>>

\* fileuploadstopped
Stopped ==
    /\ open = "open" /\ batch = "running"
    /\ \A f \in File : upload[f] # "sending"
    /\ batch' = "none"
    /\ button' = Refreshed
    /\ UNCHANGED <<open, client, calls, saves, server, failures>>

\* The delete button of an uploaded file: its row is deleted and disappears from
\* the list of the dialog, but not from @assets.
Delete(f) ==
    /\ open = "open" /\ upload[f] \in {"completed", "failed"} /\ f \notin deleted
    /\ deleted' = deleted \cup {f}
    /\ button' = Refreshed
    /\ UNCHANGED <<open, batch, client, calls, saves, placed, failures>>

-----------------------------------------------------------------------------
(* Save Files.                                                               *)

\* asset.set of every field that is filled, one after the other.
Filled(form, x) ==
    [text |-> IF form.text = Empty THEN x.text ELSE form.text,
     box  |-> IF form.box = Empty THEN x.box ELSE form.box]

\* asset.changed after the last of them: it tells of that field only.
Changed(form, x) == IF form.box = Empty THEN form.text # x.text ELSE form.box # x.box

\* handleFileSaving.  The button is shown only when an asset is uploaded, so
\* that "Upload something!" is never reached.  With nothing left to store,
\* `true.success` is a TypeError and the button stays as it is.
Save(form) ==
    LET l == listed[Len(listed)]
        marks == [stored EXCEPT ![l] = ~Changed(form, attrs[l])]
        files == {f \in Uploaded : ~marks[f]} IN
    /\ open = "open" /\ button = "ready" /\ saves < MaxSaves
    /\ saves' = saves + 1
    /\ button' = "unavailable"
    /\ attrs' = [attrs EXCEPT ![l] = Filled(form, @)]
    /\ stored' = marks
    /\ assumed' = IF marks[l] THEN assumed \cup {l} ELSE assumed \ {l}
    /\ \/ files # {} /\ Request(saves + 1, files)
       \/ files = {} /\ UNCHANGED calls
    /\ UNCHANGED <<open, batch, listed, upload, server, failures>>

\* The dialog is closed with its cross; its handlers are removed with it.
Leave ==
    /\ open = "open"
    /\ open' = "left"
    /\ UNCHANGED <<button, batch, client, calls, saves, server, failures>>

-----------------------------------------------------------------------------
(* POST update_multiple.                                                     *)

Moved(c, step) == calls' = (calls \ {c}) \cup {[c EXCEPT !.step = step]}

\* The assets of the list up to the first whose row is missing, where
\* nil.assign_attributes ends the request.
Reached(files) ==
    {f \in files : \A i, j \in DOMAIN listed :
        i <= j /\ listed[j] = f /\ listed[i] \in files => listed[i] \notin deleted}

\* The server goes through the list; every asset is saved for itself.
UpdateMultiple(c) ==
    LET done == Reached(c.files) IN
    /\ c.step = "out"
    /\ placed' = placed \cup done
    /\ Moved(c, IF done = c.files THEN "ok" ELSE "error")
    /\ UNCHANGED <<dialog, client, saves, deleted, failures>>

\* The request or its answer is lost.
Fail(c) ==
    /\ c.step \in {"out", "ok"} /\ failures < MaxFailures
    /\ failures' = failures + 1
    /\ Moved(c, "error")
    /\ UNCHANGED <<dialog, client, saves, server>>

\* The success callback of a single asset marks it, that of Save Files closes.
Success(c) ==
    /\ c.step = "ok"
    /\ calls' = calls \ {c}
    /\ \/ /\ c.by \in File
          /\ stored' = [stored EXCEPT ![c.by] = TRUE]
          /\ assumed' = IF c.by \in c.files THEN assumed \ {c.by}
                                              ELSE assumed \cup {c.by}
          /\ UNCHANGED open
       \/ /\ c.by \notin File
          /\ open' = IF open = "open" THEN "saved" ELSE open
          /\ UNCHANGED <<stored, assumed>>
    /\ UNCHANGED <<button, batch, listed, upload, attrs, saves, server, failures>>

\* The error callback.
Error(c) ==
    /\ c.step = "error"
    /\ calls' = calls \ {c}
    /\ button' = IF button = "unavailable" THEN "ready" ELSE button
    /\ UNCHANGED <<open, batch, client, saves, server, failures>>

Next ==
    \/ Stopped \/ Leave \/ \E form \in Form : Save(form) \/ \E f \in File : Add(f, form)
    \/ \E f \in File : UploadFails(f) \/ Completed(f) \/ Delete(f)
    \/ \E c \in calls : UpdateMultiple(c) \/ Fail(c) \/ Success(c) \/ Error(c)

Spec == Init /\ [][Next]_vars

-----------------------------------------------------------------------------
(* Properties.                                                               *)

Fields == [text : {x.text : x \in Form} \cup {Preset}, box : {x.box : x \in Form} \cup {Preset}]

Call == [by : File \cup Nat, step : {"out", "ok", "error"},
         files : SUBSET File]

\* The dialog, its assets and its requests have their types; and the button is
\* shown only when a file is uploaded: Save Files finds a last asset, and its
\* "Upload something!" is never reached.
TypeOK ==
    /\ open \in {"open", "saved", "left"}
    /\ button \in {"hidden", "ready", "unavailable"}
    /\ batch \in {"none", "running", "jammed"}
    /\ listed \in Seq(File) /\ \A f \in File : upload[f] # "none" => listed # <<>>
    /\ button # "hidden" => Uploaded # {}
    /\ upload \in [File -> {"none", "sending", "completed", "failed"}]
    /\ attrs \in [File -> Fields]
    /\ stored \in [File -> BOOLEAN]
    /\ calls \in SUBSET Call /\ saves \in Nat /\ failures \in Nat
    /\ deleted \subseteq File /\ placed \subseteq File
    /\ assumed \subseteq File

\* An asset that is marked stored is in a folder: no answer, failure or deletion
\* makes the dialog leave out a file that the server has not placed, unless the
\* mark is the one that Save Files sets from asset.changed, or comes with the
\* answer to a request that left the file out because of such a mark.
StoredIsPlaced == \A f \in File : stored[f] /\ f \notin assumed => f \in placed

Pending == UNION {c.files : c \in {d \in calls : d.step = "out"}}

\* Every uploaded file is in a folder or on its way there, in the dialog and
\* after it was closed, if no request failed and no row was deleted under one;
\* again but for the marks that Save Files sets.
UploadsAreKept ==
    failures = 0 /\ deleted = {} => Uploaded \ assumed \subseteq placed \cup Pending
=============================================================================
