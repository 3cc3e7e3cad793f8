------------------------------- MODULE Library -------------------------------
(***************************************************************************)
(* Galleries and their folders: what a deletion takes along, what a restore *)
(* brings back, and which requests come in between.  The requests that read *)
(* first and write later are open in between; those of one write are one    *)
(* step.  The purge after the retention period is not part of this module.  *)
(***************************************************************************)
EXTENDS FiniteSets

CONSTANTS
    Gallery,    \* rows of galleries, those to come included
    Folder,     \* rows of folders, those to come included
    Request,    \* requests that are served at one time
    NoGallery   \* gallery_id is null

Section == Gallery \cup Folder

ASSUME SectionAssumption == Gallery \cap Folder = {} /\ NoGallery \notin Section

VARIABLES
    live,       \* sections that exist and are not deleted
    trash,      \* sections whose deleted_at is set
    home,       \* gallery_id of a folder
    default,    \* folders that an upload has created
    granted,    \* folders that have rows in permissions
    req,        \* what each request has read
    stray,      \* folders in sight that came into a gallery in the trash or on its way there
    crowded,    \* galleries into which two default folders may have come
    destroyed,  \* folders whose permissions a destroy has taken
    half        \* folders whose permissions were not, or only half, created

rows == <<live, trash, home, default, granted>>
history == <<stray, crowded, destroyed, half>>
vars == <<rows, req, history>>

Exists(s) == s \in live \cup trash
FoldersOf(g) == {f \in Folder \cap live : home[f] = g}

\* A request at work.  A deletion is known by what it is going to take along, folders,
\* and which of the permissions it has seen.
Idle == [kind |-> "idle"]
Granting(f) == [kind |-> "grant", folder |-> f]
Creating(g) == [kind |-> "create", gallery |-> g]
Moving(f, g) == [kind |-> "move", folder |-> f, gallery |-> g]
Uploading(g) == [kind |-> "upload", gallery |-> g]
Deleting(g, folders, seen) ==
    [kind |-> "delete", gallery |-> g, folders |-> folders, seen |-> seen]

Doomed(f) == \E r \in Request : req[r].kind = "delete" /\ f \in req[r].folders
Leaving(g) == \E r \in Request : req[r].kind = "delete" /\ req[r].gallery = g
UploadInto(g) == \E r \in Request : req[r].kind = "upload" /\ req[r].gallery = g

-----------------------------------------------------------------------------
(* Creation of galleries and folders.                                        *)

CreateGallery(g) ==
    /\ ~Exists(g)
    /\ live' = live \cup {g}
    /\ UNCHANGED <<trash, home, default, granted, req, history>>

\* A folder f comes into the gallery g, where its users see it or not.
Appears(f, g) ==
    stray' = IF g \notin live \/ Leaving(g) THEN stray \cup {f} ELSE stray \ {f}

CreateFolder(r, g) ==
    /\ req[r] = Idle /\ g \in live \cap Gallery
    /\ req' = [req EXCEPT ![r] = Creating(g)]
    /\ UNCHANGED <<rows, history>>

InsertFolder(r, f) ==
    /\ req[r].kind = "create" /\ ~Exists(f)
    /\ live' = live \cup {f} /\ half' = half \cup {f}
    /\ home' = [home EXCEPT ![f] = req[r].gallery]
    /\ Appears(f, req[r].gallery)
    /\ req' = [req EXCEPT ![r] = Granting(f)]
    /\ UNCHANGED <<trash, default, granted, crowded, destroyed>>

\* create_permissions.  A folder finds its account through its gallery; in the trash
\* that is not found, unless it was loaded before.
CreatePermissions(r) ==
    LET f == req[r].folder IN
    /\ req[r].kind = "grant"
    /\ \/ granted' = granted \cup {f}
       \/ home[f] \notin live /\ granted' = granted
    /\ half' = IF f \notin granted' \/ f \in destroyed \/ Doomed(f) THEN half ELSE half \ {f}
    /\ req' = [req EXCEPT ![r] = Idle]
    /\ UNCHANGED <<live, trash, home, default, stray, crowded, destroyed>>

-----------------------------------------------------------------------------
(* update_multiple without a folder: the first of the gallery, or "default". *)

\* A broken UploadFindsNone: that the gallery has no folders is not asked.
UploadDoesNotLook(r, g) ==
    /\ req[r] = Idle /\ g \in live \cap Gallery
    /\ crowded' = IF UploadInto(g) THEN crowded \cup {g} ELSE crowded \ {g}
    /\ req' = [req EXCEPT ![r] = Uploading(g)]
    /\ UNCHANGED <<rows, stray, destroyed, half>>

UploadFindsNone(r, g) ==
    /\ req[r] = Idle /\ g \in live \cap Gallery
    /\ FoldersOf(g) = {}
    /\ crowded' = IF UploadInto(g) THEN crowded \cup {g} ELSE crowded \ {g}
    /\ req' = [req EXCEPT ![r] = Uploading(g)]
    /\ UNCHANGED <<rows, stray, destroyed, half>>

\* first_or_create; nobody gives this folder permissions.
CreateDefault(r, f) ==
    /\ req[r].kind = "upload" /\ ~Exists(f)
    /\ live' = live \cup {f} /\ half' = half \cup {f} /\ default' = default \cup {f}
    /\ home' = [home EXCEPT ![f] = req[r].gallery]
    /\ Appears(f, req[r].gallery)
    /\ req' = [req EXCEPT ![r] = Idle]
    /\ UNCHANGED <<trash, granted, crowded, destroyed>>

-----------------------------------------------------------------------------
(* A folder gets another gallery.                                            *)

\* The galleries in the form are those of the page: one may have been deleted since,
\* and then new_gallery is nil.
MoveFolder(r, f, g) ==
    /\ req[r] = Idle /\ f \in Folder \cap live /\ home[f] \in live
    /\ Exists(g) /\ g # home[f]
    /\ req' = [req EXCEPT ![r] = Moving(f, IF g \in live THEN g ELSE NoGallery)]
    /\ UNCHANGED <<rows, history>>

\* f joins the folders of g: next to a default folder, or before an upload that has
\* found none creates one.
Joins(f, g) ==
    crowded' = IF /\ f \in default /\ g \in Gallery
                  /\ UploadInto(g) \/ FoldersOf(g) \cap default # {}
               THEN crowded \cup {g} ELSE crowded

\* save writes gallery_id, in the trash as well.
SaveMove(r) ==
    LET f == req[r].folder  g == req[r].gallery IN
    /\ req[r].kind = "move"
    /\ home' = [home EXCEPT ![f] = g]
    /\ IF f \in live THEN Appears(f, g) /\ Joins(f, g) ELSE UNCHANGED <<stray, crowded>>
    /\ req' = [req EXCEPT ![r] = Idle]
    /\ UNCHANGED <<live, trash, default, granted, destroyed, half>>

-----------------------------------------------------------------------------
(* Deletion.                                                                 *)

\* A broken DeleteFolder: destroy, with its callbacks, in place of delete.
DestroyFolder(f) ==
    /\ f \in Folder \cap live /\ home[f] \in live
    /\ live' = live \ {f} /\ trash' = trash \cup {f}
    /\ granted' = granted \ {f} /\ stray' = stray \ {f}
    /\ UNCHANGED <<home, default, req, crowded, destroyed, half>>

\* delete of a folder runs no callbacks: the permissions stay.
DeleteFolder(f) ==
    /\ f \in Folder \cap live /\ home[f] \in live
    /\ live' = live \ {f} /\ trash' = trash \cup {f} /\ stray' = stray \ {f}
    /\ UNCHANGED <<home, default, granted, req, crowded, destroyed, half>>

\* An admin destroys a folder, wherever it is.
AdminDestroyFolder(f) ==
    /\ f \in Folder \cap live
    /\ live' = live \ {f} /\ trash' = trash \cup {f} /\ stray' = stray \ {f}
    /\ granted' = granted \ {f} /\ destroyed' = destroyed \cup {f}
    /\ UNCHANGED <<home, default, req, crowded, half>>

\* destroy of a gallery loads its folders, in the transaction that takes them along.
\* So does the admin's.
DeleteGallery(r, g) ==
    /\ req[r] = Idle /\ g \in live \cap Gallery
    /\ req' = [req EXCEPT ![r] = Deleting(g, FoldersOf(g), granted \cap FoldersOf(g))]
    /\ UNCHANGED <<rows, history>>

\* A broken CommitDelete: the folders stay where they are.
CommitWithoutFolders(r) ==
    LET g == req[r].gallery IN
    /\ req[r].kind = "delete"
    /\ live' = live \ {g} /\ trash' = trash \cup {g}
    /\ req' = [req EXCEPT ![r] = Idle]
    /\ UNCHANGED <<home, default, granted, history>>

\* Permissions that were created after the folders were loaded may stay.
CommitDelete(r) ==
    LET g == req[r].gallery  folders == req[r].folders IN
    /\ req[r].kind = "delete"
    /\ live' = live \ (folders \cup {g}) /\ trash' = trash \cup folders \cup {g}
    /\ \E late \in SUBSET (folders \ req[r].seen) : granted' = granted \ (req[r].seen \cup late)
    /\ destroyed' = destroyed \cup folders /\ stray' = stray \ folders
    /\ req' = [req EXCEPT ![r] = Idle]
    /\ UNCHANGED <<home, default, crowded, half>>

-----------------------------------------------------------------------------
(* Restores of the admin: one row each, and nothing of what was taken along.  *)

\* A broken RestoreGallery: the row stays in the trash.
RestoreKeepsStamp(g) ==
    /\ g \in Gallery \cap trash
    /\ live' = live \cup {g}
    /\ stray' = IF Leaving(g) THEN stray ELSE {f \in stray : home[f] # g}
    /\ UNCHANGED <<trash, home, default, granted, req, crowded, destroyed, half>>

\* Folders that were left in it are seen again.
RestoreGallery(g) ==
    /\ g \in Gallery \cap trash
    /\ live' = live \cup {g} /\ trash' = trash \ {g}
    /\ stray' = IF Leaving(g) THEN stray ELSE {f \in stray : home[f] # g}
    /\ UNCHANGED <<home, default, granted, req, crowded, destroyed, half>>

RestoreFolder(f) ==
    /\ f \in Folder \cap trash
    /\ live' = live \cup {f} /\ trash' = trash \ {f}
    /\ Appears(f, home[f]) /\ Joins(f, home[f])
    /\ UNCHANGED <<home, default, granted, req, destroyed, half>>

\* A request ends early: refused, not valid, or its process dies.  What it has written
\* stays, except in the transaction of a deletion.
Fail(r) ==
    /\ req[r] # Idle
    /\ req' = [req EXCEPT ![r] = Idle]
    /\ UNCHANGED <<rows, history>>

-----------------------------------------------------------------------------
Init ==
    /\ live = {} /\ trash = {}
    /\ home = [f \in Folder |-> NoGallery]
    /\ default = {} /\ granted = {}
    /\ req = [r \in Request |-> Idle]
    /\ stray = {} /\ crowded = {} /\ destroyed = {} /\ half = {}

Next ==
    \/ \E r \in Request, g \in Gallery :
           \/ CreateFolder(r, g) \/ UploadFindsNone(r, g)
           \/ DeleteGallery(r, g)
           \/ \E f \in Folder : MoveFolder(r, f, g)
    \/ \E r \in Request, f \in Folder : InsertFolder(r, f) \/ CreateDefault(r, f)
    \/ \E r \in Request :
           CreatePermissions(r) \/ SaveMove(r) \/ CommitDelete(r) \/ Fail(r)
    \/ \E f \in Folder : DeleteFolder(f) \/ AdminDestroyFolder(f) \/ RestoreFolder(f)
    \/ \E g \in Gallery : CreateGallery(g) \/ RestoreGallery(g)

Spec == Init /\ [][Next]_vars

-----------------------------------------------------------------------------
(* Properties.                                                               *)

Job ==
    [kind : {"grant"}, folder : Folder]
    \cup [kind : {"create", "upload"}, gallery : Gallery]
    \cup [kind : {"move"}, folder : Folder, gallery : Gallery \cup {NoGallery}]
    \cup [kind : {"delete"}, gallery : Gallery, folders : SUBSET Folder, seen : SUBSET Folder]

\* Types, and that a section is not in the trash and out of it.
TypeOK ==
    /\ live \subseteq Section /\ trash \subseteq Section \ live
    /\ home \in [Folder -> Gallery \cup {NoGallery}]
    /\ default \subseteq Folder \cap (live \cup trash)
    /\ granted \subseteq Folder \cap (live \cup trash)
    /\ req \in [Request -> {Idle} \cup Job]
    /\ stray \subseteq Folder /\ crowded \subseteq Gallery
    /\ destroyed \subseteq Folder /\ half \subseteq Folder

\* A folder that is not in the trash is in a gallery that is not either, where its users
\* find it, unless it came there while the gallery was being deleted, or later.
InSight == \A f \in Folder \cap live : home[f] \in live \/ f \in stray

\* Uploads create one default folder at most for a gallery, unless two of them overlap
\* or an earlier one comes back; and once it is empty, the next upload that nothing
\* comes into starts it anew.
OneDefault ==
    \A g \in Gallery \ crowded : \A d, e \in FoldersOf(g) \cap default : d = e

\* A folder has its permissions until a destroy takes them, and never again: one
\* that its dialog deletes keeps them for a restore, one that is deleted with its
\* gallery comes back without.
PermissionsFollow ==
    \A f \in (Folder \cap (live \cup trash)) \ half : f \in granted <=> f \notin destroyed
=============================================================================
