--------------------------- MODULE Library_proofs ---------------------------
(***************************************************************************)
(* Proofs about Library for any number of galleries, folders and requests.  *)
(***************************************************************************)
EXTENDS Library, TLAPS

\* What a deletion has loaded: every folder that is seen in the gallery came since or
\* goes along, and so do the permissions that were complete.
DeletionFits(q) ==
    /\ q.gallery \in live \cup trash
    /\ q.folders \subseteq live \cup trash
    /\ q.seen \subseteq q.folders
    /\ FoldersOf(q.gallery) \subseteq q.folders \cup stray
    /\ q.folders \subseteq q.seen \cup half \cup destroyed

Fits(r) ==
    /\ req[r].kind = "delete" => DeletionFits(req[r])
    /\ req[r].kind = "grant" => req[r].folder \in half \cap (live \cup trash)
    /\ req[r].kind = "move" => req[r].folder \in live \cup trash
    /\ req[r].kind = "upload" /\ req[r].gallery \notin crowded
       => FoldersOf(req[r].gallery) \cap default = {}

\* Two requests of a kind that do not work on one thing.
Apart(r, s) ==
    /\ req[r].kind = "grant" /\ req[s].kind = "grant" => req[r].folder # req[s].folder
    /\ req[r].kind = "upload" /\ req[s].kind = "upload" /\ req[r].gallery = req[s].gallery
       => req[r].gallery \in crowded

Inv ==
    /\ TypeOK /\ InSight /\ OneDefault /\ PermissionsFollow
    /\ \A r \in Request : Fits(r)
    /\ \A r, s \in Request : r # s => Apart(r, s)

-----------------------------------------------------------------------------
\* What the fields of a request are.
LEMMA JobTypes ==
    ASSUME TypeOK, NEW r \in Request
    PROVE  /\ req[r].kind \in {"idle", "grant", "create", "upload", "move", "delete"}
           /\ req[r] = Idle <=> req[r].kind = "idle"
           /\ req[r].kind \in {"grant", "move"} => req[r].folder \in Folder
           /\ req[r].kind \in {"create", "upload", "delete"} => req[r].gallery \in Gallery
           /\ req[r].kind = "move" => req[r].gallery \in Gallery \cup {NoGallery}
           /\ req[r].kind = "delete"
              => req[r].folders \subseteq Folder /\ req[r].seen \subseteq Folder
<1>1. req[r] \in {Idle} \cup Job
  BY DEF TypeOK
<1>2. CASE req[r] = Idle
  BY <1>2 DEF Idle
<1>3. CASE req[r] \in Job
  BY <1>3 DEF Job, Idle
<1>4. QED
  BY <1>1, <1>2, <1>3

\* Jobs are jobs.
LEMMA JobsTyped ==
    /\ Idle \in {Idle} \cup Job
    /\ \A f \in Folder : Granting(f) \in Job
    /\ \A g \in Gallery : Creating(g) \in Job /\ Uploading(g) \in Job
    /\ \A f \in Folder, g \in Gallery \cup {NoGallery} : Moving(f, g) \in Job
    /\ \A g \in Gallery, fs \in SUBSET Folder, seen \in SUBSET Folder : Deleting(g, fs, seen) \in Job
BY DEF Job, Granting, Creating, Uploading, Moving, Deleting

LEMMA InitInv == Init => Inv
<1> SUFFICES ASSUME Init PROVE Inv
  OBVIOUS
<1> USE DEF Init
<1>1. \A r \in Request : req[r].kind = "idle"
  BY DEF Idle
<1>2. TypeOK
  BY DEF TypeOK
<1>3. QED
  BY <1>1, <1>2 DEF Inv, InSight, OneDefault, PermissionsFollow, Fits, Apart, FoldersOf

\* A step of r that ends the request or turns it into one that nothing is asked of,
\* and changes nothing else.
LEMMA OnlyRequest ==
    ASSUME Inv, NEW r \in Request, NEW now \in {Idle} \cup Job,
           req' = [req EXCEPT ![r] = now], UNCHANGED <<rows, history>>,
           now.kind \in {"idle", "create"}
    PROVE  Inv'
<1> USE DEF Inv, rows, history
<1>1. TypeOK'
  BY DEF TypeOK
<1>2. \A s \in Request : s # r => req'[s] = req[s]
  BY DEF TypeOK
<1>3. req'[r] = now
  BY DEF TypeOK
<1>4. \A s \in Request : Fits(s)'
  BY <1>2, <1>3 DEF Fits, DeletionFits, FoldersOf
<1>5. \A p, s \in Request : p # s => Apart(p, s)'
  BY <1>2, <1>3 DEF Apart
<1>6. InSight' /\ OneDefault' /\ PermissionsFollow'
  BY DEF InSight, OneDefault, PermissionsFollow, FoldersOf
<1>7. QED
  BY <1>1, <1>4, <1>5, <1>6

LEMMA FailStep ==
    ASSUME Inv, NEW r \in Request, Fail(r)
    PROVE  Inv'
<1>1. Idle.kind = "idle"
  BY DEF Idle
<1>2. QED
  BY <1>1, OnlyRequest DEF Fail

LEMMA CreateFolderStep ==
    ASSUME Inv, NEW r \in Request, NEW g \in Gallery, CreateFolder(r, g)
    PROVE  Inv'
<1>1. Creating(g) \in Job /\ Creating(g).kind = "create"
  BY JobsTyped DEF Creating
<1>2. QED
  BY <1>1, OnlyRequest DEF CreateFolder

LEMMA CreateGalleryStep ==
    ASSUME Inv, NEW g \in Gallery, CreateGallery(g)
    PROVE  Inv'
<1> USE DEF Inv, CreateGallery, history, Exists
<1>1. TypeOK' /\ g \notin Folder
  BY SectionAssumption DEF TypeOK, Section
<1>2. \A h : FoldersOf(h)' = FoldersOf(h)
  BY <1>1 DEF FoldersOf
<1>3. \A s \in Request : Fits(s)'
  BY <1>2 DEF Fits, DeletionFits
<1>4. InSight' /\ OneDefault' /\ PermissionsFollow'
  BY <1>1, <1>2 DEF InSight, OneDefault, PermissionsFollow
<1>5. QED
  BY <1>1, <1>3, <1>4 DEF Apart

\* A new folder f comes with its permissions to be created.
LEMMA InsertFolderStep ==
    ASSUME Inv, NEW r \in Request, NEW f \in Folder, InsertFolder(r, f)
    PROVE  Inv'
<1> USE DEF Inv, InsertFolder, Exists, Appears
<1> DEFINE g == req[r].gallery
<1>1. g \in Gallery /\ req[r].kind = "create"
  BY JobTypes
<1>2. Granting(f) \in Job /\ Granting(f).kind = "grant" /\ Granting(f).folder = f
  BY JobsTyped DEF Granting
<1>3. TypeOK'
  BY <1>1, <1>2 DEF TypeOK, Section
<1>4. req'[r] = Granting(f) /\ \A s \in Request : s # r => req'[s] = req[s]
  BY DEF TypeOK
<1>5. /\ f \notin default /\ f \notin trash /\ home'[f] = g
      /\ \A e \in Folder \ {f} : home'[e] = home[e]
  BY DEF TypeOK
<1>6. \A h \in Gallery : FoldersOf(h)' = IF h = g THEN FoldersOf(h) \cup {f} ELSE FoldersOf(h)
  BY <1>5 DEF FoldersOf
<1>7. ASSUME NEW s \in Request PROVE Fits(s)'
  <2>1. CASE s = r
    BY <2>1, <1>2, <1>4 DEF Fits
  <2>2. CASE s # r
    <3>1. Fits(s) /\ req'[s] = req[s]
      BY <2>2, <1>4
    <3>2. CASE req[s].kind = "delete"
      <4>1. req[s].gallery \in Gallery
        BY <3>2, JobTypes
      <4>2. req[s].gallery = g => f \in stray'
        BY <3>2 DEF Leaving
      <4>3. FoldersOf(req[s].gallery)' \subseteq req[s].folders \cup stray'
        BY <3>1, <3>2, <4>1, <4>2, <1>5, <1>6 DEF Fits, DeletionFits, FoldersOf
      <4>4. QED
        BY <3>1, <3>2, <4>3 DEF Fits, DeletionFits
    <3>3. CASE req[s].kind # "delete"
      BY <3>1, <3>3, <1>5, <1>6, JobTypes DEF Fits
    <3>4. QED
      BY <3>2, <3>3
  <2>3. QED
    BY <2>1, <2>2
<1>8. ASSUME NEW p \in Request, NEW s \in Request, p # s PROVE Apart(p, s)'
  <2>1. Apart(p, s) /\ Apart(s, p)
    BY <1>8
  <2>2. \A q \in Request : q # r /\ req[q].kind = "grant" => req[q].folder # f
    BY DEF Fits
  <2>3. QED
    BY <2>1, <2>2, <1>2, <1>4, <1>8 DEF Apart
<1>9. InSight'
  BY <1>1, <1>5, SectionAssumption DEF InSight, TypeOK, Section
<1>10. OneDefault'
  BY <1>5, <1>6 DEF OneDefault
<1>11. PermissionsFollow'
  BY <1>5 DEF PermissionsFollow
<1>12. QED
  BY <1>3, <1>7, <1>8, <1>9, <1>10, <1>11

LEMMA CreatePermissionsStep ==
    ASSUME Inv, NEW r \in Request, CreatePermissions(r)
    PROVE  Inv'
<1> USE DEF Inv, CreatePermissions
<1> DEFINE f == req[r].folder
<1>1. f \in half /\ f \in live \cup trash /\ f \in Folder
  BY JobTypes DEF Fits
<1>2. TypeOK'
  BY <1>1 DEF TypeOK
<1>3. req'[r] = Idle /\ Idle.kind = "idle" /\ \A s \in Request : s # r => req'[s] = req[s]
  BY DEF TypeOK, Idle
<1>4. /\ half' \subseteq half /\ half \subseteq half' \cup {f}
      /\ f \notin half' => f \in granted' /\ f \notin destroyed /\ ~Doomed(f)
      /\ \A e : e # f => (e \in granted' <=> e \in granted)
  <2>1. half' = IF f \notin granted' \/ f \in destroyed \/ Doomed(f) THEN half ELSE half \ {f}
    OBVIOUS
  <2>2. granted' = granted \cup {f} \/ granted' = granted
    OBVIOUS
  <2> HIDE DEF f, CreatePermissions
  <2>3. CASE f \notin granted' \/ f \in destroyed \/ Doomed(f)
    BY <1>1, <2>1, <2>2, <2>3
  <2>4. CASE ~(f \notin granted' \/ f \in destroyed \/ Doomed(f))
    BY <2>1, <2>2, <2>4
  <2>5. QED
    BY <2>3, <2>4
<1>5. \A g : FoldersOf(g)' = FoldersOf(g)
  BY DEF FoldersOf
<1>6. ASSUME NEW s \in Request PROVE Fits(s)'
  <2>1. CASE s = r
    BY <2>1, <1>3 DEF Fits
  <2>2. CASE s # r
    <3>1. Fits(s) /\ req'[s] = req[s]
      BY <2>2, <1>3
    <3>2. req[s].kind = "delete" => DeletionFits(req[s])'
      BY <3>1, <1>4, <1>5 DEF Fits, DeletionFits, Doomed
    <3>3. req[s].kind = "grant" => req[s].folder \in half'
      BY <3>1, <1>4, <2>2 DEF Fits, Apart
    <3>4. QED
      BY <3>1, <3>2, <3>3, <1>5 DEF Fits
  <2>3. QED
    BY <2>1, <2>2
<1>7. \A p, s \in Request : p # s => Apart(p, s)'
  BY <1>3 DEF Apart
<1>8. InSight' /\ OneDefault'
  BY <1>5 DEF InSight, OneDefault
<1>9. PermissionsFollow'
  BY <1>4 DEF PermissionsFollow
<1>10. QED
  BY <1>2, <1>6, <1>7, <1>8, <1>9

LEMMA UploadFindsNoneStep ==
    ASSUME Inv, NEW r \in Request, NEW g \in Gallery, UploadFindsNone(r, g)
    PROVE  Inv'
<1> USE DEF Inv, UploadFindsNone, rows
<1>1. Uploading(g) \in Job /\ Uploading(g).kind = "upload" /\ Uploading(g).gallery = g
  BY JobsTyped DEF Uploading
<1>2. TypeOK'
  BY <1>1 DEF TypeOK
<1>3. req'[r] = Uploading(g) /\ \A s \in Request : s # r => req'[s] = req[s]
  BY DEF TypeOK
<1>4. \A h : FoldersOf(h)' = FoldersOf(h)
  BY DEF FoldersOf
<1>5. crowded \ {g} \subseteq crowded' /\ FoldersOf(g) = {}
  OBVIOUS
<1>6. \A q \in Request : q # r /\ req[q].kind = "upload" /\ req[q].gallery = g => g \in crowded'
  BY DEF UploadInto
<1>7. \A s \in Request : Fits(s)'
  BY <1>1, <1>3, <1>4, <1>5 DEF Fits, DeletionFits
<1>8. ASSUME NEW p \in Request, NEW s \in Request, p # s PROVE Apart(p, s)'
  <2>1. Apart(p, s)
    BY <1>8
  <2>2. QED
    BY <2>1, <1>1, <1>3, <1>5, <1>6, <1>8 DEF Apart
<1>9. OneDefault'
  BY <1>4, <1>5 DEF OneDefault
<1>10. InSight' /\ PermissionsFollow'
  BY <1>4 DEF InSight, PermissionsFollow
<1>11. QED
  BY <1>2, <1>7, <1>8, <1>9, <1>10

LEMMA CreateDefaultStep ==
    ASSUME Inv, NEW r \in Request, NEW f \in Folder, CreateDefault(r, f)
    PROVE  Inv'
<1> USE DEF Inv, CreateDefault, Exists, Appears
<1> DEFINE g == req[r].gallery
<1>1. g \in Gallery /\ (g \notin crowded => FoldersOf(g) \cap default = {})
  BY JobTypes DEF Fits
<1>2. TypeOK'
  BY <1>1 DEF TypeOK, Section
<1>3. req'[r] = Idle /\ Idle.kind = "idle" /\ \A s \in Request : s # r => req'[s] = req[s]
  BY DEF TypeOK, Idle
<1>4. /\ f \notin default /\ home'[f] = g
      /\ \A e \in Folder \ {f} : home'[e] = home[e]
  BY DEF TypeOK
<1>5. \A h \in Gallery : FoldersOf(h)' = IF h = g THEN FoldersOf(h) \cup {f} ELSE FoldersOf(h)
  BY <1>4 DEF FoldersOf
<1>6. \A q \in Request : q # r /\ req[q].kind = "upload" /\ req[q].gallery = g => g \in crowded
  BY DEF Apart
<1>7. ASSUME NEW s \in Request PROVE Fits(s)'
  <2>1. CASE s = r
    BY <2>1, <1>3 DEF Fits
  <2>2. CASE s # r
    <3>1. Fits(s) /\ req'[s] = req[s]
      BY <2>2, <1>3
    <3>2. CASE req[s].kind = "delete"
      <4>1. req[s].gallery \in Gallery
        BY <3>2, JobTypes
      <4>2. req[s].gallery = g => f \in stray'
        BY <3>2 DEF Leaving
      <4>3. FoldersOf(req[s].gallery)' \subseteq req[s].folders \cup stray'
        BY <3>1, <3>2, <4>1, <4>2, <1>4, <1>5 DEF Fits, DeletionFits, FoldersOf
      <4>4. QED
        BY <3>1, <3>2, <4>3 DEF Fits, DeletionFits
    <3>3. CASE req[s].kind = "upload"
      <4>1. req[s].gallery \in Gallery
        BY <3>3, JobTypes
      <4>2. req[s].gallery \notin crowded => req[s].gallery # g
        BY <3>3, <2>2, <1>6
      <4>3. f \notin FoldersOf(req[s].gallery)
        BY DEF FoldersOf, TypeOK
      <4>4. QED
        BY <3>1, <3>3, <4>1, <4>2, <4>3, <1>5 DEF Fits
    <3>4. CASE req[s].kind \notin {"delete", "upload"}
      BY <3>1, <3>4 DEF Fits
    <3>5. QED
      BY <3>2, <3>3, <3>4
  <2>3. QED
    BY <2>1, <2>2
<1>8. \A p, s \in Request : p # s => Apart(p, s)'
  BY <1>3 DEF Apart
<1>9. InSight'
  BY <1>1, <1>4, SectionAssumption DEF InSight, TypeOK, Section
<1>10. OneDefault'
  <2>1. ASSUME NEW h \in Gallery \ crowded, NEW d \in FoldersOf(h)' \cap default',
               NEW e \in FoldersOf(h)' \cap default'
        PROVE  d = e
    <3>1. CASE h = g
      BY <3>1, <2>1, <1>1, <1>5
    <3>2. CASE h # g
      <4>1. d \in FoldersOf(h) /\ e \in FoldersOf(h) /\ f \notin FoldersOf(h)
        BY <3>2, <2>1, <1>5 DEF FoldersOf
      <4>2. QED
        BY <4>1, <2>1 DEF OneDefault
    <3>3. QED
      BY <3>1, <3>2
  <2>2. QED
    BY <2>1 DEF OneDefault
<1>11. PermissionsFollow'
  BY <1>4 DEF PermissionsFollow
<1>12. QED
  BY <1>2, <1>7, <1>8, <1>9, <1>10, <1>11

LEMMA MoveFolderStep ==
    ASSUME Inv, NEW r \in Request, NEW f \in Folder, NEW g \in Gallery, MoveFolder(r, f, g)
    PROVE  Inv'
<1> USE DEF Inv, MoveFolder, rows, history
<1> DEFINE to == IF g \in live THEN g ELSE NoGallery
<1>1. Moving(f, to) \in Job /\ Moving(f, to).kind = "move" /\ Moving(f, to).folder = f
  BY JobsTyped DEF Moving
<1>2. TypeOK'
  BY <1>1 DEF TypeOK
<1>3. req'[r] = Moving(f, to) /\ \A s \in Request : s # r => req'[s] = req[s]
  BY DEF TypeOK
<1> HIDE DEF to
<1>4. \A h : FoldersOf(h)' = FoldersOf(h)
  BY DEF FoldersOf
<1>5. \A s \in Request : Fits(s)'
  BY <1>1, <1>3, <1>4 DEF Fits, DeletionFits
<1>6. \A p, s \in Request : p # s => Apart(p, s)'
  BY <1>1, <1>3 DEF Apart
<1>7. InSight' /\ OneDefault' /\ PermissionsFollow'
  BY <1>4 DEF InSight, OneDefault, PermissionsFollow
<1>8. QED
  BY <1>2, <1>5, <1>6, <1>7

\* A folder f that exists comes, live, into the gallery g, or to none.
LEMMA Arrival ==
    ASSUME Inv, NEW f \in Folder, NEW g \in Gallery \cup {NoGallery}, f \in live \cup trash,
           live' = live \cup {f}, trash' = trash \ {f},
           home' = [home EXCEPT ![f] = g],
           Appears(f, g), Joins(f, g),
           UNCHANGED <<default, granted, destroyed, half>>,
           req' \in [Request -> {Idle} \cup Job],
           \A s \in Request : req'[s] = req[s] \/ req'[s] = Idle
    PROVE  Inv'
<1> USE DEF Inv, Appears
<1>1. TypeOK'
  <2>1. crowded' \subseteq Gallery
    BY DEF TypeOK, Joins
  <2>2. live' \subseteq Section /\ trash' \subseteq Section \ live' /\ live \cup trash = live' \cup trash'
    BY DEF TypeOK, Section
  <2>3. stray' \subseteq Folder /\ home' \in [Folder -> Gallery \cup {NoGallery}]
    BY DEF TypeOK
  <2>4. QED
    BY <2>1, <2>2, <2>3 DEF TypeOK
<1>2. home'[f] = g /\ \A e \in Folder \ {f} : home'[e] = home[e]
  BY DEF TypeOK
<1>3. \A h : FoldersOf(h)' = IF h = g THEN FoldersOf(h) \cup {f} ELSE FoldersOf(h) \ {f}
  BY <1>2 DEF FoldersOf
<1>4. crowded \subseteq crowded'
  BY DEF Joins
<1>5. Idle.kind = "idle"
  BY DEF Idle
<1>6. ASSUME NEW s \in Request PROVE Fits(s)'
  <2>1. CASE req'[s] = Idle
    BY <2>1, <1>5 DEF Fits
  <2>2. CASE req'[s] = req[s]
    <3>1. CASE req[s].kind = "delete"
      <4>1. req[s].gallery \in Gallery /\ DeletionFits(req[s])
        BY <3>1, JobTypes DEF Fits
      <4>2. req[s].gallery = g => f \in stray'
        BY <3>1 DEF Leaving
      <4>3. FoldersOf(req[s].gallery) \subseteq req[s].folders \cup stray
        BY <4>1 DEF DeletionFits
      <4>4. stray \ {f} \subseteq stray'
        OBVIOUS
      <4>5. FoldersOf(req[s].gallery)' \subseteq req[s].folders \cup stray'
        <5>1. CASE req[s].gallery = g
          BY <4>1, <4>2, <4>3, <4>4, <5>1, <1>3, <2>2
        <5>2. CASE req[s].gallery # g
          BY <4>1, <4>3, <4>4, <5>2, <1>3, <2>2
        <5>3. QED
          BY <5>1, <5>2
      <4>6. QED
        BY <2>2, <3>1, <4>1, <4>5 DEF Fits, DeletionFits
    <3>2. CASE req[s].kind = "upload"
      <4>1. req[s].gallery \in Gallery
        BY <3>2, JobTypes
      <4>2. req[s].gallery = g /\ f \in default => g \in crowded'
        BY <3>2, <4>1 DEF Joins, UploadInto
      <4>3. QED
        BY <2>2, <3>2, <4>1, <4>2, <1>3, <1>4 DEF Fits
    <3>3. CASE req[s].kind \notin {"delete", "upload"}
      BY <2>2, <3>3 DEF Fits
    <3>4. QED
      BY <3>1, <3>2, <3>3
  <2>3. QED
    BY <2>1, <2>2
<1>7. ASSUME NEW p \in Request, NEW s \in Request, p # s PROVE Apart(p, s)'
  <2>1. Apart(p, s)
    BY <1>7
  <2>2. QED
    BY <2>1, <1>4, <1>5 DEF Apart
<1>8. InSight'
  BY <1>2 DEF InSight, TypeOK
<1>9. OneDefault'
  <2>1. ASSUME NEW h \in Gallery \ crowded', NEW d \in FoldersOf(h)' \cap default,
               NEW e \in FoldersOf(h)' \cap default
        PROVE  d = e
    <3>1. h \notin crowded
      BY <2>1, <1>4
    <3>2. CASE h = g /\ f \in default
      BY <2>1, <3>2, <1>3 DEF Joins
    <3>3. CASE h # g \/ f \notin default
      <4>1. d \in FoldersOf(h) /\ e \in FoldersOf(h)
        BY <2>1, <3>3, <1>3
      <4>2. QED
        BY <2>1, <3>1, <4>1 DEF OneDefault
    <3>4. QED
      BY <3>2, <3>3
  <2>2. QED
    BY <2>1 DEF OneDefault
<1>10. PermissionsFollow'
  BY DEF PermissionsFollow
<1>11. QED
  BY <1>1, <1>6, <1>7, <1>8, <1>9, <1>10

LEMMA SaveMoveStep ==
    ASSUME Inv, NEW r \in Request, SaveMove(r)
    PROVE  Inv'
<1> DEFINE f == req[r].folder
           g == req[r].gallery
<1>1. f \in Folder /\ g \in Gallery \cup {NoGallery} /\ f \in live \cup trash
  BY JobTypes DEF Inv, Fits, SaveMove
<1>2. req' = [req EXCEPT ![r] = Idle] /\ req \in [Request -> {Idle} \cup Job]
  BY DEF SaveMove, Inv, TypeOK
<1>3. req' \in [Request -> {Idle} \cup Job] /\ \A s \in Request : req'[s] = req[s] \/ req'[s] = Idle
  BY <1>2
<1>4. /\ home' = [home EXCEPT ![f] = g]
      /\ f \in live => Appears(f, g) /\ Joins(f, g)
      /\ f \notin live => UNCHANGED <<stray, crowded>>
      /\ UNCHANGED <<live, trash, default, granted, destroyed, half>>
  BY DEF SaveMove
<1> HIDE DEF f, g
<1>5. CASE f \in live
  <2>1. live' = live \cup {f} /\ trash' = trash \ {f}
    BY <1>4, <1>5 DEF Inv, TypeOK
  <2>2. QED
    BY <1>1, <1>3, <1>4, <1>5, <2>1, Arrival
<1>6. CASE f \notin live
  <2> USE DEF Inv
  <2>1. home' \in [Folder -> Gallery \cup {NoGallery}] /\ \A e \in Folder \ {f} : home'[e] = home[e]
    BY <1>1, <1>4 DEF TypeOK
  <2>2. TypeOK'
    BY <1>3, <1>4, <1>6, <2>1 DEF TypeOK
  <2>3. \A h : FoldersOf(h)' = FoldersOf(h)
    BY <1>4, <1>6, <2>1 DEF FoldersOf
  <2>4. Idle.kind = "idle"
    BY DEF Idle
  <2>5. \A s \in Request : Fits(s)'
    BY <1>3, <1>4, <1>6, <2>3, <2>4 DEF Fits, DeletionFits
  <2>6. \A p, s \in Request : p # s => Apart(p, s)'
    BY <1>3, <1>4, <1>6, <2>4 DEF Apart
  <2>7. InSight' /\ OneDefault' /\ PermissionsFollow'
    BY <1>4, <1>6, <2>1, <2>3 DEF InSight, OneDefault, PermissionsFollow
  <2>8. QED
    BY <2>2, <2>5, <2>6, <2>7
<1>7. QED
  BY <1>5, <1>6

LEMMA RestoreFolderStep ==
    ASSUME Inv, NEW f \in Folder, RestoreFolder(f)
    PROVE  Inv'
<1> USE DEF RestoreFolder
<1>1. home \in [Folder -> Gallery \cup {NoGallery}] /\ req \in [Request -> {Idle} \cup Job]
  BY DEF Inv, TypeOK
<1>2. home[f] \in Gallery \cup {NoGallery} /\ home' = [home EXCEPT ![f] = home[f]]
  BY <1>1
<1>3. QED
  BY <1>1, <1>2, Arrival

\* Sections go into the trash, and with folders some of their permissions.
LEMMA Departure ==
    ASSUME Inv, NEW gone, gone \subseteq Section \cap (live \cup trash),
           live' = live \ gone, trash' = trash \cup gone,
           granted' \subseteq granted, destroyed \subseteq destroyed', destroyed' \subseteq Folder,
           UNCHANGED <<home, default, crowded, half>>, stray' = stray \ gone,
           req' \in [Request -> {Idle} \cup Job],
           \A s \in Request : req'[s] = req[s] \/ req'[s] = Idle,
           InSight', PermissionsFollow'
    PROVE  Inv'
<1> USE DEF Inv
<1>1. live' \cup trash' = live \cup trash
  OBVIOUS
<1>2. TypeOK'
  BY <1>1 DEF TypeOK
<1>3. \A h : FoldersOf(h)' \subseteq FoldersOf(h) \ gone
  BY DEF FoldersOf
<1>4. Idle.kind = "idle"
  BY DEF Idle
<1>5. ASSUME NEW s \in Request PROVE Fits(s)'
  <2>1. CASE req'[s] = Idle
    BY <2>1, <1>4 DEF Fits
  <2>2. CASE req'[s] = req[s]
    <3>1. Fits(s) /\ FoldersOf(req[s].gallery)' \subseteq FoldersOf(req[s].gallery) \ gone
      BY <2>2, <1>3
    <3>2. req[s].kind = "delete" => DeletionFits(req[s])'
      <4> SUFFICES ASSUME req[s].kind = "delete" PROVE DeletionFits(req[s])'
        OBVIOUS
      <4>1. DeletionFits(req[s])
        BY <3>1 DEF Fits
      <4>2. FoldersOf(req[s].gallery)' \subseteq req'[s].folders \cup stray'
        BY <4>1, <3>1, <2>2 DEF DeletionFits
      <4>3. req'[s].folders \subseteq req'[s].seen \cup half' \cup destroyed'
        BY <4>1, <2>2 DEF DeletionFits
      <4>4. QED
        BY <4>1, <4>2, <4>3, <2>2, <1>1 DEF DeletionFits
    <3>3. QED
      BY <2>2, <3>1, <3>2, <1>1 DEF Fits
  <2>3. QED
    BY <2>1, <2>2
<1>6. \A p, s \in Request : p # s => Apart(p, s)'
  BY <1>4 DEF Apart
<1>7. OneDefault'
  BY <1>3 DEF OneDefault
<1>8. QED
  BY <1>2, <1>5, <1>6, <1>7

LEMMA DeleteFolderStep ==
    ASSUME Inv, NEW f \in Folder, DeleteFolder(f)
    PROVE  Inv'
<1> USE DEF DeleteFolder, history
<1>1. TypeOK /\ f \in live /\ f \in Section
  BY DEF Inv, Section
<1>2. InSight'
  BY SectionAssumption DEF Inv, InSight, TypeOK, Section
<1>3. PermissionsFollow'
  BY DEF Inv, PermissionsFollow
<1>4. req' \in [Request -> {Idle} \cup Job] /\ destroyed' \subseteq Folder
  BY <1>1 DEF TypeOK
<1>5. QED
  BY <1>1, <1>2, <1>3, <1>4, Departure

LEMMA AdminDestroyFolderStep ==
    ASSUME Inv, NEW f \in Folder, AdminDestroyFolder(f)
    PROVE  Inv'
<1> USE DEF AdminDestroyFolder
<1>1. TypeOK /\ f \in live /\ f \in Section
  BY DEF Inv, Section
<1>2. InSight'
  BY SectionAssumption DEF Inv, InSight, TypeOK, Section
<1>3. PermissionsFollow'
  BY DEF Inv, PermissionsFollow
<1>4. req' \in [Request -> {Idle} \cup Job] /\ destroyed' \subseteq Folder
  BY <1>1 DEF TypeOK
<1>5. QED
  BY <1>1, <1>2, <1>3, <1>4, Departure

LEMMA DeleteGalleryStep ==
    ASSUME Inv, NEW r \in Request, NEW g \in Gallery, DeleteGallery(r, g)
    PROVE  Inv'
<1> USE DEF Inv, DeleteGallery, rows, history
<1> DEFINE folders == FoldersOf(g)
           seen == granted \cap FoldersOf(g)
           now == Deleting(g, folders, seen)
<1>1. folders \subseteq Folder /\ seen \subseteq Folder
  BY DEF FoldersOf
<1>2. /\ now \in Job /\ now.kind = "delete" /\ now.gallery = g
      /\ now.folders = folders /\ now.seen = seen
  BY <1>1, JobsTyped DEF Deleting
<1>3. req' = [req EXCEPT ![r] = now]
  OBVIOUS
<1>4. g \in live /\ folders \subseteq live /\ folders \subseteq seen \cup half \cup destroyed
  BY DEF FoldersOf, PermissionsFollow
<1> HIDE DEF now
<1>5. TypeOK'
  BY <1>2, <1>3 DEF TypeOK
<1>6. req'[r] = now /\ \A s \in Request : s # r => req'[s] = req[s]
  BY <1>3 DEF TypeOK
<1>7. \A h : FoldersOf(h)' = FoldersOf(h)
  BY DEF FoldersOf
<1>8. ASSUME NEW s \in Request PROVE Fits(s)'
  <2>1. CASE s = r
    <3>1. req'[r].gallery = g /\ req'[r].folders = folders /\ req'[r].seen = seen
      BY <1>2, <1>6
    <3>2. FoldersOf(req[r].gallery)' = folders
      BY <3>1, <1>7
    <3>3. seen \subseteq folders
      OBVIOUS
    <3>4. DeletionFits(req[r])'
      <4> HIDE DEF folders, seen
      <4>1. req'[r].gallery \in live' \cup trash'
        BY <3>1, <1>4
      <4>2. req'[r].folders \subseteq live' \cup trash'
        BY <3>1, <1>4
      <4>3. req'[r].seen \subseteq req'[r].folders
        BY <3>1, <3>3
      <4>4. FoldersOf(req[r].gallery)' \subseteq req'[r].folders \cup stray'
        BY <3>1, <3>2
      <4>5. req'[r].folders \subseteq req'[r].seen \cup half' \cup destroyed'
        BY <3>1, <1>4
      <4>6. QED
        BY <4>1, <4>2, <4>3, <4>4, <4>5 DEF DeletionFits
    <3>5. QED
      BY <2>1, <3>4, <1>2, <1>6 DEF Fits
  <2>2. CASE s # r
    BY <2>2, <1>6, <1>7 DEF Fits, DeletionFits
  <2>3. QED
    BY <2>1, <2>2
<1>9. \A p, s \in Request : p # s => Apart(p, s)'
  BY <1>2, <1>6 DEF Apart
<1>10. InSight' /\ OneDefault' /\ PermissionsFollow'
  BY <1>7 DEF InSight, OneDefault, PermissionsFollow
<1>11. QED
  BY <1>5, <1>8, <1>9, <1>10

LEMMA CommitDeleteStep ==
    ASSUME Inv, NEW r \in Request, CommitDelete(r)
    PROVE  Inv'
<1> DEFINE g == req[r].gallery
           folders == req[r].folders
           seen == req[r].seen
<1>1. req[r].kind = "delete" /\ g \in Gallery /\ folders \subseteq Folder /\ seen \subseteq Folder
  BY JobTypes DEF CommitDelete, Inv
<1>2. /\ g \in live \cup trash /\ folders \subseteq live \cup trash
      /\ FoldersOf(g) \subseteq folders \cup stray
      /\ folders \subseteq seen \cup half \cup destroyed
  BY <1>1 DEF Inv, Fits, DeletionFits
<1>3. /\ live' = live \ (folders \cup {g}) /\ trash' = trash \cup folders \cup {g}
      /\ destroyed' = destroyed \cup folders
      /\ req' = [req EXCEPT ![r] = Idle]
      /\ stray' = stray \ folders
      /\ UNCHANGED <<home, default, crowded, half>>
  BY DEF CommitDelete
<1>4. PICK late \in SUBSET (folders \ seen) : granted' = granted \ (seen \cup late)
  BY DEF CommitDelete
<1>5. seen \subseteq folders
  BY <1>1 DEF Inv, Fits, DeletionFits
<1> HIDE DEF g, folders, seen
<1>6. TypeOK
  BY DEF Inv
<1>7. InSight'
  <2>1. ASSUME NEW f \in Folder, f \in live' PROVE home[f] \in live' \/ f \in stray
    <3>1. f \in live /\ f \notin folders
      BY <2>1, <1>3
    <3>2. home[f] \in live \/ f \in stray
      BY <3>1 DEF Inv, InSight
    <3>3. home[f] \notin folders
      BY <1>1, <1>6, SectionAssumption DEF TypeOK, Section
    <3>4. home[f] = g => f \in stray
      BY <3>1, <1>2 DEF FoldersOf
    <3>5. QED
      BY <3>2, <3>3, <3>4, <1>3
  <2>2. QED
    BY <2>1, <1>3 DEF InSight
<1>8. PermissionsFollow'
  <2>1. ASSUME NEW f \in Folder \ half, f \in live' \cup trash'
        PROVE  f \in granted' <=> f \notin destroyed'
    <3>1. f \in granted <=> f \notin destroyed
      BY <2>1, <1>2, <1>3 DEF Inv, PermissionsFollow
    <3>2. CASE f \in folders
      BY <2>1, <3>1, <3>2, <1>2, <1>3, <1>4
    <3>3. CASE f \notin folders
      BY <3>1, <3>3, <1>3, <1>4, <1>5
    <3>4. QED
      BY <3>2, <3>3
  <2>2. QED
    BY <2>1, <1>3 DEF PermissionsFollow
<1>9. /\ req' \in [Request -> {Idle} \cup Job] /\ destroyed' \subseteq Folder
      /\ \A s \in Request : req'[s] = req[s] \/ req'[s] = Idle
  BY <1>1, <1>3, <1>6 DEF TypeOK
<1>10. folders \cup {g} \subseteq Section \cap (live \cup trash)
  BY <1>1, <1>2 DEF Section
<1>11. trash' = trash \cup (folders \cup {g}) /\ stray' = stray \ (folders \cup {g})
  BY <1>1, <1>3, <1>6, SectionAssumption DEF TypeOK
<1>12. granted' \subseteq granted /\ destroyed \subseteq destroyed'
  BY <1>3, <1>4
<1>13. QED
  BY <1>3, <1>7, <1>8, <1>9, <1>10, <1>11, <1>12, Departure

LEMMA RestoreGalleryStep ==
    ASSUME Inv, NEW g \in Gallery, RestoreGallery(g)
    PROVE  Inv'
<1> USE DEF Inv, RestoreGallery
<1>1. TypeOK' /\ g \notin Folder /\ live' \cup trash' = live \cup trash
  BY SectionAssumption DEF TypeOK, Section
<1>2. \A h : FoldersOf(h)' = FoldersOf(h)
  BY <1>1 DEF FoldersOf
<1>3. \A f \in stray : home[f] # g \/ Leaving(g) => f \in stray'
  OBVIOUS
<1>4. ASSUME NEW s \in Request PROVE Fits(s)'
  <2>1. CASE req[s].kind = "delete"
    <3>1. DeletionFits(req[s])
      BY <2>1 DEF Fits
    <3>2. FoldersOf(req[s].gallery) \subseteq req[s].folders \cup stray'
      BY <2>1, <3>1, <1>3 DEF DeletionFits, Leaving, FoldersOf
    <3>3. QED
      BY <2>1, <3>1, <3>2, <1>1, <1>2 DEF Fits, DeletionFits
  <2>2. CASE req[s].kind # "delete"
    BY <2>2, <1>1, <1>2 DEF Fits
  <2>3. QED
    BY <2>1, <2>2
<1>5. InSight'
  BY <1>1, <1>3 DEF InSight
<1>6. OneDefault' /\ PermissionsFollow'
  BY <1>1, <1>2 DEF OneDefault, PermissionsFollow
<1>7. QED
  BY <1>1, <1>4, <1>5, <1>6 DEF Apart

-----------------------------------------------------------------------------
LEMMA StepInv == Inv /\ [Next]_vars => Inv'
<1> SUFFICES ASSUME Inv, [Next]_vars PROVE Inv'
  OBVIOUS
<1>1. CASE UNCHANGED vars
  BY <1>1 DEF vars, rows, history, Inv, TypeOK, InSight, OneDefault, PermissionsFollow, Fits,
     DeletionFits, Apart, FoldersOf
<1>2. ASSUME NEW r \in Request, NEW g \in Gallery,
             \/ CreateFolder(r, g) \/ UploadFindsNone(r, g) \/ DeleteGallery(r, g)
             \/ \E f \in Folder : MoveFolder(r, f, g)
      PROVE  Inv'
  BY <1>2, CreateFolderStep, UploadFindsNoneStep, DeleteGalleryStep, MoveFolderStep
<1>3. ASSUME NEW r \in Request, NEW f \in Folder, InsertFolder(r, f) \/ CreateDefault(r, f)
      PROVE  Inv'
  BY <1>3, InsertFolderStep, CreateDefaultStep
<1>4. ASSUME NEW r \in Request,
             CreatePermissions(r) \/ SaveMove(r) \/ CommitDelete(r) \/ Fail(r)
      PROVE  Inv'
  BY <1>4, CreatePermissionsStep, SaveMoveStep, CommitDeleteStep, FailStep
<1>5. ASSUME NEW f \in Folder, DeleteFolder(f) \/ AdminDestroyFolder(f) \/ RestoreFolder(f)
      PROVE  Inv'
  BY <1>5, DeleteFolderStep, AdminDestroyFolderStep, RestoreFolderStep
<1>6. ASSUME NEW g \in Gallery, CreateGallery(g) \/ RestoreGallery(g)
      PROVE  Inv'
  BY <1>6, CreateGalleryStep, RestoreGalleryStep
<1>7. QED
  BY <1>1, <1>2, <1>3, <1>4, <1>5, <1>6 DEF Next

LEMMA Invariance == Spec => []Inv
BY InitInv, StepInv, PTL DEF Spec

\* Rows and requests have their types, and no section is in the trash and out of it.
THEOREM TypeCorrect == Spec => []TypeOK
BY Invariance, PTL DEF Inv

\* A folder out of the trash is in a gallery out of the trash, unless it came there while
\* the gallery was being deleted, or later: by a new folder, by an upload's default folder,
\* by the save of a move that was read before, or by a restore.
THEOREM InSightCorrect == Spec => []InSight
BY Invariance, PTL DEF Inv

\* update_multiple creates one default folder for a gallery without folders, however
\* folders are deleted, moved and restored, unless two uploads find none at one time or a
\* default folder of before comes back.
THEOREM OneDefaultCorrect == Spec => []OneDefault
BY Invariance, PTL DEF Inv

\* A folder that was created undisturbed has permissions until a destroy takes them, and
\* none after: whatever loads the folders of a gallery while permissions are created.
THEOREM PermissionsFollowCorrect == Spec => []PermissionsFollow
BY Invariance, PTL DEF Inv
=============================================================================
