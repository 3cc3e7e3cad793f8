-------------------------- MODULE FolderRouter_proofs --------------------------
(***************************************************************************)
(* Proofs about FolderRouter for any folders, queries, pages and bounds.    *)
(***************************************************************************)
EXTENDS FolderRouter, FiniteSetTheorems, TLAPS

\* As long as no others are sent, the one fetch that is out is the one that the router
\* waits for.
Alone ==
    ~mixed => \/ live = {}
              \/ (\E r \in live : live = {r} /\ r.ends) /\ pending /\ dropped = 0

\* What the list shows, or is going to show, is what the collection asks for.
Fetching ==
    attached /\ ~unsure => \/ live = {} /\ shown = assets
                           \/ \E r \in live : live = {r} /\ r.for = assets

Collection ==
    /\ assets.folder \in {active, NoFolder}
    /\ attached => assets \in Listing

Started == fragment = Starting => live = {} /\ dropped = 0 /\ ~attached

Inv ==
    /\ TypeOK /\ IsFiniteSet(live) /\ Collection /\ Started
    /\ Alone /\ Fetching /\ PendingIsAwaited /\ AddressNamesFolder

-----------------------------------------------------------------------------
(* Types.                                                                    *)

LEMMA RouteTypes ==
    ASSUME NEW route \in Route
    PROVE  /\ route.to \in {"index", "asset", "manager", "edit", "sort", "folder", "search"}
           /\ route.to = "folder" => route.folder \in FolderId
           /\ route.to \in {"edit", "sort"} => route.folder \in Folder
           /\ route.to \in {"index", "asset", "manager"} => route.folder = NoFolder
           /\ route.to = "search" => route.query \in Query \cup {Blank}
           /\ PageOf(route) \in Page
           /\ PageOf(route) # 0
BY PageAssumption DEF Route, AtIndex, AtDialog, AtFolder, AtSearch, At, PageOf, Page, FolderId

LEMMA FolderAddress ==
    ASSUME NEW f \in FolderId
    PROVE  /\ AtFolder(f, 0) \in Route /\ AtFolder(f, 0).to = "folder" /\ AtFolder(f, 0).folder = f
           /\ AtFolder(f, 0) # Starting
BY DEF Route, AtFolder, Starting, At, FolderId

LEMMA OtherAddresses ==
    AtIndex.to = "index" /\ Starting.to = "start"
BY DEF AtIndex, Starting, At

LEMMA ListingTypes ==
    /\ \A l \in Listing : l.folder \in FolderId /\ l.query \in Query \cup {Blank} /\ l.page \in Page
    /\ \A l \in Listing : [l EXCEPT !.query = Blank] \in Listing
    /\ \A l \in Listing \cup {NoAssets} : l.query = Blank => [l EXCEPT !.query = Blank] = l
    /\ \A l \in Listing \cup {NoAssets} :
           /\ l.folder \in FolderId
           /\ [l EXCEPT !.page = 1] \in Listing
           /\ [l EXCEPT !.page = 1].folder = l.folder
           /\ [l EXCEPT !.query = Blank] \in Listing \cup {NoAssets}
           /\ [l EXCEPT !.query = Blank].folder = l.folder
    /\ \A f \in FolderId, q \in Query \cup {Blank}, n \in Page :
           [folder |-> f, query |-> q, page |-> n] \in Listing
BY DEF Listing, NoAssets, FolderId, Page

-----------------------------------------------------------------------------
(* Fetches.                                                                  *)

\* What one handler hands on to the next.
Handed(from) ==
    /\ from.assets \in Listing \cup {NoAssets} /\ from.assets.folder \in {active, NoFolder}
    /\ from.attached \in BOOLEAN /\ (from.attached => from.assets \in Listing)
    /\ from.attached => attached /\ from.assets = assets /\ from.live = live
    /\ \/ from.live = {}
       \/ from.live = live /\ from.dropped = dropped
    /\ from.dropped \in 0 .. MaxFetches /\ from.sorting \in 0 .. MaxSorts
    /\ from.pager \in {"none", "current"} \cup FolderId
    /\ from.selector \in {"none", "ready", "busy"}
    /\ Awaited(Now) => Awaited(from)

\* There is a number left for a fetch, as long as the bound is not reached.
LEMMA NumberLeft ==
    ASSUME NEW S \in SUBSET Fetch, IsFiniteSet(S), Cardinality(S) < MaxFetches
    PROVE  \E k \in 1 .. MaxFetches : \A r \in S : r.n # k
<1> SUFFICES ASSUME \A k \in 1 .. MaxFetches : \E r \in S : r.n = k
             PROVE  FALSE
  OBVIOUS
<1> DEFINE T == 1 .. MaxFetches
           number == [r \in S |-> r.n]
<1>1. \A r \in S : r.n \in T
  BY DEF Fetch
<1>2. number \in Surjection(S, T)
  BY <1>1 DEF Surjection
<1>3. Cardinality(T) <= Cardinality(S)
  BY <1>2, FS_Surjection
<1>4. Cardinality(T) = MaxFetches
  BY FS_Interval, BoundsAssumption
<1>5. Cardinality(S) \in Nat
  BY FS_CardinalityType
<1>6. QED
  BY <1>3, <1>4, <1>5, BoundsAssumption

\* The fetch x of this listing is sent.
Sent(x, from, listing, ends) ==
    live' = from.live \cup {x} /\ x.for = listing /\ (ends => x.ends)

LEMMA SendStep ==
    ASSUME NEW from, from.live \in SUBSET Fetch, IsFiniteSet(from.live), from.dropped \in Nat,
           NEW listing \in Listing, NEW ends \in BOOLEAN, NEW router \in BOOLEAN,
           Send(from, listing, ends, router)
    PROVE  /\ \E x \in Fetch : Sent(x, from, listing, ends)
           /\ live' \in SUBSET Fetch /\ IsFiniteSet(live')
           /\ dropped' = from.dropped /\ from.dropped <= MaxFetches
           /\ unsure' = (from.live # {})
           /\ mixed' = (~router \/ from.dropped > 0 \/ (mixed /\ from.live # {}))
<1> DEFINE same == {r \in from.live : r.for = listing /\ r.ends = ends}
           number == CHOOSE k \in 1 .. MaxFetches : \A r \in same : r.n # k
           x == [for |-> listing, ends |-> ends, n |-> number]
<1>1. same \in SUBSET from.live
  OBVIOUS
<1>2. IsFiniteSet(same) /\ Cardinality(same) <= Cardinality(from.live)
  BY <1>1, FS_Subset
<1>3. Cardinality(same) < MaxFetches /\ from.dropped <= MaxFetches
  <2>1. Cardinality(same) \in Nat /\ Cardinality(from.live) \in Nat
    BY <1>2, FS_CardinalityType
  <2>2. from.dropped + Cardinality(from.live) < MaxFetches
    BY DEF Send
  <2>3. QED
    BY <2>1, <2>2, <1>2, BoundsAssumption
<1>4. \E k \in 1 .. MaxFetches : \A r \in same : r.n # k
  BY <1>1, <1>2, <1>3, NumberLeft
<1>5. number \in 1 .. MaxFetches
  BY <1>4
<1>6. live' = from.live \cup {x}
  BY DEF Send
<1> HIDE DEF number
<1>7. x \in Fetch /\ x.for = listing /\ (ends => x.ends)
  BY <1>5 DEF Fetch
<1>8. IsFiniteSet(live')
  BY <1>6, FS_AddElement
<1>9. QED
  BY <1>3, <1>6, <1>7, <1>8 DEF Send, Sent

LEMMA NowHanded ==
    ASSUME Inv PROVE Handed(Now)
BY DEF Inv, TypeOK, Collection, Handed, Now

\* A fetch that somebody waits for is still counted when its collection is left.
LEMMA LeftAwaits ==
    ASSUME Inv
    PROVE  /\ Left.dropped \in Nat /\ Left.live = {}
           /\ live = {} => Left.dropped = dropped
           /\ Awaited(Now) => Left.dropped > 0
           /\ Left.pager \in {"none", "current"} \cup FolderId
<1> DEFINE ends == {r \in live : r.ends}
<1>1. IsFiniteSet(ends)
  BY FS_Subset DEF Inv
<1>2. Cardinality(ends) \in Nat /\ (Cardinality(ends) = 0 <=> ends = {})
  BY <1>1, FS_CardinalityType, FS_EmptySet
<1>3. Left.dropped = dropped + Cardinality(ends) /\ Left.live = {}
  BY DEF Left
<1>4. dropped \in Nat
  BY DEF Inv, TypeOK
<1>5. Awaited(Now) => dropped > 0 \/ ends # {}
  BY DEF Awaited, Now
<1>6. Left.pager \in {"none", "current"} \cup FolderId
  BY ListingTypes DEF Left, Inv, TypeOK
<1>7. live = {} => ends = {}
  OBVIOUS
<1> HIDE DEF ends
<1>8. QED
  BY <1>2, <1>3, <1>4, <1>5, <1>6, <1>7

LEMMA UnfilledHanded ==
    ASSUME Inv, NEW n \in Page, Left.dropped <= MaxFetches
    PROVE  /\ Handed(Unfilled(n)) /\ ~Unfilled(n).attached
           /\ Unfilled(n).assets \in Listing /\ Unfilled(n).assets.folder = NoFolder
<1> DEFINE new == [folder |-> NoFolder, query |-> Blank, page |-> n]
<1>1. new \in Listing /\ new.folder = NoFolder
  BY ListingTypes DEF FolderId
<1>2. /\ Unfilled(n).assets = new /\ Unfilled(n).attached = FALSE /\ Unfilled(n).live = {}
      /\ Unfilled(n).dropped = Left.dropped /\ Unfilled(n).pager = Left.pager
      /\ Unfilled(n).sorting = 0 /\ Unfilled(n).selector = "none"
  BY DEF Unfilled, Left
<1>3. Awaited(Now) => Awaited(Unfilled(n))
  BY <1>2, LeftAwaits DEF Awaited
<1>4. 0 \in 0 .. MaxSorts /\ Left.dropped \in 0 .. MaxFetches
  BY LeftAwaits, BoundsAssumption
<1> HIDE DEF new
<1>5. QED
  BY <1>1, <1>2, <1>3, <1>4, LeftAwaits DEF Handed

-----------------------------------------------------------------------------
(* showFolder, with whatever address, folders and dialog it comes.           *)

Surroundings ==
    /\ folders' \in SUBSET Folder /\ modal' \in Dialog \cup {NoDialog}

\* A link that is ignored leaves the list alone, or has cleared the query of a search.
LEMMA QueryCleared ==
    ASSUME Inv, NEW from, Handed(from), ClearQuery(from), Keep(from), shown' = shown
    PROVE  Fetching'
<1> SUFFICES ASSUME attached', ~unsure' PROVE \/ live' = {} /\ shown' = assets'
                                             \/ \E r \in live' : live' = {r} /\ r.for = assets'
  BY DEF Fetching
<1>1. ~unsure /\ from.assets.query = Blank
  BY DEF ClearQuery
<1>2. attached /\ from.assets = assets /\ live' = live
  BY DEF Handed, Keep
<1>3. assets' = assets
  BY <1>1, <1>2, ListingTypes DEF ClearQuery, Handed
<1>4. QED
  BY <1>1, <1>2, <1>3 DEF Inv, Fetching

LEMMA ShowFolderWaitsStep ==
    ASSUME Inv, NEW from, Handed(from), ShowFolderWaits(from),
           fragment' \in Route, fragment'.to = "folder", Surroundings
    PROVE  Inv'
<1> USE DEF Inv, Handed, ShowFolderWaits, ClearQuery, Keep, Surroundings
<1>1. assets' \in Listing \cup {NoAssets} /\ assets'.folder = from.assets.folder
      /\ (from.assets \in Listing => assets' \in Listing)
  BY ListingTypes
<1>2. live' \in SUBSET Fetch /\ IsFiniteSet(live')
  BY FS_EmptySet DEF TypeOK
<1>3. TypeOK'
  BY <1>1, <1>2 DEF TypeOK
<1>4. Collection'
  BY <1>1 DEF Collection
<1>5. Started'
  BY OtherAddresses DEF Started
<1>6. Alone'
  BY DEF Alone
<1>7. PendingIsAwaited'
  BY DEF PendingIsAwaited, Awaited, Now
<1>8. Fetching'
  BY QueryCleared
<1>9. QED
  BY <1>2, <1>3, <1>4, <1>5, <1>6, <1>7, <1>8 DEF AddressNamesFolder

LEMMA ShowFolderFailsStep ==
    ASSUME Inv, NEW f, NEW from, Handed(from), ShowFolderFails(f, from),
           fragment' \in Route, fragment'.to = "folder", Surroundings
    PROVE  Inv'
<1> USE DEF Inv, Handed, ShowFolderFails, ClearQuery, Keep, Surroundings
<1>1. assets' \in Listing \cup {NoAssets} /\ assets'.folder = from.assets.folder
      /\ (from.assets \in Listing => assets' \in Listing)
  BY ListingTypes
<1>2. live' \in SUBSET Fetch /\ IsFiniteSet(live')
  BY FS_EmptySet DEF TypeOK
<1>3. lost' \in BOOLEAN /\ stray' \in BOOLEAN
  BY DEF Awaited
<1>4. TypeOK'
  BY <1>1, <1>2, <1>3 DEF TypeOK
<1>5. Collection'
  BY <1>1 DEF Collection
<1>6. Started'
  BY OtherAddresses DEF Started
<1>7. Alone'
  BY DEF Alone
<1>8. PendingIsAwaited'
  BY DEF PendingIsAwaited, Awaited, Now
<1>9. Fetching'
  BY QueryCleared
<1>10. QED
  BY <1>2, <1>4, <1>5, <1>6, <1>7, <1>8, <1>9 DEF AddressNamesFolder

LEMMA ShowFolderLoadsStep ==
    ASSUME Inv, NEW f \in Folder, NEW n \in Page, NEW from, Handed(from),
           ShowFolderLoads(f, n, from),
           fragment' \in Route, fragment'.to = "folder", fragment'.folder = f, Surroundings
    PROVE  Inv'
<1> USE DEF Inv, ShowFolderLoads, Turn, Surroundings
<1>1. /\ assets' \in Listing /\ assets'.folder = f /\ Send(from, assets', TRUE, TRUE)
      /\ Attach(f, from) /\ pending' /\ ~pending
  BY ListingTypes DEF FolderId
<1>2. from.live \in SUBSET Fetch /\ IsFiniteSet(from.live) /\ from.dropped \in Nat
  <2>1. from.live \in SUBSET Fetch /\ IsFiniteSet(from.live)
    BY FS_EmptySet DEF Handed, TypeOK
  <2>2. from.dropped \in Nat
    BY BoundsAssumption DEF Handed
  <2>3. QED
    BY <2>1, <2>2
<1>3. /\ live' \in SUBSET Fetch /\ IsFiniteSet(live') /\ dropped' = from.dropped
      /\ unsure' = (from.live # {}) /\ mixed' = (from.dropped > 0 \/ (mixed /\ from.live # {}))
  BY <1>1, <1>2, SendStep
<1>4. PICK x \in Fetch : Sent(x, from, assets', TRUE)
  BY <1>1, <1>2, SendStep
<1>5. /\ active' = f /\ attached' /\ selector' = "none" /\ shown' \in {Nothing, shown}
      /\ pager' \in {"current", from.pager} /\ ~lost' /\ ~stray' /\ sorting' = from.sorting
  BY <1>1 DEF Attach
<1>6. {mixed', unsure', lost', stray'} \subseteq BOOLEAN /\ pending' \in BOOLEAN /\ attached' \in BOOLEAN
  BY <1>1, <1>3, <1>5 DEF Attach
<1>7. TypeOK'
  BY <1>1, <1>3, <1>5, <1>6 DEF TypeOK, Handed, FolderId, Nothing
<1>8. Collection' /\ AddressNamesFolder'
  BY <1>1, <1>5, FolderAssumption DEF Collection, AddressNamesFolder
<1>9. Started'
  BY OtherAddresses DEF Started
<1>10. Alone'
  <2>1. CASE ~mixed'
    <3>1. from.dropped = 0 /\ (~mixed \/ from.live = {})
      <4>1. ~(from.dropped > 0) /\ ~(mixed /\ from.live # {})
        BY <2>1, <1>3
      <4>2. from.dropped \in 0 .. MaxFetches
        BY DEF Handed
      <4>3. QED
        BY <4>1, <4>2, BoundsAssumption
    <3>2. from.live = {}
      BY <3>1, <1>1 DEF Handed, Alone
    <3>3. QED
      BY <3>1, <3>2, <1>1, <1>3, <1>4 DEF Alone, Sent
  <2>2. CASE mixed'
    BY <2>2 DEF Alone
  <2>3. QED
    BY <2>1, <2>2
<1>11. Fetching'
  BY <1>3, <1>4 DEF Fetching, Sent
<1>12. PendingIsAwaited'
  BY <1>4 DEF PendingIsAwaited, Awaited, Now, Sent
<1>13. QED
  BY <1>3, <1>7, <1>8, <1>9, <1>10, <1>11, <1>12

LEMMA ShowFolderStep ==
    ASSUME Inv, NEW f \in FolderId, NEW n \in Page, NEW from, Handed(from),
           ShowFolder(f, n, from),
           fragment' \in Route, fragment'.to = "folder", fragment'.folder = f, Surroundings
    PROVE  Inv'
<1>1. ShowFolderLoads(f, n, from) => f \in Folder
  BY DEF ShowFolderLoads, Inv, TypeOK
<1>2. QED
  BY <1>1, ShowFolderWaitsStep, ShowFolderFailsStep, ShowFolderLoadsStep DEF ShowFolder

-----------------------------------------------------------------------------
(* Routes.                                                                   *)

LEMMA SearchAssetsStep ==
    ASSUME Inv, NEW q \in Query, NEW n \in Page, SearchAssets(q, n),
           fragment' \in Route, fragment'.to = "search", Surroundings
    PROVE  Inv'
<1> USE DEF Inv, Surroundings
<1>1. /\ assets' \in Listing /\ assets'.folder = NoFolder /\ Send(Left, assets', TRUE, FALSE)
      /\ attached' = TRUE /\ selector' = "none" /\ shown' = Nothing /\ pager' = Left.pager
      /\ sorting' = 0 /\ lost' = FALSE /\ stray' = FALSE /\ UNCHANGED <<active, pending>>
  BY ListingTypes DEF FolderId, SearchAssets, Left
<1>2. /\ Left.live \in SUBSET Fetch /\ IsFiniteSet(Left.live) /\ Left.live = {}
      /\ Left.dropped \in Nat
  BY FS_EmptySet, LeftAwaits DEF Left
<1>3. /\ live' \in SUBSET Fetch /\ IsFiniteSet(live') /\ dropped' = Left.dropped
      /\ Left.dropped <= MaxFetches /\ unsure' = FALSE /\ mixed' = TRUE
  BY <1>1, <1>2, SendStep
<1>4. PICK x \in Fetch : Sent(x, Left, assets', TRUE)
  BY <1>1, <1>2, SendStep
<1>5. dropped' \in 0 .. MaxFetches /\ 0 \in 0 .. MaxSorts
  BY <1>3, LeftAwaits, BoundsAssumption
<1>6. TypeOK'
  BY <1>1, <1>3, <1>5, LeftAwaits DEF TypeOK, Nothing
<1>7. Collection' /\ AddressNamesFolder' /\ Alone'
  BY <1>1, <1>3 DEF Collection, AddressNamesFolder, Alone
<1>8. Started'
  BY OtherAddresses DEF Started
<1>9. live' = {x} /\ x.for = assets' /\ x.ends
  BY <1>2, <1>4 DEF Sent
<1>10. Fetching' /\ PendingIsAwaited'
  BY <1>9 DEF Fetching, PendingIsAwaited, Awaited, Now
<1>11. QED
  BY <1>3, <1>6, <1>7, <1>8, <1>10

LEMMA SearchBlankStep ==
    ASSUME Inv, NEW n \in Page, SearchBlank(n), Surroundings
    PROVE  Inv'
<1> USE DEF Inv
<1>1. /\ Handed(Unfilled(n)) /\ ~Unfilled(n).attached
      /\ Unfilled(n).assets \in Listing /\ Unfilled(n).assets.folder = NoFolder
  BY UnfilledHanded DEF SearchBlank
<1>2. Unfilled(n).live = {}
  BY DEF Unfilled, Left
<1>3. CASE active # NoFolder
  <2>1. active \in Folder /\ active \in FolderId /\ 1 \in Page
    BY <1>3 DEF TypeOK, FolderId, Page
  <2>2. fragment' = AtFolder(active, 0) /\ ShowFolder(active, 1, Unfilled(n))
    BY <1>3 DEF SearchBlank
  <2>3. QED
    BY <1>1, <2>1, <2>2, FolderAddress, ShowFolderStep
<1>4. CASE active = NoFolder
  <2>1. /\ fragment' = AtIndex /\ assets' = Unfilled(n).assets /\ Keep(Unfilled(n))
        /\ UNCHANGED <<active, pending, shown, history>>
    BY <1>4 DEF SearchBlank
  <2> USE DEF Keep, history, Surroundings
  <2>2. live' = {} /\ IsFiniteSet(live')
    BY <1>2, <2>1, FS_EmptySet
  <2>3. TypeOK'
    BY <1>1, <2>1, <2>2 DEF TypeOK, Handed
  <2>4. Collection' /\ Fetching' /\ Alone'
    BY <1>1, <2>1, <2>2 DEF Collection, Fetching, Alone
  <2>5. AddressNamesFolder' /\ Started'
    BY <2>1, OtherAddresses DEF AddressNamesFolder, Started
  <2>6. PendingIsAwaited'
    BY <1>1, <2>1 DEF PendingIsAwaited, Awaited, Now, Handed
  <2>7. QED
    BY <2>2, <2>3, <2>4, <2>5, <2>6
<1>5. QED
  BY <1>3, <1>4

\* What a step leaves alone that does not concern the list.
still == <<active, assets, attached, pending, network, list, mixed, unsure, lost>>

\* Only the address, the folders and the dialog change.
LEMMA QuietStep ==
    ASSUME Inv, UNCHANGED still, Surroundings,
           \/ fragment' \in {fragment, AtIndex} /\ stray' = stray
           \/ fragment' = AtFolder(active, 0) /\ stray' = (assets.folder = NoFolder)
    PROVE  Inv'
<1> USE DEF Inv, still, network, list, Surroundings
<1>1. active \in FolderId
  BY DEF TypeOK
<1>2. \/ fragment' = fragment /\ stray' = stray
      \/ fragment' = AtIndex /\ stray' = stray
      \/ /\ fragment' \in Route /\ fragment'.to = "folder" /\ fragment'.folder = active
         /\ stray' = (assets.folder = NoFolder)
  BY <1>1, FolderAddress
<1>3. stray' \in BOOLEAN
  BY <1>2 DEF TypeOK
<1>4. TypeOK'
  BY <1>2, <1>3 DEF TypeOK
<1>5. AddressNamesFolder'
  BY <1>2, OtherAddresses DEF AddressNamesFolder, Collection
<1>6. Started'
  BY <1>2, OtherAddresses DEF Started
<1>7. Alone' /\ Fetching' /\ Collection' /\ PendingIsAwaited'
  BY DEF Alone, Fetching, Collection, PendingIsAwaited, Awaited, Now
<1>8. QED
  BY <1>4, <1>5, <1>6, <1>7

LEMMA QuietIsStill == UNCHANGED quiet => UNCHANGED still /\ stray' = stray
BY DEF quiet, still, network, list, history

\* A dialog is closed and no handler runs.
LEMMA SilentStep ==
    ASSUME Inv, Surroundings,
           NavigateSilently(AtFolder(active, 0)) \/ NavigateSilently(AtIndex)
    PROVE  Inv'
<1>1. active \in FolderId
  BY DEF Inv, TypeOK
<1>2. UNCHANGED still
  BY DEF NavigateSilently, still, network, list
<1>3. \/ fragment' = AtIndex /\ stray' = stray
      \/ fragment' = AtFolder(active, 0) /\ stray' = (assets.folder = NoFolder)
  BY <1>1, FolderAddress, OtherAddresses DEF NavigateSilently
<1>4. QED
  BY <1>2, <1>3, QuietStep

LEMMA Unmoved ==
    ASSUME Inv, UNCHANGED <<folders, modal>>
    PROVE  Surroundings
BY DEF Inv, TypeOK, Surroundings

LEMMA OpensDialogStep ==
    ASSUME Inv, NEW route \in Route, OpensDialog(route)
    PROVE  Inv'
<1>1. Surroundings
  BY DEF OpensDialog, Opened, Dialog, Surroundings, Inv, TypeOK
<1>2. fragment' = AtIndex /\ UNCHANGED quiet
  BY DEF OpensDialog
<1>3. QED
  BY <1>1, <1>2, QuietIsStill, QuietStep

LEMMA VisitStep ==
    ASSUME Inv, NEW route \in Route, Visit(route)
    PROVE  Inv'
<1>1. CASE route.to = "index" /\ Index
  BY <1>1, QuietIsStill, QuietStep, Unmoved DEF Index
<1>2. CASE OpensDialog(route)
  BY <1>2, OpensDialogStep
<1>3. CASE /\ route.to = "folder" /\ fragment' = route
           /\ ShowFolder(route.folder, PageOf(route), Now)
           /\ UNCHANGED <<folders, modal>>
  BY <1>3, RouteTypes, NowHanded, Unmoved, ShowFolderStep
<1>4. CASE /\ route.to = "search" /\ route.query # Blank /\ fragment' = route
           /\ SearchAssets(route.query, PageOf(route))
           /\ UNCHANGED <<folders, modal>>
  BY <1>4, RouteTypes, Unmoved, SearchAssetsStep
<1>5. CASE SearchBlank(PageOf(route)) /\ UNCHANGED <<folders, modal>>
  BY <1>5, RouteTypes, Unmoved, SearchBlankStep
<1>6. QED
  BY <1>1, <1>2, <1>3, <1>4, <1>5 DEF Visit

LEMMA ShowFirstFolderStep ==
    ASSUME Inv, NEW first \in Folder, NEW from, Handed(from), ShowFirstFolder(first, from),
           Surroundings
    PROVE  Inv'
<1>1. 1 \in Page
  BY DEF Page
<1>2. fragment' = AtFolder(first, 0) /\ ShowFolder(first, 1, from) /\ first \in FolderId
  BY DEF ShowFirstFolder, FolderId
<1>3. QED
  BY <1>1, <1>2, FolderAddress, ShowFolderStep

LEMMA StartStep ==
    ASSUME Inv, NEW route \in Route, NEW first \in folders, Start(route, first)
    PROVE  Inv'
<1>1. first \in Folder /\ folders' \in SUBSET Folder
  BY DEF Inv, TypeOK, Start
<1>2. live = {} /\ dropped = 0
  BY DEF Inv, Started, Start
<1>3. Left.dropped <= MaxFetches
  BY <1>2, LeftAwaits, BoundsAssumption
<1>4. CASE /\ route.to \in {"index", "asset"}
           /\ ShowFirstFolder(first, Now) /\ UNCHANGED modal
  BY <1>1, <1>4, NowHanded, ShowFirstFolderStep DEF Surroundings, Inv, TypeOK
<1>5. CASE /\ route.to \in {"edit", "sort", "manager"}
           /\ route.folder \in folders \/ route.to = "manager"
           /\ ShowFirstFolder(first, Now)
           /\ modal' = Opened(route.to, route.folder)
  <2>1. modal' \in Dialog
    BY <1>5, RouteTypes DEF Dialog, Opened
  <2>2. QED
    BY <1>1, <1>5, <2>1, NowHanded, ShowFirstFolderStep DEF Surroundings
<1>6. CASE /\ route.to = "folder" /\ fragment' = route
           /\ ShowFolder(route.folder, PageOf(route), Now) /\ UNCHANGED modal
  BY <1>1, <1>6, RouteTypes, NowHanded, ShowFolderStep DEF Surroundings, Inv, TypeOK
<1>7. CASE /\ route.to = "search" /\ route.query # Blank /\ fragment' = route
           /\ SearchAssets(route.query, PageOf(route)) /\ UNCHANGED modal
  BY <1>1, <1>7, RouteTypes, SearchAssetsStep DEF Surroundings, Inv, TypeOK
<1>8. CASE ShowFirstFolder(first, Unfilled(PageOf(route))) /\ UNCHANGED modal
  BY <1>1, <1>3, <1>8, RouteTypes, UnfilledHanded, ShowFirstFolderStep
     DEF Surroundings, Inv, TypeOK
<1>9. QED
  BY <1>4, <1>5, <1>6, <1>7, <1>8 DEF Start

LEMMA StartAtGoneStep ==
    ASSUME Inv, NEW route \in Route, NEW first \in folders, StartAtGone(route, first)
    PROVE  Inv'
<1> USE DEF Inv, StartAtGone, network, list
<1>1. first \in Folder
  BY DEF TypeOK
<1>2. fragment' \in Route /\ fragment'.to = "folder"
  BY <1>1, FolderAddress DEF FolderId
<1>3. live = {}
  BY DEF Started
<1>4. TypeOK'
  BY <1>2 DEF TypeOK
<1>5. Collection' /\ Fetching' /\ AddressNamesFolder' /\ PendingIsAwaited' /\ Alone'
  BY <1>3 DEF Collection, Fetching, AddressNamesFolder, PendingIsAwaited, Alone
<1>6. Started'
  BY <1>2, OtherAddresses DEF Started
<1>7. QED
  BY <1>4, <1>5, <1>6

-----------------------------------------------------------------------------
(* Dialogs.                                                                  *)

LEMMA DialogHiddenStep ==
    ASSUME Inv, DialogHidden
    PROVE  Inv'
<1>1. Surroundings /\ modal \in Dialog
  BY DEF Inv, TypeOK, Surroundings, DialogHidden
<1>2. modal.kind \in {"edit", "sort"} => modal.folder \in Folder
  BY <1>1 DEF Dialog
<1>3. CASE NavigateSilently(AtFolder(active, 0))
  BY <1>1, <1>3, SilentStep
<1>4. CASE NavigateSilently(AtIndex)
  BY <1>1, <1>4, SilentStep
<1>5. CASE modal.kind \in {"edit", "sort"} /\ Navigate(AtFolder(modal.folder, 0))
  <2>1. CASE UNCHANGED <<quiet, fragment>>
    BY <1>1, <2>1, QuietIsStill, QuietStep
  <2>2. CASE /\ fragment' = AtFolder(modal.folder, 0)
             /\ ShowFolder(AtFolder(modal.folder, 0).folder, 1, Now)
    <3>1. 1 \in Page /\ modal.folder \in FolderId
      BY <1>2, <1>5 DEF Page, FolderId
    <3>2. QED
      BY <1>1, <1>2, <1>5, <2>2, <3>1, FolderAddress, NowHanded, ShowFolderStep
  <2>3. QED
    BY <1>5, <2>1, <2>2 DEF Navigate
<1>6. QED
  BY <1>3, <1>4, <1>5 DEF DialogHidden

LEMMA RemoveFolderStep ==
    ASSUME Inv, NEW f \in Folder, RemoveFolder(f)
    PROVE  Inv'
<1>1. Surroundings /\ UNCHANGED <<quiet, fragment>>
  BY DEF Inv, TypeOK, Surroundings, RemoveFolder
<1>2. QED
  BY <1>1, QuietIsStill, QuietStep

-----------------------------------------------------------------------------
(* Answers.                                                                  *)

LEMMA MenusTyped ==
    ASSUME Inv, DrawMenus
    PROVE  pager' = "current" /\ selector' \in {"none", "ready", "busy"}
BY DEF DrawMenus, Inv, TypeOK

\* One fetch less is out.
LEMMA Answered ==
    ASSUME Inv, NEW r \in live, live' = live \ {r}
    PROVE  /\ live' \in SUBSET Fetch /\ IsFiniteSet(live') /\ fragment # Starting
           /\ r.for \in Listing /\ r.ends \in BOOLEAN
           /\ \A s \in live : live = {s} => live' = {} /\ r = s
<1>1. IsFiniteSet(live \ {r})
  BY FS_RemoveElement DEF Inv
<1>2. r \in Fetch
  BY DEF Inv, TypeOK
<1>3. QED
  BY <1>1, <1>2 DEF Inv, TypeOK, Started, Fetch

\* The answer to r calls onFetchFinish, if any does.
LEMMA AnswerStep ==
    ASSUME Inv, NEW r \in live, live' = live \ {r}, EndFetch(r.ends),
           UNCHANGED <<place, folders, dropped, sorting, modal, stray>>,
           shown' \in Listing \cup {Nothing}, unsure' \in BOOLEAN,
           pager' \in {"current", pager}, selector' \in {"none", "ready", "busy"},
           Fetching'
    PROVE  Inv'
<1> USE DEF Inv, EndFetch, place
<1>1. /\ live' \in SUBSET Fetch /\ IsFiniteSet(live') /\ fragment # Starting
      /\ r.ends \in BOOLEAN /\ \A s \in live : live = {s} => live' = {} /\ r = s
  BY Answered
<1>2. {mixed', unsure', lost', stray'} \subseteq BOOLEAN /\ pending' \in BOOLEAN
  BY DEF TypeOK
<1>3. TypeOK'
  BY <1>1, <1>2 DEF TypeOK
<1>4. Collection' /\ AddressNamesFolder' /\ Started'
  BY <1>1 DEF Collection, AddressNamesFolder, Started
<1>5. Alone'
  BY <1>1 DEF Alone
<1>6. PendingIsAwaited'
  BY <1>1 DEF PendingIsAwaited, Awaited, Now
<1>7. QED
  BY <1>1, <1>3, <1>4, <1>5, <1>6

LEMMA AnswerDrawnStep ==
    ASSUME Inv, NEW r \in live, AnswerDrawn(r)
    PROVE  Inv'
<1> USE DEF AnswerDrawn
<1>1. /\ r.for \in Listing /\ \A s \in live : live = {s} => live' = {} /\ r = s
  BY Answered
<1>2. pager' = "current" /\ selector' \in {"none", "ready", "busy"}
  BY MenusTyped
<1>3. Fetching'
  BY <1>1 DEF Inv, Fetching, place
<1>4. unsure' \in BOOLEAN
  BY DEF Inv, TypeOK
<1>5. QED
  BY <1>1, <1>2, <1>3, <1>4, AnswerStep

LEMMA AnswerUnseenStep ==
    ASSUME Inv, NEW r \in live, AnswerUnseen(r)
    PROVE  Inv'
<1> USE DEF AnswerUnseen, list
<1>1. Fetching'
  BY DEF Fetching, place
<1>2. /\ unsure' \in BOOLEAN /\ shown' \in Listing \cup {Nothing}
      /\ selector' \in {"none", "ready", "busy"} /\ pager' = pager
  BY DEF Inv, TypeOK
<1>3. QED
  BY <1>1, <1>2, AnswerStep

LEMMA AnswerRefusedStep ==
    ASSUME Inv, NEW r \in live, AnswerRefused(r)
    PROVE  Inv'
<1> USE DEF AnswerRefused, list
<1>1. Fetching'
  BY DEF Fetching
<1>2. /\ unsure' \in BOOLEAN /\ shown' \in Listing \cup {Nothing}
      /\ selector' \in {"none", "ready", "busy"} /\ pager' = pager
  BY DEF Inv, TypeOK
<1>3. QED
  BY <1>1, <1>2, AnswerStep

LEMMA AnswerBreaksStep ==
    ASSUME Inv, NEW r \in live, AnswerBreaks(r)
    PROVE  Inv'
<1> USE DEF Inv, AnswerBreaks, place
<1>1. /\ live' \in SUBSET Fetch /\ IsFiniteSet(live') /\ fragment # Starting
      /\ \A s \in live : live = {s} => live' = {} /\ r = s
  BY Answered
<1>2. pager' = "current" /\ selector' \in {"none", "ready", "busy"}
  BY MenusTyped
<1>3. lost' = (pending /\ ~(dropped' > 0 \/ \E s \in live' : s.ends))
  BY DEF Awaited, Now
<1>4. {mixed', unsure', lost', stray'} \subseteq BOOLEAN
  BY <1>3 DEF TypeOK
<1>5. TypeOK'
  BY <1>1, <1>2, <1>4 DEF TypeOK
<1>6. Collection' /\ AddressNamesFolder' /\ Started'
  BY <1>1 DEF Collection, AddressNamesFolder, Started
<1>7. Alone' /\ Fetching'
  BY <1>1 DEF Alone, Fetching
<1>8. PendingIsAwaited'
  BY <1>3 DEF PendingIsAwaited, Awaited, Now
<1>9. QED
  BY <1>1, <1>5, <1>6, <1>7, <1>8

LEMMA AnswerDroppedStep ==
    ASSUME Inv, AnswerDropped
    PROVE  Inv'
<1> USE DEF Inv, AnswerDropped, place, list
<1>1. pending' = FALSE /\ lost' = FALSE /\ mixed' = (mixed /\ live' # {})
  BY DEF EndFetch
<1>2. dropped \in 0 .. MaxFetches /\ dropped > 0 /\ dropped' = dropped - 1
  BY DEF TypeOK
<1>3. dropped' \in 0 .. MaxFetches
  BY <1>2, BoundsAssumption
<1>4. {mixed', unsure', lost', stray'} \subseteq BOOLEAN /\ pending' \in BOOLEAN
  BY <1>1 DEF TypeOK
<1>5. TypeOK'
  BY <1>3, <1>4 DEF TypeOK
<1>6. Collection' /\ AddressNamesFolder' /\ Fetching'
  BY DEF Collection, AddressNamesFolder, Fetching
<1>7. Started'
  BY <1>2 DEF Started
<1>8. Alone'
  <2>1. CASE mixed
    BY <1>1, <2>1 DEF Alone
  <2>2. CASE ~mixed
    <3>1. live = {}
      BY <1>2, <2>2 DEF Alone
    <3>2. QED
      BY <3>1 DEF Alone
  <2>3. QED
    BY <2>1, <2>2
<1>9. PendingIsAwaited'
  BY <1>1 DEF PendingIsAwaited
<1>10. QED
  BY <1>5, <1>6, <1>7, <1>8, <1>9

-----------------------------------------------------------------------------
(* Menus.                                                                    *)

LEMMA ChangePaginatePerStep ==
    ASSUME Inv, ChangePaginatePer
    PROVE  Inv'
<1> USE DEF Inv
<1>1. UNCHANGED <<active, attached, folders, pending, sorting, list, modal, lost>>
  BY DEF ChangePaginatePer
<1>2. CASE /\ pager = "current" /\ fragment' = AtFolder(assets.folder, 0)
           /\ assets' = [assets EXCEPT !.page = 1]
           /\ Send(Now, assets', FALSE, FALSE) /\ stray' = (assets.folder = NoFolder)
  <2>1. assets' \in Listing /\ assets'.folder = assets.folder /\ assets.folder \in FolderId
    BY <1>2, ListingTypes DEF TypeOK
  <2>2. /\ Now.live = live /\ Now.dropped = dropped /\ live \in SUBSET Fetch
        /\ Now.dropped \in Nat
    BY DEF Now, TypeOK
  <2>3. /\ live' \in SUBSET Fetch /\ IsFiniteSet(live') /\ dropped' = dropped
        /\ unsure' = (live # {}) /\ mixed' = TRUE
    BY <1>2, <2>1, <2>2, SendStep
  <2>4. PICK x \in Fetch : Sent(x, Now, assets', FALSE)
    BY <1>2, <2>1, <2>2, SendStep
  <2>5. fragment'.to = "folder" /\ fragment'.folder = assets.folder
        /\ fragment' \in Route /\ stray' \in BOOLEAN
    BY <1>2, <2>1, FolderAddress
  <2>6. TypeOK'
    BY <1>1, <1>2, <2>1, <2>3, <2>5 DEF TypeOK, list
  <2>7. Collection' /\ AddressNamesFolder' /\ Alone' /\ Started'
    BY <1>1, <1>2, <2>1, <2>3, <2>5, OtherAddresses DEF Collection, AddressNamesFolder, Alone, Started
  <2>8. live' = live \cup {x} /\ x.for = assets'
    BY <2>2, <2>4 DEF Sent
  <2>9. Fetching'
    BY <2>3, <2>8 DEF Fetching
  <2>10. PendingIsAwaited'
    BY <1>1, <2>3, <2>8 DEF PendingIsAwaited, Awaited, Now
  <2>11. QED
    BY <2>3, <2>6, <2>7, <2>9, <2>10
<1>3. CASE /\ pager \in FolderId /\ fragment' = AtFolder(pager, 0) /\ stray' = TRUE
           /\ UNCHANGED <<assets, live, dropped, mixed, unsure>>
  <2>1. fragment'.to = "folder" /\ fragment' \in Route
    BY <1>3, FolderAddress
  <2>2. TypeOK'
    BY <1>1, <1>3, <2>1 DEF TypeOK, list
  <2>3. Collection' /\ AddressNamesFolder' /\ Alone' /\ Fetching' /\ PendingIsAwaited'
    BY <1>1, <1>3 DEF Collection, AddressNamesFolder, Alone, Fetching, PendingIsAwaited, Awaited,
       Now, list
  <2>4. Started'
    BY <2>1, OtherAddresses DEF Started
  <2>5. QED
    BY <1>3, <2>2, <2>3, <2>4
<1>4. QED
  BY <1>2, <1>3 DEF ChangePaginatePer

LEMMA UpdateSortOrderStep ==
    ASSUME Inv, UpdateSortOrder
    PROVE  Inv'
<1> USE DEF Inv, UpdateSortOrder, place, history
<1>1. sorting' \in 0 .. MaxSorts
  BY BoundsAssumption DEF TypeOK
<1>2. TypeOK'
  BY <1>1 DEF TypeOK
<1>3. QED
  BY <1>2 DEF Collection, Started, Alone, Fetching, PendingIsAwaited, AddressNamesFolder, Awaited, Now

LEMMA ReorderStep ==
    ASSUME Inv, Reorder
    PROVE  Inv'
<1> USE DEF Inv
<1>1. UNCHANGED <<place, folders, pending, shown, pager, modal, stray>>
  BY DEF Reorder
<1>2. sorting' \in 0 .. MaxSorts /\ selector' \in {"none", "ready", "busy"}
  BY BoundsAssumption DEF Reorder, TypeOK
<1>3. CASE attached /\ Send(Now, assets, TRUE, FALSE) /\ lost' = FALSE
  <2>1. assets \in Listing /\ fragment # Starting
    BY <1>3 DEF Collection, Started
  <2>2. /\ Now.live = live /\ Now.dropped = dropped /\ live \in SUBSET Fetch
        /\ Now.dropped \in Nat
    BY DEF Now, TypeOK
  <2>3. /\ live' \in SUBSET Fetch /\ IsFiniteSet(live') /\ dropped' = dropped
        /\ unsure' = (live # {}) /\ mixed' = TRUE
    BY <1>3, <2>1, <2>2, SendStep
  <2>4. PICK x \in Fetch : Sent(x, Now, assets, TRUE)
    BY <1>3, <2>1, <2>2, SendStep
  <2>5. live' = live \cup {x} /\ x.for = assets /\ x.ends
    BY <2>2, <2>4 DEF Sent
  <2>6. TypeOK'
    BY <1>1, <1>2, <1>3, <2>3 DEF TypeOK, place
  <2>7. Collection' /\ AddressNamesFolder' /\ Alone' /\ Started'
    BY <1>1, <2>1, <2>3 DEF Collection, AddressNamesFolder, Alone, Started, place
  <2>8. Fetching'
    BY <1>1, <2>3, <2>5 DEF Fetching, place
  <2>9. PendingIsAwaited'
    BY <2>5 DEF PendingIsAwaited, Awaited, Now
  <2>10. QED
    BY <2>3, <2>6, <2>7, <2>8, <2>9
<1>4. CASE ~attached /\ UNCHANGED <<live, dropped, mixed, unsure, lost>>
  <2>1. TypeOK'
    BY <1>1, <1>2, <1>4 DEF TypeOK, place
  <2>2. QED
    BY <1>1, <1>4, <2>1 DEF place, Collection, Started, Alone, Fetching, PendingIsAwaited,
       AddressNamesFolder, Awaited, Now
<1>5. QED
  BY <1>3, <1>4 DEF Reorder

-----------------------------------------------------------------------------
LEMMA InitInv == Init => Inv
<1> SUFFICES ASSUME Init PROVE Inv
  OBVIOUS
<1> USE DEF Init
<1>1. 0 \in 0 .. MaxFetches /\ 0 \in 0 .. MaxSorts
  BY BoundsAssumption
<1>2. TypeOK
  BY <1>1 DEF TypeOK, FolderId, Nothing, NoPager
<1>3. NoAssets.folder = NoFolder
  BY DEF NoAssets
<1>4. IsFiniteSet(live)
  BY FS_EmptySet
<1>5. QED
  BY <1>2, <1>3, <1>4, OtherAddresses
     DEF Inv, Collection, Started, Alone, Fetching, PendingIsAwaited, AddressNamesFolder

LEMMA StepInv == Inv /\ [Next]_vars => Inv'
<1> SUFFICES ASSUME Inv, [Next]_vars PROVE Inv'
  OBVIOUS
<1>1. CASE UNCHANGED vars
  <2>1. UNCHANGED <<quiet, fragment>> /\ Surroundings
    BY <1>1 DEF vars, quiet, place, network, list, history, Inv, TypeOK, Surroundings
  <2>2. QED
    BY <2>1, QuietIsStill, QuietStep
<1>2. ASSUME NEW route \in Route, NEW first \in folders,
             Start(route, first) \/ StartAtGone(route, first)
      PROVE  Inv'
  BY <1>2, StartStep, StartAtGoneStep
<1>3. ASSUME NEW route \in Route, Visit(route) PROVE Inv'
  BY <1>3, VisitStep
<1>4. ASSUME NEW f \in Folder, RemoveFolder(f) PROVE Inv'
  BY <1>4, RemoveFolderStep
<1>5. ASSUME NEW r \in live, Answer(r) PROVE Inv'
  BY <1>5, AnswerDrawnStep, AnswerBreaksStep, AnswerUnseenStep, AnswerRefusedStep DEF Answer
<1>6. CASE DialogHidden \/ AnswerDropped \/ ChangePaginatePer \/ UpdateSortOrder \/ Reorder
  BY <1>6, DialogHiddenStep, AnswerDroppedStep, ChangePaginatePerStep, UpdateSortOrderStep,
     ReorderStep
<1>7. QED
  BY <1>1, <1>2, <1>3, <1>4, <1>5, <1>6 DEF Next

LEMMA Invariance == Spec => []Inv
BY InitInv, StepInv, PTL DEF Spec

\* The address, the collection, its fetches, the menus and the dialog keep their types.
THEOREM TypeCorrect == Spec => []TypeOK
BY Invariance, PTL DEF Inv

\* Links to folders and pages alone never have two fetches of the list out at a time:
\* showFolder returns while @pending, and only the end of the fetch takes it back.
THEOREM LinksFetchOneAtATimeCorrect == Spec => []LinksFetchOneAtATime
<1>1. Inv => LinksFetchOneAtATime
  BY FS_EmptySet, FS_Singleton DEF Inv, Alone, LinksFetchOneAtATime
<1>2. QED
  BY <1>1, Invariance, PTL

\* When the answers are in, the list shows what its collection asks for, whatever was
\* clicked in between, unless fetches overlapped, one failed or an ignored link has
\* cleared the query of a search.
THEOREM ShownIsWantedCorrect == Spec => []ShownIsWanted
<1>1. Inv => ShownIsWanted
  BY DEF Inv, Fetching, ShownIsWanted
<1>2. QED
  BY <1>1, Invariance, PTL

\* The router does not wait for nothing, except for a folder that is not there or an
\* answer that could not be drawn.
THEOREM PendingIsAwaitedCorrect == Spec => []PendingIsAwaited
BY Invariance, PTL DEF Inv

\* The address of a folder is that of the active folder, and of the one whose assets the
\* list asks for, unless router or list could not follow.
THEOREM AddressNamesFolderCorrect == Spec => []AddressNamesFolder
BY Invariance, PTL DEF Inv

-----------------------------------------------------------------------------
(* What only folders ask for.                                                *)

\* The user follows links to folders of the gallery and to their pages, and the server
\* answers with assets that can be drawn.
OnlyFolders ==
    /\ fragment'.to # "search" /\ \A n \in Page : ~SearchBlank(n)
    /\ fragment'.to = "folder" => fragment'.folder \in folders
    /\ \A route \in Route, first \in folders : ~StartAtGone(route, first)
    /\ ~ChangePaginatePer /\ ~Reorder
    /\ \A r \in live : ~AnswerBreaks(r) /\ ~AnswerRefused(r)

\* What the list shows, or the one fetch that is out asks for, is what the collection
\* asks for, links that were ignored included.
Listed ==
    /\ assets.query = Blank
    /\ attached => \/ live = {} /\ shown = assets
                   \/ \E r \in live : live = {r} /\ r.for = assets

Undivided == ~mixed /\ ~unsure /\ ~lost /\ dropped = 0 /\ Listed

\* What showFolder is handed then.
Only(from) ==
    /\ Handed(from) /\ from.dropped = 0 /\ from.assets.query = Blank
    /\ from.attached => from.live = live /\ from.assets = assets /\ attached

LEMMA OnlyNow == Inv /\ Undivided => Only(Now)
BY NowHanded DEF Undivided, Listed, Only, Now

\* showFolder sends its fetch when none is out.
LEMMA ShowFolderUndivided ==
    ASSUME Inv, Undivided, NEW f \in folders, NEW n \in Page, NEW from, Only(from),
           ShowFolder(f, n, from)
    PROVE  Undivided'
<1> USE DEF Undivided
<1>1. CASE ShowFolderWaits(from)
  <2>1. [from.assets EXCEPT !.query = Blank] = from.assets
    BY ListingTypes DEF Only, Handed
  <2>2. /\ assets' = from.assets /\ live' = from.live /\ attached' = from.attached
        /\ dropped' = 0 /\ UNCHANGED <<shown, mixed, lost>>
    BY <1>1, <2>1 DEF ShowFolderWaits, ClearQuery, Keep, Only
  <2>2a. ~unsure'
    <3>1. unsure' = (unsure \/ from.assets.query # Blank) /\ from.assets.query = Blank
      BY <1>1 DEF ShowFolderWaits, ClearQuery, Only
    <3>2. QED
      BY <3>1, Zenon
  <2>3. QED
    BY <2>2, <2>2a DEF Listed, Only
<1>2. CASE ShowFolderLoads(f, n, from)
  <2>1. f \in Folder
    BY DEF Inv, TypeOK
  <2>2. /\ assets' \in Listing /\ assets'.query = Blank /\ Send(from, assets', TRUE, TRUE)
        /\ Attach(f, from) /\ ~pending
    BY <1>2, <2>1, ListingTypes DEF ShowFolderLoads, Turn, FolderId
  <2>3. from.live = {} /\ from.dropped = 0
    BY <2>2 DEF Inv, Alone, Only, Handed
  <2>4. from.live \in SUBSET Fetch /\ IsFiniteSet(from.live) /\ from.dropped \in Nat
    BY <2>3, FS_EmptySet
  <2>5. /\ dropped' = from.dropped /\ unsure' = (from.live # {})
        /\ mixed' = (~TRUE \/ from.dropped > 0 \/ (mixed /\ from.live # {}))
    BY <2>2, <2>4, SendStep
  <2>6. dropped' = 0 /\ ~unsure' /\ ~mixed' /\ ~lost'
    <3>1. ~(from.dropped > 0)
      BY <2>3
    <3>2. lost' = FALSE
      BY <2>2 DEF Attach
    <3>3. QED
      BY <2>3, <2>5, <3>1, <3>2, Zenon
  <2>7. PICK x \in Fetch : Sent(x, from, assets', TRUE)
    BY <2>2, <2>4, SendStep
  <2>8. Listed'
    BY <2>2, <2>3, <2>7 DEF Listed, Sent
  <2>9. QED
    BY <2>6, <2>8
<1>3. QED
  BY <1>1, <1>2 DEF ShowFolder, ShowFolderFails

\* What showFolder leaves alone, everything else leaves alone too.
LEMMA QuietUndivided == Undivided /\ UNCHANGED still => Undivided'
BY DEF still, network, list, Undivided, Listed

LEMMA StartUndivided ==
    ASSUME Inv, Undivided, OnlyFolders, NEW route \in Route, NEW first \in folders,
           Start(route, first)
    PROVE  Undivided'
<1>1. first \in Folder /\ 1 \in Page
  BY DEF Inv, TypeOK, Page
<1>2. Only(Now)
  BY OnlyNow
<1>3. CASE ShowFirstFolder(first, Now)
  BY <1>1, <1>2, <1>3, ShowFolderUndivided DEF ShowFirstFolder
<1>4. CASE route.to = "folder" /\ route.folder \in folders
           /\ ShowFolder(route.folder, PageOf(route), Now)
  BY <1>2, <1>4, RouteTypes, ShowFolderUndivided
<1>5. CASE ShowFirstFolder(first, Unfilled(PageOf(route)))
  <2>1. live = {} /\ dropped = 0
    BY DEF Inv, Started, Start
  <2>2. Left.dropped = 0
    BY <2>1, LeftAwaits
  <2>3. Handed(Unfilled(PageOf(route)))
    BY <2>2, RouteTypes, UnfilledHanded, BoundsAssumption
  <2>4. Only(Unfilled(PageOf(route)))
    BY <2>2, <2>3 DEF Only, Unfilled, Left
  <2>5. QED
    BY <1>1, <1>5, <2>4, ShowFolderUndivided DEF ShowFirstFolder
<1>6. ~(route.to = "search" /\ fragment' = route)
  BY DEF OnlyFolders
<1>7. QED
  BY <1>3, <1>4, <1>5, <1>6 DEF Start

LEMMA VisitUndivided ==
    ASSUME Inv, Undivided, OnlyFolders, NEW route \in Route, Visit(route)
    PROVE  Undivided'
<1>1. Only(Now)
  BY OnlyNow
<1>2. CASE (route.to = "index" /\ Index) \/ OpensDialog(route)
  BY <1>2, QuietIsStill, QuietUndivided DEF Index, OpensDialog
<1>3. CASE route.to = "folder" /\ fragment' = route /\ ShowFolder(route.folder, PageOf(route), Now)
  <2>1. route.folder \in folders
    BY <1>3 DEF OnlyFolders
  <2>2. QED
    BY <1>1, <1>3, <2>1, RouteTypes, ShowFolderUndivided
<1>4. ~(route.to = "search" /\ fragment' = route) /\ ~SearchBlank(PageOf(route))
  BY RouteTypes DEF OnlyFolders
<1>5. QED
  BY <1>2, <1>3, <1>4 DEF Visit

LEMMA DialogHiddenUndivided ==
    ASSUME Inv, Undivided, OnlyFolders, DialogHidden
    PROVE  Undivided'
<1>1. CASE UNCHANGED still
  BY <1>1, QuietUndivided
<1>2. CASE modal.kind \in {"edit", "sort"} /\ Navigate(AtFolder(modal.folder, 0))
  <2>1. modal.folder \in Folder /\ modal.folder \in FolderId
    BY <1>2 DEF DialogHidden, Inv, TypeOK, Dialog, FolderId
  <2>2. CASE /\ fragment' = AtFolder(modal.folder, 0)
             /\ ShowFolder(AtFolder(modal.folder, 0).folder, 1, Now)
    <3>1. modal.folder \in folders /\ 1 \in Page
      BY <2>1, <2>2, FolderAddress DEF OnlyFolders, Page
    <3>2. QED
      BY <2>1, <2>2, <3>1, OnlyNow, FolderAddress, ShowFolderUndivided
  <2>3. QED
    BY <1>1, <1>2, <2>2, QuietIsStill DEF Navigate
<1>3. QED
  BY <1>1, <1>2 DEF DialogHidden, NavigateSilently, still, network, list

LEMMA AnswerUndivided ==
    ASSUME Inv, Undivided, OnlyFolders, NEW r \in live, Answer(r)
    PROVE  Undivided'
<1>1. AnswerDrawn(r) \/ AnswerUnseen(r)
  BY DEF Answer, OnlyFolders
<1>2. \A s \in live : live = {s} => live \ {r} = {} /\ r = s
  OBVIOUS
<1>3. Listed'
  BY <1>1, <1>2 DEF AnswerDrawn, AnswerUnseen, place, Undivided, Listed
<1>4. ~mixed' /\ ~unsure' /\ ~lost' /\ dropped' = 0
  <2>1. /\ mixed' = (mixed /\ live' # {}) /\ lost' = (lost /\ ~r.ends)
        /\ unsure' = unsure /\ dropped' = dropped
    BY <1>1 DEF AnswerDrawn, AnswerUnseen, EndFetch
  <2>2. QED
    BY <2>1, Zenon DEF Undivided
<1>5. QED
  BY <1>3, <1>4 DEF Undivided

LEMMA UndividedStep == Inv /\ Undivided /\ [Next]_vars /\ [OnlyFolders]_vars => Undivided'
<1> SUFFICES ASSUME Inv, Undivided, [Next]_vars, [OnlyFolders]_vars PROVE Undivided'
  OBVIOUS
<1>1. CASE UNCHANGED vars
  BY <1>1 DEF vars, place, network, list, history, Undivided, Listed
<1>2. ASSUME Next, OnlyFolders PROVE Undivided'
  <2>1. /\ ~ChangePaginatePer /\ ~Reorder
        /\ \A route \in Route, first \in folders : ~StartAtGone(route, first)
    BY <1>2 DEF OnlyFolders
  <2>2. ~AnswerDropped
    BY DEF AnswerDropped, Undivided
  <2>3. ASSUME UpdateSortOrder PROVE Undivided'
    BY <2>3 DEF UpdateSortOrder, place, history, Undivided, Listed
  <2>4. ASSUME NEW f \in Folder, RemoveFolder(f) PROVE Undivided'
    BY <2>4, QuietIsStill, QuietUndivided DEF RemoveFolder
  <2>5. QED
    BY <1>2, <2>1, <2>2, <2>3, <2>4, StartUndivided, VisitUndivided, DialogHiddenUndivided,
       AnswerUndivided DEF Next
<1>3. QED
  BY <1>1, <1>2

\* @pending says whether the fetch of the list is out, and when none is, the list shows
\* what the collection asks for.
PendingTellsTheFetch ==
    /\ pending <=> live # {}
    /\ Cardinality(live) <= 1
    /\ live = {} /\ attached => shown = assets

\* With links to folders and answers that can be drawn, and without searches, sorts and
\* other page sizes, the flag of showFolder tells exactly whether the list is being
\* fetched, and the list always ends with what the collection asks for: a link that came
\* while the router waited is ignored, and does no harm to the list.
THEOREM PendingTellsTheFetchCorrect ==
    Spec /\ [][OnlyFolders]_vars => []PendingTellsTheFetch
<1>1. Init => Undivided
  BY DEF Init, Undivided, Listed, NoAssets
<1>2. Inv /\ Undivided => PendingTellsTheFetch
  <2> SUFFICES ASSUME Inv, Undivided PROVE PendingTellsTheFetch
    OBVIOUS
  <2>1. Cardinality(live) <= 1 /\ (live = {} /\ attached => shown = assets)
    BY FS_EmptySet, FS_Singleton DEF Inv, Undivided, Alone, Listed
  <2>2. live # {} => pending
    BY DEF Inv, Undivided, Alone
  <2>3. pending => live # {}
    BY DEF Inv, Undivided, PendingIsAwaited, Awaited, Now
  <2>4. QED
    BY <2>1, <2>2, <2>3 DEF PendingTellsTheFetch
<1>3. QED
  BY <1>1, <1>2, UndividedStep, Invariance, PTL DEF Spec
=============================================================================
