----------------------------- MODULE FolderRouter -----------------------------
(***************************************************************************)
(* The page of a gallery (routes/*/folder.js.coffee): the address in the    *)
(* browser, the folder that the router shows, the one collection of assets  *)
(* that it fills by requests, and the list that draws what they bring.      *)
(* Links, the back button, dialogs and the answers of the server come in    *)
(* any order.  A step is one turn of the browser's event loop.              *)
(***************************************************************************)
EXTENDS Naturals, FiniteSets

CONSTANTS
    Folder,       \* ids of folders
    NoFolder,     \* no folder: folder_id undefined, or 0 for a search
    Query,        \* what the user searches for
    Blank,        \* a query of nothing but spaces
    Linked,       \* numbers of pages that links name
    MaxFetches,   \* bound: fetches that are out at a time
    MaxSorts      \* bound: sort requests that are out at a time

ASSUME FolderAssumption == NoFolder \notin Folder /\ {"none", "current"} \cap Folder = {}
ASSUME QueryAssumption == Blank \notin Query
ASSUME PageAssumption == Linked \subseteq Nat \ {0}
ASSUME BoundsAssumption == MaxFetches \in Nat \ {0} /\ MaxSorts \in Nat \ {0}

VARIABLES
    fragment,   \* Backbone.history.fragment: a folder, a search, or neither
    folders,    \* @collection, the folders of the gallery
    active,     \* @folder_id
    pending,    \* @pending
    assets,     \* what @assetCollection asks for, or NoAssets
    attached,   \* does the view @assetsView listen to this collection?
    live,       \* fetches of this collection that are out
    dropped,    \* how many fetches of earlier collections are out
    shown,      \* the answer that #assets-list shows
    selector,   \* the menu of orders: "none", "ready", "busy" (@processing)
    sorting,    \* sort requests of this collection that are out
    pager,      \* whose pages the links and the menu below the list change
    modal,      \* the open dialog
    mixed,      \* were others out than those that showFolder sends?
    unsure,     \* the last fetch overlapped another, brought nothing to show, or
                \* lost its query to a link that was ignored
    lost,       \* no answer will clear pending
    stray       \* the address was changed, and router or list have not followed

place == <<fragment, active, assets, attached>>
network == <<live, dropped, sorting>>
list == <<shown, selector, pager>>
history == <<mixed, unsure, lost, stray>>
vars == <<place, folders, pending, network, list, modal, history>>

Page == Linked \cup {1}
FolderId == Folder \cup {NoFolder}

\* Routes: a page of 0 is none at all.
At(to, f, q, n) == [to |-> to, folder |-> f, query |-> q, page |-> n]
Starting == At("start", NoFolder, Blank, 0)
AtIndex == At("index", NoFolder, Blank, 0)  \* ... and the address of any dialog
AtFolder(f, n) == At("folder", f, Blank, n)
AtSearch(q, n) == At("search", NoFolder, q, n)
AtDialog(kind, f) == At(kind, f, Blank, 0)
\* A broken PageOf: the default of the parameter is gone.
PageAsNamed(route) == route.page
PageOf(route) == IF route.page = 0 THEN 1 ELSE route.page

Dialog == [kind : {"asset", "manager"}, folder : {NoFolder}]
          \cup [kind : {"edit", "sort"}, folder : Folder]
NoDialog == [kind |-> "none", folder |-> NoFolder]

Route == {AtIndex, AtDialog("asset", NoFolder), AtDialog("manager", NoFolder)}
         \cup {AtDialog(kind, f) : kind \in {"edit", "sort"}, f \in Folder}
         \cup {AtFolder(f, n) : f \in Folder, n \in Linked \cup {0}}
         \cup {AtFolder(NoFolder, 0)}  \* see ChangePaginatePer and DialogHidden
         \cup {AtSearch(q, n) : q \in Query \cup {Blank}, n \in Linked \cup {0}}

\* What a collection asks the server for, and what an answer is the answer to.
Listing == [folder : FolderId, query : Query \cup {Blank}, page : Page]
NoAssets == [folder |-> NoFolder, query |-> Blank, page |-> 0]
Nothing == NoAssets
NoPager == "none"

\* n tells fetches apart that ask for the same.
Fetch == [for : Listing, ends : BOOLEAN, n : 1 .. MaxFetches]

-----------------------------------------------------------------------------
(* The state that one handler hands on to the next one it calls.             *)

Now == [assets |-> assets, attached |-> attached, live |-> live,
        dropped |-> dropped, pager |-> pager, selector |-> selector,
        sorting |-> sorting]

\* The list leaves its collection behind: its requests and its menus are those
\* of a collection nobody listens to.
Left == [assets |-> NoAssets, attached |-> FALSE, live |-> {},
         dropped |-> dropped + Cardinality({r \in live : r.ends}),
         pager |-> IF pager = "current" THEN assets.folder ELSE pager,
         selector |-> "none", sorting |-> 0]

\* All but the query stays as the handler before has left it.
Keep(from) ==
    /\ attached' = from.attached /\ pager' = from.pager /\ selector' = from.selector
    /\ live' = from.live /\ dropped' = from.dropped /\ sorting' = from.sorting

\* Some answer that is still out will end the router's wait.
Awaited(from) == from.dropped > 0 \/ \E r \in from.live : r.ends

\* collection.fetch: the answer ends the router's wait if a view asked for it.
Send(from, listing, ends, router) ==
    /\ from.dropped + Cardinality(from.live) < MaxFetches
    /\ LET same == {r \in from.live : r.for = listing /\ r.ends = ends}
           n == CHOOSE k \in 1 .. MaxFetches : \A r \in same : r.n # k
       IN live' = from.live \cup {[for |-> listing, ends |-> ends, n |-> n]}
    /\ dropped' = from.dropped
    /\ unsure' = (from.live # {})
    /\ mixed' = (~router \/ from.dropped > 0 \/ (mixed /\ from.live # {}))

-----------------------------------------------------------------------------
(* showFolder                                                                *)

ClearQuery(from) ==
    /\ assets' = [from.assets EXCEPT !.query = Blank]
    /\ unsure' = (unsure \/ from.assets.query # Blank)

\* The router waits for an answer: the query is cleared and nothing follows.
ShowFolderWaits(from) ==
    /\ pending
    /\ ClearQuery(from)
    /\ stray' = TRUE
    /\ Keep(from)
    /\ UNCHANGED <<active, pending, shown, mixed, lost>>

\* The folder is not one of the gallery's: the router waits, for no answer.
ShowFolderFails(f, from) ==
    /\ ~pending /\ f \notin folders
    /\ pending' = TRUE /\ lost' = ~Awaited(from)
    /\ ClearQuery(from)
    /\ stray' = TRUE
    /\ Keep(from)
    /\ UNCHANGED <<active, shown, mixed>>

\* A new view is attached to the collection and fetches it.  A collection that
\* showed another folder is reset first, and the old view draws an empty list.
Attach(f, from) ==
    /\ active' = f
    /\ attached' = TRUE /\ selector' = "none"
    /\ LET resets == from.attached /\ from.assets.folder # f IN
       /\ shown' = IF resets THEN Nothing ELSE shown
       /\ pager' = IF resets THEN "current" ELSE from.pager
    /\ lost' = FALSE /\ stray' = FALSE
    /\ sorting' = from.sorting

\* A broken Turn: the view fetches before currentPage is set.
TurnLate(f, n, from) ==
    /\ assets' = [folder |-> f, query |-> Blank, page |-> n]
    /\ Send(from, [assets' EXCEPT !.page = 1], TRUE, TRUE)
    /\ Attach(f, from)

Turn(f, n, from) ==
    /\ assets' = [folder |-> f, query |-> Blank, page |-> n]
    /\ Send(from, assets', TRUE, TRUE)
    /\ Attach(f, from)

\* A broken ShowFolderLoads: the router does not wait for the answer.
ShowFolderOpenly(f, n, from) ==
    /\ ~pending /\ f \in folders
    /\ UNCHANGED pending
    /\ Turn(f, n, from)

ShowFolderLoads(f, n, from) ==
    /\ ~pending /\ f \in folders
    /\ pending' = TRUE
    /\ Turn(f, n, from)

ShowFolder(f, n, from) ==
    \/ ShowFolderWaits(from)
    \/ ShowFolderFails(f, from)
    \/ ShowFolderLoads(f, n, from)

-----------------------------------------------------------------------------
(* searchAssets                                                              *)

SearchAssets(q, n) ==
    /\ assets' = [folder |-> NoFolder, query |-> q, page |-> n]
    /\ Send(Left, assets', TRUE, FALSE)
    /\ attached' = TRUE /\ selector' = "none"
    /\ shown' = Nothing /\ pager' = Left.pager /\ sorting' = Left.sorting
    /\ lost' = FALSE /\ stray' = FALSE
    /\ UNCHANGED <<active, pending>>

\* Nothing to search for: a new collection without a view.
Unfilled(n) == [Left EXCEPT !.assets = [folder |-> NoFolder, query |-> Blank, page |-> n]]

\* ... and back to the folder, if one has been shown.
SearchBlank(n) ==
    /\ Left.dropped <= MaxFetches
    /\ \/ /\ active # NoFolder
          /\ fragment' = AtFolder(active, 0)
          /\ ShowFolder(active, 1, Unfilled(n))
       \/ /\ active = NoFolder
          /\ fragment' = AtIndex
          /\ assets' = Unfilled(n).assets /\ Keep(Unfilled(n))
          /\ UNCHANGED <<active, pending, shown, history>>

-----------------------------------------------------------------------------
(* Routes                                                                    *)

quiet == <<active, assets, attached, pending, network, list, history>>

Opened(kind, f) == [kind |-> kind, folder |-> f]

\* The routes that open a dialog or, with nothing to open it for, do nothing.
\* The form of a folder and the view of an asset replace the dialog before them,
\* the others open where none is.
OpensDialog(route) ==
    /\ \/ /\ route.to = "asset" /\ shown # Nothing
          /\ modal' = Opened("asset", NoFolder)
       \/ /\ route.to = "edit" /\ route.folder \in folders
          /\ modal' = Opened("edit", route.folder)
       \/ /\ route.to = "sort" /\ route.folder \in folders /\ modal = NoDialog
          /\ modal' = Opened("sort", route.folder)
       \/ /\ route.to = "manager" /\ modal = NoDialog
          /\ modal' = Opened("manager", NoFolder)
       \/ /\ \/ route.to = "asset"
             \/ route.to = "sort" /\ route.folder \notin folders
          /\ UNCHANGED modal
    /\ fragment' = AtIndex
    /\ UNCHANGED <<quiet, folders>>

\* index closes the open dialog, which then fades: DialogHidden is still to come.
Index ==
    /\ fragment' = AtIndex
    /\ UNCHANGED <<quiet, folders, modal>>

\* A link, the back button or the search field: Backbone.history.loadUrl.
Visit(route) ==
    /\ fragment # Starting /\ route # fragment
    /\ \/ route.to = "index" /\ Index
       \/ OpensDialog(route)
       \/ /\ route.to = "folder" /\ fragment' = route
          /\ ShowFolder(route.folder, PageOf(route), Now)
          /\ UNCHANGED <<folders, modal>>
       \/ /\ route.to = "search" /\ route.query # Blank /\ fragment' = route
          /\ SearchAssets(route.query, PageOf(route))
          /\ UNCHANGED <<folders, modal>>
       \/ /\ route.to = "search" /\ route.query = Blank
          /\ SearchBlank(PageOf(route))
          /\ UNCHANGED <<folders, modal>>

\* showFirstFolder, when no folder is shown yet.
ShowFirstFolder(first, from) ==
    /\ active = NoFolder
    /\ fragment' = AtFolder(first, 0)
    /\ ShowFolder(first, 1, from)

\* The page is loaded: history.start runs the handler of the address, and unless
\* that is a search, showFirstFolder follows.
Start(route, first) ==
    /\ fragment = Starting
    /\ \/ /\ route.to \in {"index", "asset"}
          /\ ShowFirstFolder(first, Now)
          /\ UNCHANGED modal
       \/ /\ route.to \in {"edit", "sort", "manager"}
          /\ route.folder \in folders \/ route.to = "manager"
          /\ ShowFirstFolder(first, Now)
          /\ modal' = Opened(route.to, route.folder)
       \/ /\ route.to = "folder" /\ route.folder \in folders
          /\ fragment' = route
          /\ ShowFolder(route.folder, PageOf(route), Now)
          /\ UNCHANGED modal
       \/ /\ route.to = "search" /\ route.query # Blank
          /\ fragment' = route
          /\ SearchAssets(route.query, PageOf(route))
          /\ UNCHANGED modal
       \/ /\ route.to = "search" /\ route.query = Blank
          /\ ShowFirstFolder(first, Unfilled(PageOf(route)))
          /\ UNCHANGED modal
    /\ UNCHANGED folders

\* ... of a folder that is gone: the router waits already, for no answer, when
\* showFirstFolder comes.
StartAtGone(route, first) ==
    /\ fragment = Starting
    /\ route.to = "folder" /\ route.folder \notin folders
    /\ fragment' = AtFolder(first, 0)
    /\ pending' = TRUE /\ lost' = TRUE /\ stray' = TRUE
    /\ UNCHANGED <<active, assets, attached, network, list, folders, modal,
                   mixed, unsure>>

-----------------------------------------------------------------------------
(* Dialogs                                                                   *)

\* Backbone.history.navigate without trigger: no handler runs.  The results of a
\* search stay where they are, under the address of a folder, and its link does
\* nothing from then on.
NavigateSilently(route) ==
    /\ fragment' = route
    /\ stray' = IF route.to = "folder" THEN assets.folder = NoFolder ELSE stray
    /\ UNCHANGED <<active, assets, attached, pending, network, list, mixed, unsure, lost>>

\* A broken Navigate: trigger is left out.
NavigateOnly(route) == NavigateSilently(route)

\* With trigger; nothing happens at the same address.
Navigate(route) ==
    \/ fragment = route /\ UNCHANGED <<quiet, fragment>>
    \/ /\ fragment # route /\ fragment' = route
       /\ ShowFolder(route.folder, 1, Now)

\* The dialog, closed by the user or by index, is hidden and triggers 'destroyed':
\* back to the folder.
DialogHidden ==
    /\ modal # NoDialog
    /\ modal' = NoDialog
    /\ \/ /\ modal.kind = "asset"
          /\ NavigateSilently(AtFolder(active, 0))
       \/ /\ modal.kind = "manager"
          /\ NavigateSilently(IF active = NoFolder THEN AtIndex ELSE AtFolder(active, 0))
       \/ /\ modal.kind = "edit" /\ modal.folder = active
          /\ NavigateSilently(AtFolder(active, 0))
       \/ /\ \/ modal.kind = "sort"
             \/ modal.kind = "edit" /\ modal.folder # active
          /\ Navigate(AtFolder(modal.folder, 0))
    /\ UNCHANGED folders

\* The folder manager: the model leaves the collection before the server knows.
RemoveFolder(f) ==
    /\ modal.kind = "manager"
    /\ f \in folders
    /\ folders' = folders \ {f}
    /\ UNCHANGED <<quiet, fragment, modal>>

-----------------------------------------------------------------------------
(* The list of assets.  That one of them is destroyed, and the rest drawn     *)
(* again, is left out: the list keeps the answer that it shows.               *)

\* onFetchFinish, for the requests that call it.
EndFetch(ends) ==
    /\ pending' = (pending /\ ~ends)
    /\ lost' = (lost /\ ~ends)
    /\ mixed' = (mixed /\ live' # {})

\* addAll: the menus below and above the list are drawn before the assets are.
DrawMenus ==
    /\ pager' = "current"
    /\ selector' = CASE assets.folder = NoFolder -> "none"
                     [] selector = "none" -> "ready"
                     [] OTHER -> selector

\* The answer fills the collection, and the view draws it.
AnswerDrawn(r) ==
    /\ r \in live /\ attached
    /\ live' = live \ {r}
    /\ shown' = r.for
    /\ DrawMenus
    /\ EndFetch(r.ends)
    /\ UNCHANGED <<place, folders, dropped, sorting, modal, unsure, stray>>

\* It brings an asset of a folder that has left the collection of folders: the
\* item cannot be drawn, and the exception keeps fetch:end from being triggered.
AnswerBreaks(r) ==
    /\ r \in live /\ attached
    /\ IF r.for.folder = NoFolder THEN folders # Folder ELSE r.for.folder \notin folders
    /\ live' = live \ {r}
    /\ shown' = Nothing /\ unsure' = TRUE
    /\ DrawMenus
    /\ lost' = (pending /\ ~Awaited([Now EXCEPT !.live = live']))
    /\ mixed' = (mixed /\ live' # {})
    /\ UNCHANGED <<place, folders, pending, dropped, sorting, modal, stray>>

\* No view listens.
AnswerUnseen(r) ==
    /\ r \in live /\ ~attached
    /\ live' = live \ {r}
    /\ EndFetch(r.ends)
    /\ UNCHANGED <<place, folders, dropped, sorting, list, modal, unsure, stray>>

\* A broken AnswerRefused: only answers that succeed end the wait.
AnswerRefusedInSilence(r) ==
    /\ r \in live
    /\ live' = live \ {r}
    /\ unsure' = TRUE
    /\ EndFetch(FALSE)
    /\ UNCHANGED <<place, folders, dropped, sorting, list, modal, stray>>

\* The server refuses, or cannot be reached.
AnswerRefused(r) ==
    /\ r \in live
    /\ live' = live \ {r}
    /\ unsure' = TRUE
    /\ EndFetch(r.ends)
    /\ UNCHANGED <<place, folders, dropped, sorting, list, modal, stray>>

\* An answer for a collection that a search has replaced.
AnswerDropped ==
    /\ dropped > 0
    /\ dropped' = dropped - 1
    /\ UNCHANGED live
    /\ EndFetch(TRUE)
    /\ UNCHANGED <<place, folders, sorting, list, modal, unsure, stray>>

\* The menu of page sizes, of the collection whose answer was drawn last.  For the
\* results of a search the address is '!folders/0'.
ChangePaginatePer ==
    /\ \/ /\ pager = "current"
          /\ fragment' = AtFolder(assets.folder, 0)
          /\ assets' = [assets EXCEPT !.page = 1]
          /\ Send(Now, assets', FALSE, FALSE)
          /\ stray' = (assets.folder = NoFolder)
       \/ /\ pager \in FolderId
          /\ fragment' = AtFolder(pager, 0)
          /\ stray' = TRUE
          /\ UNCHANGED <<assets, live, dropped, mixed, unsure>>
    /\ UNCHANGED <<active, attached, folders, pending, sorting, list, modal, lost>>

\* update_sort_order: one request of a menu at a time.
UpdateSortOrder ==
    /\ selector = "ready" /\ sorting < MaxSorts
    /\ selector' = "busy"
    /\ sorting' = sorting + 1
    /\ UNCHANGED <<place, folders, pending, live, dropped, shown, pager, modal, history>>

\* Answered or failed, 'reorder' frees the menu and reloads the list.
Reorder ==
    /\ sorting > 0
    /\ sorting' = sorting - 1
    /\ selector' = IF selector = "busy" THEN "ready" ELSE selector
    /\ \/ /\ attached
          /\ Send(Now, assets, TRUE, FALSE)
          /\ lost' = FALSE
       \/ /\ ~attached
          /\ UNCHANGED <<live, dropped, mixed, unsure, lost>>
    /\ UNCHANGED <<place, folders, pending, shown, pager, modal, stray>>

-----------------------------------------------------------------------------
Init ==
    /\ fragment = Starting /\ active = NoFolder
    /\ folders \in SUBSET Folder \ {{}}
    /\ pending = FALSE
    /\ assets = NoAssets /\ attached = FALSE
    /\ live = {} /\ dropped = 0 /\ sorting = 0
    /\ shown = Nothing /\ selector = "none" /\ pager = NoPager
    /\ modal = NoDialog
    /\ mixed = FALSE /\ unsure = FALSE /\ lost = FALSE /\ stray = FALSE

Answer(r) == AnswerDrawn(r) \/ AnswerBreaks(r) \/ AnswerUnseen(r) \/ AnswerRefused(r)

Next ==
    \/ \E route \in Route, first \in folders :
           Start(route, first) \/ StartAtGone(route, first)
    \/ \E route \in Route : Visit(route)
    \/ DialogHidden
    \/ \E f \in Folder : RemoveFolder(f)
    \/ \E r \in live : Answer(r)
    \/ AnswerDropped
    \/ ChangePaginatePer \/ UpdateSortOrder \/ Reorder

Spec == Init /\ [][Next]_vars

-----------------------------------------------------------------------------
(* Properties.                                                               *)

TypeOK ==
    /\ fragment \in {Starting, AtIndex}
                    \cup {route \in Route : route.to \in {"folder", "search"}}
    /\ folders \in SUBSET Folder
    /\ active \in FolderId
    /\ pending \in BOOLEAN /\ attached \in BOOLEAN
    /\ assets \in Listing \cup {NoAssets}
    /\ live \in SUBSET Fetch /\ dropped \in 0 .. MaxFetches
    /\ shown \in Listing \cup {Nothing}
    /\ selector \in {"none", "ready", "busy"}
    /\ sorting \in 0 .. MaxSorts
    /\ pager \in {"none", "current"} \cup FolderId
    /\ modal \in Dialog \cup {NoDialog}
    /\ {mixed, unsure, lost, stray} \subseteq BOOLEAN

\* Without searches, sorts and changes of the page size, the links to folders and
\* to their pages never have two fetches of the list out at a time: that is what
\* @pending is for.
LinksFetchOneAtATime == ~mixed => Cardinality(live) <= 1

\* Once its answers are in, the list shows what its collection asks for, unless
\* fetches have overlapped, one was refused or could not be drawn, or a link that
\* the router ignored has cleared the query of a search.
ShownIsWanted ==
    live = {} /\ attached /\ ~unsure => shown = assets

\* The router waits only while an answer is out that will end its wait, or after
\* an answer that could not be drawn or a folder that is not there.
PendingIsAwaited == pending => lost \/ Awaited(Now)

\* The address of a folder is that of the active folder, whose assets the list
\* has, unless router or list could not follow: a link came while the router waited,
\* the folder is gone, a dialog was closed over the results of a search, or the page
\* size was changed there or in the menu that a search has left behind.
AddressNamesFolder ==
    fragment.to = "folder" /\ ~stray =>
        /\ active # NoFolder
        /\ fragment.folder = active /\ assets.folder = active

=============================================================================
