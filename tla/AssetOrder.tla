------------------------------ MODULE AssetOrder ------------------------------
(***************************************************************************)
(* The positions of the assets of a folder: what the requests of            *)
(* Assets::MyResource read of them, compute and write back.  A folder is    *)
(* listed by position, highest first.                                       *)
(*                                                                         *)
(* A request reads in one or two steps and writes in a later one, and other *)
(* requests run in between.  The writes of one request are one step: those  *)
(* of reorder and sort are a transaction, of which the rows that meet       *)
(* another transaction's wait for its end.                                  *)
(***************************************************************************)
EXTENDS Integers, FiniteSets, Functions

CONSTANTS
    Asset,        \* rows of the assets table
    Folder,       \* rows of the folders table
    Request,      \* pages open on the backend, each with its request
    NoFolder,     \* a null folder_id
    Order,        \* the sort orders that are asked for
    Key,          \* Key[o][a]: the value of a in the column that order o sorts by
    MaxPosition   \* bound: a request that would pass it is not made

ASSUME AssetAssumption == IsFiniteSet(Asset)
ASSUME NoFolderAssumption == NoFolder \notin Folder
ASSUME OrderAssumption ==
    Order \subseteq {"newest_first", "oldest_first", "by_title", "by_filename"}
ASSUME KeyAssumption == Key \in [Order -> [Asset -> Int]]
ASSUME MaxPositionAssumption == MaxPosition \in Nat

VARIABLES
    live,      \* assets created and not deleted
    folder,    \* assets.folder_id
    position,  \* assets.position
    label,     \* folders.assets_sort_order
    job,       \* what each page and its request has read and is going to write
    intact,    \* the pages since whose opening no row was written
    loose      \* assets whose position no undisturbed request has computed, or
               \* whose row a request could not save

rows == <<live, folder, position, label>>
vars == <<rows, job, intact, loose>>

In(f) == {a \in live : folder[a] = f}

\* What a request that is about to write has computed: the assets of rows, of
\* which those whose position differs from the row as it was read are saved.
\*   kind     place: one asset in the folder "into";  edit: one asset, where it
\*            is;  reorder, sort: the assets of the folder "into"
\*   moves    the asset comes from another folder
\*   order    what the folder will be labelled, when the kind is reorder or sort
\*   list     the numbers that the dialog gave to the assets, when it is reorder
\*   refused  the assets whose rows fail their validation
Idle == [step |-> "idle"]
NoList == [a \in {} |-> 0]

\* A broken Job: only the rows that rise in the list are saved.
JobOfRaised(kind, goal, seen, into, moves, order) ==
    [step |-> "write", kind |-> kind, rows |-> DOMAIN goal,
     save |-> Restrict(goal, {a \in DOMAIN goal : goal[a] > seen[a]}),
     into |-> into, moves |-> moves, order |-> order, list |-> NoList,
     refused |-> {}]

Job(kind, goal, seen, into, moves, order) ==
    [step |-> "write", kind |-> kind, rows |-> DOMAIN goal,
     save |-> Restrict(goal, {a \in DOMAIN goal : goal[a] # seen[a]}),
     into |-> into, moves |-> moves, order |-> order, list |-> NoList,
     refused |-> {}]
Single(a, p) == [b \in {a} |-> p]

\* save_resource validates, which the requests that write a title do not: a row
\* with too long a title is reported as an error, the other rows are saved.
Refuse(j, refused) ==
    [j EXCEPT !.save = Restrict(@, DOMAIN @ \ refused), !.refused = refused]

Init ==
    /\ live = {}
    /\ folder = [a \in Asset |-> NoFolder]
    /\ position = [a \in Asset |-> 0]
    /\ label = [f \in Folder |-> "none"]
    /\ job = [r \in Request |-> Idle]
    /\ intact = {}
    /\ loose = {}

\* r opens a page or, if it needs none, begins with its request.
Begin(r, j) ==
    /\ job[r] = Idle
    /\ job' = [job EXCEPT ![r] = j]
    /\ intact' = intact \cup {r}
    /\ UNCHANGED <<rows, loose>>

\* The next step of r, which reads.
Proceed(r, j) ==
    /\ job' = [job EXCEPT ![r] = j]
    /\ UNCHANGED <<rows, intact, loose>>

-----------------------------------------------------------------------------
(* Requests that write at once.                                              *)

\* POST /assets: position 0, in the folder of the page if it has one.
Create(a, f) ==
    /\ a \notin live /\ folder[a] = NoFolder
    /\ live' = live \cup {a}
    /\ folder' = [folder EXCEPT ![a] = f]
    /\ loose' = loose \cup {a}
    /\ intact' = {}
    /\ UNCHANGED <<position, label, job>>

\* DELETE /assets/:id.
Delete(a) ==
    /\ a \in live
    /\ live' = live \ {a}
    /\ loose' = loose \ {a}
    /\ intact' = {}
    /\ UNCHANGED <<folder, position, label, job>>

\* A deleted row that an admin restores has the position it had.
Restore(a) ==
    /\ a \notin live /\ folder[a] # NoFolder
    /\ live' = live \cup {a}
    /\ loose' = loose \cup {a}
    /\ intact' = {}
    /\ UNCHANGED <<folder, position, label, job>>

-----------------------------------------------------------------------------
(* One asset: its upload is complete, or its form is submitted.              *)

\* folder.assets.maximum(:position).to_i and minimum: 0 for an empty set.
IsMaximum(m, S) == /\ \A a \in S : position[a] <= m
                   /\ m = 0 \/ \E a \in S : position[a] = m
IsMinimum(m, S) == /\ \A a \in S : m <= position[a]
                   /\ IF S = {} THEN m = 0 ELSE \E a \in S : position[a] = m

\* A broken Highest: the maximum itself, not one more.
JustMaximum(f) == {m \in 0..MaxPosition : IsMaximum(m, In(f))}

\* Where an asset that comes into the folder is placed.
Highest(f) == {m \in 1..MaxPosition : IsMaximum(m - 1, In(f))}

Place(a, f, p) == Job("place", Single(a, p), position, f, folder[a] # f, "none")

\* POST /assets/update_multiple, for one asset of its list.  An asset that is refused
\* is left as it is, which is no step.
Store(r, a, f) == a \in live /\ \E p \in Highest(f) : Begin(r, Place(a, f, p))

\* The form of an asset is opened, with the position that the asset has now.
OpenForm(r, a) ==
    /\ a \in live /\ folder[a] # NoFolder
    /\ Begin(r, [step |-> "form", asset |-> a, shown |-> position[a]])

\* PUT /assets/:id, with the folder f and the position of the form.  In another
\* folder than the row's, the asset is placed above all others.
Update(r, f) ==
    /\ job[r].step = "form" /\ job[r].asset \in live
    /\ LET a == job[r].asset IN
       \/ /\ f = folder[a]
          /\ Proceed(r, Job("edit", Single(a, job[r].shown), position, f, FALSE, "none"))
       \/ /\ f # folder[a]
          /\ \E p \in Highest(f) : Proceed(r, Place(a, f, p))

-----------------------------------------------------------------------------
(* All the assets of a folder.                                               *)

\* The sort dialog lists the folder.
OpenDialog(r, f) == Begin(r, [step |-> "dialog", into |-> f, listed |-> In(f)])

\* PUT reorder: the dialog numbers its list from n down to 1, and those of its
\* rows that are still there are loaded.
Reorder(r) ==
    /\ job[r].step = "dialog"
    /\ LET listed == job[r].listed IN
       \E rank \in Bijection(listed, 1..Cardinality(listed)) :
           Proceed(r, [step |-> "offset", into |-> job[r].into,
                       rank |-> Restrict(rank, listed \cap live),
                       seen |-> Restrict(position, listed \cap live)])

\* Broken Shifteds: the dialog's numbers are counted downwards; the list is turned over.
CountedDown(rank, m) == [a \in DOMAIN rank |-> m - rank[a]]
TurnedOver(rank, m) == [a \in DOMAIN rank |-> m + Cardinality(DOMAIN rank) + 1 - rank[a]]

Shifted(rank, m) == [a \in DOMAIN rank |-> m + rank[a]]

\* Then the smallest position of those rows is read from the table.
ReadOffset(r) ==
    /\ job[r].step = "offset"
    /\ \E m \in 0..MaxPosition :
         LET goal == Shifted(job[r].rank, m) IN
         /\ IsMinimum(m, DOMAIN goal \cap live)
         /\ \A a \in DOMAIN goal : goal[a] <= MaxPosition
         /\ LET j == [Job("reorder", goal, job[r].seen, job[r].into, FALSE, "custom")
                        EXCEPT !.list = job[r].rank]
            IN \E refused \in SUBSET DOMAIN j.save : Proceed(r, Refuse(j, refused))

\* a comes before b in the order asked for.
Before(o, a, b) ==
    IF o = "newest_first" THEN Key[o][a] > Key[o][b] ELSE Key[o][a] < Key[o][b]

\* A broken Ranked: the list is numbered without being reversed.
RankedFromTop(goal, o) ==
    \A a, b \in DOMAIN goal : Before(o, a, b) => goal[a] < goal[b]

\* The reversed list, numbered from 0: whoever comes first is highest.
Ranked(goal, o) ==
    \A a, b \in DOMAIN goal : Before(o, a, b) => goal[a] > goal[b]

\* PUT sort: the whole folder is loaded in the new order.
Sort(r, f, o) ==
    \E goal \in Injection(In(f), 0..(Cardinality(In(f)) - 1)) :
        Ranked(goal, o) /\ Begin(r, Job("sort", goal, position, f, FALSE, o))

-----------------------------------------------------------------------------
(* The write.                                                                *)

\* An undisturbed request vouches for the positions it computed; one that was
\* disturbed may have used what is no longer so.
LooseAfter(r, j) ==
    IF r \notin intact THEN loose \cup (j.rows \cap live)
    ELSE IF j.kind = "edit" THEN loose ELSE (loose \ j.rows) \cup j.refused

\* The position of a once j has written.
After(j, a) == IF a \in DOMAIN j.save THEN j.save[a] ELSE position[a]

Write(r) ==
    LET j == job[r] IN
    /\ j.step = "write"
    /\ position' = [a \in Asset |-> After(j, a)]
    /\ folder' = [a \in Asset |-> IF j.moves /\ a \in j.rows THEN j.into ELSE folder[a]]
    /\ label' = IF j.kind \in {"reorder", "sort"} THEN [label EXCEPT ![j.into] = j.order]
                                                  ELSE label
    /\ loose' = LooseAfter(r, j)
    /\ job' = [job EXCEPT ![r] = Idle]
    /\ intact' = {}
    /\ UNCHANGED live

\* The page is left, or its asset is gone.
Leave(r) ==
    /\ job[r].step \in {"form", "dialog"}
    /\ job' = [job EXCEPT ![r] = Idle]
    /\ intact' = intact \ {r}
    /\ UNCHANGED <<rows, loose>>

Next ==
    \/ \E a \in Asset :
         \/ \E f \in Folder \cup {NoFolder} : Create(a, f)
         \/ Delete(a) \/ Restore(a)
    \/ \E r \in Request :
         \/ \E a \in Asset, f \in Folder : Store(r, a, f)
         \/ \E a \in Asset : OpenForm(r, a)
         \/ \E f \in Folder : Update(r, f) \/ OpenDialog(r, f) \/ \E o \in Order : Sort(r, f, o)
         \/ Reorder(r) \/ ReadOffset(r) \/ Write(r) \/ Leave(r)

Spec == Init /\ [][Next]_vars

-----------------------------------------------------------------------------
(* Properties.                                                               *)

WellTyped(j) ==
    /\ j.step \in {"idle", "form", "dialog", "offset", "write"}
    /\ j.step = "form" => j.asset \in Asset /\ j.shown \in Nat
    /\ j.step = "dialog" => j.into \in Folder /\ j.listed \subseteq Asset
    /\ j.step = "offset" =>
         /\ j.into \in Folder /\ DOMAIN j.rank \subseteq Asset
         /\ \A a \in DOMAIN j.rank : j.rank[a] \in Nat
    /\ j.step = "write" =>
         /\ j.kind \in {"place", "edit", "reorder", "sort"}
         /\ j.into \in Folder /\ j.moves \in BOOLEAN
         /\ j.order \in Order \cup {"none", "custom"}
         /\ DOMAIN j.save \subseteq j.rows /\ j.rows \subseteq Asset
         /\ j.refused \subseteq j.rows
         /\ \A a \in DOMAIN j.save : j.save[a] \in Nat
         /\ DOMAIN j.list \subseteq Asset /\ \A a \in DOMAIN j.list : j.list[a] \in Nat

\* The table, and what the requests have read of it, are of their types: a
\* position is never negative (column assets.position, integer, default 0).
TypeOK ==
    /\ live \in SUBSET Asset /\ loose \in SUBSET Asset /\ intact \in SUBSET Request
    /\ folder \in [Asset -> Folder \cup {NoFolder}]
    /\ position \in [Asset -> Nat]
    /\ label \in [Folder -> Order \cup {"none", "custom"}]
    /\ DOMAIN job = Request
    /\ \A r \in Request : WellTyped(job[r])

\* Two assets of a folder have different positions, so that the folder has one
\* order, as soon as both were placed by a request that nothing disturbed and that
\* could save them: max + 1, offset + rank and rank never meet a position that stays.
PlacedApart ==
    \A a, b \in live \ loose :
        a # b /\ folder[a] = folder[b] => position[a] # position[b]

\* An asset that is uploaded into a folder, or moved there, becomes the first one of
\* its list, above all that are in it by then, if nothing comes in between.
PlacedOnTop ==
    [][\A r \in intact :
         job[r].step = "write" /\ job'[r] = Idle /\ job[r].kind = "place"
         => \A a \in job[r].rows, b \in live \ job[r].rows :
              folder'[b] = folder'[a] => position'[a] > position'[b]]_vars

\* The list that a user has drawn up in the dialog, undisturbed, is the list of the
\* folder after the request: the offset, the rows that need not be written and the
\* rows that could not be saved leave no two of the others the other way round.
ReorderIsHonoured ==
    [][\A r \in intact :
         job[r].step = "write" /\ job'[r] = Idle /\ job[r].kind = "reorder"
         => LET f == job[r].into  list == job[r].list  refused == job[r].refused IN
            /\ label'[f] = "custom" /\ DOMAIN list = In(f)
            /\ \A a, b \in In(f) \ refused : list[a] > list[b] => position'[a] > position'[b]]_vars

\* A request to sort that nothing disturbs leaves the folder in the order asked
\* for, whichever rows it did not have to write, and names that order.
SortIsHonoured ==
    [][\A r \in intact :
         job[r].step = "write" /\ job'[r] = Idle /\ job[r].kind = "sort"
         => LET f == job[r].into IN
            /\ label'[f] = job[r].order
            /\ \A a, b \in In(f) :
                 Before(job[r].order, a, b) => position'[a] > position'[b]]_vars
=============================================================================
