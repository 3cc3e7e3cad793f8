------------------------- MODULE AssetOrder_proofs -------------------------
(***************************************************************************)
(* Proofs about AssetOrder for any number of assets, folders and requests:  *)
(* types, that assets placed by undisturbed requests never share a          *)
(* position, and that an undisturbed upload, reorder and sort do what they  *)
(* are meant to.                                                            *)
(***************************************************************************)
EXTENDS AssetOrder, FiniteSetTheorems, TLAPS

\* What an undisturbed request is about to do: place one asset above all others of
\* the folder; leave one where it is; number a whole folder, as it was listed, but for
\* the rows that cannot be saved.
Effect(j) ==
    /\ j.kind = "place" => \E a \in live :
         /\ j.rows = {a} /\ (~j.moves => folder[a] = j.into)
         /\ \A b \in In(j.into) : b # a => position[b] < After(j, a)
    /\ j.kind = "edit" => DOMAIN j.save = {} /\ j.moves = FALSE
    /\ j.kind \in {"reorder", "sort"} =>
         /\ j.rows = In(j.into) /\ j.moves = FALSE
         /\ \A a, b \in j.rows \ j.refused : a # b => After(j, a) # After(j, b)
    /\ j.kind = "reorder" =>
         /\ j.order = "custom" /\ DOMAIN j.list = j.rows
         /\ \A a, b \in j.rows \ j.refused :
              j.list[a] > j.list[b] => After(j, a) > After(j, b)
    /\ j.kind = "sort" =>
         \A a, b \in j.rows : Before(j.order, a, b) => After(j, a) > After(j, b)

\* What an undisturbed page or request has read is still so.
Undisturbed(j) ==
    /\ j.step = "form" => position[j.asset] = j.shown
    /\ j.step = "dialog" => j.listed = In(j.into)
    /\ j.step = "offset" =>
         /\ DOMAIN j.rank = In(j.into)
         /\ \A a \in In(j.into) : j.seen[a] = position[a]
         /\ \A a, b \in In(j.into) : a # b => j.rank[a] # j.rank[b]
    /\ j.step = "write" => Effect(j)

Inv == TypeOK /\ PlacedApart /\ \A r \in intact : Undisturbed(job[r])

LEMMA BeginStep ==
    ASSUME Inv, NEW r \in Request, NEW j, Begin(r, j), WellTyped(j), Undisturbed(j)
    PROVE  Inv'
<1> USE DEF Inv, TypeOK, Begin, rows
<1>1. job'[r] = j /\ \A q \in Request : q # r => job'[q] = job[q]
  OBVIOUS
<1>2. TypeOK'
  BY <1>1 DEF WellTyped
<1>3. PlacedApart'
  BY DEF PlacedApart
<1>4. \A k : Undisturbed(k) => Undisturbed(k)'
  BY DEF Undisturbed, Effect, In, After
<1>5. \A q \in intact' : Undisturbed(job[q])' 
  BY <1>1, <1>4
<1>6. QED
  BY <1>2, <1>3, <1>5

LEMMA ProceedStep ==
    ASSUME Inv, NEW r \in Request, NEW j, Proceed(r, j), WellTyped(j),
           r \in intact => Undisturbed(j)
    PROVE  Inv'
<1> USE DEF Inv, TypeOK, Proceed, rows
<1>1. job'[r] = j /\ \A q \in Request : q # r => job'[q] = job[q]
  OBVIOUS
<1>2. TypeOK'
  BY <1>1 DEF WellTyped
<1>3. PlacedApart'
  BY DEF PlacedApart
<1>4. \A k : Undisturbed(k) => Undisturbed(k)'
  BY DEF Undisturbed, Effect, In, After
<1>5. \A q \in intact' : Undisturbed(job[q])'
  BY <1>1, <1>4
<1>6. QED
  BY <1>2, <1>3, <1>5

\* One more than the maximum of a folder is no position of it.
LEMMA PlaceIsApart ==
    ASSUME TypeOK, NEW a \in live, NEW f \in Folder, NEW p \in Highest(f)
    PROVE  WellTyped(Place(a, f, p)) /\ Undisturbed(Place(a, f, p))
<1> DEFINE j == Place(a, f, p)
<1>1. p \in Nat /\ \A b \in In(f) : position[b] < p
  BY MaxPositionAssumption DEF Highest, IsMaximum, In, TypeOK
<1>2. j.step = "write" /\ j.kind = "place" /\ j.rows = {a} /\ j.into = f
      /\ j.moves = (folder[a] # f) /\ j.order = "none" /\ DOMAIN j.list = {}
      /\ j.refused = {}
  BY DEF Place, Job, Single, NoList
<1>3. DOMAIN j.save \subseteq {a} /\ \A b \in DOMAIN j.save : j.save[b] = p
  BY DEF Place, Job, Single, Restrict
<1>4. WellTyped(j)
  BY <1>1, <1>2, <1>3 DEF WellTyped, TypeOK
<1>5. After(j, a) = p
  BY DEF After, Place, Job, Single, Restrict
<1>6. \A b \in In(f) : position[b] < After(j, a)
  BY <1>1, <1>5 DEF In, TypeOK
<1>7. Effect(j)
  <2> HIDE DEF j
  <2>1. ~j.moves => folder[a] = j.into
    BY <1>2
  <2>2. QED
    BY <1>2, <1>6, <2>1 DEF Effect
<1>8. QED
  BY <1>2, <1>4, <1>7 DEF Undisturbed

LEMMA EditStep ==
    ASSUME Inv, NEW r \in Request, NEW f \in Folder, Update(r, f)
    PROVE  Inv'
<1> DEFINE a == job[r].asset
           j == Job("edit", Single(a, job[r].shown), position, f, FALSE, "none")
<1>1. job[r].step = "form" /\ a \in live /\ a \in Asset /\ job[r].shown \in Nat
  BY DEF Update, Inv, TypeOK, WellTyped
<1>2. CASE Proceed(r, j)
  <2>1. j.step = "write" /\ j.kind = "edit" /\ j.rows = {a} /\ j.into = f
        /\ j.moves = FALSE /\ j.order = "none" /\ DOMAIN j.list = {}
        /\ j.refused = {}
    BY DEF Job, Single, NoList
  <2>2. DOMAIN j.save \subseteq {a} /\ \A b \in DOMAIN j.save : j.save[b] = job[r].shown
    BY DEF Job, Single, Restrict
  <2>3. WellTyped(j)
    BY <1>1, <2>1, <2>2 DEF WellTyped
  <2>4. ASSUME r \in intact PROVE Undisturbed(j)
    <3>1. position[a] = job[r].shown
      BY <1>1, <2>4 DEF Inv, Undisturbed
    <3>2. DOMAIN j.save = {}
      BY <3>1 DEF Job, Single, Restrict
    <3>3. QED
      BY <2>1, <3>2 DEF Undisturbed, Effect
  <2>5. QED
    BY <1>2, <2>3, <2>4, ProceedStep
<1>3. CASE \E p \in Highest(f) : Proceed(r, Place(a, f, p))
  BY <1>1, <1>3, PlaceIsApart, ProceedStep DEF Inv
<1>4. QED
  BY <1>2, <1>3 DEF Update

LEMMA ReorderStep ==
    ASSUME Inv, NEW r \in Request, Reorder(r)
    PROVE  Inv'
<1> DEFINE listed == job[r].listed
           found == listed \cap live
           j(rank) == [step |-> "offset", into |-> job[r].into,
                       rank |-> Restrict(rank, found), seen |-> Restrict(position, found)]
<1>1. job[r].step = "dialog" /\ listed \subseteq Asset /\ job[r].into \in Folder
  BY DEF Reorder, Inv, TypeOK, WellTyped
<1>2. Cardinality(listed) \in Nat
  BY <1>1, AssetAssumption, FS_Subset, FS_CardinalityType
<1>3. PICK rank \in Bijection(listed, 1..Cardinality(listed)) : Proceed(r, j(rank))
  BY DEF Reorder
<1>4. /\ DOMAIN rank = listed
      /\ \A a \in listed : rank[a] \in Nat
      /\ \A a, b \in listed : a # b => rank[a] # rank[b]
  BY <1>2 DEF Bijection, Injection, Surjection, IsInjective
<1>5. /\ j(rank).step = "offset" /\ j(rank).into = job[r].into
      /\ DOMAIN j(rank).rank = found
      /\ \A a \in found : j(rank).rank[a] = rank[a] /\ j(rank).seen[a] = position[a]
  BY DEF Restrict
<1>6. WellTyped(j(rank))
  BY <1>1, <1>4, <1>5 DEF WellTyped
<1>7. ASSUME r \in intact PROVE Undisturbed(j(rank))
  <2>1. found = In(job[r].into)
    BY <1>1, <1>7 DEF Inv, Undisturbed, In
  <2>2. \A a, b \in found : a # b => j(rank).rank[a] # j(rank).rank[b]
    BY <1>4, <1>5
  <2> HIDE DEF j, found
  <2>3. QED
    BY <1>5, <2>1, <2>2 DEF Undisturbed
<1>8. QED
  BY <1>3, <1>6, <1>7, ProceedStep

LEMMA OffsetStep ==
    ASSUME Inv, NEW r \in Request, ReadOffset(r)
    PROVE  Inv'
<1> DEFINE rank == job[r].rank
           found == DOMAIN rank
           j(m) == [Job("reorder", Shifted(rank, m), job[r].seen, job[r].into, FALSE, "custom")
                       EXCEPT !.list = rank]
<1>1. /\ job[r].step = "offset" /\ job[r].into \in Folder /\ found \subseteq Asset
      /\ \A a \in found : rank[a] \in Nat
  BY DEF ReadOffset, Inv, TypeOK, WellTyped
<1>2. PICK m \in 0..MaxPosition : \E refused \in SUBSET DOMAIN j(m).save :
          Proceed(r, Refuse(j(m), refused))
  BY DEF ReadOffset
<1>3. PICK refused \in SUBSET DOMAIN j(m).save : Proceed(r, Refuse(j(m), refused))
  BY <1>2
<1> DEFINE k == Refuse(j(m), refused)
<1>4. /\ DOMAIN Shifted(rank, m) = found
      /\ \A a \in found : Shifted(rank, m)[a] = m + rank[a]
  BY DEF Shifted
<1>5. /\ DOMAIN j(m).save = {a \in found : m + rank[a] # job[r].seen[a]}
      /\ \A a \in DOMAIN j(m).save : j(m).save[a] = m + rank[a]
  BY <1>4 DEF Job, Restrict
<1>6. /\ k.step = "write" /\ k.kind = "reorder" /\ k.rows = found
      /\ k.into = job[r].into /\ k.moves = FALSE /\ k.order = "custom"
      /\ k.list = rank /\ k.refused = refused
      /\ DOMAIN k.save = DOMAIN j(m).save \ refused
      /\ \A a \in DOMAIN k.save : k.save[a] = m + rank[a]
  BY <1>4, <1>5 DEF Job, Refuse, Restrict
<1>7. refused \subseteq found
  BY <1>5
<1> HIDE DEF j, k
<1>8. WellTyped(k)
  <2>1. \A a \in DOMAIN k.save : k.save[a] \in Nat
    <3>1. \A a \in DOMAIN k.save : rank[a] \in Nat /\ k.save[a] = m + rank[a]
      BY <1>1, <1>5, <1>6
    <3> HIDE DEF rank
    <3>2. QED
      BY <3>1, MaxPositionAssumption
  <2>2. QED
    BY <1>1, <1>5, <1>6, <1>7, <2>1 DEF WellTyped
<1>9. ASSUME r \in intact PROVE Undisturbed(k)
  <2>1. /\ found = In(job[r].into)
        /\ \A a \in found : job[r].seen[a] = position[a]
        /\ \A a, b \in found : a # b => rank[a] # rank[b]
    BY <1>1, <1>9 DEF Inv, Undisturbed
  <2>2. \A a \in found \ refused : After(k, a) = m + rank[a]
    <3>1. \A a \in found \ DOMAIN j(m).save : m + rank[a] = position[a]
      BY <1>5, <2>1
    <3>2. QED
      BY <1>6, <3>1 DEF After
  <2>3. \A a, b \in found : /\ a # b => m + rank[a] # m + rank[b]
                            /\ rank[a] > rank[b] => m + rank[a] > m + rank[b]
    BY <1>1, <2>1, MaxPositionAssumption
  <2> HIDE DEF rank, found
  <2>4. QED
    BY <1>6, <1>7, <2>1, <2>2, <2>3 DEF Undisturbed, Effect, found, rank
<1>10. QED
  BY <1>3, <1>8, <1>9, ProceedStep DEF k

LEMMA SortStep ==
    ASSUME Inv, NEW r \in Request, NEW f \in Folder, NEW o \in Order, Sort(r, f, o)
    PROVE  Inv'
<1> DEFINE j(goal) == Job("sort", goal, position, f, FALSE, o)
<1>1. In(f) \subseteq Asset /\ Cardinality(In(f)) \in Nat
  BY AssetAssumption, FS_Subset, FS_CardinalityType DEF In, Inv, TypeOK
<1>2. PICK goal \in Injection(In(f), 0..(Cardinality(In(f)) - 1)) :
           Ranked(goal, o) /\ Begin(r, j(goal))
  BY DEF Sort
<1>3. /\ DOMAIN goal = In(f)
      /\ \A a \in In(f) : goal[a] \in Nat
      /\ \A a, b \in In(f) : a # b => goal[a] # goal[b]
  BY <1>1 DEF Injection, IsInjective
<1>4. /\ j(goal).step = "write" /\ j(goal).kind = "sort" /\ j(goal).rows = In(f)
      /\ j(goal).into = f /\ j(goal).moves = FALSE /\ j(goal).order = o
      /\ DOMAIN j(goal).list = {} /\ j(goal).refused = {}
      /\ DOMAIN j(goal).save \subseteq In(f)
      /\ \A a \in DOMAIN j(goal).save : j(goal).save[a] = goal[a]
  BY <1>3 DEF Job, Restrict, NoList
<1>5. WellTyped(j(goal))
  BY <1>1, <1>3, <1>4 DEF WellTyped
<1>6. \A a \in In(f) : After(j(goal), a) = goal[a]
  <2>1. \A a \in In(f) \ DOMAIN j(goal).save : goal[a] = position[a]
    BY <1>3 DEF Job, Restrict
  <2>2. QED
    BY <1>4, <2>1 DEF After
<1> HIDE DEF j
<1>7. Undisturbed(j(goal))
  BY <1>2, <1>3, <1>4, <1>6 DEF Undisturbed, Effect, Ranked
<1>8. QED
  BY <1>2, <1>5, <1>7, BeginStep DEF j

LEMMA WriteStep ==
    ASSUME Inv, NEW r \in Request, Write(r)
    PROVE  Inv'
<1> DEFINE j == job[r]
<1> USE DEF Inv
<1>1. /\ j.step = "write" /\ j.into \in Folder /\ j.order \in Order \cup {"none", "custom"}
      /\ DOMAIN j.save \subseteq j.rows /\ j.rows \subseteq Asset
      /\ j.refused \subseteq j.rows
      /\ \A a \in DOMAIN j.save : j.save[a] \in Nat
      /\ j.kind \in {"place", "edit", "reorder", "sort"}
  BY DEF Write, TypeOK, WellTyped
<1>2. /\ position' = [a \in Asset |-> After(j, a)]
      /\ folder' = [a \in Asset |-> IF j.moves /\ a \in j.rows THEN j.into ELSE folder[a]]
      /\ loose' = LooseAfter(r, j) /\ intact' = {} /\ live' = live
      /\ job' = [job EXCEPT ![r] = Idle]
  BY DEF Write
<1>3. \A a \in Asset : /\ After(j, a) \in Nat
                       /\ a \notin j.rows => After(j, a) = position[a]
  BY <1>1 DEF After, TypeOK
<1>4. TypeOK'
  <2>1. position' \in [Asset -> Nat]
    BY <1>2, <1>3
  <2>2. folder' \in [Asset -> Folder \cup {NoFolder}]
    BY <1>1, <1>2 DEF TypeOK
  <2>3. label' \in [Folder -> Order \cup {"none", "custom"}]
    BY <1>1 DEF Write, TypeOK
  <2>4. loose' \in SUBSET Asset
    BY <1>1, <1>2 DEF LooseAfter, TypeOK
  <2>5. \A q \in Request : WellTyped(job'[q])
    BY <1>2 DEF TypeOK, Idle, WellTyped
  <2>6. \A q \in Request : WellTyped(job[q])'
    BY <2>5 DEF WellTyped
  <2>7. DOMAIN job' = Request
    BY <1>2 DEF TypeOK
  <2>8. QED
    BY <1>2, <2>1, <2>2, <2>3, <2>4, <2>6, <2>7 DEF TypeOK
<1>5. PlacedApart'
  <2> SUFFICES ASSUME NEW a \in live, NEW b \in live, a \notin loose', b \notin loose',
                      a # b, folder'[a] = folder'[b]
               PROVE  position'[a] # position'[b]
    BY <1>2 DEF PlacedApart
  <2> a \in Asset /\ b \in Asset
    BY DEF TypeOK
  <2>1. CASE r \notin intact
    <3>1. a \notin loose /\ b \notin loose /\ a \notin j.rows /\ b \notin j.rows
      BY <1>2, <2>1 DEF LooseAfter
    <3>2. QED
      BY <1>2, <1>3, <3>1 DEF PlacedApart
  <2>2. CASE r \in intact /\ j.kind = "edit"
    <3>1. Effect(j)
      BY <1>1, <2>2 DEF Undisturbed
    <3>2. a \notin loose /\ b \notin loose
      BY <1>2, <2>2 DEF LooseAfter
    <3>3. position'[a] = position[a] /\ position'[b] = position[b]
      BY <1>2, <2>2, <3>1 DEF Effect, After
    <3>4. folder'[a] = folder[a] /\ folder'[b] = folder[b]
      BY <1>2, <2>2, <3>1 DEF Effect
    <3>5. QED
      BY <3>2, <3>3, <3>4 DEF PlacedApart
  <2>3. CASE r \in intact /\ j.kind = "place"
    <3>1. PICK x \in live : /\ j.rows = {x} /\ (~j.moves => folder[x] = j.into)
                            /\ \A c \in In(j.into) : c # x => position[c] < After(j, x)
      BY <1>1, <2>3 DEF Undisturbed, Effect
    <3>2. /\ a # x => a \notin loose
          /\ b # x => b \notin loose
      BY <1>2, <2>3, <3>1 DEF LooseAfter
    <3>3. x \in Asset /\ folder'[x] = j.into
      BY <1>2, <3>1 DEF TypeOK
    <3>4. \A c \in Asset : c # x => folder'[c] = folder[c] /\ position'[c] = position[c]
      BY <1>2, <1>3, <3>1
    <3>5. position'[x] = After(j, x)
      BY <1>2, <3>3
    <3>6. position[a] \in Nat /\ position[b] \in Nat /\ After(j, x) \in Nat
      BY <1>3, <3>3 DEF TypeOK
    <3>7. CASE a = x
      BY <3>1, <3>3, <3>4, <3>5, <3>6, <3>7 DEF In
    <3>8. CASE b = x
      BY <3>1, <3>3, <3>4, <3>5, <3>6, <3>8 DEF In
    <3>9. CASE a # x /\ b # x
      BY <3>2, <3>4, <3>9 DEF PlacedApart
    <3>10. QED
      BY <3>7, <3>8, <3>9
  <2>4. CASE r \in intact /\ j.kind \in {"reorder", "sort"}
    <3>1. /\ j.rows = In(j.into) /\ j.moves = FALSE
          /\ \A c, d \in j.rows \ j.refused : c # d => After(j, c) # After(j, d)
          /\ a \notin j.refused /\ b \notin j.refused
      BY <1>1, <1>2, <2>4 DEF Undisturbed, Effect, LooseAfter
    <3>2. folder'[a] = folder[a] /\ folder'[b] = folder[b]
      BY <1>2, <3>1
    <3>3. CASE folder[a] = j.into
      BY <1>2, <3>1, <3>2, <3>3 DEF In
    <3>4. CASE folder[a] # j.into
      <4>1. a \notin j.rows /\ b \notin j.rows
        BY <3>1, <3>2, <3>4 DEF In
      <4>2. a \notin loose /\ b \notin loose
        BY <1>2, <2>4, <4>1 DEF LooseAfter
      <4>3. QED
        BY <1>2, <1>3, <3>2, <4>1, <4>2 DEF PlacedApart
    <3>5. QED
      BY <3>3, <3>4
  <2>5. QED
    BY <1>1, <2>1, <2>2, <2>3, <2>4
<1>6. QED
  BY <1>2, <1>4, <1>5

LEMMA InvStep == Inv /\ [Next]_vars => Inv'
<1> SUFFICES ASSUME Inv, [Next]_vars PROVE Inv'
  OBVIOUS
<1>1. ASSUME NEW a \in Asset, NEW f \in Folder \cup {NoFolder}, Create(a, f) PROVE Inv'
  <2>1. TypeOK'
    BY <1>1 DEF Inv, TypeOK, Create, WellTyped
  <2>2. PlacedApart'
    BY <1>1 DEF Inv, TypeOK, PlacedApart, Create
  <2>3. QED
    BY <1>1, <2>1, <2>2 DEF Inv, Create
<1>2. ASSUME NEW a \in Asset, Delete(a) \/ Restore(a) PROVE Inv'
  <2>1. TypeOK'
    BY <1>2 DEF Inv, TypeOK, Delete, Restore, WellTyped
  <2>2. PlacedApart'
    BY <1>2 DEF Inv, TypeOK, PlacedApart, Delete, Restore
  <2>3. QED
    BY <1>2, <2>1, <2>2 DEF Inv, Delete, Restore
<1>3. ASSUME NEW r \in Request, NEW a \in Asset, NEW f \in Folder, Store(r, a, f) PROVE Inv'
  <2>1. PICK p \in Highest(f) : a \in live /\ Begin(r, Place(a, f, p))
    BY <1>3 DEF Store
  <2>2. QED
    BY <2>1, PlaceIsApart, BeginStep DEF Inv
<1>4. ASSUME NEW r \in Request, NEW a \in Asset, OpenForm(r, a) PROVE Inv'
  <2> DEFINE j == [step |-> "form", asset |-> a, shown |-> position[a]]
  <2>1. WellTyped(j) /\ Undisturbed(j)
    BY <1>4 DEF WellTyped, Undisturbed, Inv, TypeOK
  <2>2. QED
    BY <1>4, <2>1, BeginStep DEF OpenForm
<1>5. ASSUME NEW r \in Request, NEW f \in Folder, OpenDialog(r, f) PROVE Inv'
  <2> DEFINE j == [step |-> "dialog", into |-> f, listed |-> In(f)]
  <2>1. WellTyped(j) /\ Undisturbed(j)
    BY DEF WellTyped, Undisturbed, Inv, TypeOK, In
  <2>2. QED
    BY <1>5, <2>1, BeginStep DEF OpenDialog
<1>6. ASSUME NEW r \in Request, Leave(r) PROVE Inv'
  <2>1. TypeOK'
    BY <1>6 DEF Inv, TypeOK, Leave, Idle, WellTyped, rows
  <2>2. PlacedApart'
    BY <1>6 DEF Inv, PlacedApart, Leave, rows
  <2>3. \A q \in intact' : q \in Request /\ q \in intact /\ job'[q] = job[q]
    BY <1>6 DEF Inv, TypeOK, Leave
  <2>4. \A k : Undisturbed(k) => Undisturbed(k)'
    BY <1>6 DEF Undisturbed, Effect, In, After, Leave, rows
  <2>5. QED
    BY <2>1, <2>2, <2>3, <2>4 DEF Inv
<1>7. CASE UNCHANGED vars
  BY <1>7 DEF vars, rows, Inv, TypeOK, WellTyped, PlacedApart, Undisturbed, Effect, In, After
<1>8. QED
  BY <1>1, <1>2, <1>3, <1>4, <1>5, <1>6, <1>7, EditStep, ReorderStep, OffsetStep, SortStep,
     WriteStep DEF Next

LEMMA InvCorrect == Spec => []Inv
<1>1. Init => Inv
  BY DEF Init, Inv, TypeOK, WellTyped, Idle, PlacedApart, Undisturbed
<1>2. QED
  BY <1>1, InvStep, PTL DEF Spec

\* The types of the table and of what every request carries.
THEOREM TypeCorrect == Spec => []TypeOK
BY InvCorrect, PTL DEF Inv

\* For any number of assets, folders and requests at a time, two assets of a
\* folder that undisturbed requests have placed have different positions.
THEOREM PlacedApartCorrect == Spec => []PlacedApart
BY InvCorrect, PTL DEF Inv

-----------------------------------------------------------------------------
(* What undisturbed requests achieve.                                        *)

\* A request that is about to write ends with its write.
LEMMA OnlyWriteEnds ==
    ASSUME Inv, Next, NEW r \in Request, job[r].step = "write", job'[r] = Idle
    PROVE  Write(r)
<1>1. job'[r] # job[r] /\ job'[r].step = "idle" /\ DOMAIN job = Request
  BY DEF Idle, Inv, TypeOK
<1>2. ASSUME NEW q \in Request, NEW k, Begin(q, k) PROVE FALSE
  BY <1>1, <1>2 DEF Begin, Idle
<1>3. ASSUME NEW q \in Request, NEW k, Proceed(q, k), job[q].step # "write" PROVE FALSE
  BY <1>1, <1>3 DEF Proceed
<1>4. ASSUME NEW a \in Asset, NEW f \in Folder \cup {NoFolder},
             Create(a, f) \/ Delete(a) \/ Restore(a) PROVE FALSE
  BY <1>1, <1>4 DEF Create, Delete, Restore
<1>5. ASSUME NEW q \in Request, NEW a \in Asset, NEW f \in Folder, Store(q, a, f)
      PROVE  FALSE
  BY <1>2, <1>5 DEF Store
<1>6. ASSUME NEW q \in Request, NEW a \in Asset, OpenForm(q, a) PROVE FALSE
  BY <1>2, <1>6 DEF OpenForm
<1>7. ASSUME NEW q \in Request, NEW f \in Folder, Update(q, f) PROVE FALSE
  BY <1>3, <1>7 DEF Update
<1>8. ASSUME NEW q \in Request, NEW f \in Folder, OpenDialog(q, f) PROVE FALSE
  BY <1>2, <1>8 DEF OpenDialog
<1>9. ASSUME NEW q \in Request, NEW f \in Folder, NEW o \in Order, Sort(q, f, o)
      PROVE  FALSE
  BY <1>2, <1>9 DEF Sort
<1>10. ASSUME NEW q \in Request, Reorder(q) \/ ReadOffset(q) PROVE FALSE
  BY <1>3, <1>10 DEF Reorder, ReadOffset
<1>11. ASSUME NEW q \in Request, Leave(q) PROVE FALSE
  BY <1>1, <1>11 DEF Leave
<1>12. ASSUME NEW q \in Request, Write(q), q # r PROVE FALSE
  BY <1>1, <1>12 DEF Write
<1>13. QED
  BY <1>4, <1>5, <1>6, <1>7, <1>8, <1>9, <1>10, <1>11, <1>12 DEF Next

\* The end of an undisturbed request: every row of its list, written or not, has
\* the position that the request has computed for it.
LEMMA UndisturbedEnd ==
    ASSUME Inv, [Next]_vars, NEW r \in intact, job[r].step = "write", job'[r] = Idle
    PROVE  /\ Write(r) /\ Effect(job[r]) /\ job[r].into \in Folder
           /\ \A a \in Asset : position'[a] = After(job[r], a)
           /\ job[r].kind \in {"reorder", "sort"} => label'[job[r].into] = job[r].order
<1>1. r \in Request /\ job'[r] # job[r]
  BY DEF Inv, TypeOK, Idle
<1>2. Write(r)
  BY <1>1, OnlyWriteEnds DEF vars
<1>3. Effect(job[r])
  BY DEF Inv, Undisturbed
<1>4. job[r].into \in Folder /\ label \in [Folder -> Order \cup {"none", "custom"}]
  BY <1>1 DEF Inv, TypeOK, WellTyped
<1>5. QED
  BY <1>2, <1>3, <1>4 DEF Write

\* For any number of assets and requests, an asset that an undisturbed request puts
\* into a folder comes first in its list.
THEOREM PlacedOnTopCorrect == Spec => PlacedOnTop
<1> DEFINE A == \A r \in intact :
         job[r].step = "write" /\ job'[r] = Idle /\ job[r].kind = "place"
         => \A a \in job[r].rows, b \in live \ job[r].rows :
              folder'[b] = folder'[a] => position'[a] > position'[b]
<1>1. ASSUME Inv, [Next]_vars PROVE A
  <2> SUFFICES ASSUME NEW r \in intact, job[r].step = "write", job'[r] = Idle,
                      job[r].kind = "place",
                      NEW a \in job[r].rows, NEW b \in live \ job[r].rows,
                      folder'[b] = folder'[a]
               PROVE  position'[a] > position'[b]
    OBVIOUS
  <2> DEFINE j == job[r]
  <2>1. Write(r) /\ Effect(j) /\ \A c \in Asset : position'[c] = After(j, c)
    BY <1>1, UndisturbedEnd
  <2>2. PICK x \in live : /\ j.rows = {x} /\ (~j.moves => folder[x] = j.into)
                          /\ \A c \in In(j.into) : c # x => position[c] < After(j, x)
    BY <2>1 DEF Effect
  <2>3. a = x /\ b # x /\ a \in Asset /\ b \in Asset
    BY <1>1, <2>2 DEF Inv, TypeOK
  <2>4. DOMAIN j.save \subseteq j.rows /\ \A c \in DOMAIN j.save : j.save[c] \in Nat
    BY <1>1 DEF Inv, TypeOK, WellTyped
  <2>5. position[b] \in Nat /\ position[a] \in Nat /\ After(j, b) = position[b]
    BY <1>1, <2>2, <2>3, <2>4 DEF After, Inv, TypeOK
  <2>6. After(j, a) \in Nat
    BY <2>4, <2>5 DEF After
  <2>7. folder'[a] = j.into /\ folder'[b] = folder[b]
    BY <2>1, <2>2, <2>3 DEF Write
  <2>8. position[b] < After(j, a)
    BY <2>2, <2>3, <2>7 DEF In
  <2>9. QED
    BY <2>1, <2>3, <2>5, <2>6, <2>8
<1>2. QED
  BY <1>1, InvCorrect, PTL DEF Spec, PlacedOnTop

\* For any number of assets and requests, the folder is listed after an undisturbed
\* reorder as the dialog had it, whichever rows could not be saved: these apart.
THEOREM ReorderCorrect == Spec => ReorderIsHonoured
<1> DEFINE A == \A r \in intact :
         job[r].step = "write" /\ job'[r] = Idle /\ job[r].kind = "reorder"
         => LET f == job[r].into  list == job[r].list  refused == job[r].refused IN
            /\ label'[f] = "custom" /\ DOMAIN list = In(f)
            /\ \A a, b \in In(f) \ refused : list[a] > list[b] => position'[a] > position'[b]
<1>1. ASSUME Inv, [Next]_vars PROVE A
  <2> SUFFICES ASSUME NEW r \in intact, job[r].step = "write", job'[r] = Idle,
                      job[r].kind = "reorder"
               PROVE  LET f == job[r].into  list == job[r].list  refused == job[r].refused IN
                      /\ label'[f] = "custom" /\ DOMAIN list = In(f)
                      /\ \A a, b \in In(f) \ refused :
                           list[a] > list[b] => position'[a] > position'[b]
    OBVIOUS
  <2>1. /\ Effect(job[r]) /\ label'[job[r].into] = job[r].order
        /\ \A a \in Asset : position'[a] = After(job[r], a)
    BY <1>1, UndisturbedEnd
  <2>2. In(job[r].into) \subseteq Asset
    BY <1>1 DEF In, Inv, TypeOK
  <2>3. QED
    BY <2>1, <2>2 DEF Effect
<1>2. QED
  BY <1>1, InvCorrect, PTL DEF Spec, ReorderIsHonoured

\* An undisturbed sort leaves the whole folder in the order asked for.
THEOREM SortCorrect == Spec => SortIsHonoured
<1> DEFINE A == \A r \in intact :
         job[r].step = "write" /\ job'[r] = Idle /\ job[r].kind = "sort"
         => LET f == job[r].into IN
            /\ label'[f] = job[r].order
            /\ \A a, b \in In(f) :
                 Before(job[r].order, a, b) => position'[a] > position'[b]
<1>1. ASSUME Inv, [Next]_vars PROVE A
  <2> SUFFICES ASSUME NEW r \in intact, job[r].step = "write", job'[r] = Idle,
                      job[r].kind = "sort"
               PROVE  LET f == job[r].into IN
                      /\ label'[f] = job[r].order
                      /\ \A a, b \in In(f) :
                           Before(job[r].order, a, b) => position'[a] > position'[b]
    OBVIOUS
  <2>1. /\ Effect(job[r]) /\ label'[job[r].into] = job[r].order
        /\ \A a \in Asset : position'[a] = After(job[r], a)
    BY <1>1, UndisturbedEnd
  <2>2. In(job[r].into) \subseteq Asset
    BY <1>1 DEF In, Inv, TypeOK
  <2>3. QED
    BY <2>1, <2>2 DEF Effect
<1>2. QED
  BY <1>1, InvCorrect, PTL DEF Spec, SortIsHonoured
=============================================================================
