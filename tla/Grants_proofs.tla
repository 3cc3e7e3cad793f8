---------------------------- MODULE Grants_proofs ----------------------------
(***************************************************************************)
(* Proofs about Grants for any number of accounts, users, items and         *)
(* requests.                                                                *)
(***************************************************************************)
EXTENDS Grants, TLAPS

\* Nobody holds, and no request carries, an item that was never created; what
\* a request carries belongs to the halves that it has reached.
OnlyCreated ==
    /\ \A u \in User, i \in Item : <<u, i>> \in granted => i \in exist \cup deleted
    /\ \A r \in Request : job[r] # Idle =>
         LET j == job[r] IN
         /\ j.asked \cup j.keep \cup j.out \cup j.into \subseteq exist \cup deleted
         /\ \A i \in j.keep : i.half = j.half
         /\ j.step # "compare" => j.keep = {}
         /\ \A i \in j.out \cup j.into : i.half = "role" \/ j.half = "permission"
         /\ j.kind = "remove" => j.asked = {}
         /\ j.kind = "update" /\ j.step # "write" => j.out = {} /\ j.into = {}
         /\ j.kind = "update" => \A i \in j.out \cup j.into : i.half = j.half
         /\ j.step # "write" => \A i \in j.out \cup j.into : j.half = "permission" /\ i.half = "role"

\* Nobody is to get what was never created, nor what is of an account without
\* belonging to it.
OnlyOffered ==
    /\ \A s \in unshared : Of(s) \subseteq exist \cup deleted
    /\ \A u \in User, i \in Item : <<u, i>> \in offered =>
         i \in exist \cup deleted /\ <<i.account, u>> \in member \cup overlapped

\* What the user is to have of an item, and what the request would leave.
Target(j, i) == IF i.account = j.account THEN i \in j.asked ELSE <<j.user, i>> \in granted
Result(j, i) == i \in j.into \/ (<<j.user, i>> \in granted /\ i \notin j.out)

\* What an undisturbed request knows.
Undisturbed(j) ==
    /\ <<j.account, j.user>> \in member
    /\ j.step = "compare" => \A i \in exist : i.half = j.half => (i \in j.keep <=> Target(j, i))
    /\ \A i \in exist :
         \/ j.step = "write" /\ i.half = j.half
         \/ i.half = "role" /\ j.half = "permission"
         => (Result(j, i) <=> Target(j, i))

Inv ==
    /\ TypeOK /\ OnlyCreated /\ OnlyOffered /\ NoGrantsOutside
    /\ \A r \in intact : Undisturbed(job[r])

LEMMA InitInv == Init => Inv
BY DEF Init, Inv, TypeOK, OnlyCreated, OnlyOffered, NoGrantsOutside, WellTyped, Idle, Held

LEMMA CreateUserStep ==
    ASSUME Inv, NEW a \in Account, NEW u \in User, NEW asked \in SUBSET {i \in exist : i.account = a},
           CreateUser(a, u, asked)
    PROVE  Inv'
<1> USE DEF Inv, CreateUser, Pairs, sharing
<1>1. TypeOK'
  BY DEF TypeOK, WellTyped
<1>2. OnlyCreated' /\ OnlyOffered'
  BY DEF OnlyCreated, OnlyOffered, TypeOK
<1>3. NoGrantsOutside'
  BY DEF NoGrantsOutside, Held, TypeOK
<1>4. ASSUME NEW r \in intact PROVE Undisturbed(job[r])'
  <2>1. job[r].user # u /\ job[r] # Idle
    BY DEF TypeOK, WellTyped
  <2>2. \A i \in exist : <<job[r].user, i>> \in granted' <=> <<job[r].user, i>> \in granted
    BY <2>1
  <2>3. Undisturbed(job[r])
    OBVIOUS
  <2>4. QED
    BY <2>1, <2>2, <2>3 DEF Undisturbed, Target, Result
<1>5. QED
  BY <1>1, <1>2, <1>3, <1>4

LEMMA AddExistingStep ==
    ASSUME Inv, NEW a \in Account, NEW u \in User, AddExisting(a, u)
    PROVE  Inv'
<1> USE DEF Inv, AddExisting, sharing
<1>1. TypeOK'
  BY DEF TypeOK, WellTyped
<1>2. OnlyCreated' /\ OnlyOffered' /\ NoGrantsOutside'
  BY DEF OnlyCreated, OnlyOffered, NoGrantsOutside, Held
<1>3. \A r \in intact : Undisturbed(job[r])'
  BY DEF Undisturbed, Target, Result
<1>4. QED
  BY <1>1, <1>2, <1>3

LEMMA CreateSectionStep ==
    ASSUME Inv, NEW s \in Section, NEW creators \in SUBSET User, CreateSection(s, creators)
    PROVE  Inv'
<1>1. /\ Of(s) \subseteq Item /\ Of(s) \cap (exist \cup deleted) = {}
      /\ exist' = exist \cup Of(s) /\ unshared' = unshared \cup {s}
      /\ offered' = offered \cup (creators \X Of(s))
      /\ UNCHANGED <<deleted, known, member, primary, granted, job, intact, overlapped>>
      /\ \A i \in Of(s), u \in creators : <<i.account, u>> \in member
  BY DEF CreateSection, Of
<1>2. TypeOK'
  <2>1. \A u \in creators : u \in known
    <3>1. PICK i \in Of(s) : TRUE
      BY DEF CreateSection
    <3>2. QED
      BY <1>1, <3>1 DEF Inv, TypeOK
  <2>2. QED
    BY <1>1, <2>1 DEF Inv, TypeOK, WellTyped
<1>3. OnlyCreated'
  BY <1>1 DEF Inv, OnlyCreated
<1>4. OnlyOffered'
  <2>1. \A q \in unshared' : Of(q) \subseteq exist' \cup deleted'
    BY <1>1 DEF Inv, OnlyOffered
  <2>2. ASSUME NEW u \in User, NEW i \in Item, <<u, i>> \in offered'
        PROVE  i \in exist' \cup deleted' /\ <<i.account, u>> \in member' \cup overlapped'
    BY <1>1, <2>2 DEF Inv, OnlyOffered
  <2>3. QED
    BY <2>1, <2>2 DEF OnlyOffered
<1>5. NoGrantsOutside'
  <2> SUFFICES ASSUME NEW u \in User, NEW i \in exist', <<u, i>> \in granted,
                      i.half = "role" \/ i.half = "permission"
               PROVE  <<i.account, u>> \in member \cup overlapped
    BY <1>1 DEF NoGrantsOutside, Held
  <2>1. i \in exist
    BY <1>1 DEF Inv, OnlyCreated, TypeOK
  <2>2. QED
    BY <2>1 DEF Inv, NoGrantsOutside, Held
<1>6. ASSUME NEW r \in intact' PROVE Undisturbed(job[r])'
  BY <1>1, <1>6 DEF Inv, Undisturbed, Target, Result, OnlyCreated, TypeOK, WellTyped
<1>7. QED
  BY <1>2, <1>3, <1>4, <1>5, <1>6 DEF Inv

\* Steps that change nothing but what is still to be given.
LEMMA OnlySharing ==
    ASSUME Inv, UNCHANGED <<tables, job, intact, overlapped>>, unshared' \subseteq unshared,
           offered' \subseteq known \X Item, OnlyOffered'
    PROVE  Inv'
<1> USE DEF Inv, tables
<1>1. TypeOK'
  BY DEF TypeOK, WellTyped
<1>2. OnlyCreated' /\ NoGrantsOutside'
  BY DEF OnlyCreated, NoGrantsOutside, Held
<1>3. \A r \in intact : Undisturbed(job[r])'
  BY DEF Undisturbed, Target, Result
<1>4. QED
  BY <1>1, <1>2, <1>3

LEMMA ReadPrimaryStep ==
    ASSUME Inv, NEW s \in Section, ReadPrimary(s)
    PROVE  Inv'
<1>1. /\ s \in unshared /\ unshared' = unshared \ {s}
      /\ UNCHANGED <<tables, job, intact, overlapped>>
  BY DEF ReadPrimary
<1>2. ASSUME NEW o \in offered', o \notin offered
      PROVE  \E i \in Of(s) : \E u \in ReadersOf(i.account) : o = <<u, i>>
  BY <1>2 DEF ReadPrimary
<1>3. ASSUME NEW i \in Of(s), NEW u \in ReadersOf(i.account)
      PROVE  u \in known /\ i \in Item /\ i \in exist \cup deleted /\ <<i.account, u>> \in member
  <2>1. i \in Item /\ i \in exist \cup deleted
    BY <1>1 DEF Inv, OnlyOffered, Of
  <2>2. <<i.account, u>> \in member
    BY DEF ReadersOf, Inv, TypeOK
  <2>3. QED
    BY <2>1, <2>2 DEF Inv, TypeOK
<1>4. offered' \subseteq known \X Item
  <2> SUFFICES ASSUME NEW o \in offered', o \notin offered PROVE o \in known \X Item
    BY DEF Inv, TypeOK
  <2>1. PICK i \in Of(s) : \E u \in ReadersOf(i.account) : o = <<u, i>>
    BY <1>2
  <2>2. PICK u \in ReadersOf(i.account) : o = <<u, i>>
    BY <2>1
  <2>3. QED
    BY <1>3, <2>2
<1>5. OnlyOffered'
  <2>1. ASSUME NEW u \in User, NEW i \in Item, <<u, i>> \in offered'
        PROVE  i \in exist \cup deleted /\ <<i.account, u>> \in member \cup overlapped
    BY <1>2, <1>3, <2>1 DEF Inv, OnlyOffered
  <2>2. QED
    BY <1>1, <2>1 DEF Inv, OnlyOffered, tables
<1>6. QED
  BY <1>1, <1>4, <1>5, OnlySharing

LEMMA StopSharingStep ==
    ASSUME Inv, NEW s \in Section, StopSharing(s)
    PROVE  Inv'
<1>1. /\ unshared' \subseteq unshared /\ offered' \subseteq offered
      /\ UNCHANGED <<tables, job, intact, overlapped>>
  BY DEF StopSharing
<1>2. OnlyOffered' /\ offered' \subseteq known \X Item
  BY <1>1 DEF Inv, OnlyOffered, TypeOK, tables
<1>3. QED
  BY <1>1, <1>2, OnlySharing

LEMMA ShareStep ==
    ASSUME Inv, NEW u \in User, NEW s \in Section, Share(u, s)
    PROVE  Inv'
<1> DEFINE mine == offered \cap Pairs(u, Of(s))
<1>1. /\ offered' = offered \ mine /\ granted' = granted \cup mine
      /\ intact' = {r \in intact : job[r].user # u}
      /\ UNCHANGED <<exist, deleted, known, member, primary, unshared, job, overlapped>>
  BY DEF Share, Disturb
<1>2. mine \subseteq offered /\ \A v, i : <<v, i>> \in mine => v = u
  BY DEF Pairs
<1> HIDE DEF mine
<1>3. TypeOK'
  BY <1>1, <1>2 DEF Inv, TypeOK, WellTyped
<1>4. OnlyCreated'
  BY <1>1, <1>2 DEF Inv, OnlyCreated, OnlyOffered
<1>5. OnlyOffered'
  BY <1>1 DEF Inv, OnlyOffered
<1>6. NoGrantsOutside'
  <2> SUFFICES ASSUME NEW v \in User, NEW i \in exist, <<v, i>> \in granted',
                      i.half = "role" \/ i.half = "permission"
               PROVE  <<i.account, v>> \in member \cup overlapped
    BY <1>1 DEF NoGrantsOutside, Held
  <2>1. CASE <<v, i>> \in granted
    BY <2>1 DEF Inv, NoGrantsOutside, Held
  <2>2. CASE <<v, i>> \in mine
    BY <1>2, <2>2 DEF Inv, OnlyOffered, TypeOK
  <2>3. QED
    BY <1>1, <2>1, <2>2
<1>7. ASSUME NEW r \in intact' PROVE Undisturbed(job[r])'
  <2>1. r \in intact /\ job[r].user # u
    BY <1>1, <1>7
  <2>2. \A i : <<job[r].user, i>> \in granted' <=> <<job[r].user, i>> \in granted
    BY <1>1, <1>2, <2>1
  <2>3. QED
    BY <1>1, <2>1, <2>2 DEF Inv, Undisturbed, Target, Result
<1>8. QED
  BY <1>3, <1>4, <1>5, <1>6, <1>7 DEF Inv

LEMMA DestroyGalleryStep ==
    ASSUME Inv, NEW s \in Gallery, DestroyGallery(s)
    PROVE  Inv'
<1> USE DEF Inv, DestroyGallery
<1>1. TypeOK'
  BY DEF TypeOK, WellTyped
<1>2. OnlyCreated' /\ OnlyOffered'
  BY DEF OnlyCreated, OnlyOffered
<1>3. NoGrantsOutside'
  BY DEF NoGrantsOutside, Held
<1>4. QED
  BY <1>1, <1>2, <1>3

\* A step of one request that changes none of the tables.
LEMMA QuietStep ==
    ASSUME Inv, NEW r \in Request, NEW j, job' = [job EXCEPT ![r] = j],
           UNCHANGED <<tables, sharing, overlapped>>, intact' \subseteq intact \cup {r},
           WellTyped(j), j # Idle,
           j.asked \cup j.keep \cup j.out \cup j.into \subseteq exist \cup deleted,
           \A i \in j.keep : i.half = j.half, j.step # "compare" => j.keep = {},
           \A i \in j.out \cup j.into : i.half = "role" \/ j.half = "permission",
           j.kind = "remove" => j.asked = {},
           j.kind = "update" /\ j.step # "write" => j.out = {} /\ j.into = {},
           j.kind = "update" => \A i \in j.out \cup j.into : i.half = j.half,
           j.step # "write" =>
              \A i \in j.out \cup j.into : j.half = "permission" /\ i.half = "role",
           r \in intact' => Undisturbed(j)
    PROVE  Inv'
<1> USE DEF Inv, tables, sharing
<1>1. job'[r] = j /\ DOMAIN job' = Request /\ \A q \in Request : q # r => job'[q] = job[q]
  BY DEF TypeOK
<1>2. TypeOK'
  BY <1>1 DEF TypeOK, WellTyped, Idle
<1>3. OnlyCreated'
  BY <1>1 DEF OnlyCreated, Idle
<1>4. NoGrantsOutside' /\ OnlyOffered'
  BY DEF NoGrantsOutside, OnlyOffered, Held
<1>5. \A k : Undisturbed(k) => Undisturbed(k)'
  BY DEF Undisturbed, Target, Result
<1>6. \A q \in intact' : Undisturbed(job[q])'
  BY <1>1, <1>5 DEF TypeOK
<1>7. QED
  BY <1>2, <1>3, <1>4, <1>6

LEMMA BeginStep ==
    ASSUME Inv, NEW r \in Request, NEW a \in Account, NEW u \in User,
           NEW kind \in {"update", "remove"}, NEW asked \in SUBSET {i \in exist : i.account = a},
           kind = "remove" => asked = {}, Begin(r, kind, a, u, asked)
    PROVE  Inv'
<1> DEFINE j == [step |-> "read", half |-> "role", kind |-> kind, account |-> a,
                 user |-> u, asked |-> asked, keep |-> {}, out |-> {}, into |-> {}]
<1>1. job' = [job EXCEPT ![r] = j] /\ UNCHANGED <<tables, sharing, overlapped>>
      /\ intact' = intact \cup {r} /\ <<a, u>> \in member
  BY DEF Begin
<1>2. u \in known /\ exist \subseteq Item
  BY <1>1 DEF Inv, TypeOK
<1>3. WellTyped(j) /\ j # Idle
  <2>1. j \in Jobs
    BY <1>2 DEF Jobs, Half
  <2>2. QED
    BY <1>2, <2>1 DEF WellTyped, Idle
<1>4. Undisturbed(j)
  BY <1>1 DEF Undisturbed
<1>5. QED
  BY <1>1, <1>3, <1>4, QuietStep

LEMMA ReadStep ==
    ASSUME Inv, NEW r \in Request, Read(r)
    PROVE  Inv'
<1> DEFINE o == job[r]
           j == [o EXCEPT !.step = "compare", !.keep = Kept(o)]
<1>1. o.step = "read" /\ job' = [job EXCEPT ![r] = j] /\ UNCHANGED <<tables, sharing, intact, overlapped>>
  BY DEF Read
<1>2. o \in Jobs /\ o # Idle /\ WellTyped(o)
  BY <1>1 DEF Inv, TypeOK, WellTyped, Idle
<1>3. Kept(o) \subseteq exist /\ \A i \in Kept(o) : i.half = o.half
  BY DEF Kept, Held
<1>4. /\ j \in Jobs /\ j.step = "compare" /\ j.keep = Kept(o) /\ j.half = o.half
      /\ j.kind = o.kind /\ j.account = o.account /\ j.user = o.user
      /\ j.asked = o.asked /\ j.out = o.out /\ j.into = o.into
  <2>1. Kept(o) \subseteq Item
    BY <1>3 DEF Inv, TypeOK
  <2>2. QED
    BY <1>2, <2>1 DEF Jobs
<1>5. WellTyped(j) /\ j # Idle
  BY <1>2, <1>4 DEF WellTyped, Idle
<1>6. ASSUME r \in intact PROVE Undisturbed(j)
  <2> HIDE DEF j
  <2>1. Undisturbed(o)
    BY <1>6 DEF Inv
  <2>2. \A i \in exist : i.half = j.half => (i \in j.keep <=> Target(j, i))
    BY <1>2, <1>4 DEF Kept, Held, Target, WellTyped
  <2>3. \A i \in exist : Result(j, i) = Result(o, i) /\ Target(j, i) = Target(o, i)
    BY <1>4 DEF Result, Target
  <2>4. QED
    BY <1>1, <1>4, <2>1, <2>2, <2>3 DEF Undisturbed
<1>7. /\ o.asked \cup o.out \cup o.into \subseteq exist \cup deleted
      /\ \A i \in o.out \cup o.into : o.half = "permission" /\ i.half = "role"
      /\ o.kind = "remove" => o.asked = {}
      /\ o.kind = "update" => o.out = {} /\ o.into = {}
  BY <1>1, <1>2 DEF Inv, OnlyCreated
<1> HIDE DEF j
<1>8. QED
  BY <1>1, <1>3, <1>4, <1>5, <1>6, <1>7, QuietStep DEF j

LEMMA CompareStep ==
    ASSUME Inv, NEW r \in Request, Compare(r)
    PROVE  Inv'
<1> DEFINE o == job[r]
           held == Held(o.user, o.half)
           j == [o EXCEPT !.step = "write", !.keep = {},
                          !.out = o.out \cup (held \ o.keep),
                          !.into = o.into \cup (o.keep \ held)]
<1>1. o.step = "compare" /\ job' = [job EXCEPT ![r] = j] /\ UNCHANGED <<tables, sharing, intact, overlapped>>
  BY DEF Compare
<1>2. o \in Jobs /\ o # Idle /\ WellTyped(o)
  BY <1>1 DEF Inv, TypeOK, WellTyped, Idle
<1>3. held \subseteq exist /\ held \subseteq Item /\ \A i \in held : i.half = o.half
  BY DEF Held, Inv, TypeOK
<1>4. /\ j \in Jobs /\ j.step = "write" /\ j.keep = {} /\ j.half = o.half
      /\ j.kind = o.kind /\ j.account = o.account /\ j.user = o.user
      /\ j.asked = o.asked
      /\ j.out = o.out \cup (held \ o.keep) /\ j.into = o.into \cup (o.keep \ held)
  <2> HIDE DEF held
  <2>1. QED
    BY <1>2, <1>3 DEF Jobs
<1>5. WellTyped(j) /\ j # Idle
  BY <1>2, <1>4 DEF WellTyped, Idle
<1>6. /\ o.asked \cup o.keep \cup o.out \cup o.into \subseteq exist \cup deleted
      /\ \A i \in o.keep : i.half = o.half
      /\ \A i \in o.out \cup o.into : o.half = "permission" /\ i.half = "role"
      /\ o.kind = "remove" => o.asked = {}
      /\ o.kind = "update" => o.out = {} /\ o.into = {}
  BY <1>1, <1>2 DEF Inv, OnlyCreated
<1>7. ASSUME r \in intact PROVE Undisturbed(j)
  <2>1. Undisturbed(o)
    BY <1>7 DEF Inv
  <2>2. \A i \in exist : Target(j, i) = Target(o, i)
    BY <1>4 DEF Target
  <2>3. ASSUME NEW i \in exist, i.half = o.half PROVE Result(j, i) <=> Target(j, i)
    <3>1. i \notin o.out /\ i \notin o.into
      BY <1>6, <2>3
    <3>2. i \in held <=> <<o.user, i>> \in granted
      BY <2>3 DEF Held
    <3> HIDE DEF j, held
    <3>3. Result(j, i) <=> i \in o.keep
      BY <1>4, <3>1, <3>2 DEF Result
    <3>4. i \in o.keep <=> Target(o, i)
      BY <1>1, <2>1, <2>3 DEF Undisturbed
    <3>5. QED
      BY <2>2, <3>3, <3>4
  <2>4. ASSUME NEW i \in exist, i.half = "role", o.half = "permission"
        PROVE  Result(j, i) <=> Target(j, i)
    <3>1. i \notin held /\ i \notin o.keep
      BY <1>3, <1>6, <2>4
    <3> HIDE DEF j, held
    <3>2. Result(j, i) <=> Result(o, i)
      BY <1>4, <3>1 DEF Result
    <3>3. QED
      BY <2>1, <2>2, <2>4, <3>2 DEF Undisturbed
  <2> HIDE DEF j, held
  <2>5. <<j.account, j.user>> \in member
    BY <1>4, <2>1 DEF Undisturbed
  <2>6. QED
    BY <1>4, <2>3, <2>4, <2>5 DEF Undisturbed
<1> HIDE DEF j, held
<1>8. /\ j.asked \cup j.keep \cup j.out \cup j.into \subseteq exist \cup deleted
      /\ \A i \in j.out \cup j.into : i.half = "role" \/ j.half = "permission"
      /\ j.kind = "update" => \A i \in j.out \cup j.into : i.half = j.half
  <2>1. o.half \in Half
    BY <1>2 DEF Jobs
  <2>2. \A i \in held \cup o.keep : i.half = "role" \/ o.half = "permission"
    BY <1>3, <1>6, <2>1 DEF Half
  <2>3. QED
    BY <1>3, <1>4, <1>6, <2>2
<1>9. QED
  BY <1>1, <1>4, <1>5, <1>6, <1>7, <1>8, QuietStep DEF j, held

LEMMA AbortStep ==
    ASSUME Inv, NEW r \in Request, Abort(r)
    PROVE  Inv'
<1> USE DEF Inv, Abort, tables, sharing
<1>1. /\ job'[r] = Idle /\ DOMAIN job' = Request
      /\ \A q \in Request : q # r => job'[q] = job[q]
  BY DEF TypeOK
<1>2. TypeOK'
  BY <1>1 DEF TypeOK, WellTyped
<1>3. OnlyCreated'
  BY <1>1 DEF OnlyCreated
<1>4. NoGrantsOutside' /\ OnlyOffered'
  BY DEF NoGrantsOutside, OnlyOffered, Held
<1>5. \A k : Undisturbed(k) => Undisturbed(k)'
  BY DEF Undisturbed, Target, Result
<1>6. \A q \in intact' : Undisturbed(job[q])'
  BY <1>1, <1>5 DEF TypeOK
<1>7. QED
  BY <1>2, <1>3, <1>4, <1>6

\* What a write does to the grants.
LEMMA SaveFacts ==
    ASSUME Inv, NEW r \in Request, job[r] \in Jobs, Save(job[r])
    PROVE  /\ \A i : <<job[r].user, i>> \in granted' <=> Result(job[r], i)
           /\ \A v, i : v # job[r].user => (<<v, i>> \in granted' <=> <<v, i>> \in granted)
           /\ granted' \subseteq known \X Item
           /\ \A u \in User, i \in Item : <<u, i>> \in granted' => i \in exist \cup deleted
<1> DEFINE o == job[r]
<1>1. o \in Jobs /\ o # Idle /\ o.user \in known
  BY DEF Inv, TypeOK, WellTyped, Jobs, Idle
<1>2. o.into \subseteq Item /\ o.into \subseteq exist \cup deleted
  BY <1>1 DEF Jobs, Inv, OnlyCreated
<1>3. granted' = (granted \ ({o.user} \X o.out)) \cup ({o.user} \X o.into)
  BY DEF Save, Pairs
<1>4. granted \subseteq known \X Item
  BY DEF Inv, TypeOK
<1> HIDE DEF o
<1>5. \A i : <<o.user, i>> \in granted' <=> Result(o, i)
  BY <1>3 DEF Result
<1>6. \A v, i : v # o.user => (<<v, i>> \in granted' <=> <<v, i>> \in granted)
  BY <1>3
<1>7. granted' \subseteq known \X Item
  BY <1>1, <1>2, <1>3, <1>4
<1>8. \A u \in User, i \in Item : <<u, i>> \in granted' => i \in exist \cup deleted
  BY <1>2, <1>3 DEF Inv, OnlyCreated
<1>9. QED
  BY <1>5, <1>6, <1>7, <1>8 DEF o

\* No write leaves an unexplained grant behind.
LEMMA WriteOutside ==
    ASSUME Inv, NEW r \in Request, job[r] \in Jobs, job[r].step = "write",
           Save(job[r]), Settle(r), exist' = exist,
           IF job[r].kind = "remove"
           THEN job[r].half = "permission"
                /\ member' = member \ {<<job[r].account, job[r].user>>}
           ELSE member' = member
    PROVE  NoGrantsOutside'
<1> DEFINE o == job[r]
<1>1. o \in Jobs /\ o # Idle /\ WellTyped(o)
  BY DEF Inv, TypeOK, Jobs, Idle
<1> SUFFICES ASSUME NEW u \in User, NEW i \in exist, <<u, i>> \in granted',
                    i.half \in Half
             PROVE  <<i.account, u>> \in member' \cup overlapped'
  BY DEF NoGrantsOutside, Held, Half
<1>2. i \in Item /\ i.account \in Account
  BY ItemAssumption DEF Inv, TypeOK
<1>3. ASSUME <<u, i>> \in granted PROVE <<i.account, u>> \in member \cup overlapped
  BY <1>3 DEF Inv, NoGrantsOutside, Held, Half
<1>4. CASE u # o.user
  <2>1. <<u, i>> \in granted
    BY <1>4, SaveFacts
  <2>2. QED
    BY <1>3, <1>4, <2>1 DEF Settle
<1>5. CASE u = o.user /\ r \notin intact
  BY <1>2, <1>5 DEF Settle
<1>6. CASE u = o.user /\ r \in intact
  <2>1. Undisturbed(o)
    BY <1>6 DEF Inv
  <2>2. Result(o, i)
    BY <1>6, SaveFacts
  <2>3. CASE i.half = o.half \/ (i.half = "role" /\ o.half = "permission")
    <3>1. Target(o, i)
      BY <2>1, <2>2, <2>3 DEF Undisturbed
    <3>2. CASE i.account # o.account
      <4>1. <<u, i>> \in granted
        BY <1>6, <3>1, <3>2 DEF Target
      <4>2. <<i.account, u>> \in member \cup overlapped
        BY <1>3, <4>1
      <4>3. QED
        BY <1>6, <3>2, <4>2 DEF Settle
    <3>3. CASE i.account = o.account
      <4>1. i \in o.asked
        BY <3>1, <3>3 DEF Target
      <4>2. o.kind # "remove"
        BY <1>1, <4>1 DEF Inv, OnlyCreated
      <4>3. <<o.account, o.user>> \in member
        BY <2>1 DEF Undisturbed
      <4>4. QED
        BY <1>6, <3>3, <4>2, <4>3
    <3>4. QED
      BY <3>2, <3>3
  <2>4. CASE ~(i.half = o.half \/ (i.half = "role" /\ o.half = "permission"))
    <3>1. o.half = "role" /\ i.half = "permission" /\ o.kind = "update"
      BY <1>1, <2>4 DEF Jobs, Half
    <3>2. i \notin o.into
      BY <1>1, <3>1 DEF Inv, OnlyCreated
    <3>3. <<u, i>> \in granted
      BY <1>6, <2>2, <3>2 DEF Result
    <3>4. QED
      BY <1>3, <1>6, <3>1, <3>3 DEF Settle
  <2>5. QED
    BY <2>3, <2>4
<1>7. QED
  BY <1>4, <1>5, <1>6

\* Requests about other users are not concerned by a write.
LEMMA OthersUndisturbed ==
    ASSUME Inv, NEW r \in Request, job[r] \in Jobs, Save(job[r]), exist' = exist,
           \A a, u : u # job[r].user => (<<a, u>> \in member' <=> <<a, u>> \in member),
           NEW q \in intact, job[q].user # job[r].user, job'[q] = job[q]
    PROVE  Undisturbed(job[q])'
<1>1. Undisturbed(job[q])
  BY DEF Inv
<1>2. \A i : <<job[q].user, i>> \in granted' <=> <<job[q].user, i>> \in granted
  BY SaveFacts
<1>3. <<job[q].account, job[q].user>> \in member'
  BY <1>1 DEF Undisturbed
<1>4. QED
  BY <1>1, <1>2, <1>3 DEF Undisturbed, Target, Result

LEMMA SettleTypes ==
    ASSUME Inv, NEW r \in Request, job[r] \in Jobs, Settle(r)
    PROVE  overlapped' \subseteq Account \X known
<1> DEFINE o == job[r]
<1>1. o.account \in Account /\ o.user \in known /\ overlapped \subseteq Account \X known
  BY DEF Jobs, Inv, TypeOK, WellTyped, Idle
<1> HIDE DEF o
<1>2. \/ overlapped' = overlapped \cup (Account \X {o.user})
      \/ overlapped' = overlapped
      \/ overlapped' = overlapped \cup {<<o.account, o.user>>}
      \/ overlapped' = overlapped \ {<<o.account, o.user>>}
  BY DEF Settle, o
<1>3. QED
  BY <1>1, <1>2

LEMMA WriteRolesStep ==
    ASSUME Inv, NEW r \in Request, WriteRoles(r)
    PROVE  Inv'
<1> DEFINE o == job[r]
<1>1. o.step = "write" /\ o.half = "role"
      /\ UNCHANGED <<exist, deleted, known, member, primary, unshared, offered>>
  BY DEF WriteRoles, sharing
<1>2. o \in Jobs /\ o # Idle /\ WellTyped(o)
  BY <1>1 DEF Inv, TypeOK, WellTyped, Idle
<1>3. /\ o.asked \cup o.out \cup o.into \subseteq exist \cup deleted /\ o.keep = {}
      /\ \A i \in o.out \cup o.into : i.half = "role"
      /\ o.kind = "remove" => o.asked = {}
  BY <1>1, <1>2 DEF Inv, OnlyCreated
<1>4. CASE o.kind = "remove"
  <2> DEFINE j == [o EXCEPT !.step = "read", !.half = "permission"]
  <2>1. job' = [job EXCEPT ![r] = j] /\ UNCHANGED <<tables, sharing, intact, overlapped>>
    BY <1>1, <1>4 DEF WriteRoles, tables, sharing
  <2>2. /\ j \in Jobs /\ j.step = "read" /\ j.half = "permission"
        /\ j.kind = "remove" /\ j.account = o.account /\ j.user = o.user
        /\ j.asked = o.asked /\ j.keep = {} /\ j.out = o.out /\ j.into = o.into
    BY <1>2, <1>3, <1>4 DEF Jobs, Half
  <2>3. WellTyped(j) /\ j # Idle
    BY <1>2, <2>2 DEF WellTyped, Idle
  <2>4. ASSUME r \in intact PROVE Undisturbed(j)
    <3> HIDE DEF j
    <3>1. Undisturbed(o)
      BY <2>4 DEF Inv
    <3>2. \A i \in exist : Result(j, i) = Result(o, i) /\ Target(j, i) = Target(o, i)
      BY <2>2 DEF Result, Target
    <3>3. QED
      BY <1>1, <2>2, <3>1, <3>2 DEF Undisturbed
  <2> HIDE DEF j
  <2>5. QED
    BY <1>3, <1>4, <2>1, <2>2, <2>3, <2>4, QuietStep
<1>5. CASE o.kind = "update"
  <2> DEFINE j == [o EXCEPT !.step = "read", !.half = "permission", !.out = {}, !.into = {}]
  <2>1. /\ job' = [job EXCEPT ![r] = j] /\ Save(o) /\ Settle(r)
        /\ intact' = {q \in intact : q = r \/ job[q].user # o.user}
    BY <1>1, <1>5 DEF WriteRoles
  <2>2. /\ j \in Jobs /\ j.step = "read" /\ j.half = "permission"
        /\ j.kind = "update" /\ j.account = o.account /\ j.user = o.user
        /\ j.asked = o.asked /\ j.keep = {} /\ j.out = {} /\ j.into = {}
    BY <1>2, <1>3, <1>5 DEF Jobs, Half
  <2>3. WellTyped(j) /\ j # Idle
    BY <1>2, <2>2 DEF WellTyped, Idle
  <2> HIDE DEF j
  <2>4. /\ job'[r] = j /\ DOMAIN job' = Request
        /\ \A q \in Request : q # r => job'[q] = job[q]
    BY <2>1 DEF Inv, TypeOK
  <2>5. TypeOK'
    <3>1. granted' \subseteq known \X Item
      BY <1>2, <2>1, SaveFacts
    <3>2. overlapped' \subseteq Account \X known
      BY <1>2, <2>1, SettleTypes
    <3>3. QED
      BY <1>1, <2>1, <2>3, <2>4, <3>1, <3>2 DEF Inv, TypeOK, WellTyped
  <2>6. OnlyCreated'
    <3>1. \A u \in User, i \in Item : <<u, i>> \in granted' => i \in exist \cup deleted
      BY <1>2, <2>1, SaveFacts
    <3>2. QED
      BY <1>1, <1>3, <2>2, <2>4, <3>1 DEF Inv, OnlyCreated
  <2>7. NoGrantsOutside' /\ OnlyOffered'
    <3>1. overlapped \subseteq overlapped'
      BY <1>5, <2>1 DEF Settle
    <3>2. QED
      BY <1>1, <1>2, <1>5, <2>1, <3>1, WriteOutside DEF Inv, OnlyOffered
  <2>8. ASSUME r \in intact PROVE Undisturbed(job[r])'
    <3>1. Undisturbed(o)
      BY <2>8 DEF Inv
    <3>2. \A i : <<o.user, i>> \in granted' <=> Result(o, i)
      BY <1>2, <2>1, SaveFacts
    <3>3. ASSUME NEW i \in exist, i.half = "role"
          PROVE  <<o.user, i>> \in granted'
                 <=> IF i.account = o.account THEN i \in o.asked ELSE <<o.user, i>> \in granted'
      <4>1. Result(o, i) <=> Target(o, i)
        BY <1>1, <3>1, <3>3 DEF Undisturbed
      <4>2. QED
        BY <3>2, <4>1 DEF Target
    <3>4. <<o.account, o.user>> \in member'
      BY <1>1, <3>1 DEF Undisturbed
    <3>5. QED
      BY <1>1, <2>2, <2>4, <3>3, <3>4 DEF Undisturbed, Result, Target
  <2>9. ASSUME NEW q \in intact', q # r PROVE Undisturbed(job[q])'
    BY <1>1, <1>2, <2>1, <2>4, <2>9, OthersUndisturbed DEF Inv, TypeOK
  <2>10. QED
    BY <2>1, <2>5, <2>6, <2>7, <2>8, <2>9 DEF Inv
<1>6. QED
  BY <1>2, <1>4, <1>5 DEF Jobs

LEMMA WritePermissionsStep ==
    ASSUME Inv, NEW r \in Request, WritePermissions(r)
    PROVE  Inv'
<1> DEFINE o == job[r]
           gone == IF o.kind = "remove" THEN {<<o.account, o.user>>} ELSE {}
<1>1. /\ o.step = "write" /\ o.half = "permission"
      /\ UNCHANGED <<exist, deleted, known, unshared, offered>>
      /\ Save(o) /\ Settle(r) /\ member' = member \ gone /\ primary' = primary \ gone
      /\ job' = [job EXCEPT ![r] = Idle]
      /\ intact' = {q \in intact : job[q].user # o.user}
  BY DEF WritePermissions, Disturb, sharing
<1>2. o \in Jobs /\ o # Idle /\ WellTyped(o)
  BY <1>1 DEF Inv, TypeOK, WellTyped, Idle
<1>3. /\ job'[r] = Idle /\ DOMAIN job' = Request
      /\ \A q \in Request : q # r => job'[q] = job[q]
  BY <1>1 DEF Inv, TypeOK
<1>4. TypeOK'
  <2>1. granted' \subseteq known \X Item
    BY <1>1, <1>2, SaveFacts
  <2>2. overlapped' \subseteq Account \X known
    BY <1>1, <1>2, SettleTypes
  <2>3. QED
    BY <1>1, <1>3, <2>1, <2>2 DEF Inv, TypeOK, WellTyped
<1>5. OnlyCreated'
  <2>1. \A u \in User, i \in Item : <<u, i>> \in granted' => i \in exist \cup deleted
    BY <1>1, <1>2, SaveFacts
  <2>2. QED
    BY <1>1, <1>3, <2>1 DEF Inv, OnlyCreated
<1>6. NoGrantsOutside' /\ OnlyOffered'
  <2>1. NoGrantsOutside'
    BY <1>1, <1>2, WriteOutside
  <2>2. ASSUME NEW u \in User, NEW i \in Item, <<u, i>> \in offered
        PROVE  <<i.account, u>> \in member' \cup overlapped'
    <3>1. <<i.account, u>> \in member \cup overlapped
      BY <2>2 DEF Inv, OnlyOffered
    <3>2. i.account \in Account
      BY ItemAssumption
    <3>3. CASE i.account = o.account /\ u = o.user /\ o.kind = "remove"
      BY <1>1, <2>2, <3>2, <3>3 DEF Settle
    <3>4. CASE ~(i.account = o.account /\ u = o.user /\ o.kind = "remove")
      <4>1. <<i.account, u>> \notin gone
        BY <3>4
      <4>2. <<i.account, u>> \in overlapped => <<i.account, u>> \in overlapped'
        BY <1>1, <1>2, <3>4 DEF Settle, Jobs
      <4>3. QED
        BY <1>1, <3>1, <4>1, <4>2
    <3>5. QED
      BY <3>3, <3>4
  <2>3. QED
    BY <1>1, <2>1, <2>2 DEF Inv, OnlyOffered
<1>7. ASSUME NEW q \in intact' PROVE Undisturbed(job[q])'
  <2>1. q \in intact /\ q # r /\ q \in Request /\ job[q].user # o.user
    BY <1>1, <1>7 DEF Inv, TypeOK
  <2>2. \A a, u : u # o.user => (<<a, u>> \in member' <=> <<a, u>> \in member)
    BY <1>1
  <2>3. QED
    BY <1>1, <1>2, <1>3, <2>1, <2>2, OthersUndisturbed
<1>8. QED
  BY <1>4, <1>5, <1>6, <1>7 DEF Inv

LEMMA InvStep == Inv /\ [Next]_vars => Inv'
<1> SUFFICES ASSUME Inv, [Next]_vars PROVE Inv'
  OBVIOUS
<1>1. CASE UNCHANGED vars
  BY <1>1 DEF vars, tables, sharing, Inv, TypeOK, WellTyped, OnlyCreated, OnlyOffered,
     NoGrantsOutside, Held,
     Undisturbed, Target, Result
<1>2. ASSUME NEW a \in Account, NEW u \in User, NEW r \in Request,
             Begin(r, "remove", a, u, {}) PROVE Inv'
  BY <1>2, BeginStep
<1>3. ASSUME NEW a \in Account, NEW u \in User, NEW r \in Request,
             NEW asked \in SUBSET {i \in exist : i.account = a},
             Begin(r, "update", a, u, asked) PROVE Inv'
  BY <1>3, BeginStep
<1>4. ASSUME NEW s \in Section, NEW creators \in {{}} \cup {{u} : u \in User},
             CreateSection(s, creators) PROVE Inv'
  <2>1. creators \in SUBSET User
    OBVIOUS
  <2>2. QED
    BY <1>4, <2>1, CreateSectionStep
<1>5. QED
  BY <1>1, <1>2, <1>3, <1>4, CreateUserStep, AddExistingStep, DestroyGalleryStep, ReadStep,
     CompareStep, WriteRolesStep, WritePermissionsStep, AbortStep, ReadPrimaryStep, ShareStep,
     StopSharingStep DEF Next

LEMMA InvCorrect == Spec => []Inv
BY InitInv, InvStep, PTL DEF Spec

\* Types of the tables and of every request; only members are primary.
THEOREM TypeCorrect == Spec => []TypeOK
BY InvCorrect, PTL DEF Inv

\* A user that was removed from an account has none of its roles and
\* permissions, unless requests about that user overlapped or the creation of a
\* section had found the user before.
THEOREM NoGrantsOutsideCorrect == Spec => []NoGrantsOutside
BY InvCorrect, PTL DEF Inv

\* The last write of an undisturbed request leaves what it was asked for.
LEMMA ExactWrite ==
    ASSUME Inv, NEW r \in intact, WritePermissions(r), NEW i \in exist
    PROVE  <<job[r].user, i>> \in granted' <=> Target(job[r], i)
<1>1. job[r].step = "write" /\ job[r].half = "permission" /\ Save(job[r]) /\ r \in Request
  BY DEF WritePermissions, Inv, TypeOK
<1>2. job[r] \in Jobs
  BY <1>1 DEF Inv, TypeOK, WellTyped, Idle
<1>3. i.half \in Half
  BY ItemAssumption DEF Inv, TypeOK
<1>4. Result(job[r], i) <=> Target(job[r], i)
  BY <1>1, <1>3 DEF Inv, Undisturbed, Half
<1>5. QED
  BY <1>1, <1>2, <1>4, SaveFacts

\* An undisturbed request gives its account's items exactly as asked and leaves
\* those of all other accounts.
THEOREM UpdateIsExactCorrect == Spec => UpdateIsExact
<1> DEFINE A == \A r \in intact : WritePermissions(r) =>
         LET j == job[r] IN
         \A i \in exist :
            IF i.account = j.account THEN <<j.user, i>> \in granted' <=> i \in j.asked
            ELSE <<j.user, i>> \in granted' <=> <<j.user, i>> \in granted
<1>1. ASSUME Inv PROVE A
  BY <1>1, ExactWrite DEF Target
<1>2. QED
  BY <1>1, InvCorrect, PTL DEF Spec, UpdateIsExact

=============================================================================
