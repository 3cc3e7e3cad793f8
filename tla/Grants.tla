-------------------------------- MODULE Grants --------------------------------
(***************************************************************************)
(* The roles and permissions of sub-users.  A user can belong to several    *)
(* accounts; PermissionsAssigner lets an account replace what the user has  *)
(* there and puts back what other accounts had given.  It reads, and only   *)
(* then replaces the whole list, so requests of two accounts meet here.     *)
(***************************************************************************)
EXTENDS FiniteSets

CONSTANTS
    Account,
    User,        \* users that own none of the accounts
    Section,     \* galleries and folders that are created
    Gallery,     \* those of them that are galleries
    Item,        \* roles and permissions, see ItemAssumption
    Request      \* requests that are being served at one time

Half == {"role", "permission"}

\* An item is for a section or for the account; a section is of one account.
ASSUME ItemAssumption ==
    /\ \A i \in Item : i.account \in Account /\ i.half \in Half /\ i.read \in BOOLEAN
    /\ \A i, k \in Item : i.on = k.on => i.account = k.account
ASSUME SectionAssumption == Gallery \subseteq Section

VARIABLES
    exist,       \* items that were created and not deleted
    deleted,     \* items that were deleted
    known,       \* users that have signed up
    member,      \* account_users, as <<account, user>>
    primary,     \* those of them with the flag "primary"
    granted,     \* user_roles and users_permissions, as <<user, item>>
    unshared,    \* new sections whose creation has yet to read the primary users
    offered,     \* <<user, item>> that the creation of a section has yet to insert
    job,         \* what each request has read
    intact,      \* requests since whose first read nothing of their user changed
    overlapped   \* <<account, user>>: see Settle

tables == <<exist, deleted, known, member, primary, granted>>
sharing == <<unshared, offered>>
vars == <<tables, sharing, job, intact, overlapped>>

Of(s) == {i \in Item : i.on = s}
Held(u, half) == {i \in exist : i.half = half /\ <<u, i>> \in granted}
Pairs(u, S) == {u} \X S

Idle == [step |-> "idle"]

Init ==
    /\ exist = {i \in Item : i.on \notin Section}
    /\ deleted = {} /\ known = {} /\ member = {} /\ primary = {} /\ granted = {}
    /\ unshared = {} /\ offered = {}
    /\ job = [r \in Request |-> Idle]
    /\ intact = {}
    /\ overlapped = {}

\* What the requests about these users have read may no longer be so.
Disturb(users) == intact' = {r \in intact : job[r].user \notin users}

-----------------------------------------------------------------------------
(* Requests that write in one transaction.                                   *)

\* The forms offer the items that the account has.
\* SubUsers::MyResource#create: a new user, whose first account this is.
CreateUser(a, u, asked) ==
    /\ u \notin known
    /\ known' = known \cup {u}
    /\ member' = member \cup {<<a, u>>}
    /\ primary' = primary \cup {<<a, u>>}
    /\ granted' = granted \cup Pairs(u, asked)
    /\ UNCHANGED <<exist, deleted, sharing, job, intact, overlapped>>

\* A broken AddExisting: that no user has the address is not noticed.
AddUnknown(a, u) ==
    /\ <<a, u>> \notin member
    /\ member' = member \cup {<<a, u>>}
    /\ UNCHANGED <<exist, deleted, known, primary, granted, sharing, job, intact, overlapped>>

\* SubUsers::InvitationResource#create: a user that exists, without grants.
AddExisting(a, u) ==
    /\ u \in known /\ <<a, u>> \notin member
    /\ member' = member \cup {<<a, u>>}
    /\ UNCHANGED <<exist, deleted, known, primary, granted, sharing, job, intact, overlapped>>

\* A gallery that is destroyed takes its permissions with it, also those that its
\* creation would have found to give them to the next user.
DestroyGallery(s) ==
    /\ Of(s) \cap exist # {}
    /\ exist' = exist \ Of(s)
    /\ deleted' = deleted \cup (Of(s) \cap exist)
    /\ unshared' = unshared \ {s}
    /\ offered' = offered \ (User \X Of(s))
    /\ intact' = {}
    /\ UNCHANGED <<known, member, primary, granted, job, overlapped>>

-----------------------------------------------------------------------------
(* Galleries::MyResource#create and Folders::MyResource#create: the section,  *)
(* its permissions, the primary users and their grants are statements of      *)
(* their own, between which other requests are served.                        *)

\* The creator is to get every permission of the section.
CreateSection(s, creators) ==
    /\ Of(s) # {} /\ Of(s) \cap (exist \cup deleted) = {}
    /\ \A i \in Of(s), u \in creators : <<i.account, u>> \in member
    /\ exist' = exist \cup Of(s)
    /\ unshared' = unshared \cup {s}
    /\ offered' = offered \cup (creators \X Of(s))
    /\ UNCHANGED <<deleted, known, member, primary, granted, job, intact, overlapped>>

\* A broken ReadersOf: the primary users of all accounts.
PrimaryAnywhere(a) == {u \in User : \E b \in Account : <<b, u>> \in primary}

\* account.primary_users
ReadersOf(a) == {u \in User : <<a, u>> \in primary}

\* Once the creator has them, the primary users are to get those to read it.
ReadPrimary(s) ==
    /\ s \in unshared /\ offered \cap (User \X Of(s)) = {}
    /\ unshared' = unshared \ {s}
    /\ offered' = offered \cup UNION {ReadersOf(i.account) \X {i} : i \in {k \in Of(s) : k.read}}
    /\ UNCHANGED <<tables, job, intact, overlapped>>

\* The permissions are given to one user after the other.
Share(u, s) ==
    LET mine == offered \cap Pairs(u, Of(s)) IN
    /\ mine # {}
    /\ offered' = offered \ mine
    /\ granted' = granted \cup mine
    /\ Disturb({u})
    /\ UNCHANGED <<exist, deleted, known, member, primary, unshared, job, overlapped>>

\* The process ends: who has not got the permissions by then does not get them.
StopSharing(s) ==
    /\ s \in unshared \/ offered \cap (User \X Of(s)) # {}
    /\ unshared' = unshared \ {s}
    /\ offered' = offered \ (User \X Of(s))
    /\ UNCHANGED <<tables, job, intact, overlapped>>

-----------------------------------------------------------------------------
(* PermissionsAssigner#process, roles first and permissions after them.      *)

\* SubUsers::PermissionResource#update and #destroy find the user among those
\* of the account; destroy is process([], []) and the end of the membership.
Begin(r, kind, a, u, asked) ==
    /\ job[r] = Idle
    /\ <<a, u>> \in member
    /\ job' = [job EXCEPT ![r] =
                 [step |-> "read", half |-> "role", kind |-> kind, account |-> a,
                  user |-> u, asked |-> asked, keep |-> {}, out |-> {}, into |-> {}]]
    /\ intact' = intact \cup {r}
    /\ UNCHANGED <<tables, sharing, overlapped>>

\* A broken Kept: what other accounts gave is not read.
OwnOnly(j) == {i \in j.asked \cap exist : i.half = j.half}

\* What the user will have: the items from other accounts, and of those asked
\* for the ones that the account has.
Kept(j) ==
    {i \in Held(j.user, j.half) : i.account # j.account}
    \cup {i \in j.asked \cap exist : i.half = j.half}

Read(r) ==
    /\ job[r].step = "read"
    /\ job' = [job EXCEPT ![r].step = "compare", ![r].keep = Kept(job[r])]
    /\ UNCHANGED <<tables, sharing, intact, overlapped>>

\* role_ids= and permission_ids= find the items again and compare them with the
\* list that the user has by now.
Compare(r) ==
    LET j == job[r]
        held == Held(j.user, j.half)
    IN
    /\ j.step = "compare" /\ j.keep \subseteq exist
    /\ job' = [job EXCEPT ![r].step = "write", ![r].keep = {},
                          ![r].out = j.out \cup (held \ j.keep),
                          ![r].into = j.into \cup (j.keep \ held)]
    /\ UNCHANGED <<tables, sharing, intact, overlapped>>

\* A removal that was not disturbed leaves the user with nothing of the account;
\* a disturbed request may bring back what was taken away, and so may the creation
\* of a section that has found the user before the removal.
Settle(r) ==
    LET j == job[r]
        own == {<<j.account, j.user>>}
        found == \E i \in Item : i.account = j.account /\ <<j.user, i>> \in offered
    IN
    overlapped' = IF r \notin intact THEN overlapped \cup (Account \X {j.user})
                  ELSE IF j.kind = "update" THEN overlapped
                  ELSE IF found THEN overlapped \cup own ELSE overlapped \ own

Save(j) == granted' = (granted \ Pairs(j.user, j.out)) \cup Pairs(j.user, j.into)

\* The roles: update saves them at once, destroy at the end of its transaction.
WriteRoles(r) ==
    LET j == job[r] IN
    /\ j.step = "write" /\ j.half = "role"
    /\ \/ /\ j.kind = "update" /\ Save(j) /\ Settle(r)
          /\ intact' = {q \in intact : q = r \/ job[q].user # j.user}
          /\ job' = [job EXCEPT ![r].step = "read", ![r].half = "permission",
                                ![r].out = {}, ![r].into = {}]
       \/ /\ j.kind = "remove"
          /\ job' = [job EXCEPT ![r].step = "read", ![r].half = "permission"]
          /\ UNCHANGED <<granted, intact, overlapped>>
    /\ UNCHANGED <<exist, deleted, known, member, primary, sharing>>

\* The permissions, and at the end of destroy the membership.
WritePermissions(r) ==
    LET j == job[r]
        gone == IF j.kind = "remove" THEN {<<j.account, j.user>>} ELSE {}
    IN
    /\ j.step = "write" /\ j.half = "permission"
    /\ Save(j) /\ Settle(r)
    /\ member' = member \ gone
    /\ primary' = primary \ gone
    /\ job' = [job EXCEPT ![r] = Idle]
    /\ Disturb({j.user})
    /\ UNCHANGED <<exist, deleted, known, sharing>>

\* An item that was read is gone when it is found again, or the process dies:
\* what update has saved by then stays, the transaction of destroy is undone.
Abort(r) ==
    /\ job[r] # Idle
    /\ job' = [job EXCEPT ![r] = Idle]
    /\ intact' = intact \ {r}
    /\ UNCHANGED <<tables, sharing, overlapped>>

Next ==
    \/ \E a \in Account, u \in User :
         \/ AddExisting(a, u)
         \/ \E asked \in SUBSET {i \in exist : i.account = a} :
              \/ CreateUser(a, u, asked)
              \/ \E r \in Request : Begin(r, "update", a, u, asked)
         \/ \E r \in Request : Begin(r, "remove", a, u, {})
    \/ \E s \in Section :
         \/ \E creators \in {{}} \cup {{u} : u \in User} : CreateSection(s, creators)
         \/ ReadPrimary(s)
         \/ \E u \in User : Share(u, s)
         \/ StopSharing(s)
    \/ \E s \in Gallery : DestroyGallery(s)
    \/ \E r \in Request : Read(r) \/ Compare(r) \/ WriteRoles(r) \/ WritePermissions(r) \/ Abort(r)

Spec == Init /\ [][Next]_vars

-----------------------------------------------------------------------------
(* Properties.                                                               *)

Jobs == [step : {"read", "compare", "write"}, half : Half, kind : {"update", "remove"},
         account : Account, user : User, asked : SUBSET Item,
         keep : SUBSET Item, out : SUBSET Item, into : SUBSET Item]

\* A request is about a user that exists, and asks for items of its own account.
WellTyped(j) ==
    \/ j = Idle
    \/ j \in Jobs /\ j.user \in known /\ \A i \in j.asked : i.account = j.account

\* Types, and that only members are primary and only known users have grants.
TypeOK ==
    /\ exist \subseteq Item /\ deleted \subseteq Item \ exist /\ known \subseteq User
    /\ member \subseteq Account \X known
    /\ primary \subseteq member
    /\ granted \subseteq known \X Item
    /\ unshared \subseteq Section /\ offered \subseteq known \X Item
    /\ DOMAIN job = Request /\ \A r \in Request : WellTyped(job[r])
    /\ intact \subseteq {r \in Request : job[r] # Idle}
    /\ overlapped \subseteq Account \X known

\* A user has nothing of an account that the user does not belong to, unless
\* requests about that user overlapped, or the removal came between the reading
\* and the writing of one that created a section.  (SubUsers::PermissionResource:20, "just
\* remove all permissions in current account scope".)
NoGrantsOutside ==
    \A u \in User : \A i \in Held(u, "role") \cup Held(u, "permission") :
        <<i.account, u>> \in member \cup overlapped

\* An undisturbed update gives exactly the roles and permissions that the form
\* had, and neither update nor destroy changes what another account gave.
UpdateIsExact ==
    [][\A r \in intact : WritePermissions(r) =>
         LET j == job[r] IN
         \A i \in exist :
            IF i.account = j.account THEN <<j.user, i>> \in granted' <=> i \in j.asked
            ELSE <<j.user, i>> \in granted' <=> <<j.user, i>> \in granted]_vars

\* permissions_assigner_spec.rb:65: "should not change permissions from other
\* account".
OthersUnchanged ==
    [][\A r \in Request : WritePermissions(r) =>
         \A i \in exist : i.account # job[r].account =>
            (<<job[r].user, i>> \in granted' <=> <<job[r].user, i>> \in granted)]_vars
=============================================================================
