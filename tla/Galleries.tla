------------------------------ MODULE Galleries ------------------------------
(***************************************************************************)
(* Which gallery of an account comes first, and which one is featured.      *)
(* Galleries::MyResource keeps both unique without a transaction: a request *)
(* reads a gallery, clears the flag of the others, and then sets its own.   *)
(* Each of these statements is a step here, and those of other requests run *)
(* in between.  The list of galleries in a browser draws the answers.       *)
(***************************************************************************)
EXTENDS FiniteSets

CONSTANTS
    Gallery,    \* rows of the galleries table, those to come included
    Request     \* requests that are being served or answered at one time

ASSUME GalleryAssumption == IsFiniteSet(Gallery)

VARIABLES
    live,       \* galleries that exist and are not deleted
    trash,      \* galleries whose deleted_at is set
    first,      \* those with show_first
    featured,   \* those with featured
    protected,  \* those with enable_password or enable_invitation_credentials
    req,        \* what each request has read and is going to write
    shown,      \* the galleries that the list in the browser shows as first
    current,    \* no gallery became, or stopped being, first since the list was right
    twoFirst,   \* more than one gallery may be first, see SetFirst
    twoFeatured,\* more than one gallery may be featured, see Save
    loose       \* galleries of which a toggle and an update have overlapped

rows == <<live, trash, first, featured, protected>>
history == <<twoFirst, twoFeatured, loose>>
vars == <<rows, req, shown, current, history>>

First == first \cap live
Featured == featured \cap live

\* What a form changes of a gallery: the dialog of the list has the two kinds of
\* protection, the page of settings whether the gallery is featured.
Form == [field : {"protected", "featured"}, to : BOOLEAN]

NoForm == [field |-> "none", to |-> FALSE]

\* A request of a gallery; scope are the galleries that its user can read, as long
\* as it matters.
\*   toggle   at "unset", "clear", "set" and, back in the browser, "answer"
\*   update   at "clear" and "save"
\*   alone    at "set" and "save": no other gallery has had the flag since "clear"
\*   calm     no other request has changed First since this one began
\*   tells    the gallery is first, says the answer
\*   form     what was posted, if it differs from the row as it was read
\*   drops    the row was first as it was read, and must not be
Idle == [kind |-> "idle"]

Toggle(g, scope, at) ==
    [kind |-> "toggle", gallery |-> g, scope |-> scope, at |-> at, alone |-> FALSE,
     calm |-> (at # "answer"), tells |-> FALSE, form |-> NoForm, drops |-> FALSE]

Update(g, scope, at, form, drops) ==
    [kind |-> "update", gallery |-> g, scope |-> scope, at |-> at, alone |-> FALSE,
     calm |-> FALSE, tells |-> FALSE, form |-> form, drops |-> drops]

For(scope, at) == IF at = "clear" THEN scope ELSE {}

Open(kind, g) == \E r \in Request : req[r].kind = kind /\ req[r].gallery = g
Toggling(g) ==
    \E r \in Request :
        req[r].kind = "toggle" /\ req[r].gallery = g /\ req[r].at \in {"clear", "set"}

\* The loose galleries that still are first, or about to become it.
StillLoose == {g \in loose : g \in first' \/ Toggling(g)}

-----------------------------------------------------------------------------
(* What a step does to the other requests and to the browser's list.          *)

\* A gallery gets these flags: those who have cleared them are no longer alone.
Met(q, flags) ==
    IF \/ "first" \in flags /\ q.kind = "toggle" /\ q.at = "set"
       \/ "featured" \in flags /\ q.kind = "update" /\ q.at = "save"
    THEN [q EXCEPT !.alone = FALSE] ELSE q

\* First changes: what the others were going to draw is out of date.
Aged(q) == IF First' # First /\ q.kind = "toggle" THEN [q EXCEPT !.calm = FALSE] ELSE q

\* The step leaves request r as now.
Step(r, now, flags) ==
    req' = [q \in Request |-> IF q = r THEN now ELSE Aged(Met(req[q], flags))]

\* The browser's list is out of date once First has changed.
Watch == current' = (current /\ First' = First)

-----------------------------------------------------------------------------
(* toggle_first                                                              *)

\* A broken Check: the protection of the gallery is not looked at.
CheckOnlyFirst(g) ==
    CASE g \in first -> "unset"
      [] g \notin first -> "clear"

\* The gallery is found and checked; a protected one is refused.
Check(g) ==
    CASE g \in first -> "unset"
      [] g \notin first /\ g \in protected -> "answer"
      [] g \notin first \cup protected -> "clear"

FindToggled(r, g, scope) ==
    /\ req[r] = Idle /\ g \in live \cap scope
    /\ req' = [req EXCEPT ![r] = Toggle(g, For(scope, Check(g)), Check(g))]
    /\ UNCHANGED <<rows, shown, current, history>>

Unset(r) ==
    /\ req[r].kind = "toggle" /\ req[r].at = "unset"
    /\ first' = first \ {req[r].gallery}
    /\ loose' = StillLoose
    /\ UNCHANGED <<live, trash, featured, protected, shown, twoFirst, twoFeatured>>
    /\ Step(r, [req[r] EXCEPT !.at = "answer"], {})
    /\ Watch

\* A broken ClearFirst: only the row that will be first is cleared.
ClearOwn(r) ==
    /\ req[r].kind = "toggle" /\ req[r].at = "clear"
    /\ first' = first \ {req[r].gallery}
    /\ loose' = StillLoose
    /\ UNCHANGED <<live, trash, featured, protected, shown, twoFirst, twoFeatured>>
    /\ Step(r, [req[r] EXCEPT !.at = "set", !.scope = {},
                              !.alone = (First \subseteq req[r].scope)], {})
    /\ Watch

\* resource_scope.update_all: all the galleries that the user can read.
ClearFirst(r) ==
    /\ req[r].kind = "toggle" /\ req[r].at = "clear"
    /\ first' = first \ (live \cap req[r].scope)
    /\ loose' = StillLoose
    /\ UNCHANGED <<live, trash, featured, protected, shown, twoFirst, twoFeatured>>
    /\ Step(r, [req[r] EXCEPT !.at = "set", !.scope = {},
                              !.alone = (First \subseteq req[r].scope)], {})
    /\ Watch

\* update_column writes the row, in the trash as well.  More than one may be first
\* from here on if another became it since this request has cleared them all.
SetFirst(r) ==
    LET g == req[r].gallery IN
    /\ req[r].kind = "toggle" /\ req[r].at = "set"
    /\ first' = first \cup {g}
    /\ twoFirst' = ~req[r].alone
    /\ loose' = IF Open("update", g) THEN loose \cup {g} ELSE loose
    /\ UNCHANGED <<live, trash, featured, protected, shown, twoFeatured>>
    /\ Step(r, [req[r] EXCEPT !.at = "answer", !.tells = TRUE, !.alone = FALSE,
                              !.calm = (@ /\ g \in live)], {"first"})
    /\ Watch

-----------------------------------------------------------------------------
(* Galleries#toggleFirst: always(...) draws the answer, and a failure too.    *)

\* A broken Answered: the other models keep what they had.
AnsweredForOne(r) ==
    /\ req[r].kind = "toggle" /\ req[r].at = "answer"
    /\ shown' = IF req[r].tells THEN shown \cup {req[r].gallery} ELSE shown \ {req[r].gallery}
    /\ current' = req[r].calm
    /\ req' = [req EXCEPT ![r] = Idle]
    /\ UNCHANGED <<rows, history>>

Answered(r) ==
    /\ req[r].kind = "toggle" /\ req[r].at = "answer"
    /\ shown' = IF req[r].tells THEN {req[r].gallery} ELSE {}
    /\ current' = req[r].calm
    /\ req' = [req EXCEPT ![r] = Idle]
    /\ UNCHANGED <<rows, history>>

\* The request is lost at any point, or it is another browser's.
Unanswered(r) ==
    /\ req[r].kind = "toggle"
    /\ \/ shown' = {} /\ current' = FALSE
       \/ UNCHANGED <<shown, current>>
    /\ req' = [req EXCEPT ![r] = Idle]
    /\ UNCHANGED <<rows, history>>

-----------------------------------------------------------------------------
(* update                                                                    *)

Column(field) == IF field = "protected" THEN protected ELSE featured
After(form, field, g) == IF form.field = field THEN form.to ELSE g \in Column(field)

\* The row is read and the form assigned to it.
FindUpdated(r, g, scope, form) ==
    /\ req[r] = Idle /\ g \in live \cap scope
    /\ LET at == IF After(form, "featured", g) THEN "clear" ELSE "save"
           changed == IF form.to = (g \in Column(form.field)) THEN NoForm ELSE form
           drops == After(form, "protected", g) /\ g \in first
       IN req' = [req EXCEPT ![r] = Update(g, For(scope, at), at, changed, drops)]
    /\ UNCHANGED <<rows, shown, current, history>>

\* A broken ClearFeatured: the condition on the id is the wrong way round.
ClearFeaturedOwn(r) ==
    LET g == req[r].gallery IN
    /\ req[r].kind = "update" /\ req[r].at = "clear"
    /\ featured' = featured \ (live \cap req[r].scope \cap {g})
    /\ UNCHANGED <<live, trash, first, protected, shown, current, history>>
    /\ req' = [req EXCEPT ![r] = [@ EXCEPT !.at = "save", !.scope = {},
                                   !.alone = (Featured \ {g} \subseteq req[r].scope)]]

\* build_resource: the others are featured no longer, whatever becomes of this one.
ClearFeatured(r) ==
    LET g == req[r].gallery IN
    /\ req[r].kind = "update" /\ req[r].at = "clear"
    /\ featured' = featured \ ((live \cap req[r].scope) \ {g})
    /\ UNCHANGED <<live, trash, first, protected, shown, current, history>>
    /\ req' = [req EXCEPT ![r] = [@ EXCEPT !.at = "save", !.scope = {},
                                           !.alone = (Featured \ {g} \subseteq req[r].scope)]]

\* Only the columns that differ from the row as it was read are written.
Written(column, field, q) ==
    IF q.form.field # field THEN column
    ELSE IF q.form.to THEN column \cup {q.gallery} ELSE column \ {q.gallery}

Features(q) == q.form = [field |-> "featured", to |-> TRUE]

Save(r) ==
    LET q == req[r] IN
    /\ q.kind = "update" /\ q.at = "save"
    /\ featured' = Written(featured, "featured", q)
    /\ protected' = Written(protected, "protected", q)
    /\ first' = IF q.drops THEN first \ {q.gallery} ELSE first
    /\ twoFeatured' = IF Features(q) THEN ~q.alone ELSE twoFeatured
    /\ loose' = StillLoose \cup {g \in {q.gallery} : Toggling(g)}
    /\ UNCHANGED <<live, trash, shown, twoFirst>>
    /\ Step(r, Idle, IF Features(q) THEN {"featured"} ELSE {})
    /\ Watch

\* Not valid, or not permitted: after the others have been cleared.
Refuse(r) ==
    /\ req[r].kind = "update" /\ req[r].at = "save"
    /\ req' = [req EXCEPT ![r] = Idle]
    /\ UNCHANGED <<rows, shown, current, history>>

-----------------------------------------------------------------------------
(* Requests of one statement that matters here.                              *)

\* The dialog of the list does not ask for a featured gallery.
Create(g, guarded) ==
    /\ g \notin live \cup trash
    /\ live' = live \cup {g}
    /\ protected' = IF guarded THEN protected \cup {g} ELSE protected
    /\ UNCHANGED <<trash, first, featured, req, shown, current, history>>

Delete(r, g) ==
    /\ req[r] = Idle /\ g \in live
    /\ live' = live \ {g} /\ trash' = trash \cup {g}
    /\ UNCHANGED <<first, featured, protected, shown, history>>
    /\ Step(r, Idle, {})
    /\ Watch

\* A broken Restore: the row stays in the trash.
RestoreKeepsStamp(r, g) ==
    /\ req[r] = Idle /\ g \in trash
    /\ live' = live \cup {g}
    /\ UNCHANGED <<trash, first, featured, protected, shown, history>>
    /\ Step(r, Idle, {})
    /\ Watch

Flagged(flag) == IF flag = "first" THEN first ELSE featured

\* An admin restores a gallery with the flags that it had.
Restore(r, g) ==
    /\ req[r] = Idle /\ g \in trash
    /\ live' = live \cup {g} /\ trash' = trash \ {g}
    /\ twoFirst' = (twoFirst \/ (g \in first /\ First # {}))
    /\ twoFeatured' = (twoFeatured \/ (g \in featured /\ Featured # {}))
    /\ UNCHANGED <<first, featured, protected, shown, loose>>
    /\ Step(r, Idle, {f \in {"first", "featured"} : g \in Flagged(f)})
    /\ Watch

-----------------------------------------------------------------------------
Init ==
    /\ live = {} /\ trash = {}
    /\ first = {} /\ featured = {} /\ protected = {}
    /\ req = [r \in Request |-> Idle]
    /\ shown = {} /\ current = TRUE
    /\ twoFirst = FALSE /\ twoFeatured = FALSE /\ loose = {}

Next ==
    \/ \E r \in Request, g \in Gallery, scope \in SUBSET Gallery :
           \/ FindToggled(r, g, scope)
           \/ \E form \in Form : FindUpdated(r, g, scope, form)
    \/ \E r \in Request :
           \/ Unset(r) \/ ClearFirst(r) \/ SetFirst(r)
           \/ Answered(r) \/ Unanswered(r)
           \/ ClearFeatured(r) \/ Save(r) \/ Refuse(r)
    \/ \E g \in Gallery, guarded \in BOOLEAN : Create(g, guarded)
    \/ \E r \in Request, g \in Gallery : Delete(r, g) \/ Restore(r, g)

Spec == Init /\ [][Next]_vars

-----------------------------------------------------------------------------
(* Properties.                                                               *)

Job ==
    [kind : {"toggle", "update"}, gallery : Gallery, scope : SUBSET Gallery,
     at : {"unset", "clear", "set", "answer", "save"}, alone : BOOLEAN, calm : BOOLEAN,
     tells : BOOLEAN, form : Form \cup {NoForm}, drops : BOOLEAN]

\* Types, and that a gallery is not in the trash and out of it.
TypeOK ==
    /\ live \subseteq Gallery /\ trash \subseteq Gallery \ live
    /\ first \subseteq live \cup trash
    /\ featured \subseteq live \cup trash
    /\ protected \subseteq live \cup trash
    /\ req \in [Request -> {Idle} \cup Job]
    /\ shown \subseteq Gallery /\ current \in BOOLEAN
    /\ twoFirst \in BOOLEAN /\ twoFeatured \in BOOLEAN
    /\ loose \subseteq Gallery

\* At most one gallery is first, unless two toggles have cleared and set in turns,
\* one could not see the gallery that was first, or the trash brought one back; and
\* the next toggle that nothing comes into makes it one again.
OneFirst == twoFirst \/ \A g, h \in First : g = h

\* At most one gallery is featured, with the same exceptions.
OneFeatured == twoFeatured \/ \A g, h \in Featured : g = h

\* The gallery that visitors see first needs no password and no invitation, unless a
\* toggle and an update of it have overlapped; and it is open again, or not first any
\* more, after the next request that clears its flag.
FirstIsOpen == First \cap protected \subseteq loose

\* The list shows the gallery that is first, once the answer to a toggle is drawn that
\* no other request has changed anything under.
ListShowsFirst == current /\ ~twoFirst => shown = First

=============================================================================
