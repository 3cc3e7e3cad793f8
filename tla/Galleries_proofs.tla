-------------------------- MODULE Galleries_proofs --------------------------
(***************************************************************************)
(* Proofs about Galleries for any number of galleries and of requests.      *)
(***************************************************************************)
EXTENDS Galleries, TLAPS

\* What is known of the request r.  The first two say what makes a request that is
\* alone safe; the next two why a gallery cannot become protected and first when no
\* toggle meets an update of it; the last three what a calm toggle is going to draw.
Fits(r) ==
    req[r] # Idle =>
    LET q == req[r]
        g == req[r].gallery
        toggle == req[r].kind = "toggle"
        update == req[r].kind = "update"
    IN
    /\ g \in live \cup trash
    /\ toggle /\ q.tells => q.at = "answer"
    /\ toggle /\ q.at = "set" /\ q.alone => First = {}
    /\ update /\ q.at = "save" /\ q.alone => Featured \subseteq {g}
    /\ toggle /\ q.at \in {"clear", "set"} /\ g \notin loose => g \notin protected
    /\ update /\ q.form = [field |-> "protected", to |-> TRUE] /\ g \in first /\ g \notin loose
       => q.drops
    /\ toggle /\ q.at = "unset" /\ q.calm => g \in First
    /\ toggle /\ q.at = "answer" /\ q.calm /\ q.tells => g \in First
    /\ toggle /\ q.at = "answer" /\ q.calm /\ ~q.tells /\ ~twoFirst => First = {}

\* The flags of galleries in the trash obey the rule as well: they may come back.
RowsFit == first \cap protected \subseteq loose

ListFits == current => shown \subseteq First

Inv ==
    /\ TypeOK /\ OneFirst /\ OneFeatured /\ RowsFit /\ ListFits /\ ListShowsFirst
    /\ \A r \in Request : Fits(r)

-----------------------------------------------------------------------------
(* Requests.                                                                 *)

\* A request under way has all the fields.
LEMMA Known ==
    ASSUME TypeOK, NEW r \in Request, req[r] # Idle
    PROVE  req[r] \in Job
BY DEF TypeOK

LEMMA KindKnown ==
    ASSUME TypeOK, NEW r \in Request, req[r].kind # "idle"
    PROVE  req[r] # Idle /\ req[r] \in Job
BY DEF TypeOK, Idle

\* What a step of another request may have done to the request s.
LEMMA Others ==
    ASSUME TypeOK, NEW s \in Request, NEW flags, req[s] # Idle,
           req'[s] = Aged(Met(req[s], flags))
    PROVE  /\ req'[s] \in Job
           /\ req'[s].kind = req[s].kind /\ req'[s].gallery = req[s].gallery
           /\ req'[s].at = req[s].at /\ req'[s].tells = req[s].tells
           /\ req'[s].form = req[s].form /\ req'[s].drops = req[s].drops
           /\ req'[s].alone => req[s].alone
           /\ req'[s].calm => req[s].calm
           /\ req'[s].calm /\ req[s].kind = "toggle" => First' = First
           /\ req'[s].alone /\ req[s].kind = "toggle" /\ req[s].at = "set" => "first" \notin flags
           /\ req'[s].alone /\ req[s].kind = "update" /\ req[s].at = "save"
              => "featured" \notin flags
<1> DEFINE q == req[s]
           p == Met(q, flags)
<1>1. q \in Job
  BY Known
<1>2. p = q \/ (p = [q EXCEPT !.alone = FALSE])
  BY DEF Met
<1>3. p \in Job /\ p.kind = q.kind
  BY <1>1, <1>2 DEF Job
<1>4. req'[s] = p \/ req'[s] = [p EXCEPT !.calm = FALSE]
  BY DEF Aged
<1>5. req'[s].calm /\ q.kind = "toggle" => First' = First
  BY <1>3, <1>4, <1>1 DEF Aged, Job
<1>6. /\ p.alone /\ q.kind = "toggle" /\ q.at = "set" => "first" \notin flags
      /\ p.alone /\ q.kind = "update" /\ q.at = "save" => "featured" \notin flags
  BY <1>1 DEF Met, Job
<1>7. req'[s] \in Job /\ req'[s].alone = p.alone
  BY <1>3, <1>4 DEF Job
<1>8. QED
  BY <1>1, <1>2, <1>3, <1>4, <1>5, <1>6, <1>7 DEF Job

\* A request without work has none after a step of another one.
LEMMA OthersIdle ==
    ASSUME NEW s \in Request, NEW flags, req[s] = Idle, req'[s] = Aged(Met(req[s], flags))
    PROVE  req'[s] = Idle
BY DEF Aged, Met, Idle

\* What a step does to the rows, for the requests that it does not belong to.
Mild(flags) ==
    /\ "first" \in flags \/ First' \subseteq First
    /\ "featured" \in flags \/ Featured' \subseteq Featured
    /\ \A g \in live \cup trash : g \in protected' /\ g \notin protected /\ Toggling(g) => g \in loose'
    /\ \A g \in first' \ first : Open("update", g) => g \in loose'
    /\ \A g \in loose \ loose' : g \notin first' /\ ~Toggling(g)
    /\ live \cup trash \subseteq live' \cup trash'
    /\ twoFirst /\ ~twoFirst' => First = {}

LEMMA OthersFit ==
    ASSUME TypeOK, NEW s \in Request, NEW flags, Fits(s), Mild(flags),
           req'[s] = Aged(Met(req[s], flags))
    PROVE  Fits(s)'
<1>1. CASE req[s] = Idle
  BY <1>1, OthersIdle DEF Fits
<1>2. CASE req[s] # Idle
  <2> DEFINE q == req[s]
             n == req'[s]
  <2>1. /\ n \in Job /\ q \in Job
        /\ n.kind = q.kind /\ n.gallery = q.gallery /\ n.at = q.at
        /\ n.tells = q.tells /\ n.form = q.form /\ n.drops = q.drops
        /\ n.alone => q.alone
        /\ n.calm => q.calm
        /\ n.calm /\ q.kind = "toggle" => First' = First
        /\ n.alone /\ q.kind = "toggle" /\ q.at = "set" => "first" \notin flags
        /\ n.alone /\ q.kind = "update" /\ q.at = "save" => "featured" \notin flags
    BY <1>2, Others, Known
  <2>2. n.gallery \in live' \cup trash'
    BY <2>1, <1>2 DEF Fits, Mild
  <2>3. n.kind = "toggle" /\ n.at = "set" /\ n.alone => First' = {}
    BY <2>1, <1>2 DEF Fits, Mild
  <2>4. n.kind = "update" /\ n.at = "save" /\ n.alone => Featured' \subseteq {n.gallery}
    BY <2>1, <1>2 DEF Fits, Mild
  <2>5. n.kind = "toggle" /\ n.at \in {"clear", "set"} /\ n.gallery \notin loose'
        => n.gallery \notin protected'
    BY <2>1, <1>2 DEF Fits, Mild, Toggling
  <2>6. /\ n.kind = "update" /\ n.form = [field |-> "protected", to |-> TRUE]
        /\ n.gallery \in first' /\ n.gallery \notin loose'
        => n.drops
    BY <2>1, <1>2 DEF Fits, Mild, Open
  <2>7. n.kind = "toggle" /\ n.at = "unset" /\ n.calm => n.gallery \in First'
    BY <2>1, <1>2 DEF Fits
  <2>8. n.kind = "toggle" /\ n.at = "answer" /\ n.calm /\ n.tells => n.gallery \in First'
    BY <2>1, <1>2 DEF Fits
  <2>9. n.kind = "toggle" /\ n.at = "answer" /\ n.calm /\ ~n.tells /\ ~twoFirst' => First' = {}
    BY <2>1, <1>2 DEF Fits, Mild
  <2>10. n.kind = "toggle" /\ n.tells => n.at = "answer"
    BY <2>1, <1>2 DEF Fits
  <2>11. QED
    BY <2>10, <2>2, <2>3, <2>4, <2>5, <2>6, <2>7, <2>8, <2>9 DEF Fits
<1>3. QED
  BY <1>1, <1>2

\* Nothing becomes of the others in a step that leaves First.
LEMMA OthersStay ==
    ASSUME NEW q, First' = First
    PROVE  q = Aged(Met(q, {}))
BY DEF Aged, Met

\* The others, after a step of r.
LEMMA StepOthers ==
    ASSUME Inv, NEW r \in Request, NEW now, NEW flags, Mild(flags), Step(r, now, flags)
    PROVE  /\ req'[r] = now
           /\ \A s \in Request \ {r} : Fits(s)' /\ (req'[s] \in {Idle} \cup Job)
           /\ DOMAIN req' = Request
<1>1. TypeOK /\ \A s \in Request : Fits(s)
  BY DEF Inv
<1>2. \A s \in Request \ {r} : req'[s] = Aged(Met(req[s], flags))
  BY DEF Step
<1>3. ASSUME NEW s \in Request \ {r} PROVE Fits(s)'
  BY <1>1, <1>2, OthersFit
<1>4. ASSUME NEW s \in Request \ {r} PROVE req'[s] \in {Idle} \cup Job
  BY <1>1, <1>2, Others, OthersIdle
<1>5. QED
  BY <1>3, <1>4 DEF Step

\* The others, after a step of r that does not ask what they are doing.
LEMMA ExceptOthers ==
    ASSUME Inv, NEW r \in Request, NEW now, Mild({}), First' = First,
           req' = [req EXCEPT ![r] = now]
    PROVE  /\ req'[r] = now
           /\ \A s \in Request \ {r} : Fits(s)' /\ (req'[s] \in {Idle} \cup Job)
           /\ DOMAIN req' = Request
<1>1. \A s \in Request : req[s] = Aged(Met(req[s], {}))
  BY OthersStay
<1>2. req' = [q \in Request |-> IF q = r THEN now ELSE req[q]]
  BY DEF Inv, TypeOK
<1>3. Step(r, now, {})
  BY <1>1, <1>2 DEF Step
<1>4. QED
  BY <1>3, StepOthers

\* What is left to show of a step once the others fit.
LEMMA Together ==
    ASSUME NEW r \in Request, NEW now,
           \A s \in Request \ {r} : Fits(s)' /\ (req'[s] \in {Idle} \cup Job),
           req' = [s \in Request |-> req'[s]],
           req'[r] = now, now \in {Idle} \cup Job, Fits(r)'
    PROVE  req' \in [Request -> {Idle} \cup Job] /\ \A s \in Request : Fits(s)'
OBVIOUS

LEMMA InitInv == Init => Inv
BY DEF Init, Inv, TypeOK, OneFirst, OneFeatured, RowsFit, ListFits, ListShowsFirst, Fits,
       First, Featured

-----------------------------------------------------------------------------
(* One lemma per action.                                                     *)

LEMMA FindToggledStep ==
    ASSUME Inv, NEW r \in Request, NEW g \in Gallery, NEW scope \in SUBSET Gallery,
           FindToggled(r, g, scope)
    PROVE  Inv'
<1> DEFINE now == Toggle(g, For(scope, Check(g)), Check(g))
<1> USE DEF FindToggled, rows, history
<1>1. Check(g) \in {"unset", "clear", "answer"}
  BY DEF Check
<1>2. now \in Job
  BY <1>1 DEF Toggle, For, Job
<1>3. Mild({}) /\ First' = First /\ Featured' = Featured
  BY DEF Mild, First, Featured
<1>4. /\ req'[r] = now
      /\ \A s \in Request \ {r} : Fits(s)' /\ (req'[s] \in {Idle} \cup Job)
      /\ DOMAIN req' = Request
  BY <1>3, ExceptOthers
<1>5. Fits(r)'
  <2>1. /\ now.kind = "toggle" /\ now.gallery = g /\ now.at = Check(g) /\ now.alone = FALSE
        /\ now.tells = FALSE /\ now.calm = (Check(g) # "answer")
    BY DEF Toggle
  <2>2. Check(g) = "clear" => g \notin protected
    BY DEF Check
  <2>3. Check(g) = "unset" => g \in First
    BY DEF Check, First, Inv
  <2> HIDE DEF now
  <2>4. QED
    BY <1>1, <1>4, <2>1, <2>2, <2>3 DEF Fits, First
<1>6. req' \in [Request -> {Idle} \cup Job] /\ \A s \in Request : Fits(s)'
  BY <1>2, <1>4, <1>5
<1>7. QED
  BY <1>3, <1>6 DEF Inv, TypeOK, OneFirst, OneFeatured, RowsFit, ListFits, ListShowsFirst

LEMMA UnsetStep ==
    ASSUME Inv, NEW r \in Request, Unset(r)
    PROVE  Inv'
<1> DEFINE q == req[r]
           now == [q EXCEPT !.at = "answer"]
<1> USE DEF Unset, Watch, history
<1>1. q \in Job /\ q # Idle /\ q.kind = "toggle"
  BY KindKnown DEF Inv
<1>2. First' = First \ {q.gallery} /\ Featured' = Featured
  BY DEF First, Featured
<1>0. /\ loose' \subseteq loose
      /\ \A g \in loose \ loose' : g \notin first' /\ ~Toggling(g)
  BY DEF StillLoose
<1>3. Mild({})
  BY <1>0, <1>2 DEF Mild
<1>4. /\ now \in Job /\ now.kind = "toggle" /\ now.at = "answer"
      /\ now.gallery = q.gallery /\ now.calm = q.calm /\ now.tells = q.tells
  BY <1>1 DEF Job
<1>5. /\ req'[r] = now
      /\ \A s \in Request \ {r} : Fits(s)' /\ (req'[s] \in {Idle} \cup Job)
      /\ DOMAIN req' = Request
  BY <1>3, StepOthers
<1>6. q.tells = FALSE
  BY <1>1 DEF Inv, Fits, Job
<1>7. ASSUME q.calm, ~twoFirst PROVE First' = {}
  BY <1>7, <1>2, <1>1 DEF Inv, Fits, OneFirst
<1>8. Fits(r)'
  <2> HIDE DEF now
  <2>1. QED
    BY <1>1, <1>4, <1>5, <1>6, <1>7 DEF Fits, Inv
<1>9. req' \in [Request -> {Idle} \cup Job] /\ \A s \in Request : Fits(s)'
  BY <1>4, <1>5, <1>8, Together DEF Step
<1>10. QED
  BY <1>0, <1>1, <1>2, <1>9 DEF Inv, TypeOK, OneFirst, OneFeatured, RowsFit, ListFits, ListShowsFirst

LEMMA ClearFirstStep ==
    ASSUME Inv, NEW r \in Request, ClearFirst(r)
    PROVE  Inv'
<1> DEFINE q == req[r]
           lone == First \subseteq q.scope
           now == [q EXCEPT !.at = "set", !.scope = {}, !.alone = lone]
<1> USE DEF ClearFirst, Watch, history
<1>1. q \in Job /\ q # Idle /\ q.kind = "toggle" /\ q.at = "clear"
  BY KindKnown DEF Inv
<1>2. First' = First \ q.scope /\ Featured' = Featured
  BY DEF First, Featured
<1>0. /\ loose' \subseteq loose
      /\ \A g \in loose \ loose' : g \notin first' /\ ~Toggling(g)
  BY DEF StillLoose
<1>3. Mild({})
  BY <1>0, <1>2 DEF Mild
<1>4. /\ now \in Job /\ now.kind = "toggle" /\ now.at = "set" /\ now.alone = lone
      /\ now.gallery = q.gallery /\ now.tells = q.tells
  BY <1>1 DEF Job
<1>5. /\ req'[r] = now
      /\ \A s \in Request \ {r} : Fits(s)' /\ (req'[s] \in {Idle} \cup Job)
      /\ DOMAIN req' = Request
  BY <1>3, StepOthers
<1>6. Fits(r)'
  <2>1. now.alone => First' = {}
    BY <1>2, <1>4
  <2>2. q.gallery \notin loose' => q.gallery \notin protected'
    BY <1>0, <1>1 DEF Fits, Inv, Toggling
  <2>3. q.gallery \in live' \cup trash' /\ ~q.tells
    BY <1>1 DEF Fits, Inv, Job
  <2> HIDE DEF now, lone, ClearFirst
  <2>4. QED
    BY <1>4, <1>5, <2>1, <2>2, <2>3 DEF Fits
<1>7. req' \in [Request -> {Idle} \cup Job] /\ \A s \in Request : Fits(s)'
  BY <1>4, <1>5, <1>6, Together DEF Step
<1>8. QED
  BY <1>0, <1>2, <1>7 DEF Inv, TypeOK, OneFirst, OneFeatured, RowsFit, ListFits, ListShowsFirst

LEMMA SetFirstStep ==
    ASSUME Inv, NEW r \in Request, SetFirst(r)
    PROVE  Inv'
<1> DEFINE q == req[r]
           g == q.gallery
           calm == q.calm /\ g \in live
           now == [q EXCEPT !.at = "answer", !.tells = TRUE, !.alone = FALSE, !.calm = calm]
<1> USE DEF SetFirst, Watch, history
<1>1. q \in Job /\ q # Idle /\ q.kind = "toggle" /\ q.at = "set" /\ g \in live \cup trash
  BY KindKnown DEF Inv, Fits
<1>2. /\ First' = First \cup ({g} \cap live) /\ Featured' = Featured
      /\ q.alone => First = {}
  BY <1>1 DEF First, Featured, Inv, Fits
<1>3. loose \subseteq loose' /\ (Open("update", g) => g \in loose')
  OBVIOUS
<1>4. Mild({"first"})
  BY <1>1, <1>2, <1>3 DEF Mild, Job
<1>5. /\ now \in Job /\ now.kind = "toggle" /\ now.at = "answer" /\ now.tells
      /\ now.gallery = g /\ now.calm = calm
  BY <1>1 DEF Job
<1>6. /\ req'[r] = now
      /\ \A s \in Request \ {r} : Fits(s)' /\ (req'[s] \in {Idle} \cup Job)
      /\ DOMAIN req' = Request
  BY <1>4, StepOthers
<1>7. Fits(r)'
  <2> HIDE DEF now
  <2>1. QED
    BY <1>1, <1>2, <1>5, <1>6 DEF Fits
<1>8. req' \in [Request -> {Idle} \cup Job] /\ \A s \in Request : Fits(s)'
  BY <1>5, <1>6, <1>7, Together DEF Step
<1>9. TypeOK'
  BY <1>1, <1>8 DEF Inv, TypeOK, Job
<1>10. RowsFit'
  BY <1>1, <1>3 DEF Inv, RowsFit, Fits
<1>11. OneFirst' /\ ListFits' /\ ListShowsFirst'
  BY <1>1, <1>2 DEF Inv, OneFirst, ListFits, ListShowsFirst, Job
<1>12. OneFeatured'
  BY <1>2 DEF Inv, OneFeatured
<1>13. QED
  BY <1>8, <1>9, <1>10, <1>11, <1>12 DEF Inv

LEMMA AnsweredStep ==
    ASSUME Inv, NEW r \in Request, Answered(r)
    PROVE  Inv'
<1> DEFINE q == req[r]
<1> USE DEF Answered, rows, history
<1>1. q \in Job /\ q # Idle /\ q.kind = "toggle"
  BY KindKnown DEF Inv
<1>2. Mild({}) /\ First' = First /\ Featured' = Featured
  BY DEF Mild, First, Featured
<1>3. /\ req'[r] = Idle
      /\ \A s \in Request \ {r} : Fits(s)' /\ (req'[s] \in {Idle} \cup Job)
      /\ DOMAIN req' = Request
  BY <1>2, ExceptOthers
<1>4. Fits(r)'
  BY <1>3 DEF Fits
<1>5. req' \in [Request -> {Idle} \cup Job] /\ \A s \in Request : Fits(s)'
  BY <1>3, <1>4, Together
<1>6. TypeOK'
  BY <1>1, <1>5 DEF Inv, TypeOK, Job
<1>7. ListFits' /\ ListShowsFirst'
  <2>1. CASE q.calm /\ q.tells
    BY <2>1, <1>1, <1>2 DEF Inv, Fits, OneFirst, ListFits, ListShowsFirst
  <2>2. CASE q.calm /\ ~q.tells
    BY <2>2, <1>1, <1>2 DEF Inv, Fits, ListFits, ListShowsFirst
  <2>3. CASE ~q.calm
    BY <2>3 DEF ListFits, ListShowsFirst
  <2>4. QED
    BY <2>1, <2>2, <2>3
<1>8. QED
  BY <1>2, <1>5, <1>6, <1>7 DEF Inv, OneFirst, OneFeatured, RowsFit

LEMMA UnansweredStep ==
    ASSUME Inv, NEW r \in Request, Unanswered(r)
    PROVE  Inv'
<1> USE DEF Unanswered, rows, history
<1>1. Mild({}) /\ First' = First /\ Featured' = Featured
  BY DEF Mild, First, Featured
<1>2. /\ req'[r] = Idle
      /\ \A s \in Request \ {r} : Fits(s)' /\ (req'[s] \in {Idle} \cup Job)
      /\ DOMAIN req' = Request
  BY <1>1, ExceptOthers
<1>3. Fits(r)'
  BY <1>2 DEF Fits
<1>4. req' \in [Request -> {Idle} \cup Job] /\ \A s \in Request : Fits(s)'
  BY <1>2, <1>3, Together
<1>5. (shown' = {} /\ current' = FALSE) \/ (shown' = shown /\ current' = current)
  OBVIOUS
<1>6. TypeOK'
  BY <1>4, <1>5 DEF Inv, TypeOK
<1>7. ListFits' /\ ListShowsFirst'
  BY <1>1, <1>5 DEF Inv, ListFits, ListShowsFirst
<1>8. QED
  BY <1>1, <1>4, <1>6, <1>7 DEF Inv, OneFirst, OneFeatured, RowsFit

LEMMA FindUpdatedStep ==
    ASSUME Inv, NEW r \in Request, NEW g \in Gallery, NEW scope \in SUBSET Gallery,
           NEW form \in Form, FindUpdated(r, g, scope, form)
    PROVE  Inv'
<1> DEFINE at == IF After(form, "featured", g) THEN "clear" ELSE "save"
           changed == IF form.to = (g \in Column(form.field)) THEN NoForm ELSE form
           drops == After(form, "protected", g) /\ g \in first
           now == Update(g, For(scope, at), at, changed, drops)
<1> USE DEF FindUpdated, rows, history
<1>1. now \in Job
  <2>1. drops \in BOOLEAN
    BY DEF After, Form
  <2>2. at \in {"clear", "save"} /\ changed \in Form \cup {NoForm} /\ For(scope, at) \in SUBSET Gallery
    BY DEF For
  <2> HIDE DEF at, changed, drops
  <2>3. QED
    BY <2>1, <2>2 DEF Update, Job
<1>2. Mild({}) /\ First' = First /\ Featured' = Featured
  BY DEF Mild, First, Featured
<1>3. /\ req'[r] = now
      /\ \A s \in Request \ {r} : Fits(s)' /\ (req'[s] \in {Idle} \cup Job)
      /\ DOMAIN req' = Request
  BY <1>2, ExceptOthers
<1>4. /\ now.kind = "update" /\ now.gallery = g /\ now.alone = FALSE
      /\ now.form = changed /\ now.drops = drops
  BY DEF Update
<1>5. changed = [field |-> "protected", to |-> TRUE] /\ g \in first => drops
  BY DEF After, NoForm
<1>6. Fits(r)'
  <2> HIDE DEF now, changed, drops
  <2>1. QED
    BY <1>3, <1>4, <1>5 DEF Fits
<1>7. req' \in [Request -> {Idle} \cup Job] /\ \A s \in Request : Fits(s)'
  <2> HIDE DEF now
  <2>1. QED
    BY <1>1, <1>3, <1>6, Together
<1>8. QED
  BY <1>2, <1>7 DEF Inv, TypeOK, OneFirst, OneFeatured, RowsFit, ListFits, ListShowsFirst

LEMMA ClearFeaturedStep ==
    ASSUME Inv, NEW r \in Request, ClearFeatured(r)
    PROVE  Inv'
<1> DEFINE q == req[r]
           g == q.gallery
           lone == Featured \ {g} \subseteq q.scope
           now == [q EXCEPT !.at = "save", !.scope = {}, !.alone = lone]
<1> USE DEF ClearFeatured, history
<1>1. q \in Job /\ q # Idle /\ q.kind = "update"
  BY KindKnown DEF Inv
<1>2. First' = First /\ Featured' = Featured \ (q.scope \ {g})
  BY DEF First, Featured
<1>3. Mild({})
  BY <1>2 DEF Mild
<1>4. /\ now \in Job /\ now.kind = "update" /\ now.alone = lone
      /\ now.gallery = g /\ now.form = q.form /\ now.drops = q.drops
  BY <1>1 DEF Job
<1>5. /\ req'[r] = now
      /\ \A s \in Request \ {r} : Fits(s)' /\ (req'[s] \in {Idle} \cup Job)
      /\ DOMAIN req' = Request
  BY <1>2, <1>3, ExceptOthers
<1>6. Fits(r)'
  <2>1. lone => Featured' \subseteq {g}
    BY <1>2
  <2>2. /\ g \in live \cup trash
        /\ q.form = [field |-> "protected", to |-> TRUE] /\ g \in first /\ g \notin loose => q.drops
    BY <1>1 DEF Fits, Inv
  <2>3. live' = live /\ trash' = trash /\ first' = first /\ loose' = loose
    OBVIOUS
  <2> HIDE DEF now, lone, ClearFeatured
  <2>4. QED
    BY <1>4, <1>5, <2>1, <2>2, <2>3 DEF Fits
<1>7. req' \in [Request -> {Idle} \cup Job] /\ \A s \in Request : Fits(s)'
  BY <1>4, <1>5, <1>6, Together
<1>8. QED
  BY <1>2, <1>7 DEF Inv, TypeOK, OneFirst, OneFeatured, RowsFit, ListFits, ListShowsFirst

LEMMA SaveStep ==
    ASSUME Inv, NEW r \in Request, Save(r)
    PROVE  Inv'
<1> DEFINE q == req[r]
           g == q.gallery
           flags == IF Features(q) THEN {"featured"} ELSE {}
<1> USE DEF Save, Watch, history
<1>1. q \in Job /\ q # Idle /\ q.kind = "update" /\ q.at = "save" /\ g \in live \cup trash
  BY KindKnown DEF Inv, Fits
<1>2. First' \subseteq First
  BY DEF First
<1>3. /\ ~Features(q) => Featured' \subseteq Featured
      /\ Features(q) => featured' = featured \cup {g}
      /\ Featured' \subseteq Featured \cup {g}
  <2>1. CASE q.form.field # "featured"
    BY <2>1 DEF Featured, Written, Features
  <2>2. CASE q.form.field = "featured" /\ q.form.to = FALSE
    BY <2>2 DEF Featured, Written, Features
  <2>3. CASE q.form.field = "featured" /\ q.form.to = TRUE
    <3>1. featured' = featured \cup {g}
      BY <2>3 DEF Written
    <3>2. q.form \in Form
      BY <1>1, <2>3 DEF Job, NoForm
    <3>3. Features(q)
      BY <2>3, <3>2 DEF Features, Form
    <3>4. QED
      BY <3>1, <3>3 DEF Featured
  <2>4. q.form.field = "featured" => q.form \in Form
    BY <1>1 DEF Job, NoForm
  <2>5. q.form \in Form => q.form.to \in BOOLEAN
    BY DEF Form
  <2>6. QED
    BY <2>1, <2>2, <2>3, <2>4, <2>5
<1>4. Features(q) /\ q.alone => Featured' \subseteq {g}
  BY <1>1, <1>3 DEF Inv, Fits
<1>5. /\ protected' \subseteq protected \cup {g}
      /\ g \in protected' => g \in protected \/ q.form = [field |-> "protected", to |-> TRUE]
  BY <1>1 DEF Written, Job, Form, NoForm
<1>6. /\ \A h \in loose \ loose' : h \notin first' /\ ~Toggling(h)
      /\ Toggling(g) => g \in loose'
  BY DEF StillLoose
<1>7. Mild(flags)
  BY <1>2, <1>3, <1>5, <1>6 DEF Mild
<1>8. /\ req'[r] = Idle
      /\ \A s \in Request \ {r} : Fits(s)' /\ (req'[s] \in {Idle} \cup Job)
      /\ DOMAIN req' = Request
  BY <1>7, StepOthers
<1>9. Fits(r)'
  BY <1>8 DEF Fits
<1>10. req' \in [Request -> {Idle} \cup Job] /\ \A s \in Request : Fits(s)'
  BY <1>8, <1>9, Together DEF Step
<1>11. TypeOK'
  <2>1. featured' \subseteq live \cup trash /\ protected' \subseteq live \cup trash
    BY <1>1, <1>5 DEF Inv, TypeOK, Written
  <2>2. twoFeatured' \in BOOLEAN
    BY <1>1 DEF Inv, TypeOK, Job
  <2>3. QED
    BY <1>1, <1>10, <2>1, <2>2 DEF Inv, TypeOK, Job, StillLoose
<1>12. RowsFit'
  BY <1>1, <1>5, <1>6 DEF Inv, RowsFit, Fits
<1>13. OneFirst' /\ ListFits' /\ ListShowsFirst'
  BY <1>2 DEF Inv, OneFirst, ListFits, ListShowsFirst
<1>14. OneFeatured'
  BY <1>3, <1>4 DEF Inv, OneFeatured
<1>15. QED
  BY <1>10, <1>11, <1>12, <1>13, <1>14 DEF Inv

LEMMA RefuseStep ==
    ASSUME Inv, NEW r \in Request, Refuse(r)
    PROVE  Inv'
<1> USE DEF Refuse, rows, history
<1>1. Mild({}) /\ First' = First /\ Featured' = Featured
  BY DEF Mild, First, Featured
<1>2. /\ req'[r] = Idle
      /\ \A s \in Request \ {r} : Fits(s)' /\ (req'[s] \in {Idle} \cup Job)
      /\ DOMAIN req' = Request
  BY <1>1, ExceptOthers
<1>3. Fits(r)'
  BY <1>2 DEF Fits
<1>4. req' \in [Request -> {Idle} \cup Job] /\ \A s \in Request : Fits(s)'
  BY <1>2, <1>3, Together
<1>5. QED
  BY <1>1, <1>4 DEF Inv, TypeOK, OneFirst, OneFeatured, RowsFit, ListFits, ListShowsFirst

LEMMA CreateStep ==
    ASSUME Inv, NEW g \in Gallery, NEW guarded \in BOOLEAN, Create(g, guarded)
    PROVE  Inv'
<1> USE DEF Create, history
<1>1. g \notin first \cup featured \cup live \cup trash
  BY DEF Inv, TypeOK
<1>2. First' = First /\ Featured' = Featured
  BY <1>1 DEF First, Featured
<1>3. Mild({})
  BY <1>1, <1>2 DEF Mild
<1>4. ASSUME NEW s \in Request PROVE Fits(s)'
  BY <1>2, <1>3, OthersStay, OthersFit DEF Inv
<1>5. QED
  BY <1>1, <1>2, <1>4 DEF Inv, TypeOK, OneFirst, OneFeatured, RowsFit, ListFits, ListShowsFirst

LEMMA DeleteStep ==
    ASSUME Inv, NEW r \in Request, NEW g \in Gallery, Delete(r, g)
    PROVE  Inv'
<1> USE DEF Delete, Watch, history
<1>1. First' = First \ {g} /\ Featured' = Featured \ {g}
  BY DEF First, Featured
<1>2. Mild({})
  BY <1>1 DEF Mild
<1>3. /\ req'[r] = Idle
      /\ \A s \in Request \ {r} : Fits(s)' /\ (req'[s] \in {Idle} \cup Job)
      /\ DOMAIN req' = Request
  BY <1>2, StepOthers
<1>4. Fits(r)'
  BY <1>3 DEF Fits
<1>5. req' \in [Request -> {Idle} \cup Job] /\ \A s \in Request : Fits(s)'
  BY <1>3, <1>4, Together DEF Step
<1>6. QED
  BY <1>1, <1>5 DEF Inv, TypeOK, OneFirst, OneFeatured, RowsFit, ListFits, ListShowsFirst

LEMMA RestoreStep ==
    ASSUME Inv, NEW r \in Request, NEW g \in Gallery, Restore(r, g)
    PROVE  Inv'
<1> DEFINE flags == {f \in {"first", "featured"} : g \in Flagged(f)}
<1> USE DEF Restore, Watch, history
<1>1. First' = First \cup (first \cap {g}) /\ Featured' = Featured \cup (featured \cap {g})
  BY DEF First, Featured
<1>2. ("first" \in flags <=> g \in first) /\ ("featured" \in flags <=> g \in featured)
  BY DEF Flagged
<1>3. Mild(flags)
  <2> HIDE DEF flags
  <2>1. QED
    BY <1>1, <1>2 DEF Mild
<1>4. /\ req'[r] = Idle
      /\ \A s \in Request \ {r} : Fits(s)' /\ (req'[s] \in {Idle} \cup Job)
      /\ DOMAIN req' = Request
  BY <1>3, StepOthers
<1>5. Fits(r)'
  BY <1>4 DEF Fits
<1>6. req' \in [Request -> {Idle} \cup Job] /\ \A s \in Request : Fits(s)'
  BY <1>4, <1>5, Together DEF Step
<1>7. TypeOK'
  BY <1>6 DEF Inv, TypeOK
<1>8. OneFirst' /\ OneFeatured'
  BY <1>1 DEF Inv, OneFirst, OneFeatured
<1>9. ListFits' /\ ListShowsFirst' /\ RowsFit'
  BY <1>1 DEF Inv, ListFits, ListShowsFirst, RowsFit
<1>10. QED
  BY <1>6, <1>7, <1>8, <1>9 DEF Inv

LEMMA StepInv == Inv /\ [Next]_vars => Inv'
<1> SUFFICES ASSUME Inv, [Next]_vars PROVE Inv'
  OBVIOUS
<1>1. CASE Next
  BY <1>1, FindToggledStep, FindUpdatedStep, UnsetStep, ClearFirstStep, SetFirstStep,
     AnsweredStep, UnansweredStep, ClearFeaturedStep, SaveStep, RefuseStep, CreateStep,
     DeleteStep, RestoreStep DEF Next
<1>2. CASE UNCHANGED vars
  <2>1. First' = First /\ Featured' = Featured
    BY <1>2 DEF vars, rows, First, Featured
  <2>2. \A s \in Request : Fits(s)'
    BY <1>2, <2>1 DEF vars, rows, history, Inv, Fits
  <2>3. QED
    BY <1>2, <2>1, <2>2 DEF vars, rows, history, Inv, TypeOK, OneFirst, OneFeatured, RowsFit,
       ListFits, ListShowsFirst
<1>3. QED
  BY <1>1, <1>2

LEMMA Invariance == Spec => []Inv
BY InitInv, StepInv, PTL DEF Spec

-----------------------------------------------------------------------------
(* Theorems.                                                                 *)

\* The variables keep their types; no gallery is in the trash and out of it.
THEOREM TypeCorrect == Spec => []TypeOK
<1>1. Inv => TypeOK
  BY DEF Inv
<1>2. QED
  BY <1>1, Invariance, PTL

\* toggle_first keeps one first gallery at most, as long as no other gallery became
\* first between its update_all and its update_column.
THEOREM OneFirstCorrect == Spec => []OneFirst
<1>1. Inv => OneFirst
  BY DEF Inv
<1>2. QED
  BY <1>1, Invariance, PTL

\* An update of a featured gallery keeps it the only one, with the same condition.
THEOREM OneFeaturedCorrect == Spec => []OneFeatured
<1>1. Inv => OneFeatured
  BY DEF Inv
<1>2. QED
  BY <1>1, Invariance, PTL

\* A protected gallery is not first unless a toggle and an update of it overlapped.
THEOREM FirstIsOpenCorrect == Spec => []FirstIsOpen
<1>1. Inv => FirstIsOpen
  BY DEF Inv, RowsFit, FirstIsOpen, First
<1>2. QED
  BY <1>1, Invariance, PTL

\* What the list draws from the answer of an undisturbed toggle is what is first.
THEOREM ListShowsFirstCorrect == Spec => []ListShowsFirst
<1>1. Inv => ListShowsFirst
  BY DEF Inv
<1>2. QED
  BY <1>1, Invariance, PTL
=============================================================================
