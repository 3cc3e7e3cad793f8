-------------------------- MODULE SortQueue_proofs --------------------------
(***************************************************************************)
(* Proofs about SortQueue for any number of drags and failures: the flags   *)
(* that beforeClose reads tell the truth, and every step of the dialog is a *)
(* step of LatestOrder or leaves it alone.                                  *)
(***************************************************************************)
EXTENDS SortQueue, TLAPS

\* One request at a time: it carries a newer list than the table, and no
\* answer is on the way unless the table holds its list.
OneRequest ==
    /\ ~busy => wire = {} /\ answers = {}
    /\ \A v, w \in wire \cup answers : v = w
    /\ \A v \in wire : saved < v /\ v <= drags
    /\ \A v \in answers : saved = v

\* What waits is the last list, and a timer or the pending flag stands for it;
\* when nothing waits, the last list was sent.
NothingForgotten ==
    /\ next # 0 => next = drags /\ saved < next /\ (pending \/ fresh > 0)
    /\ next = 0 /\ ~busy => saved = drags
    /\ \A v \in wire : next # 0 => v < next
    /\ \A v \in wire \cup answers : next = 0 => v = drags

Inv == TypeOK /\ OneRequest /\ NothingForgotten

LEMMA SendStep ==
    ASSUME Inv, NEW left \in Nat, Send(left), fresh' \in Nat,
           fresh' + left <= drags,
           UNCHANGED <<drags, answers, saved, open, failures>>
    PROVE  Inv'
<1> USE BoundsAssumption DEF Inv, TypeOK, OneRequest, NothingForgotten, Drag, Send
<1>1. CASE next = 0
  <2>1. busy' = FALSE /\ wire' = {} /\ answers' = {} /\ next' = 0 /\ saved = drags
    BY <1>1
  <2>2. QED
    BY <2>1
<1>2. CASE next # 0
  <2>1. busy' = TRUE /\ wire' = {next} /\ answers' = {} /\ next' = 0 /\ next = drags
    BY <1>2
  <2>2. next \in Drag /\ saved < next
    BY <1>2
  <2>3. TypeOK'
    <3>1. wire' \subseteq Drag
      BY <2>1, <2>2
    <3>2. next' \in 0..drags'
      BY <2>1
    <3>3. fresh' + retries' <= drags'
      OBVIOUS
    <3>4. QED
      BY <2>1, <3>1, <3>2, <3>3
  <2>4. OneRequest' /\ NothingForgotten'
    BY <2>1, <2>2
  <2>5. QED
    BY <2>3, <2>4
<1>3. QED
  BY <1>1, <1>2

LEMMA InvStep == Inv /\ [Next]_vars => Inv'
<1> SUFFICES ASSUME Inv, [Next]_vars PROVE Inv'
  OBVIOUS
<1> USE BoundsAssumption
    DEF Inv, TypeOK, OneRequest, NothingForgotten, Drag, flags, timers, server
<1>1. CASE HandleSorting
  BY <1>1 DEF HandleSorting
<1>2. CASE FreshTimer
  <2>1. CASE TryLater(retries)
    BY <1>2, <2>1 DEF FreshTimer, TryLater
  <2>2. CASE Send(retries)
    BY <1>2, <2>2, SendStep DEF FreshTimer
  <2>3. QED
    BY <1>2, <2>1, <2>2 DEF FreshTimer
<1>3. CASE RetryTimer
  <2>1. CASE TryLater(retries - 1)
    BY <1>3, <2>1 DEF RetryTimer, TryLater
  <2>2. CASE Send(retries - 1)
    BY <1>3, <2>2, SendStep DEF RetryTimer
  <2>3. QED
    BY <1>3, <2>1, <2>2 DEF RetryTimer
<1>4. CASE Close
  BY <1>4 DEF Close
<1>5. ASSUME NEW v \in Drag, Reorder(v) PROVE Inv'
  BY <1>5 DEF Reorder
<1>6. ASSUME NEW v \in Drag, Done(v) PROVE Inv'
  <2>1. saved = v /\ wire = {} /\ answers = {v}
    <3>1. v \in answers
      BY <1>6 DEF Done
    <3>2. saved = v /\ \A w \in wire \cup answers : w = v
      BY <3>1
    <3>3. \A w \in wire : FALSE
      BY <3>2
    <3>4. QED
      BY <3>1, <3>2, <3>3
  <2>2. busy' = FALSE /\ wire' = {} /\ answers' = {}
    BY <1>6, <2>1 DEF Done
  <2>3. UNCHANGED <<drags, next, pending, fresh, retries, saved, open, failures>>
    BY <1>6 DEF Done
  <2>4. TypeOK'
    BY <2>2, <2>3
  <2>5. OneRequest' /\ NothingForgotten'
    BY <2>1, <2>2, <2>3
  <2>6. QED
    BY <2>4, <2>5
<1>7. ASSUME NEW v \in Drag, Fail(v) PROVE Inv'
  BY <1>7 DEF Fail
<1>8. CASE UNCHANGED vars
  BY <1>8 DEF vars
<1>9. QED
  BY <1>1, <1>2, <1>3, <1>4, <1>5, <1>6, <1>7, <1>8 DEF Next

LEMMA InvCorrect == Spec => []Inv
<1>1. Init => Inv
  <2> SUFFICES ASSUME Init PROVE Inv
    OBVIOUS
  <2>1. TypeOK
    <3>1. busy \in BOOLEAN /\ pending \in BOOLEAN /\ open \in BOOLEAN
      BY DEF Init
    <3>2. drags = 0 /\ next = 0 /\ saved = 0 /\ fresh = 0 /\ retries = 0
      BY DEF Init
    <3>3. wire \subseteq Drag /\ answers \subseteq Drag /\ failures = 0
      BY DEF Init
    <3>4. drags \in 0..MaxDrags /\ next \in 0..drags /\ saved \in 0..drags
      BY <3>2, BoundsAssumption
    <3>5. failures \in 0..MaxFailures
      BY <3>3, BoundsAssumption
    <3>6. QED
      BY <3>1, <3>2, <3>3, <3>4, <3>5 DEF TypeOK
  <2>2. OneRequest /\ NothingForgotten
    BY DEF Init, OneRequest, NothingForgotten
  <2>3. QED
    BY <2>1, <2>2 DEF Inv
<1>2. QED
  BY <1>1, InvStep, PTL DEF Spec

\* The variables keep their types, and timers are never multiplied.
THEOREM TypeCorrect == Spec => []TypeOK
<1>1. Inv => TypeOK
  BY DEF Inv
<1>2. QED
  BY <1>1, InvCorrect, PTL

\* The close button asks whenever a list is not yet in the table.
THEOREM QuietCorrect == Spec => []QuietMeansSaved
<1>1. Inv => QuietMeansSaved
  BY DEF Inv, TypeOK, NothingForgotten, QuietMeansSaved
<1>2. QED
  BY <1>1, InvCorrect, PTL

\* The safety part of LatestListIsSaved: the table never goes back to an older
\* list, failures included.
THEOREM ImplementsLatest == Spec => Latest!Safety
<1>1. Init => Latest!Init
  BY DEF Init, Latest!Init
<1>2. Inv /\ [Next]_vars => [Latest!Next]_Latest!vars
  <2> SUFFICES ASSUME Inv, [Next]_vars PROVE [Latest!Next]_Latest!vars
    OBVIOUS
  <2> USE DEF Latest!Next, Latest!vars
  <2>1. CASE HandleSorting
    BY <2>1 DEF HandleSorting, Latest!Choose, server
  <2>2. CASE FreshTimer \/ RetryTimer \/ Close
    BY <2>2 DEF FreshTimer, RetryTimer, Close, server
  <2>3. ASSUME NEW v \in Drag, Reorder(v) PROVE Latest!Save
    <3>1. saved < v /\ v <= drags /\ saved \in Int /\ drags \in Int
      BY <2>3 DEF Reorder, Inv, OneRequest, TypeOK
    <3>2. v \in (saved + 1)..drags
      BY <3>1 DEF Drag
    <3>3. QED
      BY <2>3, <3>2 DEF Reorder, Latest!Save
  <2>4. ASSUME NEW v \in Drag, Done(v) \/ Fail(v) PROVE UNCHANGED <<drags, saved>>
    BY <2>4 DEF Done, Fail
  <2>5. CASE UNCHANGED vars
    BY <2>5 DEF vars, server
  <2>6. QED
    BY <2>1, <2>2, <2>3, <2>4, <2>5 DEF Next
<1>3. QED
  BY <1>1, <1>2, InvCorrect, PTL DEF Spec, Latest!Safety
-----------------------------------------------------------------------------
(* A failed request.                                                         *)

\* With one request at a time, what holds of busy is inductive.
LEMMA FailureStep == Inv /\ FailureIsFinal /\ [Next]_vars => FailureIsFinal'
<1> SUFFICES ASSUME Inv, FailureIsFinal, [Next]_vars PROVE FailureIsFinal'
  OBVIOUS
<1> USE DEF FailureIsFinal, flags, timers, server
<1>1. CASE HandleSorting \/ Close
  BY <1>1 DEF HandleSorting, Close
<1>2. CASE FreshTimer \/ RetryTimer
  <2>1. ASSUME NEW left, TryLater(left), UNCHANGED <<answers, failures>> PROVE FailureIsFinal'
    BY <2>1 DEF TryLater
  <2>2. ASSUME NEW left, Send(left), UNCHANGED <<answers, failures>> PROVE FailureIsFinal'
    BY <2>2 DEF Send
  <2>3. QED
    BY <1>2, <2>1, <2>2 DEF FreshTimer, RetryTimer
<1>3. ASSUME NEW v \in Drag, Reorder(v) PROVE FailureIsFinal'
  BY <1>3 DEF Reorder
<1>4. ASSUME NEW v \in Drag, Done(v) PROVE FailureIsFinal'
  <2>1. failures = 0 /\ wire \cup answers = {v}
    BY <1>4 DEF Done, Inv, OneRequest
  <2>2. v \notin wire
    BY <1>4 DEF Done, Inv, OneRequest, TypeOK
  <2>3. QED
    BY <1>4, <2>1, <2>2 DEF Done
<1>5. ASSUME NEW v \in Drag, Fail(v) PROVE FailureIsFinal'
  <2>1. failures = 0 /\ wire \cup answers = {v}
    BY <1>5 DEF Fail, Inv, OneRequest
  <2>2. wire' \cup answers' = {} /\ failures' = 1
    BY <1>5, <2>1 DEF Fail
  <2>3. busy'
    BY <1>5, <2>1 DEF Fail
  <2>4. QED
    BY <2>2, <2>3
<1>6. CASE UNCHANGED vars
  BY <1>6 DEF vars
<1>7. QED
  BY <1>1, <1>2, <1>3, <1>4, <1>5, <1>6 DEF Next

\* The message "Database updating in progress!" is false after a failed request and
\* only then, and a dialog never has a second failure, however many may happen.
THEOREM FailureCorrect == Spec => []FailureIsFinal
<1>1. Init => FailureIsFinal
  BY DEF Init, FailureIsFinal
<1>2. QED
  BY <1>1, FailureStep, InvCorrect, PTL DEF Spec
=============================================================================
