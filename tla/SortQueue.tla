------------------------------ MODULE SortQueue ------------------------------
(***************************************************************************)
(* The manual sorting dialog (views/backend/modals/sort_assets.js.coffee).  *)
(* Each drag puts the whole list in the one-place queue "next" and starts a *)
(* timer; the timer's callback sends the list, or starts itself again while *)
(* a request is out.  The dialog's callbacks interleave with the server and *)
(* with its answers in any order.  A list is named by its drag's number.    *)
(***************************************************************************)
EXTENDS Integers

CONSTANTS
    MaxDrags,     \* bound: drags of one user in one dialog
    MaxFailures   \* bound: failed requests and lost answers

ASSUME BoundsAssumption == MaxDrags \in Nat /\ MaxFailures \in Nat

VARIABLES
    drags,     \* number of the list the user sees
    next,      \* queues.sorting.next, 0 for null
    busy,      \* queues.sorting.busy
    pending,   \* queues.sorting.pending
    fresh,     \* 1 ms timers of handleSorting
    retries,   \* 100 ms timers of processSorting
    wire,      \* PUT reorder requests the server has not handled
    answers,   \* requests handled, their answers on the way
    saved,     \* number of the list that the positions in the table follow
    open,      \* the dialog is shown
    failures

timers == <<fresh, retries>>
flags  == <<busy, pending>>
server == <<wire, answers, saved>>
vars == <<drags, next, flags, timers, server, open, failures>>

Drag == 1..MaxDrags

Init ==
    /\ drags = 0 /\ next = 0 /\ saved = 0
    /\ busy = FALSE /\ pending = FALSE
    /\ fresh = 0 /\ retries = 0
    /\ wire = {} /\ answers = {}
    /\ open = TRUE /\ failures = 0

\* sortable's update, make-first and make-last.
HandleSorting ==
    /\ open /\ drags < MaxDrags
    /\ drags' = drags + 1
    /\ next' = drags + 1
    /\ fresh' = fresh + 1
    /\ UNCHANGED <<flags, retries, server, open, failures>>

\* processSorting, called by a timer; "left" retry timers remain beside it.
\* `recall?' asks whether recall is null, which it never is, so the pending flag
\* holds no timer back: while a request is out every caller tries again later.

\* A broken processSorting: the retry does not say that something is pending.
TryLaterSilently(left) ==
    /\ busy
    /\ retries' = left + 1
    /\ UNCHANGED <<next, flags, wire>>

\* A broken processSorting: no timer waits for the request before.
TryLaterNever(left) ==
    /\ busy
    /\ pending' = TRUE
    /\ retries' = left
    /\ UNCHANGED <<next, busy, wire>>

TryLater(left) ==
    /\ busy
    /\ pending' = TRUE
    /\ retries' = left + 1
    /\ UNCHANGED <<next, busy, wire>>

\* A broken processSorting: the list does not wait for the request before.
SendAtOnce(left) ==
    /\ pending' = FALSE
    /\ busy' = (busy \/ next # 0)
    /\ wire' = IF next = 0 THEN wire ELSE wire \cup {next}
    /\ next' = 0
    /\ retries' = left

\* An empty queue leaves the dialog idle.
Send(left) ==
    /\ ~busy
    /\ pending' = FALSE
    /\ busy' = (next # 0)
    /\ wire' = IF next = 0 THEN wire ELSE wire \cup {next}
    /\ next' = 0
    /\ retries' = left

FreshTimer ==
    /\ fresh > 0
    /\ fresh' = fresh - 1
    /\ TryLater(retries) \/ Send(retries)
    /\ UNCHANGED <<drags, answers, saved, open, failures>>

\* A broken retry: the timer is an interval, it fires again by itself.
RetryInterval ==
    /\ retries > 0
    /\ TryLater(retries) \/ Send(retries)
    /\ UNCHANGED <<drags, fresh, answers, saved, open, failures>>

RetryTimer ==
    /\ retries > 0
    /\ TryLater(retries - 1) \/ Send(retries - 1)
    /\ UNCHANGED <<drags, fresh, answers, saved, open, failures>>

\* The server writes the positions of the list.
Reorder(v) ==
    /\ v \in wire
    /\ saved' = v
    /\ wire' = wire \ {v}
    /\ answers' = answers \cup {v}
    /\ UNCHANGED <<drags, next, flags, timers, open, failures>>

\* The done callback of the request.
Done(v) ==
    /\ v \in answers
    /\ answers' = answers \ {v}
    /\ busy' = FALSE
    /\ UNCHANGED <<drags, next, pending, timers, wire, saved, open, failures>>

\* A request or its answer is lost, or the server refuses the request.  There
\* is no fail callback.
Fail(v) ==
    /\ v \in wire \cup answers /\ failures < MaxFailures
    /\ wire' = wire \ {v}
    /\ answers' = answers \ {v}
    /\ failures' = failures + 1
    /\ UNCHANGED <<drags, next, flags, timers, saved, open>>

\* The modal is hidden, after a question if a flag is set; its timers live on.
Close ==
    /\ open
    /\ open' = FALSE
    /\ UNCHANGED <<drags, next, flags, timers, server, failures>>

Next == \/ HandleSorting \/ FreshTimer \/ RetryTimer \/ Close
        \/ \E v \in Drag : Reorder(v) \/ Done(v) \/ Fail(v)

Spec == Init /\ [][Next]_vars

\* Timers fire, the server handles and answers requests.
Fairness == /\ WF_vars(FreshTimer) /\ WF_vars(RetryTimer)
            /\ WF_vars(\E v \in Drag : Reorder(v))
            /\ WF_vars(\E v \in Drag : Done(v))

FairSpec == Spec /\ Fairness

-----------------------------------------------------------------------------
(* Properties.                                                               *)

\* The variables have their types; a drag starts one timer and the retries never
\* multiply it.
TypeOK ==
    /\ drags \in 0..MaxDrags /\ next \in 0..drags /\ saved \in 0..drags
    /\ busy \in BOOLEAN /\ pending \in BOOLEAN /\ open \in BOOLEAN
    /\ fresh \in Nat /\ retries \in Nat /\ fresh + retries <= drags
    /\ wire \subseteq Drag /\ answers \subseteq Drag
    /\ failures \in 0..MaxFailures

\* A dialog whose close asks nothing (neither flag is set), once the 1 ms timers
\* have run, has its last list in the table: however drags, timers and answers
\* overlap, beforeClose never lets a list be forgotten.
QuietMeansSaved ==
    ~busy /\ ~pending /\ fresh = 0 => saved = drags

\* busy says whether a request is out, until one fails; that failure is the dialog's
\* last request: busy stays set, nothing is out and nothing fails a second time.
FailureIsFinal ==
    IF failures = 0 THEN busy <=> wire \cup answers # {}
                    ELSE failures = 1 /\ busy /\ wire \cup answers = {}

\* The table goes from list to newer list, and when no request fails it ends with
\* the last one, also after the dialog is closed: the dialog implements LatestOrder.
Latest == INSTANCE LatestOrder WITH wanted <- drags
LatestListIsSaved ==
    /\ Latest!Safety
    /\ [](failures = 0) => Latest!Liveness

\* "Database updating in progress!", says the page as long as busy is set.
ProgressIsTrue == busy => wire \cup answers # {}
=============================================================================
