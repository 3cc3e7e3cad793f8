----------------------------- MODULE MCAssetOrder -----------------------------
(* Small instances of AssetOrder.                                            *)
EXTENDS AssetOrder, TLC

CONSTANTS a1, a2, a3

\* Creation times and the two names: no two orders agree on all pairs.
MCKey ==
    LET made == a1 :> 1 @@ a2 :> 2 @@ a3 :> 3 IN
    [o \in Order |-> CASE o \in {"newest_first", "oldest_first"} -> Restrict(made, Asset)
                       [] o = "by_title" -> Restrict(a1 :> 2 @@ a2 :> 3 @@ a3 :> 1, Asset)
                       [] o = "by_filename" -> Restrict(a1 :> 2 @@ a2 :> 1 @@ a3 :> 2, Asset)]

Requests == Permutations(Request)

\* Without an order to sort by, nothing tells two assets or two folders apart.
AllAlike == Permutations(Request) \cup Permutations(Folder) \cup Permutations(Asset)

\* A label is written by reorder and sort and read by none of the requests, so that
\* two states that differ in their labels only need not be told apart.
Unlabelled == <<live, folder, position, job, intact, loose>>
=============================================================================
