------------------------------- MODULE MCGrants -------------------------------
(* Small instances of Grants: one account has a role and a gallery, the other *)
(* a permission for itself.                                                   *)
EXTENDS Grants, TLC

CONSTANTS a1, a2, g1

Plain(a, half) == [account |-> a, half |-> half, read |-> FALSE, on |-> a]
Gated(a, s, read) == [account |-> a, half |-> "permission", read |-> read, on |-> s]

MCItem == {Plain(a1, "role"), Plain(a2, "permission"), Gated(a1, g1, TRUE)}

Requests == Permutations(Request)

\* The creation of a section is a request like the others: two are served at a time,
\* and one once the gallery has been destroyed.
TwoAtATime ==
    unshared # {} \/ offered # {} \/ deleted # {} => \E r \in Request : job[r] = Idle
=============================================================================

