----------------------------- MODULE LatestOrder -----------------------------
(***************************************************************************)
(* What a dialog that saves while its user works promises.  The user's      *)
(* choices are numbered; the server holds one of them, never goes back to   *)
(* an older one, and ends with the last.                                    *)
(***************************************************************************)
EXTENDS Integers

CONSTANT MaxDrags   \* bound: choices the user makes

VARIABLES
    wanted,   \* the number of the user's last choice, 0 for none yet
    saved     \* the number of the choice that the server holds

vars == <<wanted, saved>>

Init == wanted = 0 /\ saved = 0

Choose == /\ wanted < MaxDrags
          /\ wanted' = wanted + 1
          /\ UNCHANGED saved

\* Choices may be skipped, not reordered.
Save == /\ saved' \in (saved + 1)..wanted
        /\ UNCHANGED wanted

Next == Choose \/ Save

Safety == Init /\ [][Next]_vars
Liveness == WF_vars(Save)

Spec == Safety /\ Liveness
=============================================================================
