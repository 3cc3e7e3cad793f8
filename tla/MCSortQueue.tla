----------------------------- MODULE MCSortQueue -----------------------------
(***************************************************************************)
(* SortQueue with a user who drags a few times; every list may meet every   *)
(* state of the two flags, of the timers and of the request before it.      *)
(***************************************************************************)
EXTENDS SortQueue
=============================================================================
