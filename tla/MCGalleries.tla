----------------------------- MODULE MCGalleries -----------------------------
(* Small instances of Galleries.                                             *)
EXTENDS Galleries, TLC

Alike == Permutations(Gallery) \cup Permutations(Request)
=============================================================================
