------------------------------ MODULE MCLibrary ------------------------------
(* Small instances of Library.                                               *)
EXTENDS Library, TLC

Alike == Permutations(Gallery) \cup Permutations(Folder) \cup Permutations(Request)
=============================================================================
