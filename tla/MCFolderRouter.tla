---------------------------- MODULE MCFolderRouter ----------------------------
(* Small instances of FolderRouter.                                          *)
EXTENDS FolderRouter, TLC

Folders == Permutations(Folder)
=============================================================================
