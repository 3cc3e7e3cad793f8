------------------------------ MODULE MCUploader ------------------------------
(* Small instances of Uploader: a form with or without a title, ticked or not.  *)
EXTENDS Uploader, TLC

CONSTANTS Ticked, Title

MCForm == {x \in [text : {Empty, Title}, box : {Empty, Ticked}] :
              x.text # Empty \/ x.box # Empty}

Files == Permutations(File)
=============================================================================
