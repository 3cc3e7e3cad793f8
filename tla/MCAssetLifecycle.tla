-------------------------- MODULE MCAssetLifecycle --------------------------
(* Small instances of AssetLifecycle for TLC: the .cfg files name the assets  *)
(* and the threads by model values and give the bounds.                       *)
EXTENDS AssetLifecycle
=============================================================================
