-------------------------- MODULE MCAssetTransfer --------------------------
(* AssetTransfer for TLC. *)
EXTENDS AssetTransfer
=============================================================================
