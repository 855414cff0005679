------------------------- MODULE MCPositionManager -------------------------
(* PositionManager for TLC; the .cfg files give the constants their values. *)
EXTENDS PositionManager
=============================================================================
