---------------------------- MODULE MCOrderStore ----------------------------
(* OrderStore for TLC; the .cfg files give the constants their values. *)
EXTENDS OrderStore
=============================================================================
