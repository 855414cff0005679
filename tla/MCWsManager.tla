---------------------------- MODULE MCWsManager ----------------------------
(* WsManager for TLC; the .cfg file gives the constants their values. *)
EXTENDS WsManager
=============================================================================
