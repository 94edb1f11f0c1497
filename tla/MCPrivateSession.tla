---------------------------- MODULE MCPrivateSession ----------------------------
(* TLC instance of PrivateSession. *)
EXTENDS PrivateSession
=============================================================================
