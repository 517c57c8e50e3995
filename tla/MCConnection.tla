---------------------------- MODULE MCConnection ----------------------------
(* A small instance of Connection for TLC.                                 *)
EXTENDS Connection
=============================================================================
