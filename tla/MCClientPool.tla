---------------------------- MODULE MCClientPool -----------------------------
(* A small instance of ClientPool for TLC.                                 *)
EXTENDS ClientPool
===============================================================================
