------------------------------- MODULE MCToken -------------------------------
(* A small instance of Token for TLC.                                      *)
EXTENDS Token
===============================================================================
