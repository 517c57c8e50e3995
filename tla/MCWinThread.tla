----------------------------- MODULE MCWinThread -----------------------------
(* A small instance of WinThread for TLC.                                  *)
EXTENDS WinThread
===============================================================================
