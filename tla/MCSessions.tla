------------------------------ MODULE MCSessions ------------------------------
(* Small instances of Sessions for TLC.                                    *)
EXTENDS Sessions, TLC

(* Nothing tells threads, ids or strings apart.                            *)
Interchangeable == Permutations(Threads) \cup Permutations(Ids)
===============================================================================
