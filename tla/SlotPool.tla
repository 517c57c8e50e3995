------------------------------- MODULE SlotPool -------------------------------
(***************************************************************************)
(* What the pool of client records promises to the accept loop: a          *)
(* connection that asks is given a record nobody else holds, or is turned  *)
(* away when no record stayed free from the moment it asked.  How a record *)
(* is found, the hint left by the last release and the cursor of the       *)
(* search, is the business of ClientPool, which implements this module.    *)
(***************************************************************************)
CONSTANTS Slots,   \* the records
          Conns,   \* the connections
          None     \* no record, no connection

VARIABLES asking,    \* the connection a record is being looked for, or None
          holds,     \* holds[k]: the record given to connection k, or None
          released   \* records released since the pending request was made

absVars == <<asking, holds, released>>

Init ==
    /\ asking = None
    /\ holds = [k \in Conns |-> None]
    /\ released = {}

Held == {s \in Slots : \E k \in Conns : holds[k] = s}

Ask(k) ==
    /\ asking = None
    /\ holds[k] = None
    /\ asking' = k
    /\ released' = {}
    /\ UNCHANGED holds

Grant(s) ==
    /\ asking # None
    /\ s \notin Held
    /\ holds' = [holds EXCEPT ![asking] = s]
    /\ asking' = None
    /\ UNCHANGED released

Refuse ==
    /\ asking # None
    /\ Slots \subseteq Held \cup released
    /\ asking' = None
    /\ UNCHANGED <<holds, released>>

Release(k) ==
    /\ holds[k] # None
    /\ holds' = [holds EXCEPT ![k] = None]
    /\ released' = released \cup {holds[k]}
    /\ UNCHANGED asking

Next ==
    \/ \E k \in Conns : Ask(k) \/ Release(k)
    \/ \E s \in Slots : Grant(s)
    \/ Refuse

Spec == Init /\ [][Next]_absVars
===============================================================================
