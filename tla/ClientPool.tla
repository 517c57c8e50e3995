------------------------------ MODULE ClientPool ------------------------------
(***************************************************************************)
(* The table of client records of server.c: _getClient, called by the main *)
(* thread for each accepted connection, and serverDropClient, called by    *)
(* the thread of a client that ends (and by the main thread when a client  *)
(* could not be started).  Every critical section of server.cmutex is one  *)
(* step; between two of them any number of clients may end.                *)
(*                                                                         *)
(* A connection is a member of Conns; it stands for whoever holds the      *)
(* pointer returned by _getClient until it is given to serverDropClient.   *)
(* The variables released and raced are history: the code has no such      *)
(* state and no step depends on them.                                      *)
(***************************************************************************)
EXTENDS Integers, FiniteSets

CONSTANTS NSlots,   \* SERVER_MAX_CLIENTS
          Conns,    \* connections that may be alive at the same time
          None      \* NULL

ASSUME NSlotsAssumption == NSlots \in Nat \ {0}
ASSUME ConnsAssumption  == IsFiniteSet(Conns)
ASSUME NoneAssumption   == None \notin Conns /\ None \notin Int

Slots == 0 .. NSlots - 1

VARIABLES
    lease,          \* lease[s]: clients[s].lease
    droppedClient,  \* record released last, or None
    nclients,       \* number of records in use, as the server counts it
    lastClient,     \* where the search starts: the static cursor of _getClient
    pc,             \* main thread: outside _getClient, before its first lock, in the loop
    caller,         \* the connection _getClient was called for, or None
    n,              \* the loop counter: records still to look at
    slotOf,         \* slotOf[k]: the record connection k was given, or None
    released,       \* history: records released since _getClient was called
    raced           \* history: the loop has taken the record droppedClient points to

vars == <<lease, droppedClient, nclients, lastClient, pc, caller, n, slotOf,
          released, raced>>

Holders   == {k \in Conns : slotOf[k] # None}
HeldSlots == {s \in Slots : \E k \in Conns : slotOf[k] = s}

Init ==
    /\ lease = [s \in Slots |-> FALSE]
    /\ droppedClient = None
    /\ nclients = 0
    /\ lastClient = 0
    /\ pc = "idle"
    /\ caller = None
    /\ n = 0
    /\ slotOf = [k \in Conns |-> None]
    /\ released = {}
    /\ raced = FALSE

(* _acceptClient has a new connection and calls _getClient.                *)
Ask(k) ==
    /\ pc = "idle"
    /\ slotOf[k] = None
    /\ pc' = "check"
    /\ caller' = k
    /\ released' = {}
    /\ UNCHANGED <<lease, droppedClient, nclients, lastClient, n, slotOf, raced>>

(* The record s is leased to the caller and _getClient returns.            *)
Return(s) ==
    /\ lease' = [lease EXCEPT ![s] = TRUE]
    /\ nclients' = nclients + 1
    /\ slotOf' = [slotOf EXCEPT ![caller] = s]
    /\ pc' = "idle"
    /\ caller' = None
    /\ UNCHANGED released

(* Mutant of TakeDropped: the pointer to the dropped record stays.         *)
TakeDroppedKeepsPointer ==
    /\ pc = "check"
    /\ droppedClient # None
    /\ Return(droppedClient)
    /\ UNCHANGED <<droppedClient, lastClient, n, raced>>

(* Mutant of TakeDropped: the record is not marked as leased.              *)
TakeDroppedUnleased ==
    /\ pc = "check"
    /\ droppedClient # None
    /\ nclients' = nclients + 1
    /\ slotOf' = [slotOf EXCEPT ![caller] = droppedClient]
    /\ droppedClient' = None
    /\ pc' = "idle"
    /\ caller' = None
    /\ UNCHANGED <<lease, lastClient, n, released, raced>>

(* The record released last is taken without a look at its lease.          *)
TakeDropped ==
    /\ pc = "check"
    /\ droppedClient # None
    /\ Return(droppedClient)
    /\ droppedClient' = None
    /\ UNCHANGED <<lastClient, n, raced>>

(* Mutant of EnterScan: the loop looks at one record too few.              *)
EnterScanShort ==
    /\ pc = "check"
    /\ droppedClient = None
    /\ pc' = "scan"
    /\ n' = NSlots - 1
    /\ UNCHANGED <<lease, droppedClient, nclients, lastClient, caller, slotOf,
                   released, raced>>

(* There is no such record: the mutex is released and the loop starts.     *)
EnterScan ==
    /\ pc = "check"
    /\ droppedClient = None
    /\ pc' = "scan"
    /\ n' = NSlots
    /\ UNCHANGED <<lease, droppedClient, nclients, lastClient, caller, slotOf,
                   released, raced>>

(* The cursor stays on the record it has leased, and droppedClient is left *)
(* alone even when it is this record.                                      *)
ScanLease ==
    /\ pc = "scan"
    /\ n > 0
    /\ ~lease[lastClient]
    /\ Return(lastClient)
    /\ n' = n - 1
    /\ raced' = (raced \/ droppedClient = lastClient)
    /\ UNCHANGED <<droppedClient, lastClient>>

(* Mutant of ScanSkip: the cursor wraps one record too late.               *)
ScanSkipPastEnd ==
    /\ pc = "scan"
    /\ n > 0
    /\ lease[lastClient]
    /\ n' = n - 1
    /\ lastClient' = IF lastClient + 1 > NSlots THEN 0 ELSE lastClient + 1
    /\ UNCHANGED <<lease, droppedClient, nclients, pc, caller, slotOf, released, raced>>

(* Mutant of ScanSkip: the records looked at are not counted.              *)
ScanSkipForever ==
    /\ pc = "scan"
    /\ n > 0
    /\ lease[lastClient]
    /\ lastClient' = IF lastClient + 1 >= NSlots THEN 0 ELSE lastClient + 1
    /\ UNCHANGED <<lease, droppedClient, nclients, pc, caller, n, slotOf, released, raced>>

(* A leased record is passed over, and the cursor wraps at the end.        *)
ScanSkip ==
    /\ pc = "scan"
    /\ n > 0
    /\ lease[lastClient]
    /\ n' = n - 1
    /\ lastClient' = IF lastClient + 1 >= NSlots THEN 0 ELSE lastClient + 1
    /\ UNCHANGED <<lease, droppedClient, nclients, pc, caller, slotOf, released, raced>>

(* Every record has been looked at: NULL, "Client limit reached".          *)
ScanFail ==
    /\ pc = "scan"
    /\ n = 0
    /\ pc' = "idle"
    /\ caller' = None
    /\ UNCHANGED <<lease, droppedClient, nclients, lastClient, n, slotOf, released, raced>>

GetClient == TakeDropped \/ EnterScan \/ ScanLease \/ ScanSkip \/ ScanFail

(* Mutant of Drop: the client is not taken off the count.                  *)
DropUncounted(k) ==
    /\ slotOf[k] # None
    /\ lease' = [lease EXCEPT ![slotOf[k]] = FALSE]
    /\ droppedClient' = slotOf[k]
    /\ slotOf' = [slotOf EXCEPT ![k] = None]
    /\ released' = released \cup {slotOf[k]}
    /\ UNCHANGED <<nclients, lastClient, pc, caller, n, raced>>

(* Mutant of Drop: the record stays leased.                                *)
DropLeased(k) ==
    /\ slotOf[k] # None
    /\ droppedClient' = slotOf[k]
    /\ nclients' = nclients - 1
    /\ slotOf' = [slotOf EXCEPT ![k] = None]
    /\ released' = released \cup {slotOf[k]}
    /\ UNCHANGED <<lease, lastClient, pc, caller, n, raced>>

(* serverDropClient(client), client being the record of connection k.      *)
Drop(k) ==
    /\ slotOf[k] # None
    /\ lease' = [lease EXCEPT ![slotOf[k]] = FALSE]
    /\ droppedClient' = slotOf[k]
    /\ nclients' = nclients - 1
    /\ slotOf' = [slotOf EXCEPT ![k] = None]
    /\ released' = released \cup {slotOf[k]}
    /\ UNCHANGED <<lastClient, pc, caller, n, raced>>

Next ==
    \/ \E k \in Conns : Ask(k)
    \/ GetClient
    \/ \E k \in Conns : Drop(k)

(* The main thread runs on; nobody is forced to connect or to leave.       *)
Spec     == Init /\ [][Next]_vars
FairSpec == Spec /\ WF_vars(GetClient)

-------------------------------------------------------------------------------
(* The values every variable keeps to, the numbers in their ranges.        *)
TypeOK ==
    /\ lease \in [Slots -> BOOLEAN]
    /\ droppedClient \in Slots \cup {None}
    /\ nclients \in Int
    /\ lastClient \in Slots
    /\ pc \in {"idle", "check", "scan"}
    /\ caller \in Conns \cup {None}
    /\ n \in 0 .. NSlots
    /\ slotOf \in [Conns -> Slots \cup {None}]
    /\ released \subseteq Slots
    /\ raced \in BOOLEAN

(* No two connections hold the same client record (server.c _getClient),   *)
(* as long as the search loop has never taken the record that              *)
(* droppedClient points to.                                                *)
ExclusiveSlots ==
    ~raced => \A j, k \in Conns :
                  slotOf[j] # None /\ slotOf[j] = slotOf[k] => j = k

(* A record is marked as leased exactly when a connection holds it, and    *)
(* droppedClient is a free record, under the same condition.  One half     *)
(* needs no condition: a leased record always has a holder, so no record   *)
(* is lost to the pool.                                                    *)
LeaseIsHeld ==
    /\ \A s \in Slots : lease[s] => s \in HeldSlots
    /\ ~raced => \A s \in HeldSlots : lease[s] /\ s # droppedClient

(* nclients is the number of connections that hold a record, whatever the  *)
(* order in which records are leased and dropped.                          *)
CountIsHolders == nclients = Cardinality(Holders)

(* _getClient answers NULL ("Client limit reached") only when every record *)
(* is leased or was released while it was looking: the cursor, starting    *)
(* anywhere and wrapping, misses no record.                                *)
RefusedOnlyWhenFull ==
    pc = "scan" /\ n = 0 => \A s \in Slots : lease[s] \/ s \in released

(* The comment of SERVER_MAX_CLIENTS and the log line "Client limit        *)
(* reached": the server never has more than SERVER_MAX_CLIENTS clients.    *)
ClientLimit == nclients <= NSlots

(* Every call of _getClient returns.                                       *)
EveryCallReturns == pc # "idle" ~> pc = "idle"

(* Until the search loop takes the record of droppedClient, the table is   *)
(* the pool of SlotPool.                                                   *)
Pool == INSTANCE SlotPool WITH asking <- caller, holds <- slotOf

ImplementsPool == Pool!Init /\ [][Pool!Next \/ raced']_(Pool!absVars)
===============================================================================
