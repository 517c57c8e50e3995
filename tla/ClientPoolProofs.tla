--------------------------- MODULE ClientPoolProofs ---------------------------
(***************************************************************************)
(* Proofs about ClientPool, for every number of records and every finite   *)
(* set of connections.                                                     *)
(***************************************************************************)
EXTENDS ClientPool, FiniteSetTheorems, TLAPS

(* The caller of _getClient is a connection that has no record yet.        *)
CallerOK ==
    /\ caller = None <=> pc = "idle"
    /\ pc # "idle" => slotOf[caller] = None

(* The records the loop has looked at: the NSlots - n ones that end right  *)
(* behind the cursor, wrapping from 0 to NSlots - 1.                       *)
Visited == {s \in Slots : \/ s < lastClient /\ s >= lastClient - (NSlots - n)
                          \/ s >= lastClient + n}

(* A record the loop has passed was leased then; only a release since can  *)
(* have freed it.                                                          *)
ScanCovered == pc = "scan" => \A s \in Visited : lease[s] \/ s \in released

IInv ==
    /\ TypeOK
    /\ CallerOK
    /\ CountIsHolders
    /\ LeaseIsHeld
    /\ ExclusiveSlots
    /\ ScanCovered

-------------------------------------------------------------------------------
LEMMA HoldersFinite == IsFiniteSet(Holders)
  BY FS_Subset, ConnsAssumption DEF Holders

(* What the grant of a record changes, whichever way it was found.         *)
LEMMA ReturnGrants ==
  ASSUME IInv, pc # "idle", NEW s \in Slots, Return(s)
  PROVE  /\ caller \in Conns
         /\ slotOf' = [slotOf EXCEPT ![caller] = s]
         /\ HeldSlots' = HeldSlots \cup {s}
         /\ CountIsHolders'
<1>1. caller \in Conns /\ slotOf[caller] = None
  BY DEF IInv, TypeOK, CallerOK
<1>2. slotOf' = [slotOf EXCEPT ![caller] = s] /\ nclients' = nclients + 1
  BY DEF Return
<1>3. s # None
  BY NoneAssumption DEF Slots
<1>4. Holders' = Holders \cup {caller} /\ caller \notin Holders
  BY <1>1, <1>2, <1>3 DEF IInv, TypeOK, Holders
<1>5. Cardinality(Holders') = Cardinality(Holders) + 1
  BY <1>4, HoldersFinite, FS_AddElement
<1>6. CountIsHolders'
  BY <1>2, <1>5 DEF IInv, TypeOK, CountIsHolders
<1>7. HeldSlots' = HeldSlots \cup {s}
  <2>1. ASSUME NEW t \in HeldSlots PROVE t \in HeldSlots'
    <3>1. PICK k \in Conns : slotOf[k] = t
      BY DEF HeldSlots
    <3>2. k # caller
      BY <1>1, <3>1, NoneAssumption DEF HeldSlots, Slots
    <3>3. slotOf'[k] = t
      BY <1>2, <3>1, <3>2 DEF IInv, TypeOK
    <3> QED BY <3>3 DEF HeldSlots
  <2>2. s \in HeldSlots'
    BY <1>1, <1>2 DEF IInv, TypeOK, HeldSlots
  <2>3. ASSUME NEW t \in HeldSlots', t # s PROVE t \in HeldSlots
    BY <1>2, <2>3 DEF IInv, TypeOK, HeldSlots
  <2> QED BY <2>1, <2>2, <2>3
<1> QED BY <1>1, <1>2, <1>6, <1>7

(* What a release changes.                                                 *)
LEMMA DropReleases ==
  ASSUME IInv, NEW k \in Conns, Drop(k)
  PROVE  /\ slotOf[k] \in Slots
         /\ slotOf' = [slotOf EXCEPT ![k] = None]
         /\ HeldSlots \ {slotOf[k]} \subseteq HeldSlots'
         /\ HeldSlots' \subseteq HeldSlots
         /\ CountIsHolders'
<1>1. slotOf[k] \in Slots /\ slotOf[k] # None
  BY DEF IInv, TypeOK, Drop
<1>2. slotOf' = [slotOf EXCEPT ![k] = None] /\ nclients' = nclients - 1
  BY DEF Drop
<1>3. Holders' = Holders \ {k} /\ k \in Holders
  BY <1>1, <1>2 DEF IInv, TypeOK, Holders
<1>4. Cardinality(Holders') = Cardinality(Holders) - 1
  BY <1>3, HoldersFinite, FS_RemoveElement
<1>5. CountIsHolders'
  BY <1>2, <1>4 DEF IInv, TypeOK, CountIsHolders
<1>6. ASSUME NEW t \in HeldSlots, t # slotOf[k] PROVE t \in HeldSlots'
  BY <1>2, <1>6 DEF IInv, TypeOK, HeldSlots
<1>7. ASSUME NEW t \in HeldSlots' PROVE t \in HeldSlots
  <2>1. PICK j \in Conns : slotOf'[j] = t
    BY DEF HeldSlots
  <2>2. j # k
    BY <1>2, <2>1, NoneAssumption DEF IInv, TypeOK, HeldSlots, Slots
  <2> QED BY <1>2, <2>1, <2>2 DEF IInv, TypeOK, HeldSlots
<1> QED BY <1>1, <1>2, <1>5, <1>6, <1>7

-------------------------------------------------------------------------------
LEMMA InitIInv == Init => IInv
<1> SUFFICES ASSUME Init PROVE IInv
  OBVIOUS
<1> USE NSlotsAssumption, NoneAssumption
<1>1. TypeOK
  <2>1. lease \in [Slots -> BOOLEAN] /\ raced \in BOOLEAN
    BY DEF Init
  <2> QED BY <2>1 DEF Init, TypeOK, Slots
<1>2. Holders = {} /\ HeldSlots = {}
  BY DEF Init, Holders, HeldSlots, Slots
<1>3. CountIsHolders
  BY <1>2, FS_EmptySet DEF Init, CountIsHolders
<1>4. LeaseIsHeld
  BY <1>2 DEF Init, LeaseIsHeld
<1> QED
  BY <1>1, <1>3, <1>4 DEF Init, IInv, CallerOK, ExclusiveSlots, ScanCovered

LEMMA TypeStep == IInv /\ [Next]_vars => TypeOK'
<1> SUFFICES ASSUME IInv, [Next]_vars PROVE TypeOK'
  OBVIOUS
<1> USE NSlotsAssumption, NoneAssumption DEF IInv, TypeOK
<1>1. ASSUME NEW k \in Conns, Ask(k) PROVE TypeOK'
  BY <1>1 DEF Ask
<1>2. CASE TakeDropped
  <2>1. droppedClient \in Slots /\ lease' = [lease EXCEPT ![droppedClient] = TRUE]
    BY <1>2 DEF TakeDropped, Return
  <2>2. lease' \in [Slots -> BOOLEAN]
    BY <2>1
  <2>3. slotOf' \in [Conns -> Slots \cup {None}] /\ raced' = raced
    BY <1>2, <2>1 DEF TakeDropped, Return
  <2>4. /\ droppedClient' \in Slots \cup {None} /\ nclients' \in Int
        /\ lastClient' \in Slots /\ pc' \in {"idle", "check", "scan"}
        /\ caller' \in Conns \cup {None} /\ n' \in 0 .. NSlots
        /\ released' \subseteq Slots
    BY <1>2 DEF TakeDropped, Return
  <2> QED BY <2>2, <2>3, <2>4
<1>3. CASE EnterScan
  BY <1>3 DEF EnterScan
<1>4. CASE ScanLease
  <2>1. lease' = [lease EXCEPT ![lastClient] = TRUE]
    BY <1>4 DEF ScanLease, Return
  <2>2. lease' \in [Slots -> BOOLEAN]
    BY <2>1
  <2>3. raced' = (raced \/ droppedClient = lastClient)
    BY <1>4 DEF ScanLease
  <2>4. raced' \in BOOLEAN
    BY <2>3
  <2>5. slotOf' \in [Conns -> Slots \cup {None}]
    BY <1>4 DEF ScanLease, Return
  <2>6. /\ droppedClient' \in Slots \cup {None} /\ nclients' \in Int
        /\ lastClient' \in Slots /\ pc' \in {"idle", "check", "scan"}
        /\ caller' \in Conns \cup {None} /\ n' \in 0 .. NSlots
        /\ released' \subseteq Slots
    BY <1>4 DEF ScanLease, Return
  <2> QED BY <2>2, <2>4, <2>5, <2>6
<1>5. CASE ScanSkip
  BY <1>5 DEF ScanSkip, Slots
<1>6. CASE ScanFail
  BY <1>6 DEF ScanFail
<1>7. ASSUME NEW k \in Conns, Drop(k) PROVE TypeOK'
  BY <1>7 DEF Drop
<1>8. CASE UNCHANGED vars
  BY <1>8 DEF vars
<1> QED
  BY <1>1, <1>2, <1>3, <1>4, <1>5, <1>6, <1>7, <1>8 DEF Next, GetClient

LEMMA CallerStep == IInv /\ [Next]_vars => CallerOK'
<1> SUFFICES ASSUME IInv, [Next]_vars PROVE CallerOK'
  OBVIOUS
<1> USE NoneAssumption DEF IInv, TypeOK, CallerOK
<1>1. ASSUME NEW k \in Conns, Ask(k) PROVE CallerOK'
  BY <1>1 DEF Ask
<1>2. CASE TakeDropped
  BY <1>2 DEF TakeDropped, Return
<1>3. CASE EnterScan
  BY <1>3 DEF EnterScan
<1>4. CASE ScanLease
  BY <1>4 DEF ScanLease, Return
<1>5. CASE ScanSkip
  BY <1>5 DEF ScanSkip
<1>6. CASE ScanFail
  BY <1>6 DEF ScanFail
<1>7. ASSUME NEW k \in Conns, Drop(k) PROVE CallerOK'
  BY <1>7 DEF Drop
<1>8. CASE UNCHANGED vars
  BY <1>8 DEF vars
<1> QED
  BY <1>1, <1>2, <1>3, <1>4, <1>5, <1>6, <1>7, <1>8 DEF Next, GetClient

LEMMA CountStep == IInv /\ [Next]_vars => CountIsHolders'
<1> SUFFICES ASSUME IInv, [Next]_vars PROVE CountIsHolders'
  OBVIOUS
<1>1. CASE TakeDropped
  <2>1. droppedClient \in Slots /\ pc # "idle" /\ Return(droppedClient)
    BY <1>1 DEF TakeDropped, IInv, TypeOK
  <2> QED BY <2>1, ReturnGrants
<1>2. CASE ScanLease
  <2>1. lastClient \in Slots /\ pc # "idle" /\ Return(lastClient)
    BY <1>2 DEF ScanLease, IInv, TypeOK
  <2> QED BY <2>1, ReturnGrants
<1>3. ASSUME NEW k \in Conns, Drop(k) PROVE CountIsHolders'
  BY <1>3, DropReleases
<1>4. CASE UNCHANGED <<slotOf, nclients>>
  BY <1>4 DEF IInv, CountIsHolders, Holders
<1> QED
  BY <1>1, <1>2, <1>3, <1>4
     DEF Next, GetClient, Ask, EnterScan, ScanSkip, ScanFail, vars

LEMMA LeaseStep == IInv /\ [Next]_vars => LeaseIsHeld'
<1> SUFFICES ASSUME IInv, [Next]_vars PROVE LeaseIsHeld'
  OBVIOUS
<1> USE DEF IInv, TypeOK, LeaseIsHeld
<1>1. CASE TakeDropped
  <2>1. droppedClient \in Slots /\ pc # "idle" /\ Return(droppedClient)
    BY <1>1 DEF TakeDropped
  <2>2. HeldSlots' = HeldSlots \cup {droppedClient}
    BY <2>1, ReturnGrants
  <2>3. lease' = [lease EXCEPT ![droppedClient] = TRUE] /\ droppedClient' = None /\ raced' = raced
    BY <1>1 DEF TakeDropped, Return
  <2>4. ASSUME NEW t \in Slots, lease'[t] PROVE t \in HeldSlots'
    BY <2>1, <2>2, <2>3, <2>4
  <2>5. ASSUME ~raced', NEW t \in HeldSlots' PROVE lease'[t] /\ t # droppedClient'
    BY <2>1, <2>2, <2>3, <2>5, NoneAssumption DEF Slots, HeldSlots
  <2> QED BY <2>4, <2>5
<1>2. CASE ScanLease
  <2>1. lastClient \in Slots /\ pc # "idle" /\ Return(lastClient)
    BY <1>2 DEF ScanLease
  <2>2. HeldSlots' = HeldSlots \cup {lastClient}
    BY <2>1, ReturnGrants
  <2>3. /\ lease' = [lease EXCEPT ![lastClient] = TRUE]
        /\ droppedClient' = droppedClient
        /\ raced' = (raced \/ droppedClient = lastClient)
    BY <1>2 DEF ScanLease, Return
  <2>4. ASSUME NEW t \in Slots, lease'[t] PROVE t \in HeldSlots'
    BY <2>1, <2>2, <2>3, <2>4
  <2>5. ASSUME ~raced', NEW t \in HeldSlots' PROVE lease'[t] /\ t # droppedClient'
    BY <2>1, <2>2, <2>3, <2>5 DEF HeldSlots
  <2> QED BY <2>4, <2>5
<1>3. ASSUME NEW k \in Conns, Drop(k) PROVE LeaseIsHeld'
  <2>1. /\ slotOf[k] \in Slots
        /\ slotOf' = [slotOf EXCEPT ![k] = None]
        /\ HeldSlots \ {slotOf[k]} \subseteq HeldSlots'
        /\ HeldSlots' \subseteq HeldSlots
    BY <1>3, DropReleases
  <2>2. /\ lease' = [lease EXCEPT ![slotOf[k]] = FALSE]
        /\ droppedClient' = slotOf[k]
        /\ raced' = raced
    BY <1>3 DEF Drop
  <2>3. ~raced => slotOf[k] \notin HeldSlots'
    <3> SUFFICES ASSUME ~raced, slotOf[k] \in HeldSlots' PROVE FALSE
      OBVIOUS
    <3>1. PICK j \in Conns : slotOf'[j] = slotOf[k]
      BY DEF HeldSlots
    <3>2. j # k
      BY <2>1, <3>1, NoneAssumption DEF Slots
    <3>3. slotOf[j] = slotOf[k] /\ slotOf[j] # None
      BY <2>1, <3>1, <3>2, NoneAssumption DEF Slots
    <3> QED BY <3>2, <3>3 DEF ExclusiveSlots
  <2>4. HeldSlots \subseteq Slots
    BY DEF HeldSlots
  <2>5. ASSUME NEW t \in Slots, lease'[t] PROVE t \in HeldSlots'
    BY <2>1, <2>2, <2>5
  <2>6. ASSUME ~raced', NEW t \in HeldSlots' PROVE lease'[t] /\ t # droppedClient'
    BY <2>1, <2>2, <2>3, <2>4, <2>6
  <2> QED BY <2>5, <2>6
<1>4. CASE UNCHANGED <<slotOf, lease, droppedClient, raced>>
  BY <1>4 DEF HeldSlots
<1> QED
  BY <1>1, <1>2, <1>3, <1>4
     DEF Next, GetClient, Ask, EnterScan, ScanSkip, ScanFail, vars

LEMMA ExclusiveStep == IInv /\ [Next]_vars => ExclusiveSlots'
<1> SUFFICES ASSUME IInv, [Next]_vars, ~raced' PROVE
             \A j, k \in Conns :
                 slotOf'[j] # None /\ slotOf'[j] = slotOf'[k] => j = k
  BY DEF ExclusiveSlots
<1> USE DEF IInv, TypeOK
<1>0. ~raced
  BY DEF Next, GetClient, Ask, TakeDropped, EnterScan, ScanLease, ScanSkip,
         ScanFail, Drop, vars
<1>1. ASSUME NEW s \in Slots, pc # "idle", Return(s), s \notin HeldSlots
      PROVE  \A j, k \in Conns :
                 slotOf'[j] # None /\ slotOf'[j] = slotOf'[k] => j = k
  <2>1. caller \in Conns /\ slotOf' = [slotOf EXCEPT ![caller] = s]
    BY <1>1, ReturnGrants
  <2>2. \A k \in Conns : slotOf[k] # s
    BY <1>1 DEF HeldSlots
  <2> QED BY <1>0, <2>1, <2>2 DEF ExclusiveSlots
<1>2. CASE TakeDropped
  <2>1. droppedClient \in Slots \ HeldSlots /\ pc # "idle" /\ Return(droppedClient)
    BY <1>0, <1>2 DEF TakeDropped, LeaseIsHeld
  <2> QED BY <1>1, <2>1
<1>3. CASE ScanLease
  <2>1. lastClient \in Slots \ HeldSlots /\ pc # "idle" /\ Return(lastClient)
    BY <1>0, <1>3 DEF ScanLease, LeaseIsHeld
  <2> QED BY <1>1, <2>1
<1>4. ASSUME NEW i \in Conns, Drop(i)
      PROVE  \A j, k \in Conns :
                 slotOf'[j] # None /\ slotOf'[j] = slotOf'[k] => j = k
  <2>1. slotOf' = [slotOf EXCEPT ![i] = None]
    BY <1>4 DEF Drop
  <2> QED BY <1>0, <2>1 DEF ExclusiveSlots
<1>5. CASE UNCHANGED slotOf
  BY <1>0, <1>5 DEF ExclusiveSlots
<1> QED
  BY <1>2, <1>3, <1>4, <1>5
     DEF Next, GetClient, Ask, EnterScan, ScanSkip, ScanFail, vars

LEMMA ScanStep == IInv /\ [Next]_vars => ScanCovered'
<1> SUFFICES ASSUME IInv, [Next]_vars, pc' = "scan"
             PROVE  \A s \in Visited' : lease'[s] \/ s \in released'
  BY DEF ScanCovered
<1> USE NSlotsAssumption DEF IInv, TypeOK
<1>1. CASE EnterScan
  BY <1>1 DEF EnterScan, Visited, Slots
<1>2. CASE ScanSkip
  <2>1. /\ pc = "scan" /\ n > 0 /\ lease[lastClient] /\ n' = n - 1
        /\ lastClient' = IF lastClient + 1 >= NSlots THEN 0 ELSE lastClient + 1
        /\ lease' = lease /\ released' = released
    BY <1>2 DEF ScanSkip
  <2>2. Visited' \subseteq Visited \cup {lastClient}
    BY <2>1 DEF Visited, Slots
  <2> QED BY <2>1, <2>2 DEF ScanCovered
<1>3. ASSUME NEW k \in Conns, Drop(k)
      PROVE  \A s \in Visited' : lease'[s] \/ s \in released'
  <2>1. pc = "scan" /\ Visited' = Visited
    BY <1>3 DEF Drop, Visited
  <2>2. /\ lease' = [lease EXCEPT ![slotOf[k]] = FALSE]
        /\ released' = released \cup {slotOf[k]}
    BY <1>3 DEF Drop
  <2>3. Visited \subseteq Slots
    BY DEF Visited
  <2> QED BY <2>1, <2>2, <2>3 DEF ScanCovered
<1>4. CASE UNCHANGED <<pc, n, lastClient, lease, released>>
  BY <1>4 DEF ScanCovered, Visited
<1> QED
  BY <1>1, <1>2, <1>3, <1>4
     DEF Next, GetClient, Ask, TakeDropped, ScanLease, ScanFail, Return, vars

(* The conjunction of all the invariants is preserved by every step.       *)
THEOREM Invariance == Spec => []IInv
<1>1. Init => IInv
  BY InitIInv
<1>2. IInv /\ [Next]_vars => IInv'
  BY TypeStep, CallerStep, CountStep, LeaseStep, ExclusiveStep, ScanStep DEF IInv
<1> QED BY <1>1, <1>2, PTL DEF Spec

-------------------------------------------------------------------------------
(* Every variable of the table keeps its type: in particular the cursor    *)
(* of _getClient never leaves the table.                                   *)
THEOREM TypeCorrect == Spec => []TypeOK
<1>1. IInv => TypeOK
  BY DEF IInv
<1> QED BY <1>1, Invariance, PTL

(* No two connections hold the same record until the search loop takes     *)
(* the record of droppedClient.                                            *)
THEOREM Exclusive == Spec => []ExclusiveSlots
<1>1. IInv => ExclusiveSlots
  BY DEF IInv
<1> QED BY <1>1, Invariance, PTL

(* A leased record has a holder, always; and a held record is leased.      *)
THEOREM LeaseHeld == Spec => []LeaseIsHeld
<1>1. IInv => LeaseIsHeld
  BY DEF IInv
<1> QED BY <1>1, Invariance, PTL

(* nclients counts the connections that hold a record.                     *)
THEOREM Count == Spec => []CountIsHolders
<1>1. IInv => CountIsHolders
  BY DEF IInv
<1> QED BY <1>1, Invariance, PTL

(* _getClient refuses only when every record is leased or was released     *)
(* during the call.                                                        *)
THEOREM RefusalJustified == Spec => []RefusedOnlyWhenFull
<1>1. IInv => RefusedOnlyWhenFull
  <2> SUFFICES ASSUME IInv, pc = "scan", n = 0, NEW s \in Slots
               PROVE  lease[s] \/ s \in released
    BY DEF RefusedOnlyWhenFull
  <2>1. s \in Visited
    BY NSlotsAssumption DEF IInv, TypeOK, Visited, Slots
  <2> QED BY <2>1 DEF IInv, ScanCovered
<1> QED BY <1>1, Invariance, PTL

(* The table implements the pool of SlotPool until the search loop takes   *)
(* the record of droppedClient.                                            *)
THEOREM Refinement == Spec => ImplementsPool
<1>1. Init => Pool!Init
  BY DEF Init, Pool!Init
<1>2. IInv /\ [Next]_vars => [Pool!Next \/ raced']_(Pool!absVars)
  <2> SUFFICES ASSUME IInv, [Next]_vars, ~raced'
               PROVE  Pool!Next \/ UNCHANGED Pool!absVars
    OBVIOUS
  <2> USE DEF IInv, TypeOK
  <2>0. ~raced /\ Pool!Held = HeldSlots
    BY DEF Next, GetClient, Ask, TakeDropped, EnterScan, ScanLease, ScanSkip,
           ScanFail, Drop, vars, Pool!Held, HeldSlots
  <2>1. ASSUME NEW k \in Conns, Ask(k) PROVE Pool!Next
    BY <2>1 DEF Ask, CallerOK, Pool!Next, Pool!Ask
  <2>2. CASE TakeDropped
    <3>1. droppedClient \in Slots \ HeldSlots
      BY <2>0, <2>2 DEF TakeDropped, LeaseIsHeld
    <3>2. Pool!Grant(droppedClient)
      BY <2>0, <2>2, <3>1 DEF TakeDropped, Return, CallerOK, Pool!Grant
    <3> QED BY <3>1, <3>2 DEF Pool!Next
  <2>3. CASE EnterScan
    BY <2>3 DEF EnterScan, Pool!absVars
  <2>4. CASE ScanLease
    <3>1. lastClient \in Slots \ HeldSlots
      BY <2>0, <2>4 DEF ScanLease, LeaseIsHeld
    <3>2. Pool!Grant(lastClient)
      BY <2>0, <2>4, <3>1 DEF ScanLease, Return, CallerOK, Pool!Grant
    <3> QED BY <3>1, <3>2 DEF Pool!Next
  <2>5. CASE ScanSkip
    BY <2>5 DEF ScanSkip, Pool!absVars
  <2>6. CASE ScanFail
    <3>1. \A s \in Slots : s \in Visited
      BY <2>6, NSlotsAssumption DEF ScanFail, Visited, Slots
    <3>2. Slots \subseteq HeldSlots \cup released
      BY <2>6, <3>1 DEF ScanFail, ScanCovered, LeaseIsHeld
    <3>3. Pool!Refuse
      BY <2>0, <2>6, <3>2 DEF ScanFail, CallerOK, Pool!Refuse
    <3> QED BY <3>3 DEF Pool!Next
  <2>7. ASSUME NEW k \in Conns, Drop(k) PROVE Pool!Next
    BY <2>7 DEF Drop, Pool!Next, Pool!Release
  <2>8. CASE UNCHANGED vars
    BY <2>8 DEF vars, Pool!absVars
  <2> QED
    BY <2>1, <2>2, <2>3, <2>4, <2>5, <2>6, <2>7, <2>8 DEF Next, GetClient
<1> QED BY <1>1, <1>2, Invariance, PTL DEF Spec, ImplementsPool
===============================================================================
