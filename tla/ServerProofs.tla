----------------------------- MODULE ServerProofs -----------------------------
(***************************************************************************)
(* Proofs about Server, for every number of records and every finite set   *)
(* of connections, with and without the failures and the prints that the   *)
(* constants allow.                                                        *)
(***************************************************************************)
EXTENDS Server, TLAPS

(* The theorems of ClientPool, for the table the server shares with it.    *)
Table == INSTANCE ClientPoolProofs

LoopPcs == {"select", "getClient", "start", "create", "abort"}
StopPcs == {"stop", "cancel", "join", "joining"}
MainPcs == LoopPcs \cup StopPcs \cup {"destroy", "done"}

ServePcs   == {"recv", "work", "lwait", "crit", "reply"}
UncleanPcs == ServePcs \cup {"close", "hclose"}
HoldPcs    == UncleanPcs \cup {"drop", "hdrop"}
GivenPcs   == {"print", "detach"}
ThreadPcs  == HoldPcs \cup GivenPcs \cup {"none", "exited"}

(* What the theorems of ClientPool say of the table.                       *)
PoolInv ==
    /\ Pool!TypeOK
    /\ Pool!ExclusiveSlots
    /\ Pool!LeaseIsHeld
    /\ pc # "idle" => caller \in Conns /\ slotOf[caller] = None

-------------------------------------------------------------------------------
(* Where the main thread is, what it is accepting, and where _getClient is.*)
MainOK ==
    /\ accepting # None <=> mainPc \in {"getClient", "start", "create", "abort"}
    /\ pc # "idle" <=> mainPc = "getClient"
    /\ mainPc = "getClient" => caller = accepting
    /\ mainPc \in {"start", "create", "abort"} => slotOf[accepting] # None
    /\ accepting # None => tpc[accepting] = "none" /\ sock[accepting] # "none"
    /\ mainPc \in LoopPcs => stopIdx = 0

(* A thread holds the record it was started with until it drops it, and    *)
(* only a thread, or the main thread for it, holds a record.               *)
HoldsRecord ==
    \A k \in Conns :
        /\ tpc[k] = "none" <=> rec[k] = None
        /\ tpc[k] \in HoldPcs => slotOf[k] = rec[k]
        /\ tpc[k] = "exited" => slotOf[k] \in {None, rec[k]}
        /\ tpc[k] \in GivenPcs => slotOf[k] = None
        /\ tpc[k] = "exited" /\ k \notin cancelled => slotOf[k] = None
        /\ tpc[k] \in {"hclose", "hdrop"} => k \in cancelled
        /\ tpc[k] = "none" /\ k # accepting => slotOf[k] = None
        /\ sock[k] = "none" => tpc[k] = "none"
        /\ rec[k] # None => slotThread[rec[k]] # None

(* The Lua state a record names was made for the connection that holds the *)
(* record or held it before: a failing start closes nobody else's.         *)
StateOfRecord ==
    \A s \in Slots :
        LET k == slotLua[s] IN
        k # None =>
            /\ rec[k] \in {None, s}
            /\ sock[k] # "none"
            /\ k = accepting => mainPc \in {"create", "abort"} /\ slotOf[k] = s

(* The record _stopClients works on has a thread, which it has cancelled   *)
(* unless the thread was gone.                                             *)
Stopping ==
    LET t == slotThread[stopIdx] IN
    /\ mainPc \in {"cancel", "join", "joining"} => stopIdx < NSlots /\ t \in Conns
    /\ mainPc = "join" => t \in cancelled \/ t \in detached
    /\ mainPc = "joining" => t \in cancelled

-------------------------------------------------------------------------------
(* As long as no record was leased twice.                                  *)

(* The record of the connection that is about to get its thread.           *)
Prepared ==
    LET s == slotOf[accepting] IN
    /\ mainPc \in {"getClient", "start", "create"} => sock[accepting] = "open"
    /\ mainPc = "create" => /\ slotSock[s] = accepting
                            /\ slotLua[s] = accepting /\ lua[accepting] = "open"

(* The record names the thread that holds it.                              *)
OwnThread == \A k \in Conns : tpc[k] \in HoldPcs => slotThread[rec[k]] = k

Owned == OwnClient /\ NoSocketLeak /\ ClosedOnce /\ Prepared /\ OwnThread

-------------------------------------------------------------------------------
(* And no record was started anew before its former thread had detached    *)
(* itself.                                                                 *)

(* A thread detaches itself and no other, as its last action.              *)
OwnDetach ==
    /\ \A k \in Conns : tpc[k] \in GivenPcs => slotThread[rec[k]] = k
    /\ \A k \in detached : tpc[k] = "exited"

(* No client is left behind _stopClients.                                  *)
Behind ==
    mainPc \in StopPcs => \A k \in Unreleased : rec[k] >= stopIdx

Ends == OwnDetach /\ EndedIsGone /\ StoppedBeforeDestroy /\ Behind

IInv == /\ TypeOK /\ MainOK /\ HoldsRecord /\ StateOfRecord /\ Stopping
        /\ ~raced => Owned
        /\ ~raced /\ ~earlyReuse => Ends

(* A step of a thread before client_Cleanup.                               *)
Serve(k, label) ==
    /\ tpc[k] \in ServePcs
    /\ Go(k, label)
    /\ label = "hclose" => k \in cancelled
    /\ lmutex' \in Conns \cup {None}
    /\ UNCHANGED <<poolVars, recVars, endVars, mainVars, rec, cancelled, detached,
                   cmutexLost>>

-------------------------------------------------------------------------------
(* The table of client records is ClientPool's.                            *)

AcceptOK == /\ accepting \in Conns \cup {None}
            /\ mainPc \in {"getClient", "start", "create", "abort"} => accepting \in Conns

(* The steps that do not touch the table.                                  *)
LEMMA OtherSteps ==
  ASSUME [Next]_vars
  PROVE  \/ UNCHANGED poolVars
         \/ \E k \in Conns : Accept(k) \/ DropSelf(k)
         \/ GetClient \/ Abort
<1>1. CASE Signal \/ SelectFails
  BY <1>1 DEF Signal, SelectFails
<1>2. CASE \E k \in Conns : AcceptFails(k) \/ Recv(k) \/ Lock(k)
  BY <1>2 DEF AcceptFails, Recv, Lock
<1>3. CASE MainLoop
  BY <1>3 DEF MainLoop, Start, StartFails, NewStateFails, Create, CreateFails, LeaveLoop
<1>4. CASE MainStop
  BY <1>4 DEF MainStop, StopLook, Cancel, Join, Joined, Destroy
<1>5. CASE \E k \in Conns : Thread(k)
  BY <1>5 DEF Thread, Work, Unlock, Cancelled, Cleanup, CutShort, Detach
<1>6. CASE UNCHANGED vars
  BY <1>6 DEF vars
<1> QED BY <1>1, <1>2, <1>3, <1>4, <1>5, <1>6 DEF Next

(* The steps that do not change what is being accepted.                    *)
LEMMA AcceptStep ==
  ASSUME AcceptOK, [Next]_vars PROVE AcceptOK'
<1>1. CASE Signal \/ SelectFails
  BY <1>1 DEF AcceptOK, Signal, SelectFails, GoMain
<1>2. CASE \E k \in Conns : Accept(k) \/ AcceptFails(k) \/ Recv(k) \/ Lock(k)
  BY <1>2 DEF AcceptOK, Accept, AcceptFails, Recv, Lock, mainVars, GoMain
<1>3. CASE MainLoop
  BY <1>3 DEF AcceptOK, MainLoop, GetClient, Start, StartFails, NewStateFails, Create,
     CreateFails, Abort, LeaveLoop, GoMain
<1>4. CASE MainStop
  BY <1>4 DEF AcceptOK, MainStop, StopLook, Cancel, Join, Joined, Destroy, GoMain
<1>5. CASE \E k \in Conns : Thread(k)
  BY <1>5 DEF AcceptOK, Thread, Work, Unlock, Cancelled, Cleanup, CutShort, DropSelf,
     Detach, mainVars
<1>6. CASE UNCHANGED vars
  BY <1>6 DEF AcceptOK, vars, mainVars
<1> QED BY <1>1, <1>2, <1>3, <1>4, <1>5, <1>6 DEF Next

(* The server changes the table of client records only by _getClient, for  *)
(* the connection it accepts, and by serverDropClient: every theorem of    *)
(* ClientPool holds of the running server.                                 *)
THEOREM TableShared == Spec => SharesPool
<1>1. Init => Pool!Init /\ AcceptOK
  BY DEF Init, AcceptOK
<1>2. AcceptOK /\ [Next]_vars => [Pool!Next]_(Pool!vars)
  <2> SUFFICES ASSUME AcceptOK, [Next]_vars PROVE [Pool!Next]_(Pool!vars)
    OBVIOUS
  <2>1. CASE UNCHANGED poolVars
    BY <2>1 DEF poolVars, Pool!vars
  <2>2. CASE \E k \in Conns : Accept(k) \/ DropSelf(k)
    BY <2>2 DEF Accept, DropSelf, Pool!Next
  <2>3. CASE GetClient
    BY <2>3 DEF GetClient, Pool!Next
  <2>4. CASE Abort
    BY <2>4 DEF Abort, AcceptOK, Pool!Next
  <2> QED BY <2>1, <2>2, <2>3, <2>4, OtherSteps
<1>3. AcceptOK /\ [Next]_vars => AcceptOK'
  BY AcceptStep
<1> QED BY <1>1, <1>2, <1>3, PTL DEF Spec, SharesPool, Pool!Spec

(* What the theorems of ClientPool say of the table of the server.         *)
LEMMA TableKept == Spec => []PoolInv
<1>1. Pool!Slots = Table!Slots
  BY DEF Pool!Slots, Table!Slots
<1>2. Pool!Init <=> Table!Init
  BY <1>1 DEF Pool!Init, Table!Init
<1>3. [Pool!Next]_(Pool!vars) <=> [Table!Next]_(Table!vars)
  BY DEF Pool!vars, Table!vars, Pool!Ask, Table!Ask, Pool!Return, Table!Return,
     Pool!TakeDropped, Table!TakeDropped, Pool!EnterScan, Table!EnterScan,
     Pool!ScanLease, Table!ScanLease, Pool!ScanSkip, Table!ScanSkip,
     Pool!ScanFail, Table!ScanFail, Pool!GetClient, Table!GetClient, Pool!Drop,
     Table!Drop, Pool!Next, Table!Next
<1>4. Table!IInv => PoolInv
  BY <1>1 DEF Table!IInv, PoolInv, Table!TypeOK, Pool!TypeOK, Table!CallerOK,
     Table!ExclusiveSlots, Pool!ExclusiveSlots, Table!LeaseIsHeld, Pool!LeaseIsHeld,
     Table!HeldSlots, Pool!HeldSlots
<1>5. Pool!Spec <=> Table!Spec
  BY <1>2, <1>3, PTL DEF Pool!Spec, Table!Spec
<1>6. Table!IsFiniteSet(Conns)
  BY ConnsAssumption DEF IsFiniteSet, Table!IsFiniteSet
<1> QED BY <1>4, <1>5, <1>6, NSlotsAssumption, NoneAssumption, TableShared,
           Table!Invariance, PTL DEF SharesPool

(* What a step of _getClient does to who holds which record.               *)
LEMMA GetClientGrants ==
  ASSUME PoolInv, Pool!GetClient
  PROVE  /\ ~raced' => ~raced
         /\ pc # "idle"
         /\ \/ pc' # "idle" /\ UNCHANGED <<slotOf, caller>>
            \/ pc' = "idle" /\ UNCHANGED slotOf
            \/ pc' = "idle" /\ \E s \in Slots : slotOf' = [slotOf EXCEPT ![caller] = s]
<1>1. CASE Pool!TakeDropped
  BY <1>1 DEF PoolInv, Pool!TypeOK, Pool!TakeDropped, Pool!Return, Slots
<1>2. CASE Pool!EnterScan \/ Pool!ScanSkip \/ Pool!ScanFail
  BY <1>2 DEF Pool!EnterScan, Pool!ScanSkip, Pool!ScanFail
<1>3. CASE Pool!ScanLease
  BY <1>3 DEF PoolInv, Pool!TypeOK, Pool!ScanLease, Pool!Return, Slots
<1> QED BY <1>1, <1>2, <1>3 DEF Pool!GetClient

LEMMA ServeSteps ==
  ASSUME TypeOK, NEW k \in Conns, Recv(k) \/ Lock(k) \/ Work(k) \/ Unlock(k) \/ Cancelled(k)
  PROVE  \E label \in UncleanPcs : Serve(k, label)
<1>1. CASE Recv(k)
  BY <1>1 DEF TypeOK, Serve, Recv, ServePcs, UncleanPcs, lockVars
<1>2. CASE Lock(k)
  BY <1>2 DEF TypeOK, Serve, Lock, ServePcs, UncleanPcs, lockVars
<1>3. CASE Work(k)
  BY <1>3 DEF TypeOK, Serve, Work, ServePcs, UncleanPcs, lockVars
<1>4. CASE Unlock(k)
  BY <1>4 DEF TypeOK, Serve, Unlock, ServePcs, UncleanPcs, lockVars
<1>5. CASE Cancelled(k)
  BY <1>5 DEF TypeOK, Serve, Cancelled, ServePcs, UncleanPcs, lockVars
<1> QED BY <1>1, <1>2, <1>3, <1>4, <1>5

-------------------------------------------------------------------------------
(* Each action keeps the invariant.                                        *)

(* The signal ends the loop, and touches nothing that is owned.            *)
LEMMA SignalKeeps ==
  ASSUME IInv, PoolInv, PoolInv', Signal
  PROVE  IInv'
<1>1. /\ TypeOK /\ MainOK /\ HoldsRecord /\ StateOfRecord /\ Stopping
      /\ UNCHANGED <<lease, pc, caller, slotOf, raced, mainPc, accepting,
                      stopIdx, slotSock, slotLua, slotThread, sock, lua, tpc,
                      rec, cancelled, detached, lmutex, cmutexLost, earlyReuse,
                      selectFailed, noState>>
  BY DEF IInv, Signal, poolVars, recVars, endVars, histVars, thrVars, lockVars
<1>2. TypeOK'
  BY <1>1 DEF TypeOK, Signal, PoolInv
<1>3. MainOK' /\ HoldsRecord' /\ StateOfRecord' /\ Stopping'
  BY <1>1 DEF MainOK, HoldsRecord, StateOfRecord, Stopping
<1>4. ASSUME ~raced' PROVE Owned'
  <2>1. ~raced /\ OwnClient /\ NoSocketLeak /\ ClosedOnce /\ Prepared /\ OwnThread
    BY <1>1, <1>4 DEF IInv, Owned
  <2>2. OwnClient' /\ NoSocketLeak' /\ ClosedOnce' /\ Prepared' /\ OwnThread'
    BY <1>1, <2>1 DEF OwnClient, NoSocketLeak, ClosedOnce, Prepared, OwnThread,
       Unreleased, Serving
  <2> QED BY <2>2 DEF Owned
<1>5. ASSUME ~raced', ~earlyReuse' PROVE Ends'
  <2>1. /\ ~raced /\ ~earlyReuse
        /\ OwnClient /\ NoSocketLeak /\ ClosedOnce /\ Prepared /\ OwnThread
        /\ OwnDetach /\ EndedIsGone /\ StoppedBeforeDestroy /\ Behind
    BY <1>1, <1>5 DEF IInv, Owned, Ends
  <2>2. OwnDetach' /\ EndedIsGone' /\ StoppedBeforeDestroy' /\ Behind'
    BY <1>1, <2>1 DEF OwnDetach, EndedIsGone, StoppedBeforeDestroy, Behind,
       Unreleased, Serving, StopPcs
  <2> QED BY <2>2 DEF Ends
<1> QED BY <1>2, <1>3, <1>4, <1>5 DEF IInv

(* A connection nobody has seen before is accepted.                        *)
LEMMA AcceptKeeps ==
  ASSUME IInv, PoolInv, PoolInv', NEW k \in Conns, Accept(k)
  PROVE  IInv'
<1>1. /\ TypeOK /\ MainOK /\ HoldsRecord /\ StateOfRecord /\ Stopping
      /\ UNCHANGED <<run, stopIdx, slotSock, slotLua, slotThread, lua, tpc,
                      rec, cancelled, detached, lmutex, cmutexLost, earlyReuse,
                      selectFailed, noState, slotOf, raced>>
  BY DEF IInv, Accept, recVars, histVars, thrVars, lockVars, Pool!Ask
<1>2. TypeOK'
  BY <1>1 DEF TypeOK, Accept, GoMain, PoolInv
<1>3. MainOK'
  BY <1>1, NoneAssumption DEF MainOK, Accept, GoMain, LoopPcs, TypeOK,
     HoldsRecord, Pool!Ask
<1>4. HoldsRecord'
  BY <1>1, NoneAssumption DEF HoldsRecord, Accept, GoMain, HoldPcs, GivenPcs,
     MainOK
<1>5. StateOfRecord' /\ Stopping'
  BY <1>1 DEF StateOfRecord, Stopping, Accept, GoMain
<1>6. ASSUME ~raced' PROVE Owned'
  <2>1. ~raced /\ OwnClient /\ NoSocketLeak /\ ClosedOnce /\ Prepared /\ OwnThread
    BY <1>1, <1>6 DEF IInv, Owned
  <2>2. NoSocketLeak'
    BY <1>1, <2>1, NoneAssumption DEF NoSocketLeak, Accept, GoMain, Unreleased,
       Serving, MainOK
  <2>3. Prepared'
    BY <1>1, <2>1 DEF Prepared, Accept, GoMain, TypeOK
  <2>4. OwnClient' /\ ClosedOnce' /\ OwnThread'
    BY <1>1, <2>1 DEF OwnClient, ClosedOnce, OwnThread, Accept, GoMain,
       Unreleased, Serving
  <2> QED BY <2>2, <2>3, <2>4 DEF Owned
<1>7. ASSUME ~raced', ~earlyReuse' PROVE Ends'
  <2>1. /\ ~raced /\ ~earlyReuse
        /\ OwnClient /\ NoSocketLeak /\ ClosedOnce /\ Prepared /\ OwnThread
        /\ OwnDetach /\ EndedIsGone /\ StoppedBeforeDestroy /\ Behind
    BY <1>1, <1>7 DEF IInv, Owned, Ends
  <2>2. OwnDetach' /\ EndedIsGone' /\ StoppedBeforeDestroy' /\ Behind'
    BY <1>1, <2>1 DEF OwnDetach, EndedIsGone, StoppedBeforeDestroy, Behind,
       Accept, GoMain, StopPcs, Unreleased, Serving
  <2> QED BY <2>2 DEF Ends
<1> QED BY <1>2, <1>3, <1>4, <1>5, <1>6, <1>7 DEF IInv

(* Its socket is closed again before anything else is made.                *)
LEMMA AcceptFailsKeeps ==
  ASSUME IInv, PoolInv, PoolInv', NEW k \in Conns, AcceptFails(k)
  PROVE  IInv'
<1>1. /\ TypeOK /\ MainOK /\ HoldsRecord /\ StateOfRecord /\ Stopping
      /\ UNCHANGED <<lease, pc, caller, slotOf, raced, run, mainPc, accepting,
                      stopIdx, slotSock, slotLua, slotThread, lua, tpc, rec,
                      cancelled, detached, lmutex, cmutexLost, earlyReuse,
                      selectFailed, noState>>
  BY DEF IInv, AcceptFails, poolVars, recVars, mainVars, thrVars, lockVars,
     histVars
<1>2. TypeOK'
  BY <1>1 DEF TypeOK, AcceptFails, PoolInv
<1>3. MainOK' /\ HoldsRecord' /\ StateOfRecord' /\ Stopping'
  BY <1>1 DEF MainOK, HoldsRecord, StateOfRecord, Stopping, AcceptFails
<1>4. ASSUME ~raced' PROVE Owned'
  <2>1. ~raced /\ OwnClient /\ NoSocketLeak /\ ClosedOnce /\ Prepared /\ OwnThread
    BY <1>1, <1>4 DEF IInv, Owned
  <2>2. OwnClient' /\ NoSocketLeak' /\ ClosedOnce' /\ Prepared' /\ OwnThread'
    BY <1>1, <2>1 DEF OwnClient, NoSocketLeak, ClosedOnce, Prepared, OwnThread,
       AcceptFails, Unreleased, Serving
  <2> QED BY <2>2 DEF Owned
<1>5. ASSUME ~raced', ~earlyReuse' PROVE Ends'
  <2>1. /\ ~raced /\ ~earlyReuse
        /\ OwnClient /\ NoSocketLeak /\ ClosedOnce /\ Prepared /\ OwnThread
        /\ OwnDetach /\ EndedIsGone /\ StoppedBeforeDestroy /\ Behind
    BY <1>1, <1>5 DEF IInv, Owned, Ends
  <2>2. OwnDetach' /\ EndedIsGone' /\ StoppedBeforeDestroy' /\ Behind'
    BY <1>1, <2>1 DEF OwnDetach, EndedIsGone, StoppedBeforeDestroy, Behind,
       Unreleased, Serving, StopPcs
  <2> QED BY <2>2 DEF Ends
<1> QED BY <1>2, <1>3, <1>4, <1>5 DEF IInv

(* The record granted is nobody's; a refused connection is closed.         *)
LEMMA GetClientKeeps ==
  ASSUME IInv, PoolInv, PoolInv', GetClient
  PROVE  IInv'
<1>1. /\ TypeOK /\ MainOK /\ HoldsRecord /\ StateOfRecord /\ Stopping
      /\ UNCHANGED <<run, stopIdx, slotSock, slotLua, slotThread, lua, tpc,
                      rec, cancelled, detached, lmutex, cmutexLost, earlyReuse,
                      selectFailed, noState>>
  BY DEF IInv, GetClient, recVars, histVars, thrVars, lockVars
<1>2. /\ ~raced' => ~raced
      /\ pc # "idle"
      /\ \/ pc' # "idle" /\ UNCHANGED <<slotOf, caller>>
         \/ pc' = "idle" /\ UNCHANGED slotOf
         \/ pc' = "idle" /\ \E s \in Slots : slotOf' = [slotOf EXCEPT ![caller] = s]
  BY GetClientGrants DEF GetClient
<1>3. TypeOK'
  BY <1>1, <1>2 DEF TypeOK, GetClient, GoMain, Close, PoolInv
<1>4. HoldsRecord'
  BY <1>1, <1>2 DEF HoldsRecord, GetClient, GoMain, Close, HoldPcs, GivenPcs,
     UncleanPcs, ServePcs, TypeOK, MainOK, Pool!TypeOK
<1>5. StateOfRecord'
  BY <1>1, <1>2 DEF StateOfRecord, GetClient, GoMain, Close, TypeOK
<1>6. MainOK' /\ Stopping'
  BY <1>1, <1>2 DEF MainOK, Stopping, GetClient, GoMain, Close, LoopPcs
<1>7. ASSUME ~raced' PROVE Owned'
  <2>1. ~raced /\ OwnClient /\ NoSocketLeak /\ ClosedOnce /\ Prepared /\ OwnThread
    BY <1>1, <1>2, <1>7 DEF IInv, Owned
  <2>2. OwnClient'
    BY <1>1, <1>2, <2>1 DEF OwnClient, GetClient, GoMain, Close, Unreleased,
       Serving, TypeOK, MainOK, Pool!TypeOK
  <2>3. NoSocketLeak'
    BY <1>1, <1>2, <2>1 DEF NoSocketLeak, GetClient, GoMain, Close, Unreleased,
       Serving, TypeOK
  <2>4. ClosedOnce'
    BY <1>1, <1>2, <2>1 DEF ClosedOnce, GetClient, GoMain, Close, TypeOK,
       HoldsRecord, MainOK
  <2>5. Prepared' /\ OwnThread'
    BY <1>1, <1>2, <2>1 DEF Prepared, OwnThread, GetClient, GoMain, Close
  <2> QED BY <2>2, <2>3, <2>4, <2>5 DEF Owned
<1>8. ASSUME ~raced', ~earlyReuse' PROVE Ends'
  <2>1. /\ ~raced /\ ~earlyReuse
        /\ OwnClient /\ NoSocketLeak /\ ClosedOnce /\ Prepared /\ OwnThread
        /\ OwnDetach /\ EndedIsGone /\ StoppedBeforeDestroy /\ Behind
    BY <1>1, <1>2, <1>8 DEF IInv, Owned, Ends
  <2>2. EndedIsGone'
    BY <1>1, <1>2, <2>1 DEF EndedIsGone, GetClient, GoMain, MainOK, TypeOK,
       PoolInv, Pool!TypeOK
  <2>3. OwnDetach' /\ StoppedBeforeDestroy' /\ Behind'
    BY <1>1, <1>2, <2>1 DEF OwnDetach, StoppedBeforeDestroy, Behind, GetClient,
       GoMain, Close, StopPcs, Unreleased, Serving
  <2> QED BY <2>2, <2>3 DEF Ends
<1> QED BY <1>3, <1>4, <1>5, <1>6, <1>7, <1>8 DEF IInv

(* The record takes the socket and the Lua state of its new client.        *)
LEMMA StartKeeps ==
  ASSUME IInv, PoolInv, PoolInv', Start
  PROVE  IInv'
<1>1. /\ TypeOK /\ MainOK /\ HoldsRecord /\ StateOfRecord /\ Stopping
      /\ UNCHANGED <<lease, pc, caller, slotOf, raced, run, accepting, stopIdx,
                      slotThread, sock, tpc, rec, cancelled, detached, lmutex,
                      cmutexLost, earlyReuse, selectFailed, noState>>
  BY DEF IInv, Start, poolVars, histVars, thrVars, lockVars
<1>2. TypeOK'
  BY <1>1 DEF TypeOK, Start, GoMain, PoolInv
<1>3. StateOfRecord'
  BY <1>1 DEF StateOfRecord, Start, GoMain, TypeOK, HoldsRecord, MainOK
<1>4. MainOK' /\ HoldsRecord' /\ Stopping'
  BY <1>1 DEF MainOK, HoldsRecord, Stopping, Start, GoMain, LoopPcs
<1>5. ASSUME ~raced' PROVE Owned'
  <2>1. ~raced /\ OwnClient /\ NoSocketLeak /\ ClosedOnce /\ Prepared /\ OwnThread
    BY <1>1, <1>5 DEF IInv, Owned
  <2>2. OwnClient'
    BY <1>1, <2>1 DEF OwnClient, Start, GoMain, Unreleased, Serving, TypeOK,
       MainOK, PoolInv, Pool!ExclusiveSlots
  <2>3. ClosedOnce'
    BY <1>1, <2>1 DEF ClosedOnce, Start, GoMain, HoldsRecord, MainOK
  <2>4. Prepared'
    BY <1>1, <2>1 DEF Prepared, Start, GoMain, TypeOK, MainOK, Slots,
       Pool!TypeOK
  <2>5. NoSocketLeak' /\ OwnThread'
    BY <1>1, <2>1 DEF NoSocketLeak, OwnThread, Unreleased, Serving
  <2> QED BY <2>2, <2>3, <2>4, <2>5 DEF Owned
<1>6. ASSUME ~raced', ~earlyReuse' PROVE Ends'
  <2>1. /\ ~raced /\ ~earlyReuse
        /\ OwnClient /\ NoSocketLeak /\ ClosedOnce /\ Prepared /\ OwnThread
        /\ OwnDetach /\ EndedIsGone /\ StoppedBeforeDestroy /\ Behind
    BY <1>1, <1>6 DEF IInv, Owned, Ends
  <2>2. OwnDetach' /\ EndedIsGone' /\ StoppedBeforeDestroy' /\ Behind'
    BY <1>1, <2>1 DEF OwnDetach, EndedIsGone, StoppedBeforeDestroy, Behind,
       Start, GoMain, StopPcs, Unreleased, Serving
  <2> QED BY <2>2 DEF Ends
<1> QED BY <1>2, <1>3, <1>4, <1>5, <1>6 DEF IInv

(* The start fails: what was made is closed, and no thread will run.       *)
LEMMA StartFailsKeeps ==
  ASSUME IInv, PoolInv, PoolInv', StartFails
  PROVE  IInv'
<1>1. /\ TypeOK /\ MainOK /\ HoldsRecord /\ StateOfRecord /\ Stopping
      /\ UNCHANGED <<lease, pc, caller, slotOf, raced, run, accepting, stopIdx,
                      slotThread, tpc, rec, cancelled, detached, lmutex,
                      cmutexLost, earlyReuse, selectFailed, noState>>
  BY DEF IInv, StartFails, poolVars, histVars, thrVars, lockVars
<1>2. TypeOK'
  BY <1>1 DEF TypeOK, StartFails, Close, GoMain, PoolInv
<1>3. StateOfRecord'
  BY <1>1 DEF StateOfRecord, StartFails, Close, GoMain, TypeOK, HoldsRecord,
     MainOK
<1>4. MainOK' /\ HoldsRecord' /\ Stopping'
  BY <1>1 DEF MainOK, HoldsRecord, Stopping, StartFails, Close, GoMain, LoopPcs
<1>5. ASSUME ~raced' PROVE Owned'
  <2>1. ~raced /\ OwnClient /\ NoSocketLeak /\ ClosedOnce /\ Prepared /\ OwnThread
    BY <1>1, <1>5 DEF IInv, Owned
  <2>2. OwnClient'
    BY <1>1, <2>1 DEF OwnClient, StartFails, Close, GoMain, Unreleased,
       Serving, TypeOK, MainOK, PoolInv, Pool!ExclusiveSlots
  <2>3. ClosedOnce'
    BY <1>1, <2>1 DEF ClosedOnce, StartFails, Close, GoMain, HoldsRecord,
       MainOK
  <2>4. NoSocketLeak' /\ Prepared' /\ OwnThread'
    BY <1>1, <2>1 DEF NoSocketLeak, Prepared, OwnThread, StartFails, Close,
       GoMain, Unreleased, Serving
  <2> QED BY <2>2, <2>3, <2>4 DEF Owned
<1>6. ASSUME ~raced', ~earlyReuse' PROVE Ends'
  <2>1. /\ ~raced /\ ~earlyReuse
        /\ OwnClient /\ NoSocketLeak /\ ClosedOnce /\ Prepared /\ OwnThread
        /\ OwnDetach /\ EndedIsGone /\ StoppedBeforeDestroy /\ Behind
    BY <1>1, <1>6 DEF IInv, Owned, Ends
  <2>2. OwnDetach' /\ EndedIsGone' /\ StoppedBeforeDestroy' /\ Behind'
    BY <1>1, <2>1 DEF OwnDetach, EndedIsGone, StoppedBeforeDestroy, Behind,
       StartFails, Close, GoMain, StopPcs, Unreleased, Serving
  <2> QED BY <2>2 DEF Ends
<1> QED BY <1>2, <1>3, <1>4, <1>5, <1>6 DEF IInv

(* So it is without a Lua state, but a state of a former client is closed. *)
LEMMA NewStateFailsKeeps ==
  ASSUME IInv, PoolInv, PoolInv', NewStateFails
  PROVE  IInv'
<1>1. /\ TypeOK /\ MainOK /\ HoldsRecord /\ StateOfRecord /\ Stopping
      /\ UNCHANGED <<lease, pc, caller, slotOf, raced, run, accepting, stopIdx,
                      slotLua, slotThread, tpc, rec, cancelled, detached,
                      lmutex, cmutexLost, earlyReuse, selectFailed>>
  BY DEF IInv, NewStateFails, poolVars, thrVars, lockVars
<1>2. TypeOK'
  BY <1>1 DEF TypeOK, NewStateFails, Close, GoMain, HoldsRecord, MainOK,
     PoolInv
<1>3. MainOK' /\ HoldsRecord' /\ StateOfRecord' /\ Stopping'
  BY <1>1 DEF MainOK, HoldsRecord, StateOfRecord, Stopping, NewStateFails,
     Close, GoMain, LoopPcs
<1>4. ASSUME ~raced' PROVE Owned'
  <2>1. ~raced /\ OwnClient /\ NoSocketLeak /\ ClosedOnce /\ Prepared /\ OwnThread
    BY <1>1, <1>4 DEF IInv, Owned
  <2>2. OwnClient'
    <3>1. SUFFICES ASSUME NEW k \in Unreleased
                   PROVE  /\ k # accepting /\ rec[k] # slotOf[accepting]
                          /\ k # slotLua[slotOf[accepting]]
      BY <1>1, <2>1, NoneAssumption DEF OwnClient, NewStateFails, Close, Unreleased, Serving, TypeOK
    <3>2. k \in Conns /\ k # accepting /\ rec[k] # None /\ slotOf[k] = rec[k]
      BY <1>1, <2>1 DEF NewStateFails, MainOK, HoldsRecord, OwnClient, Unreleased, Serving
    <3>3. accepting \in Conns /\ slotOf[accepting] \in Slots
      BY <1>1 DEF NewStateFails, MainOK, TypeOK, PoolInv, Pool!TypeOK, Slots
    <3>4. rec[k] # slotOf[accepting]
      BY <2>1, <3>2, <3>3 DEF PoolInv, Pool!ExclusiveSlots
    <3> QED BY <1>1, <3>2, <3>3, <3>4, NoneAssumption DEF StateOfRecord
  <2>3. ClosedOnce'
    <3>1. noState' # {} /\ accepting \in Conns /\ rec[accepting] = None
      BY <1>1 DEF NewStateFails, MainOK, TypeOK, HoldsRecord
    <3>2. sock' = [sock EXCEPT ![accepting] = IF @ = "open" THEN "closed" ELSE "twice"]
      BY <3>1, NoneAssumption DEF NewStateFails, Close
    <3>3. ASSUME NEW k \in Conns, sock'[k] = "twice" PROVE rec'[k] = None
      <4>1. k # accepting => sock[k] = "twice"
        BY <1>1, <3>1, <3>2, <3>3 DEF TypeOK
      <4> QED BY <1>1, <2>1, <3>1, <4>1 DEF ClosedOnce
    <3> QED BY <3>1, <3>3 DEF ClosedOnce
  <2>4. NoSocketLeak' /\ Prepared' /\ OwnThread'
    BY <1>1, <2>1 DEF NoSocketLeak, Prepared, OwnThread, NewStateFails, Close,
       GoMain, Unreleased, Serving
  <2> QED BY <2>2, <2>3, <2>4 DEF Owned
<1>5. ASSUME ~raced', ~earlyReuse' PROVE Ends'
  <2>1. /\ ~raced /\ ~earlyReuse
        /\ OwnClient /\ NoSocketLeak /\ ClosedOnce /\ Prepared /\ OwnThread
        /\ OwnDetach /\ EndedIsGone /\ StoppedBeforeDestroy /\ Behind
    BY <1>1, <1>5 DEF IInv, Owned, Ends
  <2>2. OwnDetach' /\ EndedIsGone' /\ StoppedBeforeDestroy' /\ Behind'
    BY <1>1, <2>1 DEF OwnDetach, EndedIsGone, StoppedBeforeDestroy, Behind,
       NewStateFails, Close, GoMain, StopPcs, Unreleased, Serving
  <2> QED BY <2>2 DEF Ends
<1> QED BY <1>2, <1>3, <1>4, <1>5 DEF IInv

(* The thread gets a record that is prepared, and is the one it names.     *)
LEMMA CreateKeeps ==
  ASSUME IInv, PoolInv, PoolInv', Create
  PROVE  IInv'
<1>1. /\ TypeOK /\ MainOK /\ HoldsRecord /\ StateOfRecord /\ Stopping
      /\ UNCHANGED <<lease, pc, caller, slotOf, raced, run, stopIdx, slotSock,
                      slotLua, sock, lua, cancelled, detached, lmutex,
                      cmutexLost, selectFailed, noState>>
  BY DEF IInv, Create, poolVars, endVars, lockVars
<1>2. TypeOK'
  BY <1>1 DEF TypeOK, Create, Go, GoMain, MainOK, Slots, Pool!TypeOK, PoolInv
<1>3. HoldsRecord'
  BY <1>1 DEF HoldsRecord, Create, Go, GoMain, GivenPcs, TypeOK, MainOK, Slots,
     Pool!TypeOK
<1>4. MainOK' /\ StateOfRecord' /\ Stopping'
  BY <1>1 DEF MainOK, StateOfRecord, Stopping, Create, Go, GoMain, LoopPcs
<1>5. ASSUME ~raced' PROVE Owned'
  <2>1. ~raced /\ OwnClient /\ NoSocketLeak /\ ClosedOnce /\ Prepared /\ OwnThread
    BY <1>1, <1>5 DEF IInv, Owned
  <2>2. OwnClient'
    BY <1>1, <2>1 DEF OwnClient, Create, Go, GoMain, Unreleased, Serving,
       TypeOK, MainOK, Slots, Pool!TypeOK, Prepared
  <2>3. NoSocketLeak'
    BY <1>1, <2>1 DEF NoSocketLeak, Create, Go, GoMain, Unreleased, Serving,
       TypeOK
  <2>4. ClosedOnce'
    BY <1>1, <2>1 DEF ClosedOnce, Create, Go, GoMain, Prepared, GivenPcs,
       Unreleased, Serving
  <2>5. OwnThread'
    BY <1>1, <2>1 DEF OwnThread, Create, Go, GoMain, TypeOK, HoldsRecord,
       MainOK, Slots, PoolInv, Pool!TypeOK, Pool!ExclusiveSlots
  <2>6. Prepared'
    BY <1>1, <2>1 DEF Prepared, Create, Go, GoMain
  <2> QED BY <2>2, <2>3, <2>4, <2>5, <2>6 DEF Owned
<1>6. ASSUME ~raced', ~earlyReuse' PROVE Ends'
  <2>1. /\ ~raced /\ ~earlyReuse
        /\ OwnClient /\ NoSocketLeak /\ ClosedOnce /\ Prepared /\ OwnThread
        /\ OwnDetach /\ EndedIsGone /\ StoppedBeforeDestroy /\ Behind
    BY <1>1, <1>6 DEF IInv, Owned, Ends, Create
  <2>2. OwnDetach'
    BY <1>1, <2>1, <1>6 DEF OwnDetach, Create, Go, GoMain, GivenPcs, TypeOK,
       MainOK, PoolInv, Pool!TypeOK, Pool!LeaseIsHeld, Pool!HeldSlots
  <2>3. EndedIsGone' /\ StoppedBeforeDestroy' /\ Behind'
    BY <1>1, <2>1, <1>6 DEF EndedIsGone, StoppedBeforeDestroy, Behind, Create,
       Go, GoMain, StopPcs, Unreleased, Serving
  <2> QED BY <2>2, <2>3 DEF Ends
<1> QED BY <1>2, <1>3, <1>4, <1>5, <1>6 DEF IInv

(* No thread: client_Cleanup closes what it would have worked on.          *)
LEMMA CreateFailsKeeps ==
  ASSUME IInv, PoolInv, PoolInv', CreateFails
  PROVE  IInv'
<1>1. /\ TypeOK /\ MainOK /\ HoldsRecord /\ StateOfRecord /\ Stopping
      /\ UNCHANGED <<lease, pc, caller, slotOf, raced, run, accepting, stopIdx,
                      slotSock, slotLua, slotThread, tpc, rec, cancelled,
                      detached, lmutex, cmutexLost, earlyReuse, selectFailed,
                      noState>>
  BY DEF IInv, CreateFails, poolVars, recVars, histVars, thrVars, lockVars
<1>2. TypeOK'
  BY <1>1 DEF TypeOK, CreateFails, Close, GoMain, PoolInv
<1>3. MainOK' /\ HoldsRecord' /\ StateOfRecord' /\ Stopping'
  BY <1>1 DEF MainOK, HoldsRecord, StateOfRecord, Stopping, CreateFails, Close,
     GoMain, LoopPcs
<1>4. ASSUME ~raced' PROVE Owned'
  <2>1. ~raced /\ OwnClient /\ NoSocketLeak /\ ClosedOnce /\ Prepared /\ OwnThread
    BY <1>1, <1>4 DEF IInv, Owned
  <2>2. OwnClient'
    BY <1>1, <2>1 DEF OwnClient, CreateFails, Close, GoMain, Unreleased,
       Serving, MainOK, Prepared
  <2>3. ClosedOnce'
    BY <1>1, <2>1 DEF ClosedOnce, CreateFails, Close, GoMain, Prepared,
       Unreleased
  <2>4. NoSocketLeak' /\ Prepared' /\ OwnThread'
    BY <1>1, <2>1 DEF NoSocketLeak, Prepared, OwnThread, CreateFails, Close,
       GoMain, Unreleased, Serving
  <2> QED BY <2>2, <2>3, <2>4 DEF Owned
<1>5. ASSUME ~raced', ~earlyReuse' PROVE Ends'
  <2>1. /\ ~raced /\ ~earlyReuse
        /\ OwnClient /\ NoSocketLeak /\ ClosedOnce /\ Prepared /\ OwnThread
        /\ OwnDetach /\ EndedIsGone /\ StoppedBeforeDestroy /\ Behind
    BY <1>1, <1>5 DEF IInv, Owned, Ends
  <2>2. OwnDetach' /\ EndedIsGone' /\ StoppedBeforeDestroy' /\ Behind'
    BY <1>1, <2>1 DEF OwnDetach, EndedIsGone, StoppedBeforeDestroy, Behind,
       CreateFails, Close, GoMain, StopPcs, Unreleased
  <2> QED BY <2>2 DEF Ends
<1> QED BY <1>2, <1>3, <1>4, <1>5 DEF IInv

(* The record of the failed start is given back.                           *)
LEMMA AbortKeeps ==
  ASSUME IInv, PoolInv, PoolInv', Abort
  PROVE  IInv'
<1>1. /\ TypeOK /\ MainOK /\ HoldsRecord /\ StateOfRecord /\ Stopping
      /\ UNCHANGED <<run, stopIdx, slotSock, slotLua, slotThread, lua, tpc,
                      rec, cancelled, detached, lmutex, cmutexLost, earlyReuse,
                      selectFailed, noState, raced, pc, caller>>
  BY DEF IInv, Abort, recVars, histVars, thrVars, lockVars, Pool!Drop
<1>2. TypeOK'
  BY <1>1 DEF TypeOK, Abort, Close, GoMain, PoolInv
<1>3. HoldsRecord'
  BY <1>1 DEF HoldsRecord, Abort, Close, GoMain, Pool!Drop, MainOK, TypeOK,
     PoolInv, Pool!TypeOK, HoldPcs, GivenPcs, UncleanPcs, ServePcs
<1>4. MainOK' /\ StateOfRecord' /\ Stopping'
  BY <1>1 DEF MainOK, StateOfRecord, Stopping, Abort, Pool!Drop, Close, GoMain,
     LoopPcs
<1>5. ASSUME ~raced' PROVE Owned'
  <2>1. ~raced /\ OwnClient /\ NoSocketLeak /\ ClosedOnce /\ Prepared /\ OwnThread
    BY <1>1, <1>5 DEF IInv, Owned
  <2>2. OwnClient'
    BY <1>1, <2>1 DEF OwnClient, Abort, Pool!Drop, Close, GoMain, Unreleased,
       Serving, MainOK
  <2>3. NoSocketLeak'
    BY <1>1, <2>1 DEF NoSocketLeak, Abort, Close, GoMain, Unreleased, Serving,
       TypeOK
  <2>4. ClosedOnce'
    BY <1>1, <2>1 DEF ClosedOnce, Abort, Close, GoMain, HoldsRecord, MainOK
  <2>5. Prepared' /\ OwnThread'
    BY <1>1, <2>1 DEF Prepared, OwnThread, Abort, Pool!Drop, Close, GoMain
  <2> QED BY <2>2, <2>3, <2>4, <2>5 DEF Owned
<1>6. ASSUME ~raced', ~earlyReuse' PROVE Ends'
  <2>1. /\ ~raced /\ ~earlyReuse
        /\ OwnClient /\ NoSocketLeak /\ ClosedOnce /\ Prepared /\ OwnThread
        /\ OwnDetach /\ EndedIsGone /\ StoppedBeforeDestroy /\ Behind
    BY <1>1, <1>6 DEF IInv, Owned, Ends
  <2>2. OwnDetach' /\ EndedIsGone' /\ StoppedBeforeDestroy' /\ Behind'
    BY <1>1, <2>1 DEF OwnDetach, EndedIsGone, StoppedBeforeDestroy, Behind,
       Abort, Pool!Drop, Close, GoMain, StopPcs, Unreleased
  <2> QED BY <2>2 DEF Ends
<1> QED BY <1>2, <1>3, <1>4, <1>5, <1>6 DEF IInv

(* _stopClients starts with no client behind it.                           *)
LEMMA LeaveLoopKeeps ==
  ASSUME IInv, PoolInv, PoolInv', LeaveLoop
  PROVE  IInv'
<1>1. /\ TypeOK /\ MainOK /\ HoldsRecord /\ StateOfRecord /\ Stopping
      /\ UNCHANGED <<lease, pc, caller, slotOf, raced, run, accepting, stopIdx,
                      slotSock, slotLua, slotThread, sock, lua, tpc, rec,
                      cancelled, detached, lmutex, cmutexLost, earlyReuse,
                      selectFailed, noState>>
  BY DEF IInv, LeaveLoop, poolVars, recVars, endVars, histVars, thrVars,
     lockVars
<1>2. TypeOK'
  BY <1>1 DEF TypeOK, LeaveLoop, GoMain, PoolInv
<1>3. MainOK' /\ HoldsRecord' /\ StateOfRecord' /\ Stopping'
  BY <1>1 DEF MainOK, HoldsRecord, StateOfRecord, Stopping, LeaveLoop, GoMain,
     LoopPcs
<1>4. ASSUME ~raced' PROVE Owned'
  <2>1. ~raced /\ OwnClient /\ NoSocketLeak /\ ClosedOnce /\ Prepared /\ OwnThread
    BY <1>1, <1>4 DEF IInv, Owned
  <2>2. OwnClient' /\ NoSocketLeak' /\ ClosedOnce' /\ Prepared' /\ OwnThread'
    BY <1>1, <2>1 DEF OwnClient, NoSocketLeak, ClosedOnce, Prepared, OwnThread,
       Unreleased, Serving, LeaveLoop, GoMain
  <2> QED BY <2>2 DEF Owned
<1>5. ASSUME ~raced', ~earlyReuse' PROVE Ends'
  <2>1. /\ ~raced /\ ~earlyReuse
        /\ OwnClient /\ NoSocketLeak /\ ClosedOnce /\ Prepared /\ OwnThread
        /\ OwnDetach /\ EndedIsGone /\ StoppedBeforeDestroy /\ Behind
    BY <1>1, <1>5 DEF IInv, Owned, Ends
  <2>2. Behind'
    BY <1>1, <2>1 DEF Behind, LeaveLoop, GoMain, Unreleased, Serving, TypeOK,
       HoldsRecord, MainOK, Slots, Pool!Slots, LoopPcs
  <2>3. OwnDetach' /\ EndedIsGone' /\ StoppedBeforeDestroy'
    BY <1>1, <2>1 DEF OwnDetach, EndedIsGone, StoppedBeforeDestroy, LeaveLoop,
       GoMain
  <2> QED BY <2>2, <2>3 DEF Ends
<1> QED BY <1>2, <1>3, <1>4, <1>5 DEF IInv

(* The loop is left without _stopClients.                                  *)
LEMMA SelectFailsKeeps ==
  ASSUME IInv, PoolInv, PoolInv', SelectFails
  PROVE  IInv'
<1>1. /\ TypeOK /\ MainOK /\ HoldsRecord /\ StateOfRecord /\ Stopping
      /\ UNCHANGED <<lease, pc, caller, slotOf, raced, run, accepting, stopIdx,
                      slotSock, slotLua, slotThread, sock, lua, tpc, rec,
                      cancelled, detached, lmutex, cmutexLost, earlyReuse,
                      noState>>
  BY DEF IInv, SelectFails, poolVars, recVars, endVars, thrVars, lockVars
<1>2. TypeOK'
  BY <1>1 DEF TypeOK, SelectFails, GoMain, PoolInv
<1>3. MainOK' /\ HoldsRecord' /\ StateOfRecord' /\ Stopping'
  BY <1>1 DEF MainOK, HoldsRecord, StateOfRecord, Stopping, SelectFails,
     GoMain, LoopPcs
<1>4. ASSUME ~raced' PROVE Owned'
  <2>1. ~raced /\ OwnClient /\ NoSocketLeak /\ ClosedOnce /\ Prepared /\ OwnThread
    BY <1>1, <1>4 DEF IInv, Owned
  <2>2. OwnClient' /\ NoSocketLeak' /\ ClosedOnce' /\ Prepared' /\ OwnThread'
    BY <1>1, <2>1 DEF OwnClient, NoSocketLeak, ClosedOnce, Prepared, OwnThread,
       Unreleased, Serving, SelectFails, GoMain
  <2> QED BY <2>2 DEF Owned
<1>5. ASSUME ~raced', ~earlyReuse' PROVE Ends'
  <2>1. /\ ~raced /\ ~earlyReuse
        /\ OwnClient /\ NoSocketLeak /\ ClosedOnce /\ Prepared /\ OwnThread
        /\ OwnDetach /\ EndedIsGone /\ StoppedBeforeDestroy /\ Behind
    BY <1>1, <1>5 DEF IInv, Owned, Ends
  <2>2. OwnDetach' /\ EndedIsGone' /\ StoppedBeforeDestroy' /\ Behind'
    BY <1>1, <2>1 DEF OwnDetach, EndedIsGone, StoppedBeforeDestroy, Behind,
       SelectFails, GoMain, StopPcs, Unreleased, Serving
  <2> QED BY <2>2 DEF Ends
<1> QED BY <1>2, <1>3, <1>4, <1>5 DEF IInv

(* A record that is passed over has no client that serves.                 *)
LEMMA StopLookKeeps ==
  ASSUME IInv, PoolInv, PoolInv', StopLook
  PROVE  IInv'
<1>1. /\ TypeOK /\ MainOK /\ HoldsRecord /\ StateOfRecord /\ Stopping
      /\ UNCHANGED <<lease, pc, caller, slotOf, raced, run, accepting,
                      slotSock, slotLua, slotThread, sock, lua, tpc, rec,
                      cancelled, detached, lmutex, cmutexLost, earlyReuse,
                      selectFailed, noState>>
  BY DEF IInv, StopLook, poolVars, recVars, endVars, histVars, thrVars,
     lockVars
<1>2. TypeOK'
  BY <1>1, NSlotsAssumption DEF TypeOK, StopLook, GoMain, PoolInv
<1>3. Stopping'
  BY <1>1, NoneAssumption, NSlotsAssumption DEF Stopping, StopLook, GoMain,
     TypeOK, HoldsRecord, MainOK, PoolInv, Pool!ExclusiveSlots, Pool!Slots,
     Pool!LeaseIsHeld, Pool!HeldSlots, HoldPcs, GivenPcs, UncleanPcs, ServePcs
<1>4. MainOK' /\ HoldsRecord' /\ StateOfRecord'
  BY <1>1 DEF MainOK, HoldsRecord, StateOfRecord, StopLook, GoMain, LoopPcs
<1>5. ASSUME ~raced' PROVE Owned'
  <2>1. ~raced /\ OwnClient /\ NoSocketLeak /\ ClosedOnce /\ Prepared /\ OwnThread
    BY <1>1, <1>5 DEF IInv, Owned
  <2>2. OwnClient' /\ NoSocketLeak' /\ ClosedOnce' /\ Prepared' /\ OwnThread'
    BY <1>1, <2>1 DEF OwnClient, NoSocketLeak, ClosedOnce, Prepared, OwnThread,
       Unreleased, Serving, StopLook, GoMain
  <2> QED BY <2>2 DEF Owned
<1>6. ASSUME ~raced', ~earlyReuse' PROVE Ends'
  <2>1. /\ ~raced /\ ~earlyReuse
        /\ OwnClient /\ NoSocketLeak /\ ClosedOnce /\ Prepared /\ OwnThread
        /\ OwnDetach /\ EndedIsGone /\ StoppedBeforeDestroy /\ Behind
    BY <1>1, <1>6 DEF IInv, Owned, Ends
  <2>2. Behind'
    BY <1>1, <2>1 DEF Behind, StopLook, GoMain, StopPcs, Unreleased, Serving,
       TypeOK, HoldsRecord, PoolInv, Pool!TypeOK, Pool!Slots, OwnDetach,
       Pool!LeaseIsHeld, Pool!HeldSlots, HoldPcs, UncleanPcs, ServePcs
  <2>3. OwnDetach' /\ EndedIsGone' /\ StoppedBeforeDestroy'
    BY <1>1, <2>1 DEF OwnDetach, EndedIsGone, StoppedBeforeDestroy, StopLook,
       GoMain
  <2> QED BY <2>2, <2>3 DEF Ends
<1> QED BY <1>2, <1>3, <1>4, <1>5, <1>6 DEF IInv

(* The thread the record names is cancelled, or was gone.                  *)
LEMMA CancelKeeps ==
  ASSUME IInv, PoolInv, PoolInv', Cancel
  PROVE  IInv'
<1>1. /\ TypeOK /\ MainOK /\ HoldsRecord /\ StateOfRecord /\ Stopping
      /\ UNCHANGED <<lease, pc, caller, slotOf, raced, run, accepting, stopIdx,
                      slotSock, slotLua, slotThread, sock, lua, tpc, rec,
                      detached, lmutex, cmutexLost, earlyReuse, selectFailed,
                      noState>>
  BY DEF IInv, Cancel, poolVars, recVars, endVars, histVars, lockVars
<1>2. TypeOK'
  BY <1>1 DEF TypeOK, Cancel, GoMain, Stopping, HoldPcs, GivenPcs, PoolInv
<1>3. MainOK' /\ HoldsRecord' /\ StateOfRecord' /\ Stopping'
  BY <1>1 DEF MainOK, HoldsRecord, StateOfRecord, Stopping, Cancel, GoMain,
     LoopPcs
<1>4. ASSUME ~raced' PROVE Owned'
  <2>1. ~raced /\ OwnClient /\ NoSocketLeak /\ ClosedOnce /\ Prepared /\ OwnThread
    BY <1>1, <1>4 DEF IInv, Owned
  <2>2. OwnClient' /\ NoSocketLeak' /\ ClosedOnce' /\ Prepared' /\ OwnThread'
    BY <1>1, <2>1 DEF OwnClient, NoSocketLeak, ClosedOnce, Prepared, OwnThread,
       Unreleased, Serving, Cancel, GoMain
  <2> QED BY <2>2 DEF Owned
<1>5. ASSUME ~raced', ~earlyReuse' PROVE Ends'
  <2>1. /\ ~raced /\ ~earlyReuse
        /\ OwnClient /\ NoSocketLeak /\ ClosedOnce /\ Prepared /\ OwnThread
        /\ OwnDetach /\ EndedIsGone /\ StoppedBeforeDestroy /\ Behind
    BY <1>1, <1>5 DEF IInv, Owned, Ends
  <2>2. OwnDetach' /\ EndedIsGone' /\ StoppedBeforeDestroy' /\ Behind'
    BY <1>1, <2>1 DEF OwnDetach, EndedIsGone, StoppedBeforeDestroy, Behind,
       Cancel, GoMain, StopPcs, Unreleased, Serving
  <2> QED BY <2>2 DEF Ends
<1> QED BY <1>2, <1>3, <1>4, <1>5 DEF IInv

(* A detached thread is not joined: it has ended.                          *)
LEMMA JoinKeeps ==
  ASSUME IInv, PoolInv, PoolInv', Join
  PROVE  IInv'
<1>1. /\ TypeOK /\ MainOK /\ HoldsRecord /\ StateOfRecord /\ Stopping
      /\ UNCHANGED <<lease, pc, caller, slotOf, raced, run, accepting,
                      slotSock, slotLua, slotThread, sock, lua, tpc, rec,
                      cancelled, detached, lmutex, cmutexLost, earlyReuse,
                      selectFailed, noState>>
  BY DEF IInv, Join, poolVars, recVars, endVars, histVars, thrVars, lockVars
<1>2. TypeOK'
  BY <1>1, NSlotsAssumption DEF TypeOK, Join, GoMain, Stopping, GivenPcs,
     PoolInv
<1>3. MainOK' /\ HoldsRecord' /\ StateOfRecord' /\ Stopping'
  BY <1>1 DEF MainOK, HoldsRecord, StateOfRecord, Stopping, Join, GoMain,
     LoopPcs
<1>4. ASSUME ~raced' PROVE Owned'
  <2>1. ~raced /\ OwnClient /\ NoSocketLeak /\ ClosedOnce /\ Prepared /\ OwnThread
    BY <1>1, <1>4 DEF IInv, Owned
  <2>2. OwnClient' /\ NoSocketLeak' /\ ClosedOnce' /\ Prepared' /\ OwnThread'
    BY <1>1, <2>1 DEF OwnClient, NoSocketLeak, ClosedOnce, Prepared, OwnThread,
       Unreleased, Serving, Join, GoMain
  <2> QED BY <2>2 DEF Owned
<1>5. ASSUME ~raced', ~earlyReuse' PROVE Ends'
  <2>1. /\ ~raced /\ ~earlyReuse
        /\ OwnClient /\ NoSocketLeak /\ ClosedOnce /\ Prepared /\ OwnThread
        /\ OwnDetach /\ EndedIsGone /\ StoppedBeforeDestroy /\ Behind
    BY <1>1, <1>5 DEF IInv, Owned, Ends
  <2>2. Behind'
    BY <1>1, <2>1 DEF Behind, Join, GoMain, StopPcs, Unreleased, Serving,
       TypeOK, HoldsRecord, Slots, Pool!Slots, OwnThread, OwnDetach, HoldPcs,
       UncleanPcs, ServePcs
  <2>3. OwnDetach' /\ EndedIsGone' /\ StoppedBeforeDestroy'
    BY <1>1, <2>1 DEF OwnDetach, EndedIsGone, StoppedBeforeDestroy, Join,
       GoMain
  <2> QED BY <2>2, <2>3 DEF Ends
<1> QED BY <1>2, <1>3, <1>4, <1>5 DEF IInv

(* The thread that was joined has ended.                                   *)
LEMMA JoinedKeeps ==
  ASSUME IInv, PoolInv, PoolInv', Joined
  PROVE  IInv'
<1>1. /\ TypeOK /\ MainOK /\ HoldsRecord /\ StateOfRecord /\ Stopping
      /\ UNCHANGED <<lease, pc, caller, slotOf, raced, run, accepting,
                      slotSock, slotLua, slotThread, sock, lua, tpc, rec,
                      cancelled, detached, lmutex, cmutexLost, earlyReuse,
                      selectFailed, noState>>
  BY DEF IInv, Joined, poolVars, recVars, endVars, histVars, thrVars, lockVars
<1>2. TypeOK'
  BY <1>1, NSlotsAssumption DEF TypeOK, Joined, GoMain, Stopping, GivenPcs,
     PoolInv
<1>3. MainOK' /\ HoldsRecord' /\ StateOfRecord' /\ Stopping'
  BY <1>1 DEF MainOK, HoldsRecord, StateOfRecord, Stopping, Joined, GoMain,
     LoopPcs
<1>4. ASSUME ~raced' PROVE Owned'
  <2>1. ~raced /\ OwnClient /\ NoSocketLeak /\ ClosedOnce /\ Prepared /\ OwnThread
    BY <1>1, <1>4 DEF IInv, Owned
  <2>2. OwnClient' /\ NoSocketLeak' /\ ClosedOnce' /\ Prepared' /\ OwnThread'
    BY <1>1, <2>1 DEF OwnClient, NoSocketLeak, ClosedOnce, Prepared, OwnThread,
       Unreleased, Serving, Joined, GoMain
  <2> QED BY <2>2 DEF Owned
<1>5. ASSUME ~raced', ~earlyReuse' PROVE Ends'
  <2>1. /\ ~raced /\ ~earlyReuse
        /\ OwnClient /\ NoSocketLeak /\ ClosedOnce /\ Prepared /\ OwnThread
        /\ OwnDetach /\ EndedIsGone /\ StoppedBeforeDestroy /\ Behind
    BY <1>1, <1>5 DEF IInv, Owned, Ends
  <2>2. Behind'
    BY <1>1, <2>1 DEF Behind, Joined, GoMain, StopPcs, Unreleased, Serving,
       TypeOK, HoldsRecord, Slots, Pool!Slots, OwnThread, HoldPcs, UncleanPcs,
       ServePcs
  <2>3. OwnDetach' /\ EndedIsGone' /\ StoppedBeforeDestroy'
    BY <1>1, <2>1 DEF OwnDetach, EndedIsGone, StoppedBeforeDestroy, Joined,
       GoMain
  <2> QED BY <2>2, <2>3 DEF Ends
<1> QED BY <1>2, <1>3, <1>4, <1>5 DEF IInv

(* Once all the records are dealt with, no client serves.                  *)
LEMMA DestroyKeeps ==
  ASSUME IInv, PoolInv, PoolInv', Destroy
  PROVE  IInv'
<1>1. /\ TypeOK /\ MainOK /\ HoldsRecord /\ StateOfRecord /\ Stopping
      /\ UNCHANGED <<lease, pc, caller, slotOf, raced, run, accepting, stopIdx,
                      slotSock, slotLua, slotThread, sock, lua, tpc, rec,
                      cancelled, detached, lmutex, cmutexLost, earlyReuse,
                      selectFailed, noState>>
  BY DEF IInv, Destroy, poolVars, recVars, endVars, histVars, thrVars, lockVars
<1>2. TypeOK'
  BY <1>1 DEF TypeOK, Destroy, GoMain, PoolInv
<1>3. MainOK' /\ HoldsRecord' /\ StateOfRecord' /\ Stopping'
  BY <1>1 DEF MainOK, HoldsRecord, StateOfRecord, Stopping, Destroy, GoMain,
     LoopPcs
<1>4. ASSUME ~raced' PROVE Owned'
  <2>1. ~raced /\ OwnClient /\ NoSocketLeak /\ ClosedOnce /\ Prepared /\ OwnThread
    BY <1>1, <1>4 DEF IInv, Owned
  <2>2. OwnClient' /\ NoSocketLeak' /\ ClosedOnce' /\ Prepared' /\ OwnThread'
    BY <1>1, <2>1 DEF OwnClient, NoSocketLeak, ClosedOnce, Prepared, OwnThread,
       Unreleased, Serving, Destroy, GoMain
  <2> QED BY <2>2 DEF Owned
<1>5. ASSUME ~raced', ~earlyReuse' PROVE Ends'
  <2>1. /\ ~raced /\ ~earlyReuse
        /\ OwnClient /\ NoSocketLeak /\ ClosedOnce /\ Prepared /\ OwnThread
        /\ OwnDetach /\ EndedIsGone /\ StoppedBeforeDestroy /\ Behind
    BY <1>1, <1>5 DEF IInv, Owned, Ends
  <2>2. StoppedBeforeDestroy'
    BY <1>1, <2>1 DEF StoppedBeforeDestroy, Destroy, GoMain, Unreleased,
       Serving, TypeOK, HoldsRecord, Slots, Pool!Slots, Behind, HoldPcs,
       StopPcs
  <2>3. OwnDetach' /\ EndedIsGone' /\ Behind'
    BY <1>1, <2>1 DEF OwnDetach, EndedIsGone, Behind, Destroy, GoMain, StopPcs,
       Unreleased
  <2> QED BY <2>2, <2>3 DEF Ends
<1> QED BY <1>2, <1>3, <1>4, <1>5 DEF IInv

(* A thread goes on with what is its own.                                  *)
LEMMA ServeKeeps ==
  ASSUME IInv, PoolInv, PoolInv', NEW k \in Conns, NEW label \in UncleanPcs, Serve(k, label)
  PROVE  IInv'
<1>1. /\ TypeOK /\ MainOK /\ HoldsRecord /\ StateOfRecord /\ Stopping
      /\ UNCHANGED <<lease, pc, caller, slotOf, raced, run, mainPc, accepting,
                      stopIdx, slotSock, slotLua, slotThread, sock, lua, rec,
                      cancelled, detached, cmutexLost, earlyReuse,
                      selectFailed, noState>>
  BY DEF IInv, Serve, poolVars, recVars, endVars, mainVars, histVars
<1>2. TypeOK'
  BY <1>1 DEF TypeOK, Serve, Go, PoolInv, ServePcs, UncleanPcs
<1>3. MainOK'
  BY <1>1 DEF MainOK, Serve, Go, LoopPcs, TypeOK, ServePcs, UncleanPcs
<1>4. HoldsRecord'
  BY <1>1 DEF HoldsRecord, Serve, Go, HoldPcs, GivenPcs, UncleanPcs, ServePcs,
     TypeOK
<1>5. StateOfRecord' /\ Stopping'
  BY <1>1 DEF StateOfRecord, Stopping
<1>6. ASSUME ~raced' PROVE Owned'
  <2>1. ~raced /\ OwnClient /\ NoSocketLeak /\ ClosedOnce /\ Prepared /\ OwnThread
    BY <1>1, <1>6 DEF IInv, Owned
  <2>2. OwnClient'
    BY <1>1, <2>1 DEF OwnClient, Serve, Go, Unreleased, Serving, TypeOK,
       ServePcs, UncleanPcs
  <2>3. NoSocketLeak'
    BY <1>1, <2>1 DEF NoSocketLeak, Serve, Go, Unreleased, Serving, TypeOK,
       ServePcs, UncleanPcs
  <2>4. OwnThread'
    BY <1>1, <2>1 DEF OwnThread, Serve, Go, HoldPcs, UncleanPcs, ServePcs,
       TypeOK
  <2>5. ClosedOnce' /\ Prepared'
    BY <1>1, <2>1 DEF ClosedOnce, Prepared
  <2> QED BY <2>2, <2>3, <2>4, <2>5 DEF Owned
<1>7. ASSUME ~raced', ~earlyReuse' PROVE Ends'
  <2>1. /\ ~raced /\ ~earlyReuse
        /\ OwnClient /\ NoSocketLeak /\ ClosedOnce /\ Prepared /\ OwnThread
        /\ OwnDetach /\ EndedIsGone /\ StoppedBeforeDestroy /\ Behind
    BY <1>1, <1>7 DEF IInv, Owned, Ends
  <2>2. OwnDetach'
    BY <1>1, <2>1 DEF OwnDetach, Serve, Go, GivenPcs, TypeOK, ServePcs,
       UncleanPcs
  <2>3. EndedIsGone'
    BY <1>1, <2>1 DEF EndedIsGone, Serve, Go, TypeOK, ServePcs, UncleanPcs
  <2>4. Behind'
    BY <1>1, <2>1 DEF Behind, Serve, Go, Unreleased, Serving, StopPcs, TypeOK,
       ServePcs, UncleanPcs
  <2>5. StoppedBeforeDestroy'
    BY <1>1, <2>1 DEF StoppedBeforeDestroy, Serve, Go, Unreleased, Serving,
       ServePcs, UncleanPcs
  <2> QED BY <2>2, <2>3, <2>4, <2>5 DEF Ends
<1> QED BY <1>2, <1>3, <1>4, <1>5, <1>6, <1>7 DEF IInv

(* A thread closes its own socket and its own Lua state, once.             *)
LEMMA CleanupKeeps ==
  ASSUME IInv, PoolInv, PoolInv', NEW k \in Conns, Cleanup(k)
  PROVE  IInv'
<1>1. /\ TypeOK /\ MainOK /\ HoldsRecord /\ StateOfRecord /\ Stopping
      /\ UNCHANGED <<lease, pc, caller, slotOf, raced, run, mainPc, accepting,
                      stopIdx, slotSock, slotLua, slotThread, rec, cancelled,
                      detached, lmutex, cmutexLost, earlyReuse, selectFailed,
                      noState>>
  BY DEF IInv, Cleanup, poolVars, recVars, mainVars, lockVars, histVars
<1>2. TypeOK'
  BY <1>1 DEF TypeOK, Cleanup, Go, Close, PoolInv
<1>3. MainOK'
  BY <1>1 DEF MainOK, Cleanup, Go, Close, LoopPcs, TypeOK
<1>4. HoldsRecord'
  BY <1>1 DEF HoldsRecord, Cleanup, Go, Close, HoldPcs, GivenPcs, UncleanPcs,
     TypeOK
<1>5. StateOfRecord' /\ Stopping'
  BY <1>1 DEF StateOfRecord, Stopping, Cleanup, Go, Close
<1>6. ASSUME ~raced' PROVE Owned'
  <2>1. ~raced /\ OwnClient /\ NoSocketLeak /\ ClosedOnce /\ Prepared /\ OwnThread
    BY <1>1, <1>6 DEF IInv, Owned
  <2>2. OwnClient'
    BY <1>1, <2>1 DEF OwnClient, Cleanup, Go, Close, Unreleased, Serving,
       TypeOK
  <2>3. NoSocketLeak'
    BY <1>1, <2>1, NoneAssumption DEF NoSocketLeak, Cleanup, Go, Close,
       Unreleased, Serving, TypeOK, OwnClient
  <2>4. ClosedOnce'
    BY <1>1, <2>1 DEF ClosedOnce, Cleanup, Go, Close, OwnClient, Unreleased
  <2>5. Prepared'
    BY <1>1, <2>1 DEF Prepared, Cleanup, Go, Close, MainOK, OwnClient,
       Unreleased
  <2>6. OwnThread'
    BY <1>1, <2>1 DEF OwnThread, Cleanup, Go, HoldPcs, UncleanPcs, TypeOK
  <2> QED BY <2>2, <2>3, <2>4, <2>5, <2>6 DEF Owned
<1>7. ASSUME ~raced', ~earlyReuse' PROVE Ends'
  <2>1. /\ ~raced /\ ~earlyReuse
        /\ OwnClient /\ NoSocketLeak /\ ClosedOnce /\ Prepared /\ OwnThread
        /\ OwnDetach /\ EndedIsGone /\ StoppedBeforeDestroy /\ Behind
    BY <1>1, <1>7 DEF IInv, Owned, Ends
  <2>2. OwnDetach'
    BY <1>1, <2>1 DEF OwnDetach, Cleanup, Go, Close, GivenPcs, TypeOK
  <2>3. EndedIsGone'
    BY <1>1, <2>1 DEF EndedIsGone, Cleanup, Go, Close, TypeOK
  <2>4. Behind'
    BY <1>1, <2>1 DEF Behind, Cleanup, Go, Unreleased, Serving, TypeOK
  <2>5. StoppedBeforeDestroy'
    BY <1>1, <2>1 DEF StoppedBeforeDestroy, Cleanup, Go, Close, Unreleased,
       Serving
  <2> QED BY <2>2, <2>3, <2>4, <2>5 DEF Ends
<1> QED BY <1>2, <1>3, <1>4, <1>5, <1>6, <1>7 DEF IInv

(* A thread that ends on the spot was cancelled.                           *)
LEMMA CutShortKeeps ==
  ASSUME IInv, PoolInv, PoolInv', NEW k \in Conns, CutShort(k)
  PROVE  IInv'
<1>1. /\ TypeOK /\ MainOK /\ HoldsRecord /\ StateOfRecord /\ Stopping
      /\ UNCHANGED <<lease, pc, caller, slotOf, raced, run, mainPc, accepting,
                      stopIdx, slotSock, slotLua, slotThread, sock, rec,
                      cancelled, detached, lmutex, cmutexLost, earlyReuse,
                      selectFailed, noState>>
  BY DEF IInv, CutShort, poolVars, recVars, mainVars, lockVars, histVars
<1>2. TypeOK'
  BY <1>1 DEF TypeOK, CutShort, Close, Go, PoolInv
<1>3. MainOK' /\ HoldsRecord' /\ StateOfRecord' /\ Stopping'
  BY <1>1 DEF MainOK, HoldsRecord, StateOfRecord, Stopping, CutShort, Close,
     Go, HoldPcs, GivenPcs, UncleanPcs, ServePcs
<1>4. ASSUME ~raced' PROVE Owned'
  <2>1. ~raced /\ OwnClient /\ NoSocketLeak /\ ClosedOnce /\ Prepared /\ OwnThread
    BY <1>1, <1>4 DEF IInv, Owned
  <2>2. OwnClient'
    BY <1>1, <2>1 DEF OwnClient, CutShort, Close, Go, Unreleased, Serving,
       TypeOK
  <2>3. ClosedOnce'
    BY <1>1, <2>1 DEF ClosedOnce, CutShort, Close, Go, OwnClient, Unreleased,
       TypeOK
  <2>4. Prepared'
    BY <1>1, <2>1 DEF Prepared, CutShort, Close, Go, TypeOK, MainOK, OwnClient,
       Unreleased
  <2>5. NoSocketLeak' /\ OwnThread'
    BY <1>1, <2>1 DEF NoSocketLeak, OwnThread, CutShort, Close, Go, Unreleased,
       Serving, HoldPcs, UncleanPcs, ServePcs
  <2> QED BY <2>2, <2>3, <2>4, <2>5 DEF Owned
<1>5. ASSUME ~raced', ~earlyReuse' PROVE Ends'
  <2>1. /\ ~raced /\ ~earlyReuse
        /\ OwnClient /\ NoSocketLeak /\ ClosedOnce /\ Prepared /\ OwnThread
        /\ OwnDetach /\ EndedIsGone /\ StoppedBeforeDestroy /\ Behind
    BY <1>1, <1>5 DEF IInv, Owned, Ends
  <2>2. OwnDetach' /\ EndedIsGone' /\ StoppedBeforeDestroy' /\ Behind'
    BY <1>1, <2>1 DEF OwnDetach, EndedIsGone, StoppedBeforeDestroy, Behind,
       CutShort, Close, Go, GivenPcs, Unreleased, Serving
  <2> QED BY <2>2 DEF Ends
<1> QED BY <1>2, <1>3, <1>4, <1>5 DEF IInv

(* A thread gives back the record it holds.                                *)
LEMMA DropSelfKeeps ==
  ASSUME IInv, PoolInv, PoolInv', NEW k \in Conns, DropSelf(k)
  PROVE  IInv'
<1>1. /\ TypeOK /\ MainOK /\ HoldsRecord /\ StateOfRecord /\ Stopping
      /\ UNCHANGED <<run, mainPc, accepting, stopIdx, slotSock, slotLua,
                      slotThread, sock, lua, rec, cancelled, detached, lmutex,
                      earlyReuse, selectFailed, noState, raced, pc, caller>>
  BY DEF IInv, DropSelf, recVars, endVars, mainVars, histVars, Pool!Drop
<1>2. TypeOK'
  <2>1. tpc' \in [Conns -> ThreadPcs] /\ cmutexLost' \in BOOLEAN
    BY <1>1 DEF TypeOK, DropSelf, Go, ThreadPcs, HoldPcs, UncleanPcs, ServePcs, GivenPcs
  <2> QED BY <1>1, <2>1 DEF TypeOK, PoolInv, DropSelf, ThreadPcs, HoldPcs, UncleanPcs, ServePcs, GivenPcs
<1>3. MainOK'
  BY <1>1 DEF MainOK, DropSelf, Pool!Drop, Go, LoopPcs, TypeOK
<1>4. HoldsRecord'
  BY <1>1 DEF HoldsRecord, DropSelf, Pool!Drop, Go, HoldPcs, UncleanPcs,
     ServePcs, TypeOK, Pool!TypeOK
<1>5. StateOfRecord'
  BY <1>1 DEF StateOfRecord, DropSelf, Pool!Drop, Go, MainOK
<1>6. Stopping'
  BY <1>1 DEF Stopping
<1>7. ASSUME ~raced' PROVE Owned'
  <2>1. ~raced /\ OwnClient /\ NoSocketLeak /\ ClosedOnce /\ Prepared /\ OwnThread
    BY <1>1, <1>7 DEF IInv, Owned
  <2>2. OwnClient'
    BY <1>1, <2>1 DEF OwnClient, DropSelf, Pool!Drop, Go, Unreleased, Serving,
       TypeOK
  <2>3. NoSocketLeak'
    BY <1>1, <2>1 DEF NoSocketLeak, DropSelf, Go, Unreleased, Serving, TypeOK
  <2>4. Prepared'
    BY <1>1, <2>1 DEF Prepared, DropSelf, Pool!Drop, Go, MainOK
  <2>5. OwnThread'
    BY <1>1, <2>1 DEF OwnThread, DropSelf, Go, HoldPcs, UncleanPcs, TypeOK
  <2>6. ClosedOnce'
    BY <1>1, <2>1 DEF ClosedOnce
  <2> QED BY <2>2, <2>3, <2>4, <2>5, <2>6 DEF Owned
<1>8. ASSUME ~raced', ~earlyReuse' PROVE Ends'
  <2>1. /\ ~raced /\ ~earlyReuse
        /\ OwnClient /\ NoSocketLeak /\ ClosedOnce /\ Prepared /\ OwnThread
        /\ OwnDetach /\ EndedIsGone /\ StoppedBeforeDestroy /\ Behind
    BY <1>1, <1>8 DEF IInv, Owned, Ends
  <2>2. OwnDetach'
    BY <1>1, <2>1 DEF OwnDetach, DropSelf, Go, TypeOK, OwnThread, HoldPcs
  <2>3. EndedIsGone'
    BY <1>1, <2>1 DEF EndedIsGone, DropSelf, Pool!Drop, Go, TypeOK, HoldsRecord
  <2>4. StoppedBeforeDestroy'
    BY <1>1, <2>1 DEF StoppedBeforeDestroy, DropSelf, Go, Unreleased, Serving,
       TypeOK
  <2>5. Behind'
    BY <1>1, <2>1 DEF Behind, DropSelf, Go, Unreleased, Serving, TypeOK
  <2> QED BY <2>2, <2>3, <2>4, <2>5 DEF Ends
<1> QED BY <1>2, <1>3, <1>4, <1>5, <1>6, <1>7, <1>8 DEF IInv

(* A thread detaches itself.                                               *)
LEMMA DetachKeeps ==
  ASSUME IInv, PoolInv, PoolInv', NEW k \in Conns, Detach(k)
  PROVE  IInv'
<1>1. /\ TypeOK /\ MainOK /\ HoldsRecord /\ StateOfRecord /\ Stopping
      /\ UNCHANGED <<lease, pc, caller, slotOf, raced, run, mainPc, accepting,
                      stopIdx, slotSock, slotLua, slotThread, sock, lua, rec,
                      cancelled, lmutex, cmutexLost, earlyReuse, selectFailed,
                      noState>>
  BY DEF IInv, Detach, poolVars, recVars, endVars, mainVars, lockVars, histVars
<1>2. TypeOK'
  BY <1>1 DEF TypeOK, Detach, Go, HoldsRecord, PoolInv
<1>3. MainOK'
  BY <1>1 DEF MainOK, Detach, Go, LoopPcs, TypeOK
<1>4. HoldsRecord'
  BY <1>1 DEF HoldsRecord, Detach, Go, HoldPcs, GivenPcs, UncleanPcs, ServePcs,
     TypeOK
<1>5. StateOfRecord' /\ Stopping'
  BY <1>1 DEF StateOfRecord, Stopping, Detach, Go
<1>6. ASSUME ~raced' PROVE Owned'
  <2>1. ~raced /\ OwnClient /\ NoSocketLeak /\ ClosedOnce /\ Prepared /\ OwnThread
    BY <1>1, <1>6 DEF IInv, Owned
  <2>2. OwnClient'
    BY <1>1, <2>1 DEF OwnClient, Detach, Go, Unreleased, Serving, TypeOK
  <2>3. NoSocketLeak'
    BY <1>1, <2>1 DEF NoSocketLeak, Detach, Go, Unreleased, Serving, TypeOK
  <2>4. OwnThread'
    BY <1>1, <2>1 DEF OwnThread, Detach, Go, HoldPcs, UncleanPcs, ServePcs,
       TypeOK
  <2>5. ClosedOnce' /\ Prepared'
    BY <1>1, <2>1 DEF ClosedOnce, Prepared
  <2> QED BY <2>2, <2>3, <2>4, <2>5 DEF Owned
<1>7. ASSUME ~raced', ~earlyReuse' PROVE Ends'
  <2>1. /\ ~raced /\ ~earlyReuse
        /\ OwnClient /\ NoSocketLeak /\ ClosedOnce /\ Prepared /\ OwnThread
        /\ OwnDetach /\ EndedIsGone /\ StoppedBeforeDestroy /\ Behind
    BY <1>1, <1>7 DEF IInv, Owned, Ends
  <2>2. OwnDetach'
    BY <1>1, <2>1 DEF OwnDetach, Detach, Go, GivenPcs, TypeOK
  <2>3. EndedIsGone'
    BY <1>1, <2>1 DEF EndedIsGone, Detach, Go, TypeOK, HoldsRecord, OwnDetach,
       Stopping, GivenPcs
  <2>4. StoppedBeforeDestroy'
    BY <1>1, <2>1 DEF StoppedBeforeDestroy, Detach, Go, Unreleased, Serving,
       TypeOK
  <2>5. Behind'
    BY <1>1, <2>1 DEF Behind, Detach, Go, Unreleased, Serving, TypeOK
  <2> QED BY <2>2, <2>3, <2>4, <2>5 DEF Ends
<1> QED BY <1>2, <1>3, <1>4, <1>5, <1>6, <1>7 DEF IInv

-------------------------------------------------------------------------------
(* Nothing is open, leased or running at the start.                        *)
LEMMA InitHolds == Init => IInv
<1> SUFFICES ASSUME Init PROVE IInv
  OBVIOUS
<1>1. Pool!TypeOK
  <2>1. raced \in BOOLEAN
    BY DEF Init, Pool!Init
  <2> QED BY <2>1, NSlotsAssumption DEF Init, Pool!Init, Pool!TypeOK, Pool!Slots
<1>2. TypeOK
  <2>1. /\ run \in BOOLEAN /\ cmutexLost \in BOOLEAN
        /\ earlyReuse \in BOOLEAN /\ selectFailed \in BOOLEAN
    BY DEF Init
  <2> QED BY <1>1, <2>1, NSlotsAssumption DEF Init, TypeOK, Slots
<1>3. MainOK /\ HoldsRecord /\ StateOfRecord /\ Stopping
  BY NSlotsAssumption, NoneAssumption DEF Init, Pool!Init, MainOK, HoldsRecord, StateOfRecord,
     Stopping, LoopPcs, HoldPcs, UncleanPcs, ServePcs, GivenPcs, Slots, Pool!Slots
<1>4. Owned
  BY NoneAssumption DEF Init, Pool!Init, Owned, OwnClient, NoSocketLeak, ClosedOnce, Prepared,
     OwnThread, HoldPcs, UncleanPcs, ServePcs, Unreleased, Serving
<1>5. Ends
  BY NoneAssumption DEF Init, Pool!Init, Ends, OwnDetach, EndedIsGone, StoppedBeforeDestroy,
     Behind, GivenPcs, StopPcs, Unreleased, Serving
<1> QED BY <1>2, <1>3, <1>4, <1>5 DEF IInv

(* Every step keeps the invariant.                                         *)
LEMMA StepKeeps ==
  ASSUME IInv, PoolInv, PoolInv', [Next]_vars PROVE IInv'
<1>1. CASE Signal \/ SelectFails
  BY <1>1, SignalKeeps, SelectFailsKeeps
<1>2. ASSUME NEW k \in Conns, Accept(k) \/ AcceptFails(k) PROVE IInv'
  BY <1>2, AcceptKeeps, AcceptFailsKeeps
<1>3. CASE MainLoop
  BY <1>3, GetClientKeeps, StartKeeps, StartFailsKeeps, NewStateFailsKeeps, CreateKeeps,
     CreateFailsKeeps, AbortKeeps, LeaveLoopKeeps DEF MainLoop
<1>4. CASE MainStop
  BY <1>4, StopLookKeeps, CancelKeeps, JoinKeeps, JoinedKeeps, DestroyKeeps DEF MainStop
<1>5. ASSUME NEW k \in Conns, Recv(k) \/ Lock(k) \/ Work(k) \/ Unlock(k) \/ Cancelled(k)
      PROVE  IInv'
  <2>1. PICK label \in UncleanPcs : Serve(k, label)
    BY <1>5, ServeSteps DEF IInv
  <2> QED BY <2>1, ServeKeeps
<1>6. ASSUME NEW k \in Conns, Cleanup(k) \/ CutShort(k) \/ DropSelf(k) \/ Detach(k)
      PROVE  IInv'
  BY <1>6, CleanupKeeps, CutShortKeeps, DropSelfKeeps, DetachKeeps
<1>7. CASE UNCHANGED vars
  <2>1. UNCHANGED <<poolVars, recVars, endVars, mainVars, thrVars, lockVars>>
    BY <1>7 DEF vars
  <2>2. TypeOK' /\ MainOK' /\ HoldsRecord' /\ StateOfRecord' /\ Stopping'
    BY <2>1 DEF IInv, TypeOK, MainOK, HoldsRecord, StateOfRecord, Stopping, PoolInv, poolVars,
       recVars, endVars, mainVars, histVars, thrVars, lockVars
  <2>3. ~raced' => Owned'
    BY <2>1 DEF IInv, Owned, OwnClient, NoSocketLeak, ClosedOnce, Prepared, OwnThread,
       Unreleased, Serving, poolVars, recVars, endVars, mainVars, histVars, thrVars
  <2>4. ~raced' /\ ~earlyReuse' => Ends'
    BY <2>1 DEF IInv, Ends, OwnDetach, EndedIsGone, StoppedBeforeDestroy, Behind,
       Unreleased, Serving, poolVars, recVars, mainVars, histVars, thrVars
  <2> QED BY <2>2, <2>3, <2>4 DEF IInv
<1> QED BY <1>1, <1>2, <1>3, <1>4, <1>5, <1>6, <1>7 DEF Next, Thread

(* The server keeps its invariant, with any number of records and clients. *)
THEOREM Invariance == Spec => []IInv
<1>1. Init => IInv
  BY InitHolds
<1>2. IInv /\ PoolInv /\ PoolInv' /\ [Next]_vars => IInv'
  BY StepKeeps
<1> QED BY <1>1, <1>2, TableKept, PTL DEF Spec

-------------------------------------------------------------------------------
(* Every variable keeps to its values: each record index the server uses   *)
(* is one of the table, and _stopClients cancels and joins threads that    *)
(* exist.                                                                  *)
THEOREM TypeCorrect == Spec => []TypeOK
<1>1. IInv => TypeOK
  BY DEF IInv
<1> QED BY <1>1, Invariance, PTL

(* A client thread works on its own socket, its own Lua state and under    *)
(* its own thread id until client_Cleanup (client.c), unless a record was  *)
(* leased twice.                                                           *)
THEOREM ClientIsOwn == Spec => []OwnClient
<1>1. IInv => OwnClient
  BY DEF IInv, Owned, OwnClient
<1> QED BY <1>1, Invariance, PTL

(* No socket stays open that nobody will close (client.c, server.c:300),   *)
(* unless its thread was cut short at shutdown or a record was leased      *)
(* twice.                                                                  *)
THEOREM SocketsEnd == Spec => []NoSocketLeak
<1>1. IInv => NoSocketLeak
  BY DEF IInv, Owned, NoSocketLeak
<1> QED BY <1>1, Invariance, PTL

(* Unless a record was leased twice, the socket of a client that was       *)
(* started is closed at most once, and its Lua state too as long as        *)
(* luaL_newstate has never failed (server.c:300, client.c:59).             *)
THEOREM NothingClosedTwice == Spec => []ClosedOnce
<1>1. IInv => ClosedOnce
  BY DEF IInv, Owned, ClosedOnce
<1> QED BY <1>1, Invariance, PTL

(* A thread that ended by itself is detached and holds no record any more  *)
(* (thread.c:182), unless a record was leased twice or started anew before *)
(* its former thread had detached itself.                                  *)
THEOREM EndedThreadsAreGone == Spec => []EndedIsGone
<1>1. IInv => EndedIsGone
  BY DEF IInv, Ends, EndedIsGone
<1> QED BY <1>1, Invariance, PTL

(* No client thread serves when the server's Lua state is closed after     *)
(* server.run was cleared (server.c:154), unless a record was leased twice *)
(* or started anew before its former thread had detached itself.           *)
THEOREM ClientsStopFirst == Spec => []StoppedBeforeDestroy
<1>1. IInv => StoppedBeforeDestroy
  BY DEF IInv, Ends, StoppedBeforeDestroy
<1> QED BY <1>1, Invariance, PTL
===============================================================================
