-------------------------------- MODULE Server --------------------------------
(***************************************************************************)
(* The life of the server (POSIX build): the accept loop of server.c on    *)
(* the main thread, one thread per client (client.c, thread.c), the table  *)
(* of client records (ClientPool) they share, and the shutdown, which      *)
(* cancels and joins the clients that are left.                            *)
(*                                                                         *)
(* A member of Conns stands for a connection, for its socket, its Lua      *)
(* state and its thread; every connection comes once.  What a thread uses  *)
(* it finds through its client record, as in the code.  Cancellation is    *)
(* deferred: it takes effect at recv, send, close and printf.              *)
(***************************************************************************)
EXTENDS Integers, FiniteSets

CONSTANTS NSlots,         \* SERVER_MAX_CLIENTS
          Conns,          \* the connections of a run
          None,           \* NULL, nobody
          StartMayFail,   \* luaL_newstate, the init0 script and pthread_create may fail
          SelectMayFail,  \* select may fail with an errno other than EINTR
          DebugNoise      \* the program runs with -d4: debugPrint prints under the mutexes

ASSUME NSlotsAssumption == NSlots \in Nat \ {0}
ASSUME ConnsAssumption  == IsFiniteSet(Conns)
ASSUME NoneAssumption   == None \notin Conns /\ None \notin Int

VARIABLES
    \* the table of client records, see ClientPool
    lease, droppedClient, nclients, lastClient, pc, caller, n, slotOf, released, raced,
    run,         \* server.run
    mainPc,      \* where the main thread is
    accepting,   \* the connection _acceptClient deals with, or None
    stopIdx,     \* index of the record _stopClients has reached
    slotSock,    \* slotSock[s]: clients[s].sock
    slotLua,     \* slotLua[s]: clients[s].luaState
    slotThread,  \* slotThread[s]: clients[s].thread.thread
    sock,        \* sock[k]: state of the socket of k
    lua,         \* lua[k]: state of the Lua state made for k
    tpc,         \* tpc[k]: where the thread of k is
    rec,         \* rec[k]: the client record the thread of k was started with
    cancelled,   \* threads pthread_cancel was called for
    detached,    \* threads pthread_detach has taken effect on
    lmutex,      \* owner of server.lmutex, or None
    cmutexLost,  \* a thread ended while it owned server.cmutex
    \* history
    earlyReuse,   \* a record was started anew before its former thread had detached itself
    selectFailed, \* the accept loop was left by the error exit
    noState       \* connections whose luaL_newstate failed

poolVars == <<lease, droppedClient, nclients, lastClient, pc, caller, n, slotOf,
              released, raced>>
recVars  == <<slotSock, slotLua, slotThread>>
endVars  == <<sock, lua>>
histVars == <<earlyReuse, selectFailed, noState>>
mainVars == <<run, mainPc, accepting, stopIdx, histVars>>
thrVars  == <<tpc, rec, cancelled, detached>>
lockVars == <<lmutex, cmutexLost>>
vars     == <<poolVars, recVars, endVars, mainVars, thrVars, lockVars>>

Pool == INSTANCE ClientPool
Slots == Pool!Slots

Init ==
    /\ Pool!Init
    /\ run = TRUE
    /\ mainPc = "select"
    /\ accepting = None
    /\ stopIdx = 0
    /\ slotSock = [s \in Slots |-> None]
    /\ slotLua = [s \in Slots |-> None]
    /\ slotThread = [s \in Slots |-> None]
    /\ sock = [k \in Conns |-> "none"]
    /\ lua = [k \in Conns |-> "none"]
    /\ tpc = [k \in Conns |-> "none"]
    /\ rec = [k \in Conns |-> None]
    /\ cancelled = {}
    /\ detached = {}
    /\ lmutex = None
    /\ cmutexLost = FALSE
    /\ earlyReuse = FALSE
    /\ selectFailed = FALSE
    /\ noState = {}

(* What becomes of f[x] when x is closed, once more if it is closed        *)
(* already; closing the Lua state of a record that never had one is        *)
(* skipped.                                                                *)
Close(f, x) ==
    IF x = None THEN f
    ELSE [f EXCEPT ![x] = IF @ = "open" THEN "closed" ELSE "twice"]

GoMain(label) == mainPc' = label
Go(k, label) == tpc' = [tpc EXCEPT ![k] = label]

-------------------------------------------------------------------------------
(* The main thread: serverRun, _acceptClient, clientStart.                 *)

(* SIGINT or SIGTERM, on whichever thread it is delivered to.              *)
Signal ==
    /\ run
    /\ run' = FALSE
    /\ UNCHANGED <<poolVars, recVars, endVars, mainPc, accepting, stopIdx, histVars,
                   thrVars, lockVars>>

(* select reports a connection, server.run is still set, accept succeeds.  *)
Accept(k) ==
    /\ mainPc = "select" /\ run
    /\ sock[k] = "none"
    /\ sock' = [sock EXCEPT ![k] = "open"]
    /\ accepting' = k
    /\ Pool!Ask(k)
    /\ GoMain("getClient")
    /\ UNCHANGED <<recVars, lua, run, stopIdx, histVars, thrVars, lockVars>>

(* The peer is gone before getpeername: the socket is closed at once.      *)
AcceptFails(k) ==
    /\ mainPc = "select" /\ run
    /\ sock[k] = "none"
    /\ sock' = [sock EXCEPT ![k] = "closed"]
    /\ UNCHANGED <<poolVars, recVars, lua, mainVars, thrVars, lockVars>>

(* Mutant of GetClient: the socket of a refused connection stays open.     *)
GetClientForgetsSocket ==
    /\ mainPc = "getClient" /\ ~cmutexLost
    /\ Pool!GetClient
    /\ IF pc' # "idle" THEN UNCHANGED <<mainPc, accepting>>
       ELSE IF slotOf'[accepting] # None
            THEN GoMain("start") /\ UNCHANGED accepting
            ELSE accepting' = None /\ GoMain("select")
    /\ UNCHANGED <<recVars, endVars, run, stopIdx, histVars, thrVars, lockVars>>

(* One critical section of _getClient; without a record the socket is      *)
(* closed.                                                                 *)
GetClient ==
    /\ mainPc = "getClient" /\ ~cmutexLost
    /\ Pool!GetClient
    /\ IF pc' # "idle" THEN UNCHANGED <<mainPc, accepting, sock>>
       ELSE IF slotOf'[accepting] # None
            THEN GoMain("start") /\ UNCHANGED <<accepting, sock>>
            ELSE /\ sock' = Close(sock, accepting)
                 /\ accepting' = None
                 /\ GoMain("select")
    /\ UNCHANGED <<recVars, lua, run, stopIdx, histVars, thrVars, lockVars>>

(* Mutant of Start: the record keeps the socket of its former client.      *)
StartOldSocket ==
    /\ mainPc = "start"
    /\ slotLua' = [slotLua EXCEPT ![slotOf[accepting]] = accepting]
    /\ lua' = [lua EXCEPT ![accepting] = "open"]
    /\ GoMain("create")
    /\ UNCHANGED <<poolVars, slotSock, slotThread, sock, run, accepting, stopIdx,
                   histVars, thrVars, lockVars>>

(* The record gets the socket and a new Lua state.                         *)
Start ==
    /\ mainPc = "start"
    /\ slotSock' = [slotSock EXCEPT ![slotOf[accepting]] = accepting]
    /\ slotLua' = [slotLua EXCEPT ![slotOf[accepting]] = accepting]
    /\ lua' = [lua EXCEPT ![accepting] = "open"]
    /\ GoMain("create")
    /\ UNCHANGED <<poolVars, slotThread, sock, run, accepting, stopIdx, histVars, thrVars,
                   lockVars>>

(* The init0 script fails, and client_Cleanup closes state and socket.     *)
StartFails ==
    /\ mainPc = "start" /\ StartMayFail
    /\ slotSock' = [slotSock EXCEPT ![slotOf[accepting]] = accepting]
    /\ slotLua' = [slotLua EXCEPT ![slotOf[accepting]] = accepting]
    /\ lua' = [lua EXCEPT ![accepting] = "closed"]
    /\ sock' = Close(sock, accepting)
    /\ GoMain("abort")
    /\ UNCHANGED <<poolVars, slotThread, run, accepting, stopIdx, histVars, thrVars,
                   lockVars>>

(* luaL_newstate fails: clientStart calls client_Cleanup, which closes the *)
(* Lua state the record had before, if it ever had one.                    *)
NewStateFails ==
    /\ mainPc = "start" /\ StartMayFail
    /\ slotSock' = [slotSock EXCEPT ![slotOf[accepting]] = accepting]
    /\ lua' = Close(lua, slotLua[slotOf[accepting]])
    /\ sock' = Close(sock, accepting)
    /\ noState' = noState \cup {accepting}
    /\ GoMain("abort")
    /\ UNCHANGED <<poolVars, slotLua, slotThread, run, accepting, stopIdx, earlyReuse, selectFailed, thrVars, lockVars>>

(* Everything the thread of k uses is reached through the record rec[k].   *)
Create ==
    LET s == slotOf[accepting] IN
    /\ mainPc = "create"
    /\ slotThread' = [slotThread EXCEPT ![s] = accepting]
    /\ rec' = [rec EXCEPT ![accepting] = s]
    /\ Go(accepting, "recv")
    /\ earlyReuse' = (earlyReuse \/ \E j \in Conns : /\ rec[j] = s
                                                     /\ tpc[j] \in {"print", "detach"})
    /\ accepting' = None
    /\ GoMain("select")
    /\ UNCHANGED <<poolVars, slotSock, slotLua, endVars, run, stopIdx, selectFailed, noState, cancelled, detached, lockVars>>

(* pthread_create fails.                                                   *)
CreateFails ==
    /\ mainPc = "create" /\ StartMayFail
    /\ lua' = Close(lua, slotLua[slotOf[accepting]])
    /\ sock' = Close(sock, slotSock[slotOf[accepting]])
    /\ GoMain("abort")
    /\ UNCHANGED <<poolVars, recVars, run, accepting, stopIdx, histVars, thrVars,
                   lockVars>>

(* Mutant of Abort: the lease is cleared without serverDropClient.         *)
AbortUncounted ==
    /\ mainPc = "abort" /\ ~cmutexLost
    /\ sock' = Close(sock, accepting)
    /\ lease' = [lease EXCEPT ![slotOf[accepting]] = FALSE]
    /\ slotOf' = [slotOf EXCEPT ![accepting] = None]
    /\ accepting' = None
    /\ GoMain("select")
    /\ UNCHANGED <<droppedClient, nclients, lastClient, pc, caller, n, released, raced,
                   recVars, lua, run, stopIdx, histVars, thrVars, lockVars>>

(* _acceptClient closes the socket, after client_Cleanup did, and drops    *)
(* the record.                                                             *)
Abort ==
    /\ mainPc = "abort" /\ ~cmutexLost
    /\ sock' = Close(sock, accepting)
    /\ Pool!Drop(accepting)
    /\ accepting' = None
    /\ GoMain("select")
    /\ UNCHANGED <<recVars, lua, run, stopIdx, histVars, thrVars, lockVars>>

(* The loop ends through server.run.                                       *)
LeaveLoop ==
    /\ mainPc = "select" /\ ~run
    /\ GoMain("stop")
    /\ UNCHANGED <<poolVars, recVars, endVars, run, accepting, stopIdx, histVars, thrVars,
                   lockVars>>

(* The loop ends by an error of select, which skips _stopClients.          *)
SelectFails ==
    /\ mainPc = "select" /\ run /\ SelectMayFail
    /\ GoMain("destroy")
    /\ selectFailed' = TRUE
    /\ UNCHANGED <<poolVars, recVars, endVars, run, accepting, stopIdx, earlyReuse, noState, thrVars, lockVars>>

-------------------------------------------------------------------------------
(* The main thread: _stopClients and threadCancel, record by record.       *)

(* The lease is read under the mutex, and acted upon after it is released. *)
StopLook ==
    /\ mainPc = "stop" /\ stopIdx < NSlots /\ ~cmutexLost
    /\ IF lease[stopIdx] THEN GoMain("cancel") /\ UNCHANGED stopIdx
                         ELSE stopIdx' = stopIdx + 1 /\ UNCHANGED mainPc
    /\ UNCHANGED <<poolVars, recVars, endVars, run, accepting, histVars, thrVars,
                   lockVars>>

(* pthread_cancel, of the thread whose id the record holds.  For a thread  *)
(* that has detached itself and ended this is undefined (thread.c:256,     *)
(* 262); it is taken for the call, and the join after it, that fails.      *)
Cancel ==
    LET t == slotThread[stopIdx] IN
    /\ mainPc = "cancel"
    /\ IF tpc[t] = "exited" /\ t \in detached
       THEN UNCHANGED cancelled
       ELSE cancelled' = cancelled \cup {t}
    /\ GoMain("join")
    /\ UNCHANGED <<poolVars, recVars, endVars, run, accepting, stopIdx, histVars, tpc, rec,
                   detached, lockVars>>

(* pthread_join refuses a detached thread, and waits for another one.      *)
Join ==
    LET t == slotThread[stopIdx] IN
    /\ mainPc = "join"
    /\ IF t \in detached
       THEN stopIdx' = stopIdx + 1 /\ GoMain("stop")
       ELSE GoMain("joining") /\ UNCHANGED stopIdx
    /\ UNCHANGED <<poolVars, recVars, endVars, run, accepting, histVars, thrVars,
                   lockVars>>

(* Mutant of Joined: the thread is not waited for.                         *)
JoinedAtOnce ==
    /\ mainPc = "joining"
    /\ stopIdx' = stopIdx + 1
    /\ GoMain("stop")
    /\ UNCHANGED <<poolVars, recVars, endVars, run, accepting, histVars, thrVars,
                   lockVars>>

(* Mutant of Joined: the next record is left out.                          *)
JoinedSkips ==
    /\ mainPc = "joining" /\ tpc[slotThread[stopIdx]] = "exited"
    /\ stopIdx' = stopIdx + 2
    /\ GoMain("stop")
    /\ UNCHANGED <<poolVars, recVars, endVars, run, accepting, histVars, thrVars,
                   lockVars>>

(* The thread has ended: the next record is looked at.                     *)
Joined ==
    /\ mainPc = "joining" /\ tpc[slotThread[stopIdx]] = "exited"
    /\ stopIdx' = stopIdx + 1
    /\ GoMain("stop")
    /\ UNCHANGED <<poolVars, recVars, endVars, run, accepting, histVars, thrVars,
                   lockVars>>

(* All records are dealt with; then the server's Lua state is closed.      *)
Destroy ==
    /\ \/ mainPc = "stop" /\ stopIdx = NSlots /\ GoMain("destroy")
       \/ mainPc = "destroy" /\ GoMain("done")
    /\ UNCHANGED <<poolVars, recVars, endVars, run, accepting, stopIdx, histVars, thrVars,
                   lockVars>>

MainLoop == GetClient \/ Start \/ StartFails \/ NewStateFails \/ Create \/ CreateFails
            \/ Abort \/ LeaveLoop
MainStop == StopLook \/ Cancel \/ Join \/ Joined \/ Destroy

-------------------------------------------------------------------------------
(* The thread of client k: thread_Run, _run, client_Service, _stop.        *)

(* recv returns: a request, or the end of the connection.                  *)
Recv(k) ==
    /\ tpc[k] = "recv" /\ k \notin cancelled
    /\ \E label \in {"work", "close"} : Go(k, label)
    /\ UNCHANGED <<poolVars, recVars, endVars, mainVars, rec, cancelled, detached,
                   lockVars>>

(* A handler may use a session, under server.lmutex, before it answers;    *)
(* the connection is kept or ends.                                         *)
Work(k) ==
    /\ \/ tpc[k] = "work" /\ \E label \in {"lwait", "reply"} : Go(k, label)
       \/ tpc[k] = "reply" /\ \E label \in {"recv", "close"} : Go(k, label)
    /\ UNCHANGED <<poolVars, recVars, endVars, mainVars, rec, cancelled, detached,
                   lockVars>>

Lock(k) ==
    /\ tpc[k] = "lwait" /\ lmutex = None
    /\ lmutex' = k
    /\ Go(k, "crit")
    /\ UNCHANGED <<poolVars, recVars, endVars, mainVars, rec, cancelled, detached,
                   cmutexLost>>

(* Mutant of Unlock: the mutex stays locked.                               *)
UnlockForgotten(k) ==
    /\ tpc[k] = "crit"
    /\ Go(k, "reply")
    /\ UNCHANGED <<poolVars, recVars, endVars, mainVars, rec, cancelled, detached,
                   lockVars>>

Unlock(k) ==
    /\ tpc[k] = "crit"
    /\ lmutex' = None
    /\ Go(k, "reply")
    /\ UNCHANGED <<poolVars, recVars, endVars, mainVars, rec, cancelled, detached,
                   cmutexLost>>

(* Mutant of Cancelled: the handler is still installed after the cleanup.  *)
CancelledLate(k) ==
    /\ k \in cancelled
    /\ tpc[k] \in {"recv", "work", "reply", "drop"} \cup (IF DebugNoise THEN {"crit"} ELSE {})
    /\ Go(k, "hclose")
    /\ UNCHANGED <<poolVars, recVars, endVars, mainVars, rec, cancelled, detached,
                   lockVars>>

(* Cancellation while the handler of pthread_cleanup_push is installed:    *)
(* at recv, send or printf, under lmutex only if debugPrint prints there.  *)
Cancelled(k) ==
    /\ k \in cancelled
    /\ tpc[k] \in {"recv", "work", "reply"} \cup (IF DebugNoise THEN {"crit"} ELSE {})
    /\ Go(k, "hclose")
    /\ UNCHANGED <<poolVars, recVars, endVars, mainVars, rec, cancelled, detached,
                   lockVars>>

(* client_Cleanup, called by the end of the run or by the handler: the     *)
(* record's Lua state and socket are closed.                               *)
Cleanup(k) ==
    /\ \/ tpc[k] = "close" /\ Go(k, "drop")
       \/ tpc[k] = "hclose" /\ Go(k, "hdrop")
    /\ lua' = Close(lua, slotLua[rec[k]])
    /\ sock' = Close(sock, slotSock[rec[k]])
    /\ UNCHANGED <<poolVars, recVars, mainVars, rec, cancelled, detached, lockVars>>

(* Cancellation after pthread_cleanup_pop: the thread ends on the spot, at *)
(* the close of the socket or at a line it prints.                         *)
CutShort(k) ==
    /\ k \in cancelled
    /\ \/ tpc[k] = "close" /\ lua' = Close(lua, slotLua[rec[k]])
       \/ tpc[k] = "close" /\ DebugNoise /\ UNCHANGED lua
       \/ tpc[k] = "print" /\ UNCHANGED lua
    /\ Go(k, "exited")
    /\ UNCHANGED <<poolVars, recVars, sock, mainVars, rec, cancelled, detached, lockVars>>

(* serverDropClient; at level NOISE it prints with the mutex locked.       *)
DropSelf(k) ==
    /\ ~cmutexLost
    /\ Pool!Drop(k)
    /\ \/ tpc[k] = "drop" /\ Go(k, "print") /\ UNCHANGED cmutexLost
       \/ tpc[k] = "hdrop" /\ Go(k, "exited") /\ UNCHANGED cmutexLost
       \/ /\ tpc[k] = "drop" /\ DebugNoise /\ k \in cancelled
          /\ Go(k, "exited") /\ cmutexLost' = TRUE
    /\ UNCHANGED <<recVars, endVars, mainVars, rec, cancelled, detached, lmutex>>

(* Mutant of Detach: the thread ends joinable.                             *)
DetachForgotten(k) ==
    /\ \/ tpc[k] = "print" /\ Go(k, "detach")
       \/ tpc[k] = "detach" /\ Go(k, "exited")
    /\ UNCHANGED <<poolVars, recVars, endVars, mainVars, rec, cancelled, detached,
                   lockVars>>

(* "Client stopped" is printed, then the thread detaches the thread its    *)
(* record names and ends; a thread that is being joined stays joinable.    *)
Detach(k) ==
    /\ \/ tpc[k] = "print" /\ Go(k, "detach") /\ UNCHANGED detached
       \/ /\ tpc[k] = "detach"
          /\ Go(k, "exited")
          /\ detached' = IF mainPc = "joining" /\ slotThread[stopIdx] = slotThread[rec[k]]
                         THEN detached ELSE detached \cup {slotThread[rec[k]]}
    /\ UNCHANGED <<poolVars, recVars, endVars, mainVars, rec, cancelled, lockVars>>

(* Nothing but recv waits for the peer.                                    *)
Thread(k) == Work(k) \/ Unlock(k) \/ Cancelled(k) \/ Cleanup(k) \/ CutShort(k)
             \/ DropSelf(k) \/ Detach(k)

-------------------------------------------------------------------------------
Next ==
    \/ Signal
    \/ \E k \in Conns : Accept(k) \/ AcceptFails(k)
    \/ MainLoop \/ SelectFails
    \/ MainStop
    \/ \E k \in Conns : Recv(k) \/ Lock(k) \/ Thread(k)

Spec == Init /\ [][Next]_vars

(* The main thread and the client threads run on, no thread starves at     *)
(* lmutex; peers, signals and new connections come or do not.              *)
Fairness ==
    /\ WF_vars(MainLoop \/ MainStop)
    /\ \A k \in Conns : WF_vars(Thread(k)) /\ SF_vars(Lock(k))

FairSpec == Spec /\ Fairness

-------------------------------------------------------------------------------
Serving   == {k \in Conns : tpc[k] \in {"recv", "work", "lwait", "crit", "reply"}}
Unreleased == Serving \cup {k \in Conns : tpc[k] \in {"close", "hclose"}}

(* The server changes the table of client records only the way ClientPool  *)
(* does: what is proved of ClientPool holds of the running server.         *)
SharesPool == Pool!Spec

(* The values every variable keeps to.                                     *)
TypeOK ==
    /\ Pool!TypeOK
    /\ run \in BOOLEAN
    /\ mainPc \in {"select", "getClient", "start", "create", "abort", "stop", "cancel",
                   "join", "joining", "destroy", "done"}
    /\ accepting \in Conns \cup {None}
    /\ stopIdx \in 0 .. NSlots
    /\ slotSock \in [Slots -> Conns \cup {None}]
    /\ slotLua \in [Slots -> Conns \cup {None}]
    /\ slotThread \in [Slots -> Conns \cup {None}]
    /\ sock \in [Conns -> {"none", "open", "closed", "twice"}]
    /\ lua \in [Conns -> {"none", "open", "closed", "twice"}]
    /\ tpc \in [Conns -> {"none", "recv", "work", "lwait", "crit", "reply", "close", "drop",
                          "print", "detach", "hclose", "hdrop", "exited"}]
    /\ rec \in [Conns -> Slots \cup {None}]
    /\ cancelled \subseteq Conns /\ detached \subseteq Conns
    /\ lmutex \in Conns \cup {None}
    /\ {run, cmutexLost, earlyReuse, selectFailed} \subseteq BOOLEAN
    /\ noState \subseteq Conns

(* A client thread works on the socket and the Lua state that were made    *)
(* for its own connection, both open, until client_Cleanup (client.c), as  *)
(* long as no record was leased twice.                                     *)
OwnClient ==
    ~raced => \A k \in Unreleased :
                  /\ slotOf[k] = rec[k]
                  /\ slotSock[rec[k]] = k /\ sock[k] = "open"
                  /\ slotLua[rec[k]] = k /\ lua[k] = "open"
                  /\ slotThread[rec[k]] = k

(* No socket is left open behind (server.c, client.c): one that is open    *)
(* belongs to the connection being accepted or to a thread that will close *)
(* it, unless the thread was cut short at shutdown.                        *)
NoSocketLeak ==
    ~raced => \A k \in Conns :
                  sock[k] = "open" => k = accepting \/ k \in Unreleased \/ k \in cancelled

(* A socket whose client was started is closed at most once, and so is     *)
(* every Lua state as long as luaL_newstate succeeds; the socket of a      *)
(* failed start is closed twice (server.c:300 after client.c:144), and a   *)
(* failing luaL_newstate closes the record's former state once more        *)
(* (client.c:59).                                                          *)
ClosedOnce ==
    ~raced => \A k \in Conns :
                  /\ lua[k] = "twice" => noState # {}
                  /\ sock[k] = "twice" => rec[k] = None

(* A thread that has ended by itself is detached and has given its record  *)
(* back: an ended client costs nothing any more (thread.c:182).            *)
EndedIsGone ==
    ~raced /\ ~earlyReuse => \A k \in Conns :
        tpc[k] = "exited" /\ k \notin cancelled => k \in detached /\ slotOf[k] = None

(* When the server's Lua state is closed no client thread is serving, if   *)
(* the loop was left through server.run and neither of the two races on    *)
(* the table took place.                                                   *)
StoppedBeforeDestroy ==
    mainPc \in {"destroy", "done"} /\ ~selectFailed /\ ~raced /\ ~earlyReuse
        => Unreleased = {}

(* A thread was cancelled while it owned a mutex, which is locked for ever. *)
MutexLost == cmutexLost \/ (lmutex \in cancelled /\ tpc[lmutex] # "crit")

(* server.c:146, "_sigAction must terminate program": whatever the clients *)
(* are doing, the shutdown ends, unless a thread was cancelled at a line   *)
(* it prints, with -d4, while it owned a mutex (server.c:363,              *)
(* lserver.c:121).                                                         *)
ShutdownCompletes == ~run ~> (mainPc = "done" \/ (DebugNoise /\ MutexLost))

(* server.c:391, "All clients was stopped": once _stopClients is through,  *)
(* no client thread is serving.                                            *)
AllClientsStopped ==
    mainPc \in {"destroy", "done"} /\ ~selectFailed => Serving = {}
===============================================================================
