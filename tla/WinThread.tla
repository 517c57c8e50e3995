------------------------------ MODULE WinThread ------------------------------
(***************************************************************************)
(* The Windows branches of thread.c: the events a client thread and the    *)
(* main thread agree by on the end of the thread, and on who closes them.  *)
(*                                                                         *)
(* One client record is followed through the connections that use it one   *)
(* after the other (a member of Conns also stands for its thread and for   *)
(* the events made for it).  Both sides reach the events through the       *)
(* record only, whose fields the next connection overwrites.  cancelEvent  *)
(* and stopEvent are auto-reset: SetEvent lets one waiter go and leaves    *)
(* the event reset, or leaves it set when nobody waits.  The two socket    *)
(* events are made and closed together, and are one kind here.             *)
(***************************************************************************)
EXTENDS Naturals, FiniteSets

CONSTANTS Conns,  \* the connections of a run
          None    \* NULL, WSA_INVALID_EVENT, nobody

ASSUME NoneAssumption == None \notin Conns

Kinds == {"cancel", "stop", "sock"}

VARIABLES
    lease,      \* client->lease
    field,      \* field[e]: the event of kind e whose handle the record holds
    event,      \* event[k][e]: what has become of the event of kind e made for k
    mainPc,     \* where the main thread is
    accepting,  \* the connection the main thread is starting, or None
    tpc,        \* tpc[k]: where the thread of k is
    waits,      \* waits[t]: the event the thread t (None: the main one) waits for
    \* history
    cancelled,  \* connections whose cancelEvent threadCancel has reached for
    earlyReuse  \* a record was started anew before its former thread was through

vars == <<lease, field, event, mainPc, accepting, tpc, waits, cancelled, earlyReuse>>

Init ==
    /\ lease = FALSE
    /\ field = [e \in Kinds |-> None]
    /\ event = [k \in Conns |-> [e \in Kinds |-> "none"]]
    /\ mainPc = "idle"
    /\ accepting = None
    /\ tpc = [k \in Conns |-> "none"]
    /\ waits = [t \in Conns \cup {None} |-> None]
    /\ cancelled = {}
    /\ earlyReuse = FALSE

GoMain(label) == mainPc' = label
Go(k, label) == tpc' = [tpc EXCEPT ![k] = label]

(* The event of kind e of the record, or what a call on it fails for.      *)
State(e) == IF field[e] = None THEN "none" ELSE event[field[e]][e]
Usable(e) == State(e) \in {"reset", "set"}
Become(e, s) == event' = [event EXCEPT ![field[e]][e] = s]

(* CloseHandle of what the record holds, once more if it is closed.        *)
CloseField(e) ==
    IF field[e] = None THEN UNCHANGED event
    ELSE Become(e, IF Usable(e) THEN "closed" ELSE "twice")

(* The cleaning of thread_Clean, event by event, from either side.         *)
Cleaning == <<"cleanStop", "cleanCancel", "cleanSock">>
KindOf(label) == CASE label = "cleanStop"   -> "stop"
                   [] label = "cleanCancel" -> "cancel"
                   [] label = "cleanSock"   -> "sock"

-------------------------------------------------------------------------------
(* The main thread starts a client: clientStart.                           *)

(* The record is free and leased to k; threadInit forgets the handles.     *)
ThreadInit(k) ==
    /\ mainPc = "idle" /\ ~lease /\ tpc[k] = "none"
    /\ lease' = TRUE
    /\ accepting' = k
    /\ field' = [e \in Kinds |-> None]
    /\ earlyReuse' = (earlyReuse \/ \E j \in Conns : tpc[j] \notin {"none", "exited", "failed"})
    /\ GoMain("makeSock")
    /\ UNCHANGED <<event, tpc, waits, cancelled>>

(* An event is made and its handle stored: threadInitSock, threadCreate.   *)
Make(label, e, next) ==
    /\ mainPc = label
    /\ field' = [field EXCEPT ![e] = accepting]
    /\ event' = [event EXCEPT ![accepting][e] = "reset"]
    /\ GoMain(next)
    /\ UNCHANGED <<lease, accepting, tpc, waits, cancelled, earlyReuse>>

MakeEvent ==
    \/ Make("makeSock", "sock", "makeCancel")
    \/ Make("makeCancel", "cancel", "makeStop")
    \/ Make("makeStop", "stop", "makeThread")

(* CreateThread.                                                           *)
MakeThread ==
    /\ mainPc = "makeThread"
    /\ Go(accepting, "work")
    /\ accepting' = None
    /\ GoMain("idle")
    /\ UNCHANGED <<lease, field, event, waits, cancelled, earlyReuse>>

(* An event or the thread cannot be made: threadCreate closes cancelEvent  *)
(* and stopEvent, nobody the socket events, and the record is dropped.     *)
MakeFails ==
    /\ mainPc \in {"makeSock", "makeCancel", "makeStop", "makeThread"}
    /\ event' = [event EXCEPT ![accepting] =
                    [e \in Kinds |-> IF e # "sock" /\ @[e] = "reset" THEN "closed" ELSE @[e]]]
    /\ lease' = FALSE
    /\ Go(accepting, "failed")
    /\ accepting' = None
    /\ GoMain("idle")
    /\ UNCHANGED <<field, waits, cancelled, earlyReuse>>

-------------------------------------------------------------------------------
(* The main thread stops the client: _stopClients, threadCancel.           *)

(* The accept loop is left.                                                *)
Stop ==
    /\ mainPc = "idle"
    /\ GoMain("look")
    /\ UNCHANGED <<lease, field, event, accepting, tpc, waits, cancelled, earlyReuse>>

(* The lease is read under the mutex and acted upon after it.              *)
Look ==
    /\ mainPc = "look"
    /\ GoMain(IF lease THEN "cancel" ELSE "done")
    /\ UNCHANGED <<lease, field, event, accepting, tpc, waits, cancelled, earlyReuse>>

(* SetEvent(cancelEvent) lets the thread that waits for it go.             *)
Cancel ==
    LET waiters == {k \in Conns : tpc[k] = "blocked" /\ waits[k] = field["cancel"]}
    IN
    /\ mainPc = "cancel"
    /\ GoMain("wait")
    /\ cancelled' = cancelled \cup ({field["cancel"]} \ {None})
    /\ IF ~Usable("cancel") THEN UNCHANGED <<event, tpc>>
       ELSE IF waiters = {} THEN Become("cancel", "set") /\ UNCHANGED tpc
       ELSE (\E k \in waiters : Go(k, "stop")) /\ UNCHANGED event
    /\ UNCHANGED <<lease, field, accepting, waits, earlyReuse>>

(* Mutant of Wait: the wait has a time-out of zero.                        *)
WaitNot ==
    /\ mainPc = "wait"
    /\ GoMain("cleanStop")
    /\ UNCHANGED <<lease, field, event, accepting, tpc, waits, cancelled, earlyReuse>>

(* The wait for stopEvent fails, succeeds at once, or begins.              *)
Wait ==
    /\ mainPc = "wait"
    /\ CASE State("stop") = "set"   -> /\ Become("stop", "reset")
                                       /\ GoMain("cleanStop")
                                       /\ UNCHANGED waits
         [] State("stop") = "reset" -> /\ waits' = [waits EXCEPT ![None] = field["stop"]]
                                       /\ GoMain("waiting")
                                       /\ UNCHANGED event
         [] OTHER                   -> GoMain("done") /\ UNCHANGED <<event, waits>>
    /\ UNCHANGED <<lease, field, accepting, tpc, cancelled, earlyReuse>>

MainClean(i) ==
    /\ mainPc = Cleaning[i]
    /\ CloseField(KindOf(Cleaning[i]))
    /\ GoMain(IF i < 3 THEN Cleaning[i + 1] ELSE "done")
    /\ UNCHANGED <<lease, field, accepting, tpc, waits, cancelled, earlyReuse>>

Main == \/ MakeEvent \/ MakeThread \/ MakeFails
        \/ Look \/ Cancel \/ Wait
        \/ \E i \in 1 .. 3 : MainClean(i)

-------------------------------------------------------------------------------
(* The thread of client k: thread_Run, threadRecv, threadSend.             *)

(* The client goes on with the connection or is through with it.           *)
Work(k) ==
    /\ tpc[k] = "work"
    /\ \E label \in {"recv", "stop"} : Go(k, label)
    /\ UNCHANGED <<lease, field, event, mainPc, accepting, waits, cancelled, earlyReuse>>

(* threadRecv or threadSend begins to wait.  It fails on events that are   *)
(* gone, and a cancel it finds set is taken, and reset, by the wait.       *)
BeginWait(k) ==
    /\ tpc[k] = "recv"
    /\ IF ~Usable("cancel") \/ ~Usable("sock")
       THEN Go(k, "work") /\ UNCHANGED <<event, waits>>
       ELSE IF State("cancel") = "set"
       THEN Go(k, "stop") /\ Become("cancel", "reset") /\ UNCHANGED waits
       ELSE /\ Go(k, "blocked")
            /\ waits' = [waits EXCEPT ![k] = field["cancel"]]
            /\ UNCHANGED event
    /\ UNCHANGED <<lease, field, mainPc, accepting, cancelled, earlyReuse>>

(* The socket event ends the wait.                                         *)
SockReady(k) ==
    /\ tpc[k] = "blocked"
    /\ Go(k, "work")
    /\ UNCHANGED <<lease, field, event, mainPc, accepting, waits, cancelled, earlyReuse>>

(* thread_Stop: the client is cleaned up and its record dropped.           *)
DropClient(k) ==
    /\ tpc[k] = "stop"
    /\ lease' = FALSE
    /\ Go(k, "setStop")
    /\ UNCHANGED <<field, event, mainPc, accepting, waits, cancelled, earlyReuse>>

(* Mutant of SetStop: the event is not set.                                *)
SetStopForgotten(k) ==
    /\ tpc[k] = "setStop"
    /\ Go(k, "check")
    /\ UNCHANGED <<lease, field, event, mainPc, accepting, waits, cancelled, earlyReuse>>

(* SetEvent(stopEvent) lets the main thread go if it waits for it.         *)
SetStop(k) ==
    /\ tpc[k] = "setStop"
    /\ Go(k, "check")
    /\ IF ~Usable("stop") THEN UNCHANGED <<event, mainPc>>
       ELSE IF mainPc = "waiting" /\ waits[None] = field["stop"]
       THEN GoMain("cleanStop") /\ UNCHANGED event
       ELSE Become("stop", "set") /\ UNCHANGED mainPc
    /\ UNCHANGED <<lease, field, accepting, waits, cancelled, earlyReuse>>

(* Mutant of Check: the cleaning is always left to threadCancel.           *)
CheckNever(k) ==
    /\ tpc[k] = "check"
    /\ IF State("cancel") = "set" THEN Become("cancel", "reset") ELSE UNCHANGED event
    /\ Go(k, "exited")
    /\ UNCHANGED <<lease, field, mainPc, accepting, waits, cancelled, earlyReuse>>

(* A cancel that is set leaves the cleaning to threadCancel.               *)
Check(k) ==
    /\ tpc[k] = "check"
    /\ IF State("cancel") = "set"
       THEN Become("cancel", "reset") /\ Go(k, "exited")
       ELSE Go(k, "cleanStop") /\ UNCHANGED event
    /\ UNCHANGED <<lease, field, mainPc, accepting, waits, cancelled, earlyReuse>>

Clean(k, i) ==
    /\ tpc[k] = Cleaning[i]
    /\ CloseField(KindOf(Cleaning[i]))
    /\ Go(k, IF i < 3 THEN Cleaning[i + 1] ELSE "exited")
    /\ UNCHANGED <<lease, field, mainPc, accepting, waits, cancelled, earlyReuse>>

Thread(k) == \/ Work(k) \/ BeginWait(k) \/ DropClient(k) \/ SetStop(k) \/ Check(k)
             \/ \E i \in 1 .. 3 : Clean(k, i)

Next ==
    \/ Stop
    \/ Main
    \/ \E k \in Conns : ThreadInit(k) \/ SockReady(k) \/ Thread(k)

Spec == Init /\ [][Next]_vars

(* The main thread and the threads run where they do not wait.  A peer may *)
(* be silent for ever, and the accept loop may go on for ever.             *)
FairSpec == Spec /\ WF_vars(Main) /\ \A k \in Conns : WF_vars(Thread(k))

-------------------------------------------------------------------------------
(* A thread that serves its client finds the events made for it in the     *)
(* record, and open: neither threadCancel nor thread_Stop has closed them  *)
(* too early, unless a former thread of the record was not through yet     *)
(* when it was started anew (thread.c:214-225).                            *)
ServingHasEvents ==
    ~earlyReuse => \A k \in Conns : tpc[k] \in {"work", "recv", "blocked", "stop"} =>
        \A e \in Kinds : field[e] = k /\ Usable(e)

(* Of the thread and threadCancel at least one closes the events           *)
(* (thread.c:221), and none is closed twice unless the thread was          *)
(* cancelled.                                                              *)
EventsReleased ==
    ~earlyReuse /\ mainPc \in {"idle", "done"} => \A k \in Conns : tpc[k] = "exited" =>
        \A e \in Kinds : event[k][e] \in {"closed"} \cup (IF k \in cancelled THEN {"twice"}
                                                                           ELSE {})

(* threadCancel comes back, whatever the thread is doing: the wait for     *)
(* stopEvent is INFINITE (thread.c:245).                                   *)
CancelReturns == mainPc = "cancel" ~> mainPc = "done" \/ earlyReuse
===============================================================================
