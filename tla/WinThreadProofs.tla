--------------------------- MODULE WinThreadProofs ---------------------------
(***************************************************************************)
(* Proofs about WinThread, for any number of connections.                  *)
(***************************************************************************)
EXTENDS WinThread, TLAPS

ServePcs == {"work", "recv", "blocked", "stop"}
EarlyPcs == ServePcs \cup {"setStop"}
LivePcs  == EarlyPcs \cup {"check", "cleanStop", "cleanCancel", "cleanSock"}
ThreadPcs == LivePcs \cup {"none", "exited", "failed"}

MakePcs  == {"makeSock", "makeCancel", "makeStop", "makeThread"}
CleanPcs == {"cleanStop", "cleanCancel", "cleanSock"}
MainPcs  == MakePcs \cup CleanPcs
            \cup {"idle", "look", "cancel", "wait", "waiting", "done"}

Open == {"reset", "set"}
Gone == {"closed", "twice"}
EventStates == Open \cup Gone \cup {"none"}

TypeOK ==
    /\ lease \in BOOLEAN
    /\ field \in [Kinds -> Conns \cup {None}]
    /\ event \in [Conns -> [Kinds -> EventStates]]
    /\ mainPc \in MainPcs
    /\ accepting \in Conns \cup {None}
    /\ mainPc \in MakePcs => accepting \in Conns
    /\ tpc \in [Conns -> ThreadPcs]
    /\ waits \in [Conns \cup {None} -> Conns \cup {None}]
    /\ cancelled \subseteq Conns
    /\ earlyReuse \in BOOLEAN

-------------------------------------------------------------------------------
(* The strengthening, for a record that was never reused too early.        *)

(* One thread at most uses the record, and its events are the record's.    *)
OneThread ==
    \A k \in Conns : tpc[k] \in LivePcs =>
        /\ \A j \in Conns : tpc[j] \in LivePcs => j = k
        /\ \A e \in Kinds : field[e] = k

(* While a client is started no thread runs, and the events made so far    *)
(* are in the record.                                                      *)
Starting ==
    mainPc \in MakePcs =>
        /\ accepting \in Conns /\ lease
        /\ tpc[accepting] = "none"
        /\ \A k \in Conns : tpc[k] \notin LivePcs
        /\ mainPc # "makeSock" =>
              field["sock"] = accepting /\ event[accepting]["sock"] = "reset"
        /\ mainPc \in {"makeStop", "makeThread"} =>
              field["cancel"] = accepting /\ event[accepting]["cancel"] = "reset"
        /\ mainPc = "makeThread" =>
              field["stop"] = accepting /\ event[accepting]["stop"] = "reset"

(* A leased record has a thread that serves, and the other way round.      *)
Leased ==
    /\ mainPc \in {"idle", "look"} /\ lease => \E k \in Conns : tpc[k] \in ServePcs
    /\ \A k \in Conns : tpc[k] \in ServePcs =>
          lease /\ mainPc \in {"idle", "look", "cancel", "wait", "waiting"}

(* Before the thread sets stopEvent nothing is closed.                     *)
Early ==
    \A k \in Conns : tpc[k] \in EarlyPcs =>
        /\ mainPc \in {"idle", "look", "cancel", "wait", "waiting", "done"}
        /\ \A e \in Kinds : event[k][e] \in Open
        /\ event[k]["stop"] = "reset"
        /\ event[k]["cancel"] = "set" => mainPc \in {"wait", "waiting"}

(* Behind it the event is set until the main thread or the thread itself   *)
(* takes it away, and a cancel the thread can still find set is one whose  *)
(* main thread is going to clean up.                                       *)
Checking ==
    \A k \in Conns :
        /\ tpc[k] \in {"check", "cleanStop"} /\ mainPc \in {"idle", "look", "cancel", "wait"}
              => event[k]["stop"] = "set"
        /\ tpc[k] = "check" /\ event[k]["cancel"] = "set" =>
              mainPc \in {"wait", "cleanStop", "cleanCancel"}

ThreadCleaning ==
    \A k \in Conns :
        /\ tpc[k] \in {"cleanCancel", "cleanSock"} => event[k]["stop"] \in Gone
        /\ tpc[k] = "cleanSock" => event[k]["cancel"] \in Gone

(* threadCancel works on the events of one connection, which it has        *)
(* cancelled.                                                              *)
Cancelling ==
    LET o == field["stop"] IN
    mainPc \in CleanPcs \cup {"cancel", "wait", "waiting"} =>
        /\ o \in Conns /\ field["cancel"] = o /\ field["sock"] = o
        /\ tpc[o] \in LivePcs \cup {"exited"}
        /\ mainPc # "cancel" => o \in cancelled
        /\ mainPc = "waiting" => waits[None] = o /\ tpc[o] \in EarlyPcs
        /\ mainPc \in {"cleanCancel", "cleanSock"} => event[o]["stop"] \in Gone
        /\ mainPc = "cleanSock" => event[o]["cancel"] \in Gone

(* The events of a thread that has ended are closed, or the main thread is *)
(* about to close them.                                                    *)
Ended ==
    \A k \in Conns : tpc[k] = "exited" =>
        \/ \A e \in Kinds : event[k][e] \in Gone
        \/ /\ mainPc \in CleanPcs \cup {"wait"} /\ field["stop"] = k
           /\ mainPc = "wait" => event[k]["stop"] = "set"

(* Without a cancel the thread closes each event once.                     *)
NotTwice ==
    \A k \in Conns \ cancelled :
        /\ \A e \in Kinds : event[k][e] # "twice"
        /\ tpc[k] \in EarlyPcs \cup {"check", "cleanStop"} => event[k]["stop"] \in Open
        /\ tpc[k] \in EarlyPcs \cup {"check", "cleanStop", "cleanCancel"} =>
              event[k]["cancel"] \in Open
        /\ tpc[k] \in LivePcs => event[k]["sock"] \in Open

Handshake == /\ OneThread /\ Starting /\ Leased /\ Early /\ Checking
             /\ ThreadCleaning /\ Cancelling /\ Ended /\ NotTwice

IInv == TypeOK /\ (~earlyReuse => Handshake)

-------------------------------------------------------------------------------
(* What CloseHandle of the record's event of kind e leaves of the events.  *)
Closes(e) ==
    event' = [j \in Conns |-> [d \in Kinds |->
                 IF d # e \/ j # field[e] THEN event[j][d]
                 ELSE IF event[j][d] \in Open THEN "closed" ELSE "twice"]]

(* CloseField closes that event, or nothing when the record holds none.    *)
LEMMA CloseFieldCloses ==
  ASSUME TypeOK, NEW e \in Kinds, CloseField(e) PROVE Closes(e)
<1>1. CASE field[e] = None
  BY <1>1, NoneAssumption DEF TypeOK, CloseField, Closes
<1>2. CASE field[e] # None
  BY <1>2 DEF TypeOK, CloseField, Closes, Usable, State, Become, Open
<1> QED BY <1>1, <1>2

(* The three steps of the cleaning of threadCancel.                        *)
LEMMA MainCleanSteps ==
  ASSUME TypeOK, NEW i \in 1 .. 3, MainClean(i)
  PROVE  \/ mainPc = "cleanStop" /\ mainPc' = "cleanCancel" /\ Closes("stop")
         \/ mainPc = "cleanCancel" /\ mainPc' = "cleanSock" /\ Closes("cancel")
         \/ mainPc = "cleanSock" /\ mainPc' = "done" /\ Closes("sock")
<1>1. KindOf(Cleaning[i]) \in Kinds
  BY DEF KindOf, Cleaning, Kinds
<1>2. Closes(KindOf(Cleaning[i]))
  BY <1>1, CloseFieldCloses DEF MainClean
<1>3. CASE i = 1
  BY <1>2, <1>3 DEF MainClean, GoMain, KindOf, Cleaning
<1>4. CASE i = 2
  BY <1>2, <1>4 DEF MainClean, GoMain, KindOf, Cleaning
<1>5. CASE i = 3
  BY <1>2, <1>5 DEF MainClean, GoMain, KindOf, Cleaning
<1> QED BY <1>3, <1>4, <1>5

(* And those of the thread.                                                *)
LEMMA CleanSteps ==
  ASSUME TypeOK, NEW k \in Conns, NEW i \in 1 .. 3, Clean(k, i)
  PROVE  \/ tpc[k] = "cleanStop" /\ Go(k, "cleanCancel") /\ Closes("stop")
         \/ tpc[k] = "cleanCancel" /\ Go(k, "cleanSock") /\ Closes("cancel")
         \/ tpc[k] = "cleanSock" /\ Go(k, "exited") /\ Closes("sock")
<1>1. KindOf(Cleaning[i]) \in Kinds
  BY DEF KindOf, Cleaning, Kinds
<1>2. Closes(KindOf(Cleaning[i]))
  BY <1>1, CloseFieldCloses DEF Clean
<1>3. CASE i = 1
  BY <1>2, <1>3 DEF Clean, KindOf, Cleaning
<1>4. CASE i = 2
  BY <1>2, <1>4 DEF Clean, KindOf, Cleaning
<1>5. CASE i = 3
  BY <1>2, <1>5 DEF Clean, KindOf, Cleaning
<1> QED BY <1>3, <1>4, <1>5

-------------------------------------------------------------------------------
(* Each action keeps the invariant.                                        *)

(* The record is leased anew: unless that is too early, no thread runs.    *)
LEMMA ThreadInitKeeps ==
  ASSUME IInv, NEW k \in Conns, ThreadInit(k) PROVE IInv'
<1>1. TypeOK'
  BY DEF IInv, TypeOK, ThreadInit, MakePcs, MainPcs, GoMain
<1>2. ASSUME ~earlyReuse' PROVE Handshake'
  <2>1. /\ ~earlyReuse /\ TypeOK
        /\ OneThread /\ Starting /\ Leased /\ Early /\ Checking
        /\ ThreadCleaning /\ Cancelling /\ Ended /\ NotTwice
    BY <1>2 DEF IInv, Handshake, ThreadInit
  <2>2. OneThread'
    BY <1>2, <2>1 DEF OneThread, ThreadInit, ServePcs, EarlyPcs, LivePcs
  <2>3. Starting'
    BY <1>2, <2>1 DEF Starting, ThreadInit, ServePcs, EarlyPcs, LivePcs,
       TypeOK, MakePcs, GoMain
  <2>4. Leased'
    BY <2>1 DEF Leased, ThreadInit, GoMain
  <2>5. Early'
    BY <1>2, <2>1 DEF Early, ThreadInit, ServePcs, EarlyPcs
  <2>6. Checking'
    BY <2>1 DEF Checking, ThreadInit, GoMain
  <2>7. ThreadCleaning'
    BY <2>1 DEF ThreadCleaning, ThreadInit, GoMain
  <2>8. Cancelling'
    BY <2>1 DEF Cancelling, ThreadInit, CleanPcs, GoMain
  <2>9. Ended'
    BY <2>1 DEF Ended, ThreadInit, CleanPcs, GoMain
  <2>10. NotTwice'
    BY <2>1 DEF NotTwice, ThreadInit, GoMain
  <2> QED BY <2>2, <2>3, <2>4, <2>5, <2>6, <2>7, <2>8, <2>9, <2>10 DEF Handshake
<1> QED BY <1>1, <1>2 DEF IInv

(* An event is made: no thread runs, and the record takes the new handle.  *)
LEMMA MakeEventKeeps ==
  ASSUME IInv, MakeEvent PROVE IInv'
<1>1. TypeOK'
  BY DEF IInv, TypeOK, MakeEvent, MakePcs, MainPcs, Open, EventStates,
     Kinds, Make, GoMain
<1>2. ASSUME ~earlyReuse' PROVE Handshake'
  <2>1. /\ ~earlyReuse /\ TypeOK
        /\ OneThread /\ Starting /\ Leased /\ Early /\ Checking
        /\ ThreadCleaning /\ Cancelling /\ Ended /\ NotTwice
    BY <1>2 DEF IInv, Handshake, MakeEvent, Make
  <2>2. OneThread'
    BY <2>1 DEF OneThread, MakeEvent, Starting, MakePcs, Make, GoMain
  <2>3. Starting'
    <3>1. CASE Make("makeSock", "sock", "makeCancel")
      BY <2>1, <3>1 DEF Starting, TypeOK, Make, GoMain, MakePcs, Kinds
    <3>2. CASE Make("makeCancel", "cancel", "makeStop")
      BY <2>1, <3>2 DEF Starting, TypeOK, Make, GoMain, MakePcs, Kinds
    <3>3. CASE Make("makeStop", "stop", "makeThread")
      BY <2>1, <3>3 DEF Starting, TypeOK, Make, GoMain, MakePcs, Kinds
    <3> QED BY <3>1, <3>2, <3>3 DEF MakeEvent
  <2>4. Leased'
    BY <2>1 DEF Leased, MakeEvent, Make, GoMain
  <2>5. Early'
    BY <2>1 DEF Early, MakeEvent, Make, GoMain
  <2>6. Checking'
    BY <2>1 DEF Checking, MakeEvent, TypeOK, Kinds, Make, GoMain
  <2>7. ThreadCleaning'
    BY <2>1 DEF ThreadCleaning, MakeEvent, Starting, LivePcs, MakePcs, Make,
       GoMain
  <2>8. Cancelling'
    BY <2>1 DEF Cancelling, MakeEvent, CleanPcs, Make, GoMain
  <2>9. Ended'
    BY <2>1 DEF Ended, MakeEvent, Starting, TypeOK, MakePcs, CleanPcs, Make,
       GoMain
  <2>10. NotTwice'
    BY <2>1 DEF NotTwice, MakeEvent, TypeOK, Open, Kinds, Make, GoMain
  <2> QED BY <2>2, <2>3, <2>4, <2>5, <2>6, <2>7, <2>8, <2>9, <2>10 DEF Handshake
<1> QED BY <1>1, <1>2 DEF IInv

(* The thread is started, with its three events made.                      *)
LEMMA MakeThreadKeeps ==
  ASSUME IInv, MakeThread PROVE IInv'
<1>1. TypeOK'
  BY DEF IInv, TypeOK, MakeThread, ServePcs, EarlyPcs, LivePcs,
     ThreadPcs, MakePcs, MainPcs, Go, GoMain
<1>2. ASSUME ~earlyReuse' PROVE Handshake'
  <2>1. /\ ~earlyReuse /\ TypeOK
        /\ OneThread /\ Starting /\ Leased /\ Early /\ Checking
        /\ ThreadCleaning /\ Cancelling /\ Ended /\ NotTwice
    BY <1>2 DEF IInv, Handshake, MakeThread
  <2>2. OneThread'
    BY <2>1 DEF OneThread, MakeThread, Starting, MakePcs, Kinds, Go, GoMain
  <2>3. Starting'
    BY <2>1 DEF Starting, MakeThread, MakePcs, GoMain
  <2>4. Leased'
    BY <2>1 DEF Leased, MakeThread, Starting, TypeOK, ServePcs, MakePcs, Go,
       GoMain
  <2>5. Early'
    BY <2>1 DEF Early, MakeThread, Starting, MakePcs, Open, Kinds, Go, GoMain
  <2>6. Checking'
    BY <2>1 DEF Checking, MakeThread, Starting, LivePcs, MakePcs, Go, GoMain
  <2>7. ThreadCleaning'
    BY <2>1 DEF ThreadCleaning, MakeThread, Go, GoMain
  <2>8. Cancelling'
    BY <2>1 DEF Cancelling, MakeThread, CleanPcs, GoMain
  <2>9. Ended'
    BY <2>1 DEF Ended, MakeThread, CleanPcs, Go, GoMain
  <2>10. NotTwice'
    BY <2>1 DEF NotTwice, MakeThread, Starting, MakePcs, Open, Go, GoMain
  <2> QED BY <2>2, <2>3, <2>4, <2>5, <2>6, <2>7, <2>8, <2>9, <2>10 DEF Handshake
<1> QED BY <1>1, <1>2 DEF IInv

(* Nothing started: what was made belongs to no thread.                    *)
LEMMA MakeFailsKeeps ==
  ASSUME IInv, MakeFails PROVE IInv'
<1>1. TypeOK'
  BY DEF IInv, TypeOK, MakeFails, ThreadPcs, MakePcs, MainPcs,
     EventStates, Gone, Open, Go, GoMain
<1>2. ASSUME ~earlyReuse' PROVE Handshake'
  <2>1. /\ ~earlyReuse /\ TypeOK
        /\ OneThread /\ Starting /\ Leased /\ Early /\ Checking
        /\ ThreadCleaning /\ Cancelling /\ Ended /\ NotTwice
    BY <1>2 DEF IInv, Handshake, MakeFails
  <2>2. OneThread'
    BY <2>1 DEF OneThread, MakeFails, ServePcs, EarlyPcs, LivePcs, Go, GoMain
  <2>3. Starting'
    BY <2>1 DEF Starting, MakeFails, MakePcs, GoMain
  <2>4. Leased'
    BY <2>1 DEF Leased, MakeFails, ServePcs, Go, GoMain
  <2>5. Early'
    BY <2>1 DEF Early, MakeFails, ServePcs, EarlyPcs, Go, GoMain
  <2>6. Checking'
    BY <2>1 DEF Checking, MakeFails, Starting, LivePcs, MakePcs, Go, GoMain
  <2>7. ThreadCleaning'
    BY <2>1 DEF ThreadCleaning, MakeFails, Gone, Kinds, Go, GoMain
  <2>8. Cancelling'
    BY <2>1 DEF Cancelling, MakeFails, CleanPcs, GoMain
  <2>9. Ended'
    BY <2>1 DEF Ended, MakeFails, CleanPcs, Gone, Go, GoMain
  <2>10. NotTwice'
    BY <2>1 DEF NotTwice, MakeFails, TypeOK, ServePcs, EarlyPcs, LivePcs, Go,
       GoMain
  <2> QED BY <2>2, <2>3, <2>4, <2>5, <2>6, <2>7, <2>8, <2>9, <2>10 DEF Handshake
<1> QED BY <1>1, <1>2 DEF IInv

(* The accept loop is left: a lease is still one of a thread that serves.  *)
LEMMA StopKeeps ==
  ASSUME IInv, Stop PROVE IInv'
<1>1. TypeOK'
  BY DEF IInv, TypeOK, Stop, MakePcs, MainPcs, GoMain
<1>2. ASSUME ~earlyReuse' PROVE Handshake'
  <2>1. /\ ~earlyReuse /\ TypeOK
        /\ OneThread /\ Starting /\ Leased /\ Early /\ Checking
        /\ ThreadCleaning /\ Cancelling /\ Ended /\ NotTwice
    BY <1>2 DEF IInv, Handshake, Stop
  <2>2. OneThread'
    BY <2>1 DEF OneThread, Stop, GoMain
  <2>3. Starting'
    BY <2>1 DEF Starting, Stop, MakePcs, GoMain
  <2>4. Leased'
    BY <2>1 DEF Leased, Stop, GoMain
  <2>5. Early'
    BY <2>1 DEF Early, Stop, GoMain
  <2>6. Checking'
    BY <2>1 DEF Checking, Stop, GoMain
  <2>7. ThreadCleaning'
    BY <2>1 DEF ThreadCleaning, Stop, GoMain
  <2>8. Cancelling'
    BY <2>1 DEF Cancelling, Stop, CleanPcs, GoMain
  <2>9. Ended'
    BY <2>1 DEF Ended, Stop, CleanPcs, GoMain
  <2>10. NotTwice'
    BY <2>1 DEF NotTwice, Stop, GoMain
  <2> QED BY <2>2, <2>3, <2>4, <2>5, <2>6, <2>7, <2>8, <2>9, <2>10 DEF Handshake
<1> QED BY <1>1, <1>2 DEF IInv

(* threadCancel is called for a record whose thread serves.                *)
LEMMA LookKeeps ==
  ASSUME IInv, Look PROVE IInv'
<1>1. TypeOK'
  BY DEF IInv, TypeOK, Look, MakePcs, MainPcs, GoMain
<1>2. ASSUME ~earlyReuse' PROVE Handshake'
  <2>1. /\ ~earlyReuse /\ TypeOK
        /\ OneThread /\ Starting /\ Leased /\ Early /\ Checking
        /\ ThreadCleaning /\ Cancelling /\ Ended /\ NotTwice
    BY <1>2 DEF IInv, Handshake, Look
  <2>2. OneThread'
    BY <2>1 DEF OneThread, Look, GoMain
  <2>3. Starting'
    BY <2>1 DEF Starting, Look, MakePcs, GoMain
  <2>4. Leased'
    BY <2>1 DEF Leased, Look, GoMain
  <2>5. Early'
    BY <2>1 DEF Early, Look, GoMain
  <2>6. Checking'
    BY <2>1 DEF Checking, Look, GoMain
  <2>7. ThreadCleaning'
    BY <2>1 DEF ThreadCleaning, Look, GoMain
  <2>8. Cancelling'
    BY <2>1 DEF Cancelling, Look, OneThread, Leased, EarlyPcs, LivePcs,
       CleanPcs, Kinds, GoMain
  <2>9. Ended'
    BY <2>1 DEF Ended, Look, CleanPcs, GoMain
  <2>10. NotTwice'
    BY <2>1 DEF NotTwice, Look, GoMain
  <2> QED BY <2>2, <2>3, <2>4, <2>5, <2>6, <2>7, <2>8, <2>9, <2>10 DEF Handshake
<1> QED BY <1>1, <1>2 DEF IInv

(* cancelEvent lets the thread go or stays set, and the thread is cancelled.*)
LEMMA CancelKeeps ==
  ASSUME IInv, Cancel PROVE IInv'
<1>1. TypeOK'
  BY DEF IInv, TypeOK, Cancel, ServePcs, EarlyPcs, LivePcs, ThreadPcs,
     MakePcs, MainPcs, Open, EventStates, Kinds, Go, GoMain, Become
<1>2. ASSUME ~earlyReuse' PROVE Handshake'
  <2>1. /\ ~earlyReuse /\ TypeOK
        /\ OneThread /\ Starting /\ Leased /\ Early /\ Checking
        /\ ThreadCleaning /\ Cancelling /\ Ended /\ NotTwice
    BY <1>2 DEF IInv, Handshake, Cancel
  <2>2. OneThread'
    BY <2>1 DEF OneThread, Cancel, TypeOK, ServePcs, EarlyPcs, LivePcs, Go,
       GoMain
  <2>3. Starting'
    BY <2>1 DEF Starting, Cancel, MakePcs, GoMain
  <2>4. Leased'
    BY <2>1 DEF Leased, Cancel, ServePcs, GoMain
  <2>5. Early'
    BY <2>1 DEF Early, Cancel, TypeOK, ServePcs, EarlyPcs, Open, Kinds, Go,
       GoMain, Become
  <2>6. Checking'
    BY <2>1 DEF Checking, Cancel, TypeOK, Kinds, Go, GoMain, Become
  <2>7. ThreadCleaning'
    BY <2>1 DEF ThreadCleaning, Cancel, TypeOK, Gone, Kinds, Go, GoMain,
       Become, Usable, State
  <2>8. Cancelling'
    BY <2>1, NoneAssumption DEF Cancelling, Cancel, TypeOK, ServePcs,
       EarlyPcs, LivePcs, Go, GoMain
  <2>9. Ended'
    BY <2>1 DEF Ended, Cancel, TypeOK, CleanPcs, Gone, Go, GoMain, Become,
       Usable, State
  <2>10. NotTwice'
    BY <2>1, NoneAssumption DEF NotTwice, Cancel, TypeOK, ServePcs, EarlyPcs,
       LivePcs, Go, GoMain, Become
  <2> QED BY <2>2, <2>3, <2>4, <2>5, <2>6, <2>7, <2>8, <2>9, <2>10 DEF Handshake
<1> QED BY <1>1, <1>2 DEF IInv

(* A wait that fails or ends at once does so only behind SetEvent(stopEvent).*)
LEMMA WaitKeeps ==
  ASSUME IInv, Wait PROVE IInv'
<1>1. TypeOK'
  BY NoneAssumption DEF IInv, TypeOK, Wait, MakePcs, CleanPcs, MainPcs, Open,
     EventStates, Kinds, GoMain, Become
<1>2. ASSUME ~earlyReuse' PROVE Handshake'
  <2>1. /\ ~earlyReuse /\ TypeOK
        /\ OneThread /\ Starting /\ Leased /\ Early /\ Checking
        /\ ThreadCleaning /\ Cancelling /\ Ended /\ NotTwice
    BY <1>2 DEF IInv, Handshake, Wait
  <2>2. OneThread'
    BY <2>1 DEF OneThread, Wait, GoMain
  <2>3. Starting'
    BY <2>1 DEF Starting, Wait, MakePcs, GoMain
  <2>4. Leased'
    BY <2>1, NoneAssumption DEF Leased, Wait, OneThread, Early, EarlyPcs,
       LivePcs, Kinds, GoMain, State
  <2>5. Early'
    BY <2>1, NoneAssumption DEF Early, Wait, OneThread, LivePcs, Kinds,
       GoMain, State
  <2>6. Checking'
    BY <2>1, NoneAssumption DEF Checking, Wait, OneThread, LivePcs, Kinds,
       GoMain, State
  <2>7. ThreadCleaning'
    BY <2>1 DEF ThreadCleaning, Wait, TypeOK, Gone, GoMain, Become, State
  <2>8. Cancelling'
    BY <2>1 DEF Cancelling, Wait, Checking, ThreadCleaning, Ended, TypeOK,
       LivePcs, Gone, Kinds, GoMain, State
  <2>9. Ended'
    BY <2>1, NoneAssumption DEF Ended, Wait, TypeOK, CleanPcs, GoMain, Become,
       State
  <2>10. NotTwice'
    BY <2>1 DEF NotTwice, Wait, TypeOK, Open, Kinds, GoMain, Become
  <2> QED BY <2>2, <2>3, <2>4, <2>5, <2>6, <2>7, <2>8, <2>9, <2>10 DEF Handshake
<1> QED BY <1>1, <1>2 DEF IInv

(* threadCancel closes an event of the connection it works on.             *)
LEMMA MainCleanKeeps ==
  ASSUME IInv, NEW i \in 1 .. 3, MainClean(i) PROVE IInv'
<1> TypeOK
  BY DEF IInv
<1>0. /\ \/ mainPc = "cleanStop" /\ mainPc' = "cleanCancel" /\ Closes("stop")
         \/ mainPc = "cleanCancel" /\ mainPc' = "cleanSock" /\ Closes("cancel")
         \/ mainPc = "cleanSock" /\ mainPc' = "done" /\ Closes("sock")
      /\ UNCHANGED <<lease, field, accepting, tpc, waits, cancelled, earlyReuse>>
  BY MainCleanSteps DEF MainClean
<1>1. TypeOK'
  BY <1>0 DEF IInv, TypeOK, MakePcs, CleanPcs, MainPcs, Gone, EventStates,
     Closes
<1>2. ASSUME ~earlyReuse' PROVE Handshake'
  <2>1. /\ ~earlyReuse /\ TypeOK
        /\ OneThread /\ Starting /\ Leased /\ Early /\ Checking
        /\ ThreadCleaning /\ Cancelling /\ Ended /\ NotTwice
    BY <1>0, <1>2 DEF IInv, Handshake
  <2>2. OneThread'
    BY <1>0, <2>1 DEF OneThread
  <2>3. Starting'
    BY <1>0, <2>1 DEF Starting, MakePcs
  <2>4. Leased'
    BY <1>0, <2>1 DEF Leased
  <2>5. Early'
    BY <1>0, <2>1 DEF Early, ServePcs, EarlyPcs, LivePcs, OneThread, Leased,
       Cancelling, CleanPcs
  <2>6. Checking'
    BY <1>0, <2>1 DEF Checking, TypeOK, OneThread, LivePcs, Gone, Kinds,
       Closes
  <2>7. ThreadCleaning'
    BY <1>0, <2>1 DEF ThreadCleaning, TypeOK, Gone, Kinds, Closes
  <2>8. Cancelling'
    BY <1>0, <2>1 DEF Cancelling, TypeOK, CleanPcs, Gone, Kinds, Closes
  <2>9. Ended'
    BY <1>0, <2>1 DEF Ended, TypeOK, Cancelling, CleanPcs, Gone, Kinds, Closes
  <2>10. NotTwice'
    BY <1>0, <2>1 DEF NotTwice, TypeOK, Cancelling, CleanPcs, Closes, Kinds
  <2> QED BY <2>2, <2>3, <2>4, <2>5, <2>6, <2>7, <2>8, <2>9, <2>10 DEF Handshake
<1> QED BY <1>1, <1>2 DEF IInv

(* The thread goes on or ends.                                             *)
LEMMA WorkKeeps ==
  ASSUME IInv, NEW k \in Conns, Work(k) PROVE IInv'
<1>1. TypeOK'
  BY DEF IInv, TypeOK, Work, ServePcs, EarlyPcs, LivePcs, ThreadPcs, Go
<1>2. ASSUME ~earlyReuse' PROVE Handshake'
  <2>1. /\ ~earlyReuse /\ TypeOK
        /\ OneThread /\ Starting /\ Leased /\ Early /\ Checking
        /\ ThreadCleaning /\ Cancelling /\ Ended /\ NotTwice
    BY <1>2 DEF IInv, Handshake, Work
  <2>2. OneThread'
    BY <2>1 DEF OneThread, Work, ServePcs, EarlyPcs, LivePcs, Go
  <2>3. Starting'
    BY <2>1 DEF Starting, Work, ServePcs, EarlyPcs, LivePcs
  <2>4. Leased'
    BY <2>1 DEF Leased, Work, ServePcs, Go
  <2>5. Early'
    BY <2>1 DEF Early, Work, ServePcs, EarlyPcs, Go
  <2>6. Checking'
    BY <2>1 DEF Checking, Work, Go
  <2>7. ThreadCleaning'
    BY <2>1 DEF ThreadCleaning, Work, Go
  <2>8. Cancelling'
    BY <2>1 DEF Cancelling, Work, ServePcs, EarlyPcs, LivePcs, Go
  <2>9. Ended'
    BY <2>1 DEF Ended, Work, Go
  <2>10. NotTwice'
    BY <2>1 DEF NotTwice, Work, ServePcs, EarlyPcs, LivePcs, Go
  <2> QED BY <2>2, <2>3, <2>4, <2>5, <2>6, <2>7, <2>8, <2>9, <2>10 DEF Handshake
<1> QED BY <1>1, <1>2 DEF IInv

(* The thread waits, or takes the cancel it finds set.                     *)
LEMMA BeginWaitKeeps ==
  ASSUME IInv, NEW k \in Conns, BeginWait(k) PROVE IInv'
<1>1. TypeOK'
  BY DEF IInv, TypeOK, BeginWait, ServePcs, EarlyPcs, LivePcs, ThreadPcs,
     Open, EventStates, Kinds, Go, Become, State
<1>2. ASSUME ~earlyReuse' PROVE Handshake'
  <2>1. /\ ~earlyReuse /\ TypeOK
        /\ OneThread /\ Starting /\ Leased /\ Early /\ Checking
        /\ ThreadCleaning /\ Cancelling /\ Ended /\ NotTwice
    BY <1>2 DEF IInv, Handshake, BeginWait
  <2>2. OneThread'
    BY <2>1 DEF OneThread, BeginWait, TypeOK, ServePcs, EarlyPcs, LivePcs, Go
  <2>3. Starting'
    BY <2>1 DEF Starting, BeginWait, ServePcs, EarlyPcs, LivePcs
  <2>4. Leased'
    BY <2>1 DEF Leased, BeginWait, TypeOK, ServePcs, Go
  <2>5. Early'
    BY <2>1 DEF Early, BeginWait, TypeOK, ServePcs, EarlyPcs, Kinds, Go,
       Become
  <2>6. Checking'
    BY <2>1 DEF Checking, BeginWait, TypeOK, Kinds, Go, Become
  <2>7. ThreadCleaning'
    BY <2>1 DEF ThreadCleaning, BeginWait, TypeOK, Gone, Kinds, Go, Become,
       State
  <2>8. Cancelling'
    BY <2>1 DEF Cancelling, BeginWait, TypeOK, ServePcs, EarlyPcs, LivePcs,
       Gone, Kinds, Go, Become, State
  <2>9. Ended'
    BY <2>1 DEF Ended, BeginWait, TypeOK, CleanPcs, Gone, Kinds, Go, Become,
       Usable, State
  <2>10. NotTwice'
    BY <2>1 DEF NotTwice, BeginWait, Cancelling, TypeOK, ServePcs, EarlyPcs,
       LivePcs, Open, Kinds, Go, Become
  <2> QED BY <2>2, <2>3, <2>4, <2>5, <2>6, <2>7, <2>8, <2>9, <2>10 DEF Handshake
<1> QED BY <1>1, <1>2 DEF IInv

(* The socket wakes the thread.                                            *)
LEMMA SockReadyKeeps ==
  ASSUME IInv, NEW k \in Conns, SockReady(k) PROVE IInv'
<1>1. TypeOK'
  BY DEF IInv, TypeOK, SockReady, ServePcs, EarlyPcs, LivePcs, ThreadPcs,
     Go
<1>2. ASSUME ~earlyReuse' PROVE Handshake'
  <2>1. /\ ~earlyReuse /\ TypeOK
        /\ OneThread /\ Starting /\ Leased /\ Early /\ Checking
        /\ ThreadCleaning /\ Cancelling /\ Ended /\ NotTwice
    BY <1>2 DEF IInv, Handshake, SockReady
  <2>2. OneThread'
    BY <2>1 DEF OneThread, SockReady, ServePcs, EarlyPcs, LivePcs, Go
  <2>3. Starting'
    BY <2>1 DEF Starting, SockReady, ServePcs, EarlyPcs, LivePcs
  <2>4. Leased'
    BY <2>1 DEF Leased, SockReady, ServePcs, Go
  <2>5. Early'
    BY <2>1 DEF Early, SockReady, ServePcs, EarlyPcs, Go
  <2>6. Checking'
    BY <2>1 DEF Checking, SockReady, Go
  <2>7. ThreadCleaning'
    BY <2>1 DEF ThreadCleaning, SockReady, Go
  <2>8. Cancelling'
    BY <2>1 DEF Cancelling, SockReady, ServePcs, EarlyPcs, LivePcs, Go
  <2>9. Ended'
    BY <2>1 DEF Ended, SockReady, Go
  <2>10. NotTwice'
    BY <2>1 DEF NotTwice, SockReady, ServePcs, EarlyPcs, LivePcs, Go
  <2> QED BY <2>2, <2>3, <2>4, <2>5, <2>6, <2>7, <2>8, <2>9, <2>10 DEF Handshake
<1> QED BY <1>1, <1>2 DEF IInv

(* The record is dropped, with the thread still to end.                    *)
LEMMA DropClientKeeps ==
  ASSUME IInv, NEW k \in Conns, DropClient(k) PROVE IInv'
<1>1. TypeOK'
  BY DEF IInv, TypeOK, DropClient, ServePcs, EarlyPcs, LivePcs,
     ThreadPcs, Go
<1>2. ASSUME ~earlyReuse' PROVE Handshake'
  <2>1. /\ ~earlyReuse /\ TypeOK
        /\ OneThread /\ Starting /\ Leased /\ Early /\ Checking
        /\ ThreadCleaning /\ Cancelling /\ Ended /\ NotTwice
    BY <1>2 DEF IInv, Handshake, DropClient
  <2>2. OneThread'
    BY <2>1 DEF OneThread, DropClient, ServePcs, EarlyPcs, LivePcs, Go
  <2>3. Starting'
    BY <2>1 DEF Starting, DropClient, ServePcs, EarlyPcs, LivePcs
  <2>4. Leased'
    BY <2>1 DEF Leased, DropClient, OneThread, TypeOK, ServePcs, EarlyPcs,
       LivePcs, Go
  <2>5. Early'
    BY <2>1 DEF Early, DropClient, ServePcs, EarlyPcs, Go
  <2>6. Checking'
    BY <2>1 DEF Checking, DropClient, Go
  <2>7. ThreadCleaning'
    BY <2>1 DEF ThreadCleaning, DropClient, Go
  <2>8. Cancelling'
    BY <2>1 DEF Cancelling, DropClient, EarlyPcs, LivePcs, Go
  <2>9. Ended'
    BY <2>1 DEF Ended, DropClient, Go
  <2>10. NotTwice'
    BY <2>1 DEF NotTwice, DropClient, TypeOK, ServePcs, EarlyPcs, LivePcs, Go
  <2> QED BY <2>2, <2>3, <2>4, <2>5, <2>6, <2>7, <2>8, <2>9, <2>10 DEF Handshake
<1> QED BY <1>1, <1>2 DEF IInv

(* stopEvent lets threadCancel go or stays set.                            *)
LEMMA SetStopKeeps ==
  ASSUME IInv, NEW k \in Conns, SetStop(k) PROVE IInv'
<1>1. TypeOK'
  BY NoneAssumption DEF IInv, TypeOK, SetStop, LivePcs, ThreadPcs, MakePcs,
     CleanPcs, MainPcs, Open, EventStates, Kinds, Go, GoMain, Become
<1>2. ASSUME ~earlyReuse' PROVE Handshake'
  <2>1. /\ ~earlyReuse /\ TypeOK
        /\ OneThread /\ Starting /\ Leased /\ Early /\ Checking
        /\ ThreadCleaning /\ Cancelling /\ Ended /\ NotTwice
    BY <1>2 DEF IInv, Handshake, SetStop
  <2>2. OneThread'
    BY <2>1 DEF OneThread, SetStop, EarlyPcs, LivePcs, Go, GoMain
  <2>3. Starting'
    BY <2>1 DEF Starting, SetStop, EarlyPcs, LivePcs, MakePcs, GoMain
  <2>4. Leased'
    BY <2>1 DEF Leased, SetStop, OneThread, ServePcs, EarlyPcs, LivePcs, Go,
       GoMain
  <2>5. Early'
    BY <2>1 DEF Early, SetStop, OneThread, TypeOK, ServePcs, EarlyPcs,
       LivePcs, Go, GoMain
  <2>6. Checking'
    BY <2>1, NoneAssumption DEF Checking, SetStop, OneThread, Early,
       Cancelling, TypeOK, EarlyPcs, LivePcs, Kinds, Go, GoMain, Become,
       Usable, State
  <2>7. ThreadCleaning'
    BY <2>1 DEF ThreadCleaning, SetStop, TypeOK, MakePcs, Gone, Go, GoMain,
       Become, Usable, State
  <2>8. Cancelling'
    BY <2>1, NoneAssumption DEF Cancelling, SetStop, Early, LivePcs, Gone, Go,
       GoMain, Usable, State
  <2>9. Ended'
    BY <2>1 DEF Ended, SetStop, TypeOK, CleanPcs, Gone, Go, GoMain, Become,
       Usable, State
  <2>10. NotTwice'
    BY <2>1 DEF NotTwice, SetStop, TypeOK, EarlyPcs, LivePcs, Open, Kinds, Go,
       GoMain, Become
  <2> QED BY <2>2, <2>3, <2>4, <2>5, <2>6, <2>7, <2>8, <2>9, <2>10 DEF Handshake
<1> QED BY <1>1, <1>2 DEF IInv

(* A cancel found set leaves the events to threadCancel, which is not through.*)
LEMMA CheckKeeps ==
  ASSUME IInv, NEW k \in Conns, Check(k) PROVE IInv'
<1>1. TypeOK'
  BY DEF IInv, TypeOK, Check, LivePcs, ThreadPcs, MakePcs, Open,
     EventStates, Kinds, Go, Become
<1>2. ASSUME ~earlyReuse' PROVE Handshake'
  <2>1. /\ ~earlyReuse /\ TypeOK
        /\ OneThread /\ Starting /\ Leased /\ Early /\ Checking
        /\ ThreadCleaning /\ Cancelling /\ Ended /\ NotTwice
    BY <1>2 DEF IInv, Handshake, Check
  <2>2. OneThread'
    BY <2>1 DEF OneThread, Check, TypeOK, LivePcs, Go
  <2>3. Starting'
    BY <2>1 DEF Starting, Check, LivePcs
  <2>4. Leased'
    BY <2>1 DEF Leased, Check, Early, TypeOK, ServePcs, Go
  <2>5. Early'
    BY <2>1 DEF Early, Check, Starting, ThreadCleaning, Ended, NotTwice,
       TypeOK, ServePcs, EarlyPcs, Kinds, Go, Become
  <2>6. Checking'
    BY <2>1 DEF Checking, Check, OneThread, Cancelling, TypeOK, LivePcs, Go
  <2>7. ThreadCleaning'
    BY <2>1 DEF ThreadCleaning, Check, Leased, Checking, TypeOK, Gone, Kinds,
       Go, Become, State
  <2>8. Cancelling'
    BY <2>1 DEF Cancelling, Check, TypeOK, ServePcs, EarlyPcs, LivePcs, Gone,
       Kinds, Go, Become, State
  <2>9. Ended'
    BY <2>1 DEF Ended, Check, OneThread, Checking, TypeOK, LivePcs, CleanPcs,
       Kinds, Go, Become, State
  <2>10. NotTwice'
    BY <2>1 DEF NotTwice, Check, TypeOK, LivePcs, Open, Kinds, Go, Become
  <2> QED BY <2>2, <2>3, <2>4, <2>5, <2>6, <2>7, <2>8, <2>9, <2>10 DEF Handshake
<1> QED BY <1>1, <1>2 DEF IInv

(* The thread closes an event of its own.                                  *)
LEMMA CleanKeeps ==
  ASSUME IInv, NEW k \in Conns, NEW i \in 1 .. 3, Clean(k, i) PROVE IInv'
<1> TypeOK
  BY DEF IInv
<1>0. /\ \/ tpc[k] = "cleanStop" /\ Go(k, "cleanCancel") /\ Closes("stop")
         \/ tpc[k] = "cleanCancel" /\ Go(k, "cleanSock") /\ Closes("cancel")
         \/ tpc[k] = "cleanSock" /\ Go(k, "exited") /\ Closes("sock")
      /\ UNCHANGED <<lease, field, mainPc, accepting, waits, cancelled, earlyReuse>>
  BY CleanSteps DEF Clean
<1>1. TypeOK'
  <2>1. event' \in [Conns -> [Kinds -> EventStates]]
    BY <1>0 DEF TypeOK, Closes, EventStates, Gone
  <2>2. tpc' \in [Conns -> ThreadPcs]
    BY <1>0 DEF TypeOK, Go, ThreadPcs, LivePcs
  <2> QED BY <1>0, <2>1, <2>2 DEF TypeOK
<1>2. ASSUME ~earlyReuse' PROVE Handshake'
  <2>1. /\ ~earlyReuse /\ TypeOK
        /\ OneThread /\ Starting /\ Leased /\ Early /\ Checking
        /\ ThreadCleaning /\ Cancelling /\ Ended /\ NotTwice
    BY <1>0, <1>2 DEF IInv, Handshake
  <2>2. OneThread'
    BY <1>0, <2>1 DEF OneThread, LivePcs, TypeOK, Go
  <2>3. Starting'
    BY <1>0, <2>1 DEF Starting, LivePcs, Go
  <2>4. Leased'
    BY <1>0, <2>1 DEF Leased, ServePcs, TypeOK, Go
  <2>5. Early'
    BY <1>0, <2>1 DEF Early, ServePcs, EarlyPcs, LivePcs, OneThread, TypeOK,
       Go
  <2>6. Checking'
    BY <1>0, <2>1 DEF Checking, LivePcs, OneThread, TypeOK, Go
  <2>7. ThreadCleaning'
    BY <1>0, <2>1 DEF ThreadCleaning, TypeOK, OneThread, LivePcs, Gone, Kinds,
       Closes, Go
  <2>8. Cancelling'
    BY <1>0, <2>1 DEF Cancelling, ServePcs, EarlyPcs, LivePcs, TypeOK, Gone,
       Kinds, Closes, Go
  <2>9. Ended'
    BY <1>0, <2>1 DEF Ended, OneThread, LivePcs, ThreadCleaning, TypeOK, Gone,
       Kinds, Closes, Go
  <2>10. NotTwice'
    BY <1>0, <2>1 DEF NotTwice, ServePcs, EarlyPcs, LivePcs, OneThread,
       TypeOK, Kinds, Open, Closes, Go
  <2> QED BY <2>2, <2>3, <2>4, <2>5, <2>6, <2>7, <2>8, <2>9, <2>10 DEF Handshake
<1> QED BY <1>1, <1>2 DEF IInv

-------------------------------------------------------------------------------
(* No record is leased, and no event made, before the first client.        *)
LEMMA InitHolds ==
  ASSUME Init PROVE IInv
<1>1. TypeOK
  BY DEF Init, TypeOK, ThreadPcs, MainPcs, MakePcs, EventStates
<1>2. OneThread /\ Starting /\ Leased
  BY DEF Init, OneThread, Starting, Leased, ServePcs, EarlyPcs, LivePcs, MakePcs
<1>3. Early /\ Checking /\ ThreadCleaning
  BY DEF Init, Early, Checking, ThreadCleaning, ServePcs, EarlyPcs
<1>4. Cancelling /\ Ended /\ NotTwice
  BY DEF Init, Cancelling, Ended, NotTwice, ServePcs, EarlyPcs, LivePcs, CleanPcs
<1> QED BY <1>1, <1>2, <1>3, <1>4 DEF IInv, Handshake

(* What the system does, and what it does not do, keeps the invariant.     *)
LEMMA StepKeeps ==
  ASSUME IInv, [Next]_vars PROVE IInv'
<1>1. CASE Stop
  BY <1>1, StopKeeps
<1>2. CASE Main
  <2>1. CASE MakeEvent \/ MakeThread \/ MakeFails
    BY <2>1, MakeEventKeeps, MakeThreadKeeps, MakeFailsKeeps
  <2>2. CASE Look \/ Cancel \/ Wait
    BY <2>2, LookKeeps, CancelKeeps, WaitKeeps
  <2>3. CASE \E i \in 1 .. 3 : MainClean(i)
    BY <2>3, MainCleanKeeps
  <2> QED BY <1>2, <2>1, <2>2, <2>3 DEF Main
<1>3. ASSUME NEW k \in Conns, ThreadInit(k) \/ SockReady(k) PROVE IInv'
  BY <1>3, ThreadInitKeeps, SockReadyKeeps
<1>4. ASSUME NEW k \in Conns, Thread(k) PROVE IInv'
  <2>1. CASE Work(k) \/ BeginWait(k) \/ DropClient(k)
    BY <2>1, WorkKeeps, BeginWaitKeeps, DropClientKeeps
  <2>2. CASE SetStop(k) \/ Check(k)
    BY <2>2, SetStopKeeps, CheckKeeps
  <2>3. CASE \E i \in 1 .. 3 : Clean(k, i)
    BY <2>3, CleanKeeps
  <2> QED BY <1>4, <2>1, <2>2, <2>3 DEF Thread
<1>5. CASE UNCHANGED vars
  BY <1>5 DEF vars, IInv, TypeOK, Handshake, OneThread, Starting, Leased, Early,
     Checking, ThreadCleaning, Cancelling, Ended, NotTwice
<1> QED BY <1>1, <1>2, <1>3, <1>4, <1>5 DEF Next

(* The handshake of the thread with threadCancel, in every reachable state. *)
THEOREM Invariance == Spec => []IInv
<1>1. Init => IInv
  BY InitHolds
<1>2. IInv /\ [Next]_vars => IInv'
  BY StepKeeps
<1> QED BY <1>1, <1>2, PTL DEF Spec

(* For any number of connections that use the record one after the other,  *)
(* a thread that serves its client finds its own events in the record, and *)
(* none of them closed: threadCancel does not clean up before the thread   *)
(* sets stopEvent, and the thread not before it left the client.           *)
THEOREM EventsServe == Spec => []ServingHasEvents
<1>1. ASSUME IInv PROVE ServingHasEvents
  <2>1. SUFFICES ASSUME ~earlyReuse, NEW k \in Conns, tpc[k] \in ServePcs, NEW e \in Kinds
                 PROVE  field[e] = k /\ Usable(e)
    BY DEF ServingHasEvents, ServePcs
  <2>2. field[e] = k
    BY <1>1, <2>1 DEF IInv, Handshake, OneThread, EarlyPcs, LivePcs
  <2>3. event[k][e] \in Open
    BY <1>1, <2>1 DEF IInv, Handshake, Early, EarlyPcs
  <2> QED BY <2>2, <2>3, NoneAssumption DEF Usable, State, Open
<1> QED BY <1>1, Invariance, PTL

(* For any number of connections, the events of a thread that ended are    *)
(* closed once the main thread is back in its loop or through with the     *)
(* clients, and twice only if the thread was cancelled: the two sides of   *)
(* the handshake never both leave the closing to the other.                *)
THEOREM EventsClosed == Spec => []EventsReleased
<1>1. ASSUME IInv PROVE EventsReleased
  <2>1. SUFFICES ASSUME ~earlyReuse, mainPc \in {"idle", "done"},
                        NEW k \in Conns, tpc[k] = "exited", NEW e \in Kinds
                 PROVE  event[k][e] \in {"closed"} \cup (IF k \in cancelled THEN {"twice"}
                                                                           ELSE {})
    BY DEF EventsReleased
  <2>2. event[k][e] \in Gone
    BY <1>1, <2>1 DEF IInv, Handshake, Ended, CleanPcs
  <2>3. k \notin cancelled => event[k][e] # "twice"
    BY <1>1, <2>1 DEF IInv, Handshake, NotTwice
  <2> QED BY <2>2, <2>3 DEF Gone
<1> QED BY <1>1, Invariance, PTL
===============================================================================
