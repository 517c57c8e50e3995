---------------------------- MODULE SessionsProofs ----------------------------
(***************************************************************************)
(* Proofs about Sessions, for every set of threads, ids and strings, and   *)
(* whether or not rand() may return an id that is in use.                  *)
(***************************************************************************)
EXTENDS Sessions, TLAPS

Pcs == {"idle", "gettop", "lock", "push", "pick", "pop", "act", "unlock", "settop",
        "undefined"}
UsePcs  == {"push", "pick", "pop", "act", "unlock"}
Answers == Ids \cup Values \cup {Nil} \cup BOOLEAN
Entries == Tables \cup Values \cup {Nil}

(* What TypeOK leaves out: the tables are a function, the stack is a       *)
(* sequence, and there is no session without the table "sessions".         *)
ShapeOK ==
    /\ value = [p \in Tables |-> value[p]]
    /\ Tables # {} => <<>> \in Tables
    /\ stack \in Seq(Entries)

-------------------------------------------------------------------------------
(* As long as nothing disturbed a thread's use of the stack and no id      *)
(* collided.                                                               *)

(* server.lmutex is held by the thread that uses table and stack.          *)
Exclusion ==
    \A t \in Threads : pc[t] # "undefined" /\ (pc[t] \in UsePcs <=> lmutex = t)

(* The stack was empty when its height was read.                           *)
ReadEmpty == \A t \in Threads : top[t] = 0

(* Which calls pass where, and what each finds on top of the stack.        *)
OnTop ==
    \A t \in Threads :
        /\ pc[t] \in {"pick", "pop"} => call[t] = NewCall /\ stack # <<>>
        /\ pc[t] \in {"gettop", "act", "settop"} => call[t] # NewCall
        /\ pc[t] = "pick" => Top = <<>> /\ <<>> \in Tables
        /\ pc[t] = "act"  => stack # <<>> /\ Top = <<call[t].id>> /\ Top \in Tables

(* A thread that has unlocked and not yet restored the stack is the only   *)
(* reason for anything else to be on it: without one there is the table    *)
(* "sessions" of lserverNewSession, for as long as it is needed, or what   *)
(* the owner of the mutex has still to remove.                             *)
NothingElse ==
    (\A t \in Threads : pc[t] # "settop" /\ (pc[t] \in {"act", "unlock"} => call[t] = NewCall))
        => /\ (\E t \in Threads : pc[t] \in {"pick", "pop"}) => Len(stack) = 1
           /\ (\A t \in Threads : pc[t] \notin {"pick", "pop"}) => stack = <<>>

Undisturbed == Exclusion /\ ReadEmpty /\ OnTop /\ NothingElse

IInv == TypeOK /\ ShapeOK /\ (~disturbed /\ ~collided => Undisturbed)

-------------------------------------------------------------------------------
(* What the Lua calls do to the stack.                                     *)

LEMMA EntriesTyped == ASSUME NEW S, NEW s \in Seq(S) PROVE \A j \in 1 .. Len(s) : s[j] \in S
  OBVIOUS

LEMMA SeqGrows == ASSUME NEW S, NEW T, S \subseteq T, NEW s \in Seq(S) PROVE s \in Seq(T)
  OBVIOUS

LEMMA EmptyStack == ASSUME NEW S, NEW s \in Seq(S) PROVE s = <<>> <=> Len(s) = 0
  OBVIOUS

(* An entry is pushed.                                                     *)
LEMMA Pushed ==
  ASSUME NEW S, NEW s \in Seq(S), NEW x \in S
  PROVE  LET r == Append(s, x) IN
         /\ r \in Seq(S) /\ r # <<>> /\ Len(r) = Len(s) + 1 /\ r[Len(r)] = x
  OBVIOUS

(* Two entries are pushed.                                                 *)
LEMMA PushedTwo ==
  ASSUME NEW S, NEW s \in Seq(S), NEW x \in S, NEW y \in S
  PROVE  LET r == s \o <<x, y>> IN
         /\ r \in Seq(S) /\ r # <<>> /\ Len(r) = Len(s) + 2 /\ r[Len(r)] = y
  OBVIOUS

(* Only the first h entries stay.                                          *)
LEMMA Cut ==
  ASSUME NEW S, NEW s \in Seq(S), NEW h \in Nat, h <= Len(s)
  PROVE  SubSeq(s, 1, h) \in Seq(S) /\ Len(SubSeq(s, 1, h)) = h
  OBVIOUS

(* The top entry is popped.                                                *)
LEMMA Popped ==
  ASSUME NEW S, NEW s \in Seq(S), s # <<>>
  PROVE  LET r == SubSeq(s, 1, Len(s) - 1) IN
         /\ r \in Seq(S) /\ Len(r) = Len(s) - 1
<1>1. Len(s) - 1 \in Nat /\ Len(s) - 1 <= Len(s)
  BY EmptyStack
<1> QED BY <1>1, Cut

(* lua_settop cuts the stack or fills it up.                               *)
LEMMA Settled ==
  ASSUME NEW S, NEW s \in Seq(S), NEW x \in S, NEW h \in Nat
  PROVE  LET r == [j \in 1 .. h |-> IF j <= Len(s) THEN s[j] ELSE x] IN
         /\ r \in Seq(S) /\ Len(r) = h
  OBVIOUS

(* A table is made, if it was not there.                                   *)
LEMMA Making ==
  ASSUME TypeOK, ShapeOK, NEW p \in Seq(Ids), p = <<>> \/ Tables # {}, value' = Made(p)
  PROVE  /\ Tables' = Tables \cup {p}
         /\ \A q \in Tables' : value'[q] = IF q \in Tables THEN value[q] ELSE Nil
         /\ value' = [q \in Tables' |-> value'[q]]
         /\ Tables' # {} => <<>> \in Tables'
         /\ Tables' \subseteq Seq(Ids)
         /\ \A q \in Tables' : value'[q] \in Values \cup {Nil}
<1>1. Tables' = Tables \cup {p}
  BY DEF Made, Tables
<1>2. \A q \in Tables' : value'[q] = IF q \in Tables THEN value[q] ELSE Nil
  BY <1>1 DEF Made
<1>3. value' = [q \in Tables' |-> value'[q]]
  BY <1>1, <1>2 DEF Made
<1> QED BY <1>1, <1>2, <1>3 DEF TypeOK, ShapeOK

LEMMA PathOfId == ASSUME NEW i \in Ids PROVE <<i>> \in Seq(Ids) /\ <<i>> # <<>>
  OBVIOUS

-------------------------------------------------------------------------------
(* Nothing is there at the start.                                          *)
LEMMA InitHolds == Init => IInv
<1> SUFFICES ASSUME Init PROVE IInv
  OBVIOUS
<1>1. Tables = {}
  BY DEF Init, Tables
<1>2. disturbed \in BOOLEAN /\ collided \in BOOLEAN
  BY DEF Init
<1>3. TypeOK
  BY <1>1, <1>2 DEF Init, TypeOK, Calls
<1>4. ShapeOK
  BY <1>1 DEF Init, ShapeOK
<1>5. Undisturbed
  BY NilAssumption DEF Init, Undisturbed, Exclusion, ReadEmpty, OnTop, NothingElse, UsePcs
<1> QED BY <1>3, <1>4, <1>5 DEF IInv

-------------------------------------------------------------------------------
(* Whatever disturbs the calls, every variable keeps to its values.        *)

(* No table goes away, and a new one is empty.                             *)
LEMMA TablesStep ==
  ASSUME TypeOK, ShapeOK, NEW t \in Threads, Step(t)
  PROVE  /\ Tables \subseteq Tables' /\ Tables' \subseteq Seq(Ids)
         /\ \A p \in Tables' : value'[p] \in Values \cup {Nil}
         /\ value' = [p \in Tables' |-> value'[p]]
         /\ Tables' # {} => <<>> \in Tables'
<1>1. CASE UNCHANGED value
  BY <1>1 DEF TypeOK, ShapeOK, Tables
<1>2. CASE PushSessions(t)
  <2>1. <<>> \in Seq(Ids)
    OBVIOUS
  <2> QED BY <1>2, <2>1, Making DEF PushSessions
<1>3. CASE \E i \in Ids : PickFree(t, i)
  <2>1. PICK i \in Ids : PickFree(t, i)
    BY <1>3
  <2>2. Append(Top, i) \in Seq(Ids) /\ Tables # {}
    BY <2>1 DEF PickFree, HasTable, TypeOK
  <2> QED BY <2>1, <2>2, Making DEF PickFree
<1>4. CASE Set(t)
  <2>1. Top \in Tables /\ call[t].arg \in Values /\ value' = [value EXCEPT ![Top] = call[t].arg]
    BY <1>4 DEF Set, HasTable, TypeOK, Calls, NewCall
  <2>2. value' = [p \in Tables |-> IF p = Top THEN call[t].arg ELSE value[p]]
    BY <2>1 DEF Tables
  <2>3. Tables' = Tables
    BY <2>2 DEF Tables
  <2> QED BY <2>1, <2>2, <2>3 DEF TypeOK, ShapeOK
<1> QED BY <1>1, <1>2, <1>3, <1>4 DEF Step, Begin, GetTop, Lock, Pop, PickUsed, PushSession,
           Has, Get, Undefined, Unlock, SetTop

(* lserverNewSession has the table "sessions" on top of the stack.         *)
LEMMA RootMade ==
  ASSUME TypeOK, ShapeOK, NEW t \in Threads, PushSessions(t) PROVE <<>> \in Tables'
<1>1. <<>> \in Seq(Ids) /\ value' = Made(<<>>)
  BY DEF PushSessions
<1> QED BY <1>1, Making

(* The stack holds tables, strings and nil.                                *)
LEMMA StackStep ==
  ASSUME TypeOK, ShapeOK, NEW t \in Threads, Step(t) PROVE stack' \in Seq(Entries')
<1>1. Entries \subseteq Entries'
  BY TablesStep DEF Entries
<1>2. SUFFICES stack' \in Seq(Entries) \/ stack' \in Seq(Entries')
  BY <1>1, SeqGrows
<1>3. stack \in Seq(Entries) /\ Nil \in Entries /\ Tables \subseteq Entries
  BY DEF ShapeOK, Entries
<1>4. CASE UNCHANGED stack
  BY <1>3, <1>4
<1>5. CASE PushSessions(t)
  <2>1. <<>> \in Entries'
    BY <1>5, RootMade DEF Entries
  <2>2. stack \in Seq(Entries')
    BY <1>1, <1>3, SeqGrows
  <2> QED BY <1>5, <2>1, <2>2, Pushed DEF PushSessions
<1>6. CASE \E i \in Ids : PickUsed(t, i)
  BY <1>3, <1>6, Pushed DEF PickUsed
<1>7. CASE Pop(t)
  BY <1>3, <1>7, Popped DEF Pop
<1>8. CASE PushSession(t)
  BY <1>3, <1>8, Pushed, PushedTwo DEF PushSession
<1>9. CASE Get(t)
  BY <1>3, <1>9, Pushed DEF Get, HasTable, Entries, TypeOK
<1>10. CASE SetTop(t)
  BY <1>3, <1>10, Settled DEF SetTop, TypeOK
<1> QED BY <1>4, <1>5, <1>6, <1>7, <1>8, <1>9, <1>10 DEF Step, Begin, GetTop, Lock, PickFree,
           Has, Set, Undefined, Unlock

LEMMA StackPushed ==
  ASSUME TypeOK, ShapeOK, NEW t \in Threads, PushSessions(t)
  PROVE  stack' # <<>> /\ Len(stack') = Len(stack) + 1 /\ stack'[Len(stack')] = <<>>
<1>1. Entries \subseteq Entries \cup {<<>>}
  OBVIOUS
<1>2. stack \in Seq(Entries \cup {<<>>})
  BY <1>1, SeqGrows DEF ShapeOK
<1> QED BY <1>2, Pushed DEF PushSessions

LEMMA TypeStep ==
  ASSUME TypeOK, ShapeOK, NEW t \in Threads, Step(t)
  PROVE  TypeOK' /\ ShapeOK'
<1>1. ShapeOK'
  BY TablesStep, StackStep DEF ShapeOK
<1>2. \A j \in 1 .. Len(stack') : stack'[j] \in Tables' \cup Values \cup {Nil}
  BY <1>1, EntriesTyped DEF ShapeOK, Entries
<1>3. /\ lmutex' \in Threads \cup {Nil}
      /\ pc' \in [Threads -> Pcs]
      /\ call' \in [Threads -> Calls]
      /\ top' \in [Threads -> Nat]
      /\ answer' \in [Threads -> Answers]
      /\ disturbed' \in BOOLEAN /\ collided' \in BOOLEAN
  <2> USE DEF TypeOK, Go, Answer, Pcs, Answers
  <2>1. CASE \E c \in Calls : Begin(t, c)
    BY <2>1 DEF Begin
  <2>2. CASE GetTop(t)
    BY <2>2 DEF GetTop, ShapeOK
  <2>3. CASE Lock(t) \/ Unlock(t)
    BY <2>3 DEF Lock, Unlock
  <2>4. CASE PushSessions(t) \/ Pop(t)
    BY <2>4 DEF PushSessions, Pop
  <2>5. CASE \E i \in Ids : PickFree(t, i) \/ PickUsed(t, i)
    BY <2>5 DEF PickFree, PickUsed
  <2>6. CASE PushSession(t)
    BY <2>6 DEF PushSession
  <2>7. CASE Has(t) \/ Set(t) \/ Get(t)
    BY <2>7 DEF Has, Set, Get, HasTable
  <2>8. CASE Undefined(t)
    BY <2>8 DEF Undefined
  <2>9. CASE SetTop(t)
    BY <2>9 DEF SetTop, Calls
  <2> QED BY <2>1, <2>2, <2>3, <2>4, <2>5, <2>6, <2>7, <2>8, <2>9 DEF Step
<1> QED BY <1>1, <1>2, <1>3, TablesStep DEF TypeOK, Pcs, Answers

-------------------------------------------------------------------------------
(* No call is disturbed: the condition has held before the step.           *)
LEMMA Before ==
  ASSUME IInv, NEW t \in Threads, Step(t), ~disturbed', ~collided'
  PROVE  ~disturbed /\ ~collided /\ Exclusion /\ ReadEmpty /\ OnTop /\ NothingElse
<1>1. ~disturbed /\ ~collided
  <2>1. CASE UNCHANGED <<disturbed, collided>>
    BY <2>1
  <2>2. CASE GetTop(t) \/ SetTop(t)
    <3>1. UNCHANGED collided
      BY <2>2 DEF GetTop, SetTop
    <3>2. disturbed => disturbed'
      BY <2>2, Zenon DEF GetTop, SetTop
    <3> QED BY <3>1, <3>2
  <2>3. CASE \E i \in Ids : PickUsed(t, i)
    BY <2>3 DEF PickUsed
  <2> QED BY <2>1, <2>2, <2>3 DEF Step, Begin, Lock, PushSessions, Pop, PickFree,
             PushSession, Has, Set, Get, Undefined, Unlock
<1> QED BY <1>1 DEF IInv, Undisturbed

(* One at a time, and for itself alone, a thread goes through a call.      *)
LEMMA ExclusionStep ==
  ASSUME IInv, NEW t \in Threads, Step(t), ~disturbed', ~collided' PROVE Exclusion'
<1> USE NilAssumption DEF Exclusion, UsePcs, Go, TypeOK
<1>1. TypeOK /\ Exclusion /\ OnTop
  BY Before DEF IInv
<1>2. CASE \E c \in Calls : Begin(t, c)
  BY <1>1, <1>2 DEF Begin
<1>3. CASE GetTop(t) \/ Lock(t) \/ Unlock(t) \/ SetTop(t)
  BY <1>1, <1>3 DEF GetTop, Lock, Unlock, SetTop
<1>4. CASE PushSessions(t) \/ Pop(t)
  BY <1>1, <1>4 DEF PushSessions, Pop
<1>5. CASE \E i \in Ids : PickFree(t, i) \/ PickUsed(t, i)
  BY <1>1, <1>5 DEF PickFree, PickUsed
<1>6. CASE Has(t) \/ Set(t) \/ Get(t)
  BY <1>1, <1>6 DEF Has, Set, Get
<1>7. CASE PushSession(t)
  <2>1. pc[t] = "push" /\ lmutex' = lmutex
        /\ (Go(t, "act") \/ Go(t, "unlock"))
    BY <1>7 DEF PushSession
  <2> QED BY <1>1, <2>1
<1>8. CASE Undefined(t)
  BY <1>1, <1>8 DEF Undefined, OnTop, HasTable
<1> QED BY <1>2, <1>3, <1>4, <1>5, <1>6, <1>7, <1>8 DEF Step

(* The height that is read is 0.                                           *)
LEMMA ReadEmptyStep ==
  ASSUME IInv, NEW t \in Threads, Step(t), ~disturbed', ~collided' PROVE ReadEmpty'
<1>1. TypeOK /\ ReadEmpty
  BY Before DEF IInv
<1>2. CASE UNCHANGED top
  BY <1>1, <1>2 DEF ReadEmpty
<1>3. CASE GetTop(t)
  <2>1. stack = <<>>
    BY <1>3 DEF GetTop
  <2>2. Len(stack) = 0
    BY <2>1
  <2> QED BY <1>1, <1>3, <2>2 DEF ReadEmpty, GetTop, TypeOK
<1>4. CASE SetTop(t)
  BY <1>1, <1>4 DEF ReadEmpty, SetTop, TypeOK
<1> QED BY <1>2, <1>3, <1>4 DEF Step, Begin, Lock, PushSessions, Pop, PickFree, PickUsed,
           PushSession, Has, Set, Get, Undefined, Unlock

(* The calls find on top of the stack what they have pushed.               *)
LEMMA OnTopStep ==
  ASSUME IInv, NEW t \in Threads, Step(t), ~disturbed', ~collided' PROVE OnTop'
<1>1. TypeOK /\ ShapeOK /\ Exclusion /\ OnTop
  BY Before DEF IInv
<1>2. Tables \subseteq Tables'
  BY <1>1, TablesStep
<1>3. CASE \E c \in Calls : Begin(t, c)
  BY <1>1, <1>3 DEF Begin, OnTop, Top, Tables, Go, TypeOK
<1>4. CASE GetTop(t) \/ Lock(t) \/ Unlock(t)
  BY <1>1, <1>4 DEF GetTop, Lock, Unlock, OnTop, Top, Tables, Go, TypeOK
<1>5. CASE PushSessions(t)
  <2>1. stack' # <<>> /\ Top' = <<>>
    BY <1>1, <1>2, <1>5, StackPushed DEF Top
  <2>2. <<>> \in Tables'
    BY <1>1, <1>5, RootMade
  <2> QED BY <1>1, <1>5, <2>1, <2>2 DEF PushSessions, OnTop, Go, TypeOK, Exclusion, UsePcs
<1>6. CASE \E i \in Ids : PickFree(t, i)
  BY <1>1, <1>2, <1>6 DEF PickFree, OnTop, Top, Go, TypeOK
<1>7. CASE \E i \in Ids : PickUsed(t, i)
  BY <1>7 DEF PickUsed
<1>8. CASE Pop(t)
  BY <1>1, <1>8 DEF Pop, OnTop, Tables, Go, TypeOK, Exclusion, UsePcs
<1>9. CASE PushSession(t)
  <2>1. CASE <<call[t].id>> \in Tables
    <3>1. stack' # <<>> /\ Top' = <<call[t].id>>
      BY <1>1, <1>9, <2>1, PushedTwo DEF PushSession, ShapeOK, Entries, Top
    <3> QED BY <1>1, <1>2, <1>9, <2>1, <3>1
             DEF PushSession, OnTop, Go, TypeOK, Exclusion, UsePcs
  <2>2. CASE <<call[t].id>> \notin Tables
    BY <1>1, <1>9, <2>2 DEF PushSession, OnTop, Go, TypeOK, Exclusion, UsePcs
  <2> QED BY <2>1, <2>2
<1>10. CASE Has(t) \/ Set(t)
  BY <1>1, <1>2, <1>10 DEF Has, Set, OnTop, Top, Go, TypeOK
<1>11. CASE Get(t)
  BY <1>1, <1>11 DEF Get, OnTop, Tables, Go, TypeOK, Exclusion, UsePcs, Calls, NewCall
<1>12. CASE Undefined(t)
  BY <1>1, <1>12 DEF Undefined, OnTop, HasTable
<1>13. CASE SetTop(t)
  BY <1>1, <1>13 DEF SetTop, OnTop, Tables, Go, TypeOK
<1> QED BY <1>3, <1>4, <1>5, <1>6, <1>7, <1>8, <1>9, <1>10, <1>11, <1>12, <1>13 DEF Step

(* And what they have pushed goes away again.                              *)
LEMMA NothingElseStep ==
  ASSUME IInv, NEW t \in Threads, Step(t), ~disturbed', ~collided' PROVE NothingElse'
<1>1. TypeOK /\ ShapeOK /\ Exclusion /\ ReadEmpty /\ OnTop /\ NothingElse
  BY Before DEF IInv
<1>2. TypeOK' /\ ShapeOK'
  BY TypeStep DEF IInv
<1>3. CASE \E c \in Calls : Begin(t, c)
  BY <1>1, <1>3 DEF Begin, NothingElse, Go, TypeOK
<1>4. CASE GetTop(t) \/ Lock(t) \/ Unlock(t)
  BY <1>1, <1>4 DEF GetTop, Lock, Unlock, NothingElse, Go, TypeOK
<1>5. CASE PushSessions(t)
  <2>1. Len(stack') = Len(stack) + 1
    BY <1>1, <1>5, StackPushed
  <2> QED BY <1>1, <1>5, <2>1 DEF PushSessions, NothingElse, Go, TypeOK, Exclusion, UsePcs
<1>6. CASE \E i \in Ids : PickFree(t, i)
  BY <1>1, <1>6 DEF PickFree, NothingElse, Go, TypeOK
<1>7. CASE \E i \in Ids : PickUsed(t, i)
  BY <1>7 DEF PickUsed
<1>8. CASE Pop(t)
  <2>1. Len(stack') = Len(stack) - 1 /\ (stack' = <<>> <=> Len(stack') = 0)
    BY <1>1, <1>2, <1>8, Popped, EmptyStack DEF Pop, ShapeOK
  <2> QED BY <1>1, <1>8, <2>1 DEF Pop, NothingElse, Go, TypeOK, Exclusion, UsePcs
<1>9. CASE PushSession(t)
  BY <1>1, <1>9 DEF PushSession, NothingElse, OnTop, Go, TypeOK
<1>10. CASE Has(t) \/ Set(t)
  BY <1>1, <1>10 DEF Has, Set, NothingElse, Go, TypeOK
<1>11. CASE Get(t)
  BY <1>1, <1>11 DEF Get, NothingElse, OnTop, Go, TypeOK
<1>12. CASE Undefined(t)
  BY <1>1, <1>12 DEF Undefined, OnTop, HasTable
<1>13. CASE SetTop(t)
  <2>1. stack' = <<>>
    BY <1>1, <1>2, <1>13, Settled, EmptyStack DEF SetTop, ReadEmpty, ShapeOK
  <2> QED BY <1>1, <1>13, <2>1 DEF SetTop, NothingElse, Go, TypeOK
<1> QED BY <1>3, <1>4, <1>5, <1>6, <1>7, <1>8, <1>9, <1>10, <1>11, <1>12, <1>13 DEF Step

LEMMA StepKeeps ==
  ASSUME IInv, [Next]_vars PROVE IInv'
<1>1. ASSUME NEW t \in Threads, Step(t) PROVE IInv'
  BY <1>1, TypeStep, ExclusionStep, ReadEmptyStep, OnTopStep, NothingElseStep
     DEF IInv, Undisturbed
<1>2. CASE UNCHANGED vars
  BY <1>2 DEF vars, IInv, TypeOK, ShapeOK, Entries, Tables, Undisturbed, Exclusion, ReadEmpty,
     OnTop, Top, NothingElse
<1> QED BY <1>1, <1>2 DEF Next

(* The session table keeps its invariant.                                  *)
THEOREM Invariance == Spec => []IInv
<1>1. Init => IInv
  BY InitHolds
<1>2. IInv /\ [Next]_vars => IInv'
  BY StepKeeps
<1> QED BY <1>1, <1>2, PTL DEF Spec

-------------------------------------------------------------------------------
(* Every variable keeps to its values, disturbed or not: what is on the    *)
(* stack is a table there is, a string or nil.                             *)
THEOREM TypeCorrect == Spec => []TypeOK
<1>1. IInv => TypeOK
  BY DEF IInv
<1> QED BY <1>1, Invariance, PTL

(* The functions of lserver.c use the stack they share one after the       *)
(* other, find every entry they address, and leave it empty, as long as    *)
(* the two unlocked calls hit nobody and no id collides.                   *)
THEOREM StackShared == Spec => []StackDiscipline
<1>1. IInv => StackDiscipline
  <2> SUFFICES ASSUME IInv, ~disturbed, ~collided
               PROVE  /\ \A t \in Threads : pc[t] # "undefined"
                      /\ \A t \in Threads : InUse(t) <=> lmutex = t
                      /\ (\A t \in Threads : ~InUse(t) /\ pc[t] # "settop") => stack = <<>>
    BY DEF StackDiscipline
  <2>1. Exclusion /\ NothingElse
    BY DEF IInv, Undisturbed
  <2> QED BY <2>1 DEF Exclusion, NothingElse, InUse, UsePcs
<1> QED BY <1>1, Invariance, PTL

-------------------------------------------------------------------------------
(* The sessions there are, and their values, as SessionStore sees them.    *)
Known  == {i \in Ids : <<i>> \in Tables}
Stored == [i \in Ids |-> IF <<i>> \in Tables THEN value[<<i>>] ELSE Nil]

(* Only a session that is made or set changes what the store holds.        *)
LEMMA RootIsNoSession ==
  ASSUME TypeOK, ShapeOK, NEW t \in Threads, PushSessions(t)
  PROVE  Known' = Known /\ Stored' = Stored
<1>1. <<>> \in Seq(Ids) /\ value' = Made(<<>>)
  BY DEF PushSessions
<1>2. /\ Tables' = Tables \cup {<<>>}
      /\ \A q \in Tables' : value'[q] = IF q \in Tables THEN value[q] ELSE Nil
  BY <1>1, Making
<1>3. \A i \in Ids : <<i>> \in Tables' <=> <<i>> \in Tables
  BY <1>2, PathOfId
<1> QED BY <1>2, <1>3 DEF Known, Stored

LEMMA SessionMade ==
  ASSUME TypeOK, ShapeOK, NEW t \in Threads, NEW i \in Ids, PickFree(t, i), Top = <<>>
  PROVE  i \notin Known /\ Known' = Known \cup {i} /\ Stored' = Stored
<1>1. Append(Top, i) = <<i>> /\ Tables # {}
  BY DEF PickFree, HasTable
<1>2. <<i>> \notin Tables /\ value' = Made(<<i>>)
  BY <1>1 DEF PickFree
<1>3. /\ Tables' = Tables \cup {<<i>>}
      /\ \A q \in Tables' : value'[q] = IF q \in Tables THEN value[q] ELSE Nil
  BY <1>1, <1>2, PathOfId, Making
<1>4. \A j \in Ids : <<j>> \in Tables' <=> <<j>> \in Tables \/ j = i
  BY <1>3
<1> QED BY <1>2, <1>3, <1>4 DEF Known, Stored

LEMMA SessionSet ==
  ASSUME TypeOK, ShapeOK, NEW t \in Threads, Set(t), OnTop
  PROVE  /\ call[t].id \in Known /\ call[t].arg \in Values
         /\ Known' = Known /\ Stored' = [Stored EXCEPT ![call[t].id] = call[t].arg]
<1>1. call[t].id \in Ids /\ call[t].arg \in Values
  BY DEF Set, TypeOK, Calls, NewCall
<1>2. Top = <<call[t].id>> /\ Top \in Tables
  BY DEF Set, OnTop
<1>3. value' = [p \in Tables |-> IF p = <<call[t].id>> THEN call[t].arg ELSE value[p]]
  BY <1>2 DEF Set, Tables
<1>4. Tables' = Tables
  BY <1>3 DEF Tables
<1> QED BY <1>1, <1>2, <1>3, <1>4 DEF Known, Stored

(* A step of a call is a step of the store, or none, unless it disturbs    *)
(* another call or an id collides.                                         *)
LEMMA StoreStep ==
  ASSUME IInv, NEW t \in Threads, Step(t), ~disturbed', ~collided'
  PROVE  Store!Next \/ UNCHANGED <<Known, Stored, answer>>
<1>1. TypeOK /\ ShapeOK /\ OnTop
  BY Before DEF IInv
<1>2. CASE UNCHANGED <<value, answer>>
  BY <1>2 DEF Known, Stored, Tables
<1>3. CASE \E c \in Calls : Begin(t, c)
  <2>1. Store!Call(t)
    BY <1>3 DEF Begin, Answer, Store!Call, Tables
  <2> QED BY <2>1 DEF Store!Next
<1>4. CASE PushSessions(t)
  BY <1>1, <1>4, RootIsNoSession DEF PushSessions
<1>5. ASSUME NEW i \in Ids, PickFree(t, i) PROVE Store!Next
  <2>1. Top = <<>>
    BY <1>1, <1>5 DEF PickFree, OnTop
  <2>2. i \notin Known /\ Known' = Known \cup {i} /\ Stored' = Stored
    BY <1>1, <1>5, <2>1, SessionMade
  <2>3. Store!New(t, i)
    BY <1>5, <2>2 DEF PickFree, Answer, Store!New, Known, Stored
  <2> QED BY <2>3 DEF Store!Next
<1>6. CASE PushSession(t)
  <2>1. CASE <<call[t].id>> \in Tables
    BY <1>2, <1>6, <2>1 DEF PushSession
  <2>2. CASE <<call[t].id>> \notin Tables
    <3>1. call[t].id \in Ids /\ call[t].id \notin Known
      BY <1>1, <1>6, <2>2 DEF PushSession, TypeOK, Calls, Known
    <3>2. (call[t].id \in Known) = FALSE
      BY <3>1
    <3>3. Store!Has(t, call[t].id)
      BY <1>6, <2>2, <3>2 DEF PushSession, Answer, Store!Has, Tables, Known
    <3> QED BY <3>1, <3>3 DEF Store!Next
  <2> QED BY <2>1, <2>2
<1>7. CASE Has(t)
  <2>1. call[t].id \in Ids /\ call[t].id \in Known
    BY <1>1, <1>7 DEF Has, TypeOK, Calls, NewCall, OnTop, Known
  <2>2. (call[t].id \in Known) = TRUE
    BY <2>1
  <2>3. Store!Has(t, call[t].id)
    BY <1>7, <2>2 DEF Has, Answer, Store!Has, Tables, Known
  <2> QED BY <2>1, <2>3 DEF Store!Next
<1>8. CASE Set(t)
  <2>1. /\ call[t].id \in Known /\ call[t].arg \in Values
        /\ Known' = Known /\ Stored' = [Stored EXCEPT ![call[t].id] = call[t].arg]
    BY <1>1, <1>8, SessionSet
  <2>2. (call[t].id \in Known) = TRUE /\ call[t].id \in Ids
    BY <2>1 DEF Known
  <2>3. PICK i \in Ids : i = call[t].id
    BY <2>2
  <2>4. PICK v \in Values : v = call[t].arg
    BY <2>1
  <2>5. Stored' = [Stored EXCEPT ![i] = v] /\ Known' = Known /\ (i \in Known) = TRUE
    BY <2>1, <2>2, <2>3, <2>4
  <2>6. Store!Set(t, i, v)
    BY <1>8, <2>5 DEF Set, Answer, Store!Set, Known, Stored
  <2> QED BY <2>6 DEF Store!Next
<1>9. CASE Get(t)
  <2>1. call[t].id \in Ids /\ call[t].id \in Known /\ Top = <<call[t].id>>
    BY <1>1, <1>9 DEF Get, TypeOK, Calls, NewCall, OnTop, Known
  <2>2. Stored[call[t].id] = value[Top]
    BY <2>1 DEF Stored, Known
  <2>3. Store!Get(t, call[t].id)
    BY <1>9, <2>1, <2>2 DEF Get, Answer, Store!Get, Tables, Known, Stored
  <2> QED BY <2>1, <2>3 DEF Store!Next
<1> QED BY <1>2, <1>3, <1>4, <1>5, <1>6, <1>7, <1>8, <1>9 DEF Step, GetTop, Lock, Pop,
           PickUsed, Undefined, Unlock, SetTop

(* The four functions of lserver.c are those of a table of sessions on     *)
(* which every call acts at once, as long as the two unlocked calls hit    *)
(* nobody and no id collides.                                              *)
THEOREM Refinement == Spec => ImplementsStore
<1>1. Init => Store!Init
  BY DEF Init, Store!Init, Tables
<1>2. IInv /\ [Next]_vars => [Store!Next \/ disturbed' \/ collided']_(Store!absVars)
  <2> SUFFICES ASSUME IInv, [Next]_vars
               PROVE  \/ Store!Next \/ disturbed' \/ collided'
                      \/ UNCHANGED <<Known, Stored, answer>>
    BY DEF Store!absVars, Known, Stored
  <2>1. CASE UNCHANGED vars
    BY <2>1 DEF vars, Known, Stored, Tables
  <2>2. ASSUME NEW t \in Threads, Step(t), ~disturbed', ~collided'
        PROVE  Store!Next \/ UNCHANGED <<Known, Stored, answer>>
    BY <2>2, StoreStep
  <2> QED BY <2>1, <2>2 DEF Next
<1> QED BY <1>1, <1>2, Invariance, PTL DEF Spec, ImplementsStore
===============================================================================
