------------------------------- MODULE Sessions -------------------------------
(***************************************************************************)
(* The session table of lserver.c, kept in a Lua state all client threads  *)
(* share: lserverNewSession, lserverHasSession, lserverSetSessionString,   *)
(* lserverGetSessionString, and the bindings of lclient.c that call them.  *)
(* server.lmutex guards the table; the height of the Lua stack is read     *)
(* before it is locked and restored after it is unlocked.                  *)
(*                                                                         *)
(* A table is named by the path that leads to it: <<>> is the table        *)
(* "sessions", <<i>> the session i.  Longer paths come to be when an id    *)
(* collides.  A session holds one string: its keys do not interact.        *)
(* A Lua call that addresses an entry the stack does not have is undefined *)
(* behaviour; the model stops there.                                       *)
(***************************************************************************)
EXTENDS Integers, FiniteSets, Sequences

CONSTANTS Threads,     \* client threads
          Ids,         \* what rand() returns, and the ids handlers ask for
          Values,      \* strings a handler stores
          Nil,         \* nil, no answer
          Collisions,  \* rand() may return an id that is in use
          MaxTables    \* bound: a session is created only below this number of tables

ASSUME NilAssumption == Nil \notin Threads

VARIABLES
    value,      \* value[p]: the string in table p; its domain is the tables there are
    stack,      \* the stack of the server's Lua state: paths, strings, Nil
    lmutex,     \* owner of server.lmutex, or Nil
    pc,         \* pc[t]: what t does next in its call, or "idle"; all are "undefined"
                \* once a call has addressed an entry that is not there
    call,       \* call[t]: the call and its arguments, NewCall outside
    top,        \* top[t]: the height of the stack that t has read, 0 outside
    answer,     \* answer[t]: the result of the last call, Nil before there is one
    disturbed,  \* history: gettop or settop fell into another thread's use of the stack
    collided    \* history: rand() returned an id in use

vars == <<value, stack, lmutex, pc, call, top, answer, disturbed, collided>>

Tables == DOMAIN value
Top    == stack[Len(stack)]
HasTable == stack # <<>> /\ Top \in Tables

NewCall == [op |-> "new", id |-> Nil, arg |-> Nil]
Calls == {NewCall} \cup [op : {"has", "get"}, id : Ids, arg : {Nil}]
                   \cup [op : {"set"}, id : Ids, arg : Values]

(* The tables with p among them; it is new and holds nothing, unless it was*)
(* there.                                                                  *)
Made(p) == [q \in Tables \cup {p} |-> IF q \in Tables THEN value[q] ELSE Nil]

Go(t, label) == pc' = [pc EXCEPT ![t] = label]
Answer(t, a) == answer' = [answer EXCEPT ![t] = a]

Init ==
    /\ value = <<>>
    /\ stack = <<>>
    /\ lmutex = Nil
    /\ pc = [t \in Threads |-> "idle"]
    /\ call = [t \in Threads |-> NewCall]
    /\ top = [t \in Threads |-> 0]
    /\ answer = [t \in Threads |-> Nil]
    /\ disturbed = FALSE /\ collided = FALSE

(* A handler calls one of the four functions.  Bound: no call starts after *)
(* a disturbance or a collision; those that have started go on.            *)
Begin(t, c) ==
    /\ pc[t] = "idle" /\ ~disturbed /\ ~collided
    /\ c = NewCall => Cardinality(Tables) < MaxTables
    /\ call' = [call EXCEPT ![t] = c]
    /\ Go(t, IF c = NewCall THEN "lock" ELSE "gettop")
    /\ Answer(t, Nil)
    /\ UNCHANGED <<value, stack, lmutex, top, disturbed, collided>>

(* Mutant of GetTop: the index of the last entry instead of the height.    *)
GetTopIndex(t) ==
    /\ pc[t] = "gettop"
    /\ top' = [top EXCEPT ![t] = Len(stack) - 1]
    /\ disturbed' = (disturbed \/ stack # <<>>)
    /\ Go(t, "lock")
    /\ UNCHANGED <<value, stack, lmutex, call, answer, collided>>

(* lua_gettop, before the mutex is locked.                                 *)
GetTop(t) ==
    /\ pc[t] = "gettop"
    /\ top' = [top EXCEPT ![t] = Len(stack)]
    /\ disturbed' = (disturbed \/ stack # <<>>)
    /\ Go(t, "lock")
    /\ UNCHANGED <<value, stack, lmutex, call, answer, collided>>

Lock(t) ==
    /\ pc[t] = "lock" /\ lmutex = Nil
    /\ lmutex' = t
    /\ Go(t, "push")
    /\ UNCHANGED <<value, stack, call, top, answer, disturbed, collided>>

(* Mutant of PushSessions: the table is created anew every time.           *)
PushSessionsAnew(t) ==
    /\ pc[t] = "push" /\ call[t] = NewCall
    /\ value' = [q \in {<<>>} |-> Nil]
    /\ stack' = Append(stack, <<>>)
    /\ Go(t, "pick")
    /\ UNCHANGED <<lmutex, call, top, answer, disturbed, collided>>

(* lserverNewSession pushes the table "sessions", and creates it first if  *)
(* there is none.                                                          *)
PushSessions(t) ==
    /\ pc[t] = "push" /\ call[t] = NewCall
    /\ value' = Made(<<>>)
    /\ stack' = Append(stack, <<>>)
    /\ Go(t, "pick")
    /\ UNCHANGED <<lmutex, call, top, answer, disturbed, collided>>

(* rand() returns an id for which the table on top of the stack has no     *)
(* entry: the entry is made there.                                         *)
PickFree(t, i) ==
    /\ pc[t] = "pick" /\ HasTable
    /\ Append(Top, i) \notin Tables
    /\ value' = Made(Append(Top, i))
    /\ Answer(t, i)
    /\ Go(t, "pop")
    /\ UNCHANGED <<stack, lmutex, call, top, disturbed, collided>>

(* rand() returns an id in use: its entry is left on top of the stack, and *)
(* the next one is looked up there.                                        *)
PickUsed(t, i) ==
    /\ pc[t] = "pick" /\ HasTable /\ Collisions
    /\ Append(Top, i) \in Tables
    /\ stack' = Append(stack, Append(Top, i))
    /\ collided' = TRUE
    /\ UNCHANGED <<value, lmutex, pc, call, top, answer, disturbed>>

(* Mutant of Pop: the table "sessions" stays on the stack.                 *)
PopForgotten(t) ==
    /\ pc[t] = "pop" /\ stack # <<>>
    /\ Go(t, "unlock")
    /\ UNCHANGED <<value, stack, lmutex, call, top, answer, disturbed, collided>>

(* One entry is popped, taken to be the table "sessions".                  *)
Pop(t) ==
    /\ pc[t] = "pop" /\ stack # <<>>
    /\ stack' = SubSeq(stack, 1, Len(stack) - 1)
    /\ Go(t, "unlock")
    /\ UNCHANGED <<value, lmutex, call, top, answer, disturbed, collided>>

(* _pushSessionTable: without a table of sessions, or without the session, *)
(* nil is pushed in its place and the call fails.                          *)
PushSession(t) ==
    LET path == <<call[t].id>> IN
    /\ pc[t] = "push" /\ call[t] # NewCall
    /\ stack' = IF <<>> \notin Tables THEN Append(stack, Nil)
                ELSE stack \o <<<<>>, IF path \in Tables THEN path ELSE Nil>>
    /\ IF path \in Tables THEN Go(t, "act") /\ UNCHANGED answer
                          ELSE Go(t, "unlock") /\ Answer(t, FALSE)
    /\ UNCHANGED <<value, lmutex, call, top, disturbed, collided>>

Has(t) ==
    /\ pc[t] = "act" /\ call[t].op = "has"
    /\ Answer(t, TRUE)
    /\ Go(t, "unlock")
    /\ UNCHANGED <<value, stack, lmutex, call, top, disturbed, collided>>

(* The string is stored in the table on top of the stack; key and value    *)
(* are pushed and popped.                                                  *)
Set(t) ==
    /\ pc[t] = "act" /\ call[t].op = "set" /\ HasTable
    /\ value' = [value EXCEPT ![Top] = call[t].arg]
    /\ Answer(t, TRUE)
    /\ Go(t, "unlock")
    /\ UNCHANGED <<stack, lmutex, call, top, disturbed, collided>>

(* The value, or nil, is pushed.                                           *)
Get(t) ==
    /\ pc[t] = "act" /\ call[t].op = "get" /\ HasTable
    /\ stack' = Append(stack, value[Top])
    /\ Answer(t, IF value[Top] = Nil THEN FALSE ELSE value[Top])
    /\ Go(t, "unlock")
    /\ UNCHANGED <<value, lmutex, call, top, disturbed, collided>>

(* The entry a call needs on top of the stack is not there.                *)
Undefined(t) ==
    /\ \/ pc[t] = "pick" /\ ~HasTable
       \/ pc[t] = "pop" /\ stack = <<>>
       \/ pc[t] = "act" /\ call[t].op \in {"set", "get"} /\ ~HasTable
    /\ pc' = [u \in Threads |-> "undefined"]
    /\ UNCHANGED <<value, stack, lmutex, call, top, answer, disturbed, collided>>

Unlock(t) ==
    /\ pc[t] = "unlock"
    /\ lmutex' = Nil
    /\ Go(t, IF call[t] = NewCall THEN "idle" ELSE "settop")
    /\ UNCHANGED <<value, stack, call, top, answer, disturbed, collided>>

(* lua_settop, after the mutex is unlocked: entries above top are removed, *)
(* nil fills up what is missing.                                           *)
SetTop(t) ==
    /\ pc[t] = "settop"
    /\ stack' = [j \in 1 .. top[t] |-> IF j <= Len(stack) THEN stack[j] ELSE Nil]
    /\ disturbed' = (disturbed \/ \E u \in Threads : pc[u] \in {"pick", "pop", "act"})
    /\ Go(t, "idle")
    /\ call' = [call EXCEPT ![t] = NewCall]
    /\ top' = [top EXCEPT ![t] = 0]
    /\ UNCHANGED <<value, lmutex, answer, collided>>

Step(t) ==
    \/ \E c \in Calls : Begin(t, c)
    \/ GetTop(t) \/ Lock(t)
    \/ PushSessions(t) \/ Pop(t)
    \/ \E i \in Ids : PickFree(t, i) \/ PickUsed(t, i)
    \/ PushSession(t) \/ Has(t) \/ Set(t) \/ Get(t)
    \/ Undefined(t)
    \/ Unlock(t) \/ SetTop(t)

Next == \E t \in Threads : Step(t)

Spec == Init /\ [][Next]_vars

-------------------------------------------------------------------------------
InUse(t) == pc[t] \in {"push", "pick", "pop", "act", "unlock"}

(* The values every variable keeps to.                                     *)
TypeOK ==
    /\ Tables \subseteq Seq(Ids)
    /\ \A p \in Tables : value[p] \in Values \cup {Nil}
    /\ \A j \in 1 .. Len(stack) : stack[j] \in Tables \cup Values \cup {Nil}
    /\ lmutex \in Threads \cup {Nil}
    /\ pc \in [Threads -> {"idle", "gettop", "lock", "push", "pick", "pop", "act", "unlock",
                           "settop", "undefined"}]
    /\ call \in [Threads -> Calls]
    /\ top \in [Threads -> Nat]
    /\ answer \in [Threads -> Ids \cup Values \cup {Nil} \cup BOOLEAN]
    /\ {disturbed, collided} \subseteq BOOLEAN

(* The functions of lserver.c use the stack they share one after the       *)
(* other, never address an entry that is not there and leave it empty, as  *)
(* long as no lua_gettop or lua_settop outside server.lmutex hits another  *)
(* thread's use and no new id is one in use.                               *)
StackDiscipline ==
    ~disturbed /\ ~collided =>
        /\ \A t \in Threads : pc[t] # "undefined"
        /\ \A t \in Threads : InUse(t) <=> lmutex = t
        /\ (\A t \in Threads : ~InUse(t) /\ pc[t] # "settop") => stack = <<>>

(* Under the same condition the four functions are those of a table of     *)
(* sessions on which each call acts at once.                               *)
Store == INSTANCE SessionStore
             WITH known  <- {i \in Ids : <<i>> \in Tables},
                  stored <- [i \in Ids |-> IF <<i>> \in Tables THEN value[<<i>>] ELSE Nil]

ImplementsStore ==
    Store!Init /\ [][Store!Next \/ disturbed' \/ collided']_(Store!absVars)

(* lserver.c:129, "Stack MUST be empty (gettop return 0)", at the end of   *)
(* lserverNewSession.                                                      *)
StackEmpty ==
    \A t \in Threads : pc[t] = "unlock" /\ call[t] = NewCall => stack = <<>>
===============================================================================
