----------------------------- MODULE SessionStore -----------------------------
(***************************************************************************)
(* What lserver.c promises to the request handlers: a table of sessions,   *)
(* each with its value, on which every call acts at once and whole.        *)
(* Sessions implements it as long as no call disturbs another one's use of *)
(* the Lua stack and no new id collides.                                   *)
(***************************************************************************)
CONSTANTS Threads,   \* client threads
          Ids,       \* session ids
          Values,    \* strings a handler stores
          Nil        \* no value, no session, no answer

VARIABLES known,     \* the sessions there are
          stored,    \* stored[i]: the value of session i, Nil if it has none
          answer     \* answer[t]: what the last call of thread t came to

absVars == <<known, stored, answer>>

Init == /\ known = {}
        /\ stored = [i \in Ids |-> Nil]
        /\ answer = [t \in Threads |-> Nil]

(* A new call has no answer yet.                                           *)
Call(t) == answer' = [answer EXCEPT ![t] = Nil] /\ UNCHANGED <<known, stored>>

New(t, i) ==
    /\ i \notin known
    /\ known' = known \cup {i}
    /\ answer' = [answer EXCEPT ![t] = i]
    /\ UNCHANGED stored

Has(t, i) ==
    /\ answer' = [answer EXCEPT ![t] = i \in known]
    /\ UNCHANGED <<known, stored>>

Set(t, i, v) ==
    /\ stored' = IF i \in known THEN [stored EXCEPT ![i] = v] ELSE stored
    /\ answer' = [answer EXCEPT ![t] = i \in known]
    /\ UNCHANGED known

(* The value, or that there is none.                                       *)
Get(t, i) ==
    /\ answer' = [answer EXCEPT ![t] = IF i \in known /\ stored[i] # Nil THEN stored[i]
                                                                       ELSE FALSE]
    /\ UNCHANGED <<known, stored>>

Next ==
    \E t \in Threads :
        \/ Call(t)
        \/ \E i \in Ids : New(t, i) \/ Has(t, i) \/ Get(t, i)
        \/ \E i \in Ids, v \in Values : Set(t, i, v)

Spec == Init /\ [][Next]_absVars
===============================================================================
