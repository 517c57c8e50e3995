------------------------------ MODULE Connection ------------------------------
(***************************************************************************)
(* One client thread from request to request: client_Service, the parser   *)
(* of Http, and process.lua, which lclientProcessRequest runs in a         *)
(* protected call, with what it calls of util.lua and Response:send.       *)
(*                                                                         *)
(* The scripts of the site (handlers, error pages) may do what the         *)
(* interface allows them, in any order.  Their sessions are Sessions,      *)
(* their request content is Token, the cancellation of the thread is       *)
(* Server.                                                                 *)
(***************************************************************************)
EXTENDS Http

CONSTANT MaxReplies    \* bound: responses a site script sends for one request

ASSUME MaxRepliesAssumption == MaxReplies \in Nat \ {0}

(* answer: inHandler, process.lua runs util.doFile for a handler; said,     *)
(* what the last response said of the connection; and as history whether a *)
(* script of the site ran for the request and how many responses were sent.*)
NoAnswer == [inHandler |-> FALSE, said |-> "none", scripted |-> FALSE, replies |-> 0]

Init == InitParser /\ answer = NoAnswer

-------------------------------------------------------------------------------
(* Mutant of Service: the flag of the last request is not cleared.         *)
ServiceKeepsFlag ==
    /\ pc = "service"
    /\ \/ pc' = "done" /\ UNCHANGED <<ahead, nTokens, request, error, answer>>
       \/ /\ pc' = "leading"
          /\ ahead' = IF Eof THEN <<"EOF">> ELSE <<>>
          /\ nTokens' = 0
          /\ fields' = {} /\ lines' = {}
          /\ error' = 0
          /\ answer' = NoAnswer
          /\ UNCHANGED keepAlive
    /\ token' = "reading" /\ len' = 0 /\ put' = <<>>
    /\ UNCHANGED lua

(* tokenReset and lclientInit1, which makes new tables request and         *)
(* response, or fails.                                                     *)
Service ==
    /\ pc = "service"
    /\ \/ pc' = "done" /\ UNCHANGED <<ahead, nTokens, request, error, answer>>
       \/ /\ pc' = "leading"
          /\ ahead' = IF Eof THEN <<"EOF">> ELSE <<>>
          /\ nTokens' = 0
          /\ fields' = {} /\ lines' = {}
          /\ error' = 0
          /\ keepAlive' = FALSE
          /\ answer' = NoAnswer
    /\ token' = "reading" /\ len' = 0 /\ put' = <<>>
    /\ UNCHANGED lua

-------------------------------------------------------------------------------
unread == <<token, len, put, ahead, nTokens, fields, lines, lua, error>>

To(at) == pc' = at /\ UNCHANGED <<unread, keepAlive>>

(* An error of Lua that reaches the protected call: the connection is      *)
(* dropped.                                                                *)
Raise == To("done") /\ UNCHANGED answer

(* process.lua: the first line reads request.headers.                      *)
NoHeaders ==
    /\ pc = "process" /\ "headers" \notin fields
    /\ Raise

BadRequest ==
    /\ pc = "process" /\ "headers" \in fields /\ error # HTTP_200_OK
    /\ To("errorPage") /\ UNCHANGED answer

(* Of a request that is fine, the path decides: an error page, a file or   *)
(* redirection, the script of a handler, whose file may be missing, or an  *)
(* error of Lua (no host to redirect to, a file that is gone).             *)
Route ==
    /\ pc = "process" /\ "headers" \in fields /\ error = HTTP_200_OK
    /\ \/ To("errorPage") /\ UNCHANGED answer
       \/ To("send") /\ UNCHANGED answer
       \/ To("handler") /\ answer' = [answer EXCEPT !.inHandler = TRUE, !.scripted = TRUE]
       \/ To("errorPage") /\ answer' = [answer EXCEPT !.inHandler = TRUE]
       \/ Raise

(* Response:send, as far as the connection goes.                           *)
Announce ==
    answer' = [answer EXCEPT !.replies = @ + 1,
                             !.said = IF "keepAlive" \in fields THEN "keep-alive" ELSE "close"]

(* process.lua's own response; the write may fail.                         *)
Send ==
    /\ pc = "send"
    /\ \/ To("return") /\ Announce
       \/ Raise

(* Mutant of ErrorPage: without a script for the error nothing is sent.    *)
ErrorPageSilent ==
    /\ pc = "errorPage"
    /\ \/ To("return") /\ UNCHANGED answer
       \/ To("errorScript") /\ answer' = [answer EXCEPT !.scripted = TRUE]

(* util.errorResponse: the site may have a script for the error.           *)
ErrorPage ==
    /\ pc = "errorPage"
    /\ \/ To("send") /\ UNCHANGED answer
       \/ To("errorScript") /\ answer' = [answer EXCEPT !.scripted = TRUE]

(* A script of the site sends a response, or asks for the connection to be *)
(* closed.                                                                 *)
ScriptSends ==
    /\ pc \in {"handler", "errorScript"} /\ answer.replies < MaxReplies
    /\ To(pc) /\ Announce

CloseConnection ==
    /\ pc \in {"handler", "errorScript"}
    /\ keepAlive' = FALSE
    /\ UNCHANGED <<pc, unread, answer>>

(* It returns or fails: the failure of a handler, or of the error page of  *)
(* its missing file, is answered with an error page, that of any other     *)
(* error page is not answered at all.                                      *)
ScriptEnds ==
    /\ pc \in {"handler", "errorScript"}
    /\ \/ To("return") /\ UNCHANGED answer
       \/ /\ answer.inHandler
          /\ To("errorPage") /\ answer' = [answer EXCEPT !.inHandler = FALSE]

(* Mutant of Return: the connection is kept whatever was asked for.        *)
ReturnAlwaysKept ==
    /\ pc = "return"
    /\ To("service")
    /\ UNCHANGED answer

(* lclientProcessRequest returned 1.                                       *)
Return ==
    /\ pc = "return"
    /\ To(IF keepAlive THEN "service" ELSE "done")
    /\ UNCHANGED answer

Process ==
    \/ NoHeaders \/ BadRequest \/ Route
    \/ Send \/ ErrorPage \/ ScriptSends \/ CloseConnection \/ ScriptEnds \/ Return

Ended == pc = "done" /\ UNCHANGED vars

Next ==
    \/ Service
    \/ \E ch \in Chars \cup {"EOF", "ERROR"} : Recv(ch)
    \/ Parse
    \/ Process
    \/ Ended

Spec == Init /\ [][Next]_vars

(* The thread runs while it does not wait for the peer.                    *)
FairSpec == Spec /\ WF_vars(Parse)

-------------------------------------------------------------------------------
(* The values every variable keeps to.                                     *)
TypeOK ==
    /\ pc \in Parsing \cup {"service", "process", "handler", "errorPage", "errorScript",
                            "send", "return", "done"}
    /\ ParserTypeOK
    /\ answer \in [inHandler : BOOLEAN, said : {"none", "keep-alive", "close"},
                   scripted : BOOLEAN, replies : 0 .. MaxReplies + 1]

(* The flag of client.c and the field the scripts announce it by agree     *)
(* until a script closes the connection, and neither is left over from an  *)
(* earlier request of the connection.                                      *)
KeepAliveOfRequest ==
    pc \in Parsing \cup {"process", "handler", "errorPage", "errorScript", "send", "return"} =>
        /\ keepAlive => "keepAlive" \in fields
        /\ "keepAlive" \in fields => keepAlive \/ answer.scripted

(* process.lua itself answers every request it handles once, when no       *)
(* script of the site takes part.                                          *)
AnsweredOnce == pc = "return" /\ ~answer.scripted => answer.replies = 1

(* The connection is kept only if no response said it would be closed, and *)
(* is closed in spite of the promise only if a script took part.           *)
KeptAsAnnounced ==
    [][pc = "return" =>
          /\ pc' = "service" => answer.said # "close"
          /\ pc' = "done" /\ answer.said = "keep-alive" => answer.scripted]_vars

(* Between two characters it receives the parser takes finitely many       *)
(* steps: none of its loops goes round without consuming, not at the end   *)
(* of the stream either.                                                   *)
ParserReceives == []<>(Waiting \/ pc \notin Parsing)

(* The result of httpProcessRequest is "HTTP_200_OK if request can be      *)
(* passed for futher processing" or another HTTP code (http.c:88); only    *)
(* for -1 the connection "must be dropped", and that does not get here.    *)
(* Every request that does, accepted or rejected, has its response: its    *)
(* processing does not end the connection at once.                         *)
RequestAnswered == [][pc = "process" => pc' # "done"]_vars
===============================================================================
