--------------------------------- MODULE Http ---------------------------------
(***************************************************************************)
(* The request parser of http.c: httpProcessRequest with http_ParseRelPath,*)
(* http_ParseQuery, http_ParseHeaders and _parseHeaderValue, over the      *)
(* characters of a connection and the token types of Lexer.                *)
(*                                                                         *)
(* pc names the TOKEN_GET the parser is at.  One character is read or      *)
(* looked at per step; when tokenGet returns, one step does all the parser *)
(* does up to its next TOKEN_GET.  Characters already looked at but not    *)
(* part of a token are kept in ahead, so that the next TOKEN_GET sees the  *)
(* same ones.  The words the parser compares with are left open; whether   *)
(* one matches is a choice.                                                *)
(***************************************************************************)
EXTENDS Integers, Sequences, Lexer

VARIABLES
    pc,         \* the TOKEN_GET the parser is at, or where client_Service is
    token,      \* tokenGet is "reading", or it returned a token ("found") or NULL ("missing")
    len,        \* characters of the token so far (of a class: none or some)
    put,        \* those of them that go back if the token is rejected
    ahead,      \* the unread characters that are known, "EOF" or "ERROR" at their end
    nTokens,    \* tokens that are remembered
    fields,     \* the fields of Lua's table request that are set
    lines,      \* history: the kinds of header fields the request has lines of
    keepAlive,  \* client->request.keepAlive
    stack,      \* the Lua stack of the client
    named,      \* the name of the query parameter is not empty
    error,      \* what httpProcessRequest returned
    answer      \* what became of the request behind the parser (Connection)

vars == <<pc, token, len, put, ahead, nTokens, fields, lines, keepAlive,
          stack, named, error, answer>>
request == <<fields, lines, keepAlive>>
lua     == <<stack, named>>

TOKENS_MAX           == 2
HTTP_200_OK          == 200
HTTP_400_BAD_REQUEST == 400

(* The token type every TOKEN_GET asks for.                                *)
Wanted ==
    [leading |-> "CRLF", method |-> "HIALPHA", methodSp |-> "SP", methodLine |-> "CRLF",
     absPath |-> "FSLASH", path |-> "PCHARX", pathEscape |-> "ESCAPE", slash |-> "FSLASH",
     question |-> "QUESTION", name |-> "QUERY", nameEscape |-> "ESCAPE",
     equal |-> "EQUAL", value |-> "QUERY", valueEscape |-> "ESCAPE", and |-> "AND",
     uriSp |-> "SP", uriLine |-> "CRLF",
     http |-> "HIALPHA", httpSlash |-> "FSLASH", major |-> "DIGIT", dot |-> "DOT",
     minor |-> "DIGIT", lineEnd |-> "CRLF",
     fieldName |-> "TCHARS", colon |-> "COLON", owsBefore |-> "OWS",
     connection |-> "ANY_NOT_CRLF", contentLength |-> "DIGIT",
     contentType |-> "TCHARS", multipartSlash |-> "FSLASH", multipart |-> "TCHARS",
     semicolon |-> "SEMICOLON", owsBoundary |-> "OWS", boundaryName |-> "TCHARS",
     boundaryEqual |-> "EQUAL", boundary |-> "BOUNDARY",
     typeSlash |-> "FSLASH", subtype |-> "TCHARS", trailing |-> "ANY_NOT_CRLF",
     other |-> "ANY_NOT_CRLF", owsAfter |-> "OWS", fieldEnd |-> "CRLF",
     headersEnd |-> "CRLF"]

Parsing    == DOMAIN Wanted

(* The header fields _parseHeaderValue tells apart, by the TOKEN_GET of    *)
(* their value.                                                            *)
FieldNames == {"connection", "contentLength", "contentType", "other"}
Fields     == {"method", "path", "qtable", "query", "keepAlive", "contentLength",
               "contentType", "boundary", "headers"}

Eof     == ahead # <<>> /\ ahead[Len(ahead)] = "EOF"
Reading == pc \in Parsing /\ token = "reading" /\ nTokens < TOKENS_MAX
Waiting == Reading /\ ahead = <<>>

InitParser ==
    /\ pc = "service" /\ token = "reading" /\ len = 0 /\ put = <<>> /\ ahead = <<>>
    /\ nTokens = 0 /\ fields = {} /\ lines = {} /\ keepAlive = FALSE
    /\ stack = <<>> /\ named = FALSE /\ error = 0

-------------------------------------------------------------------------------
(* tokenGet.                                                               *)

(* getChars returns a character, reports the end of the stream or fails,   *)
(* which includes a trace buffer that is too short.                        *)
Recv(ch) ==
    /\ Waiting
    /\ ahead' = <<ch>>
    /\ UNCHANGED <<pc, token, len, put, nTokens, request, lua, error, answer>>

(* A character of the token.                                               *)
TakeChar ==
    LET type == Wanted[pc]
        ch   == Head(ahead)
        n    == IF type \in DOMAIN Class THEN 1 ELSE len + 1
        done == Complete(type, n)
    IN
    /\ Reading /\ ahead # <<>> /\ Takes(type, len, ch)
    /\ ahead' = Tail(ahead)
    /\ len' = n
    /\ put' = IF type \in DOMAIN Class \/ done THEN <<>> ELSE Append(put, ch)
    /\ token' = IF done THEN "found" ELSE "reading"
    /\ nTokens' = IF done THEN nTokens + 1 ELSE nTokens
    /\ UNCHANGED <<pc, request, lua, error, answer>>

(* A character behind the token, or the end of the stream, on which every  *)
(* token ends.                                                             *)
EndToken ==
    /\ Reading /\ ahead # <<>> /\ ~Takes(Wanted[pc], len, Head(ahead))
    /\ Head(ahead) # "ERROR" /\ len > 0 /\ Valid(Wanted[pc], len)
    /\ token' = "found"
    /\ nTokens' = nTokens + 1
    /\ put' = <<>>
    /\ UNCHANGED <<pc, len, ahead, request, lua, error, answer>>

(* The characters are no token of this type and stay in the buffer.  After *)
(* an error those of a class are not seen again and the error lasts; the   *)
(* code would read on from them, and again from the connection.            *)
NoToken ==
    /\ Reading /\ ahead # <<>> /\ ~Takes(Wanted[pc], len, Head(ahead))
    /\ \/ Head(ahead) = "ERROR"
       \/ len = 0
       \/ ~Valid(Wanted[pc], len)
    /\ token' = "missing"
    /\ ahead' = put \o ahead
    /\ put' = <<>>
    /\ UNCHANGED <<pc, len, nTokens, request, lua, error, answer>>

-------------------------------------------------------------------------------
(* The steps every part of the grammar consists of.                        *)

Found(at)   == pc = at /\ token = "found"
Missing(at) == pc = at /\ token = "missing"

Enter(at)  == pc' = at /\ token' = "reading" /\ len' = 0 /\ UNCHANGED <<put, ahead, answer>>
GoOn(at)   == Enter(at) /\ UNCHANGED <<nTokens, error>>
DropTo(at) == Enter(at) /\ nTokens' = 0 /\ UNCHANGED error

(* httpProcessRequest returns code, and client_Service goes on or ends.    *)
Fail(code) ==
    /\ Enter(IF code < 0 THEN "done" ELSE "process")
    /\ error' = code
    /\ UNCHANGED nTokens

Expect(at, to, code) ==
    /\ \/ Found(at) /\ DropTo(to)
       \/ Missing(at) /\ Fail(code)
    /\ UNCHANGED <<request, lua>>

(* The same of a word or number that has to be a certain one.              *)
ExpectWord(at, to, code) ==
    /\ \/ Found(at) /\ DropTo(to)
       \/ (Found(at) \/ Missing(at)) /\ Fail(code)
    /\ UNCHANGED <<request, lua>>

ExpectField(at, to, field, code) ==
    /\ \/ Found(at) /\ DropTo(to) /\ fields' = fields \cup {field}
       \/ Missing(at) /\ Fail(code) /\ UNCHANGED fields
    /\ UNCHANGED <<lines, keepAlive, lua>>

(* Mutant of Optional: the token is not dropped.                           *)
OptionalKept(at, to) ==
    /\ (Found(at) \/ Missing(at)) /\ GoOn(to)
    /\ UNCHANGED <<request, lua>>

Optional(at, to) ==
    /\ \/ Found(at) /\ DropTo(to)
       \/ Missing(at) /\ GoOn(to)
    /\ UNCHANGED <<request, lua>>

-------------------------------------------------------------------------------
(* httpProcessRequest: the request line.                                   *)

Leading ==
    /\ \/ Found("leading") /\ DropTo("leading")
       \/ Missing("leading") /\ Eof /\ Fail(-1)
       \/ Missing("leading") /\ ~Eof /\ GoOn("method")
    /\ UNCHANGED <<request, lua>>

Method ==
    /\ \/ Found("method") /\ DropTo("methodSp") /\ fields' = fields \cup {"method"}
       \/ Found("method") /\ Fail(HTTP_400_BAD_REQUEST) /\ UNCHANGED fields
       \/ Missing("method") /\ Fail(-1) /\ UNCHANGED fields
    /\ UNCHANGED <<lines, keepAlive, lua>>

Space(at, line, to) ==
    /\ \/ Found(at) /\ DropTo(to)
       \/ Missing(at) /\ GoOn(line)
       \/ Found(line) /\ Fail(HTTP_400_BAD_REQUEST)
       \/ Missing(line) /\ Fail(-1)
    /\ UNCHANGED <<request, lua>>

(* Mutant of AbsPath: the field is not set to its first character.         *)
AbsPathUnset == Expect("absPath", "path", -1)

AbsPath == ExpectField("absPath", "path", "path", -1)

(* http_ParseRelPath: segments and slashes are appended as they come.      *)
RelPath ==
    /\ \/ Found("path") /\ DropTo("path")
       \/ Missing("path") /\ GoOn("pathEscape")
       \/ Found("pathEscape") /\ DropTo("path")
       \/ Missing("pathEscape") /\ GoOn("slash")
       \/ Found("slash") /\ DropTo("path")
    /\ UNCHANGED <<request, lua>>

HttpVersion ==
    \/ ExpectWord("http", "httpSlash", -1)
    \/ Expect("httpSlash", "major", -1)
    \/ ExpectWord("major", "dot", -1)
    \/ Expect("dot", "minor", -1)
    \/ ExpectWord("minor", "lineEnd", -1)

RequestLine ==
    \/ Leading \/ Method
    \/ Space("methodSp", "methodLine", "absPath")
    \/ AbsPath \/ RelPath
    \/ Space("uriSp", "uriLine", "http")
    \/ HttpVersion
    \/ Expect("lineEnd", "fieldName", -1)

-------------------------------------------------------------------------------
(* http_ParseQuery, with what it keeps on the Lua stack.                   *)

QueryStart ==
    /\ Missing("slash")
    /\ GoOn("question")
    /\ fields' = fields \cup {"qtable"}
    /\ UNCHANGED <<lines, keepAlive, lua>>

Question ==
    \/ /\ Found("question") /\ DropTo("name")
       /\ fields' = fields \cup {"query"}
       /\ stack' = <<"qtable", "name">>
       /\ named' = FALSE
       /\ UNCHANGED <<lines, keepAlive>>
    \/ /\ Missing("question") /\ GoOn("uriSp")
       /\ UNCHANGED <<request, lua>>

Name ==
    /\ \/ (Found("name") \/ Found("nameEscape")) /\ DropTo("name") /\ named' = TRUE
          /\ UNCHANGED stack
       \/ Missing("name") /\ GoOn("nameEscape") /\ UNCHANGED lua
       \/ Missing("nameEscape") /\ GoOn("equal") /\ stack' = Append(stack, "value")
          /\ UNCHANGED named
    /\ UNCHANGED request

Value ==
    /\ \/ Found("equal") /\ DropTo("value")
       \/ Missing("equal") /\ GoOn("and")
       \/ (Found("value") \/ Found("valueEscape")) /\ DropTo("value")
       \/ Missing("value") /\ GoOn("valueEscape")
    /\ UNCHANGED <<request, lua>>

(* lua_settable or lua_pop: name and value leave the stack.                *)
Stored == SubSeq(stack, 1, Len(stack) - 2)

(* Mutant of NextParameter: a parameter without a name stays on the stack. *)
NextParameterUnpopped ==
    /\ \/ Missing("valueEscape") /\ GoOn("name")
       \/ Found("and") /\ DropTo("name")
    /\ stack' = Append(IF named THEN Stored ELSE stack, "name")
    /\ named' = FALSE
    /\ UNCHANGED request

NextParameter ==
    /\ \/ Missing("valueEscape") /\ GoOn("name")
       \/ Found("and") /\ DropTo("name")
    /\ stack' = Append(Stored, "name")
    /\ named' = FALSE
    /\ UNCHANGED request

(* Mutant of QueryEnd: without a name the loop is not left.                *)
QueryEndNamed ==
    /\ Missing("and")
    /\ IF named THEN GoOn("uriSp") /\ stack' = SubSeq(Stored, 1, Len(Stored) - 1)
                ELSE GoOn("name")  /\ stack' = Append(Stored, "name")
    /\ named' = FALSE
    /\ UNCHANGED request

(* Neither "=" nor "&": the table goes into request.                       *)
QueryEnd ==
    /\ Missing("and")
    /\ GoOn("uriSp")
    /\ stack' = SubSeq(Stored, 1, Len(Stored) - 1)
    /\ fields' = fields \cup {"qtable"}
    /\ named' = FALSE
    /\ UNCHANGED <<lines, keepAlive>>

Query == QueryStart \/ Question \/ Name \/ Value \/ NextParameter \/ QueryEnd

-------------------------------------------------------------------------------
(* _parseHeaderValue.                                                      *)

(* The name decides what the value is parsed as.                           *)
HeaderName ==
    \E name \in FieldNames :
        /\ \/ Found("owsBefore") /\ DropTo(name)
           \/ Missing("owsBefore") /\ GoOn(name)
        /\ lines' = lines \cup {name}
        /\ UNCHANGED <<fields, keepAlive, lua>>

(* The value contains "keep-alive" or not.                                 *)
ConnectionValue ==
    /\ \/ /\ Found("connection") /\ DropTo("owsAfter")
          /\ \/ keepAlive' = TRUE /\ fields' = fields \cup {"keepAlive"}
             \/ UNCHANGED <<keepAlive, fields>>
       \/ Missing("connection") /\ Fail(HTTP_400_BAD_REQUEST) /\ UNCHANGED <<keepAlive, fields>>
    /\ UNCHANGED <<lines, lua>>

ContentLength == ExpectField("contentLength", "owsAfter", "contentLength", HTTP_400_BAD_REQUEST)

ContentType ==
    \/ ExpectField("contentType", "multipartSlash", "contentType", HTTP_400_BAD_REQUEST)
    \/ ExpectField("contentType", "typeSlash", "contentType", HTTP_400_BAD_REQUEST)

(* The subtype is form-data, or another one, which stays remembered.       *)
Multipart ==
    /\ \/ Found("multipart") /\ DropTo("semicolon")
       \/ Found("multipart") /\ GoOn("owsAfter")
       \/ Missing("multipart") /\ Fail(HTTP_400_BAD_REQUEST)
    /\ UNCHANGED <<request, lua>>

FormData ==
    \/ Expect("multipartSlash", "multipart", HTTP_400_BAD_REQUEST)
    \/ Multipart
    \/ Expect("semicolon", "owsBoundary", HTTP_400_BAD_REQUEST)
    \/ Optional("owsBoundary", "boundaryName")
    \/ ExpectWord("boundaryName", "boundaryEqual", HTTP_400_BAD_REQUEST)
    \/ Expect("boundaryEqual", "boundary", HTTP_400_BAD_REQUEST)
    \/ ExpectField("boundary", "owsAfter", "boundary", HTTP_400_BAD_REQUEST)

OtherType ==
    \/ Expect("typeSlash", "subtype", HTTP_400_BAD_REQUEST)
    \/ Expect("subtype", "trailing", HTTP_400_BAD_REQUEST)
    \/ Optional("trailing", "owsAfter")

HeaderValue ==
    \/ ConnectionValue \/ ContentLength \/ ContentType \/ FormData \/ OtherType
    \/ ExpectField("other", "owsAfter", "headers", HTTP_400_BAD_REQUEST)

(* Mutant of HeadersEnd: the headers end where no empty line does.         *)
HeadersEndEarly ==
    /\ \/ Found("headersEnd") \/ Missing("headersEnd")
    /\ Enter("process") /\ nTokens' = 0 /\ error' = HTTP_200_OK
    /\ UNCHANGED <<request, lua>>

(* http_ParseHeaders: an empty line ends the headers.                      *)
HeadersEnd ==
    /\ \/ Found("headersEnd") /\ Enter("process") /\ nTokens' = 0 /\ error' = HTTP_200_OK
       \/ Missing("headersEnd") /\ GoOn("fieldName")
    /\ UNCHANGED <<request, lua>>

Headers ==
    \/ Expect("fieldName", "colon", HTTP_400_BAD_REQUEST)
    \/ Expect("colon", "owsBefore", HTTP_400_BAD_REQUEST)
    \/ HeaderName \/ HeaderValue
    \/ Optional("owsAfter", "fieldEnd")
    \/ Expect("fieldEnd", "headersEnd", HTTP_400_BAD_REQUEST)
    \/ HeadersEnd

(* What the parser does without waiting for the peer.                      *)
Parse == TakeChar \/ EndToken \/ NoToken \/ RequestLine \/ Query \/ Headers

-------------------------------------------------------------------------------
(* The values every variable of the parser keeps to.                       *)
ParserTypeOK ==
    /\ token \in {"reading", "found", "missing"}
    /\ len \in 0 .. 3
    /\ \A i \in 1 .. Len(put) : put[i] \in Chars
    /\ Len(put) <= 3 /\ Len(ahead) <= 4
    /\ \A i \in 1 .. Len(ahead) :
          \/ ahead[i] \in Chars
          \/ i = Len(ahead) /\ ahead[i] \in {"EOF", "ERROR"}
    /\ nTokens \in 0 .. TOKENS_MAX
    /\ fields \subseteq Fields /\ lines \subseteq FieldNames
    /\ keepAlive \in BOOLEAN
    /\ error \in {0, -1, HTTP_200_OK, HTTP_400_BAD_REQUEST}

(* tokenGet is never called with TOKENS_MAX tokens remembered, which       *)
(* token.c takes for unreachable, although _parseHeaderValue may leave a   *)
(* token behind (http.c).                                                  *)
TokensBounded == pc \in Parsing /\ token = "reading" => nTokens < TOKENS_MAX

(* The parser leaves the Lua stack of the client as it found it, and       *)
(* within the query the table is always where lua_settable expects it.     *)
StackBalanced ==
    stack = CASE pc \in {"name", "nameEscape"} -> <<"qtable", "name">>
              [] pc \in {"equal", "and", "value", "valueEscape"} ->
                    <<"qtable", "name", "value">>
              [] OTHER -> <<>>

(* A field of request is appended to only after it was set: lua_concat     *)
(* with nil would end the whole program.                                   *)
AppendsDefined ==
    token = "found" =>
        /\ pc \in {"path", "pathEscape", "slash"} => "path" \in fields
        /\ pc \in {"name", "nameEscape", "equal", "and", "value", "valueEscape"} =>
              "query" \in fields
        /\ pc \in {"multipartSlash", "multipart", "typeSlash", "subtype"} =>
              "contentType" \in fields

(* A request that is passed on was parsed up to its end: it has a header   *)
(* line, and a field of Lua's table for each line of a kind that sets one  *)
(* and for no other.  The scripts index request.headers before all else,   *)
(* which therefore is set only if there is an ordinary line.               *)
AcceptedIsParsed ==
    pc = "process" /\ error = HTTP_200_OK =>
        /\ {"method", "path", "qtable"} \subseteq fields
        /\ lines # {}
        /\ "headers" \in fields       <=> "other" \in lines
        /\ "contentLength" \in fields <=> "contentLength" \in lines
        /\ "contentType" \in fields   <=> "contentType" \in lines
        /\ "boundary" \in fields => "contentType" \in fields
        /\ "keepAlive" \in fields => "connection" \in lines
        /\ ahead = <<>> /\ nTokens = 0
===============================================================================
