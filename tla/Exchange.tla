------------------------------- MODULE Exchange -------------------------------
(***************************************************************************)
(* Requests and responses on one connection that is kept: which bytes of   *)
(* the stream end up in which request.  The trace buffer of Token, the     *)
(* Content-Length of Number and the ROM files of RomFs are put together    *)
(* with client_Service, util.getInput and util.outputFile.                 *)
(*                                                                         *)
(* The peer sends the requests of its plan, each a head of HeadLen bytes   *)
(* and a body whose length the digits in the head say.  The head is read   *)
(* token by token, each token at most MaxToken bytes long; its end, CRLF,  *)
(* needs no look at the byte behind it.  Where the parser finds no token   *)
(* and tries another one is left to Token and Http; where it gives up, in a*)
(* head that is no request, is open here.                                  *)
(***************************************************************************)
EXTENDS Number, RomFs

CONSTANTS BufSize, StreamLen,  \* see Token
          HeadLen,             \* bytes of the head of a request
          MaxToken,            \* bytes of the longest token
          Chunk,               \* chunkSize and CHUNK_SIZE of util.lua
          Scenarios            \* [requests, files]: what a peer is going to send,
                               \* [digits, wants] for each request, where wants is
                               \* "input", a file, or "bad" for a head that is no
                               \* request, and the build of the image

ASSUME BufferAssumption == BufSize \in Nat \ {0} /\ StreamLen \in Nat
ASSUME LengthsAssumption == HeadLen \in Nat \ {0} /\ Chunk \in Nat \ {0}

(* Lua code is in every image, so that none is empty.                      *)
ASSUME ScenariosAssumption ==
    \A c \in Scenarios :
        /\ c.requests \in Seq([digits : Seq(0 .. Base - 1), wants : STRING])
        /\ c.files \in Seq([name : STRING, size : Nat]) /\ c.files # <<>>

VARIABLES
    buf, nBufChars, nDroppedChars, nRead, nTokens, tinfo, pc, rbuf, eof, parsing,
    content, received, direct,  \* see Token
    requests,    \* the plan of the peer
    files,       \* the build of the image
    sent,        \* bytes the peer has sent
    peerClosed,  \* the peer has closed the connection
    answered,    \* requests that were answered
    spc,         \* where the server is with the connection
    n, input,    \* variables of util.getInput
    fd, output,  \* the file of util.outputFile and what was read of it, data
    status,      \* of the response
    failed,      \* history: requests a recv failed for and left without a byte
    ahead        \* history: a request was sent before the one in front was answered

bufVars  == <<buf, nBufChars, nDroppedChars, nRead, nTokens, tinfo, pc, rbuf, eof, parsing,
              content, received, direct>>
peerVars == <<requests, files, sent, peerClosed, ahead>>
runVars  == <<n, input, fd, output, status, failed>>
vars     == <<bufVars, peerVars, answered, spc, runVars>>

Buffer == INSTANCE Token

BodyLen(r) == Decimal(requests[r].digits)

(* Number of bytes in front of request r.                                  *)
Begin == LET at[r \in 1 .. Len(requests) + 1] ==
                IF r = 1 THEN 0 ELSE at[r - 1] + HeadLen + BodyLen(r - 1)
         IN  at

Current   == requests[answered + 1]
HeadEnd   == Begin[answered + 1] + HeadLen
Malformed == answered < Len(requests) /\ Current.wants = "bad"

Init ==
    /\ Buffer!Init
    /\ \E c \in Scenarios : requests = c.requests /\ files = c.files
    /\ sent = 0 /\ peerClosed = FALSE /\ ahead = FALSE
    /\ answered = 0
    /\ spc = "service"
    /\ n = 0 /\ input = <<>>
    /\ fd = [error |-> 0] /\ output = <<>> /\ status = 0
    /\ failed = {}

-------------------------------------------------------------------------------
(* The peer sends the head of request r, or the next byte of its body.     *)
Send(r) ==
    /\ ~peerClosed
    /\ sent >= Begin[r] /\ sent < Begin[r + 1]
    /\ sent' = IF sent = Begin[r] THEN sent + HeadLen ELSE sent + 1
    /\ ahead' = (ahead \/ r > answered + 1)
    /\ UNCHANGED <<bufVars, requests, files, peerClosed, answered, spc, runVars>>

PeerCloses ==
    /\ ~peerClosed
    /\ peerClosed' = TRUE
    /\ UNCHANGED <<bufVars, requests, files, sent, ahead, answered, spc, runVars>>

-------------------------------------------------------------------------------
(* The head of a request: client_Service, httpProcessRequest.              *)

(* tokenReset.  The buffer is empty, the next byte is the next one from    *)
(* the socket: the connection is lost when this is not where the next      *)
(* request begins.                                                         *)
Service ==
    /\ spc = "service"
    /\ Buffer!Reset
    /\ spc' = IF received = Begin[answered + 1] THEN "parse" ELSE "lost"
    /\ input' = <<>> /\ output' = <<>> /\ status' = 0
    /\ UNCHANGED <<peerVars, answered, n, fd, failed>>

(* The stream position of the last byte of the token that is being read.   *)
TokenEnd == Buffer!Taken + tinfo[nTokens].len
InHead == TokenEnd < HeadEnd

GetToken ==
    \/ Buffer!Taken < HeadEnd /\ Buffer!GetBegin
    \/ pc = "lex" /\ TokenEnd + 1 < HeadEnd /\ tinfo[nTokens].len + 1 < MaxToken
       /\ Buffer!LexTake("lex")
    \/ pc = "lex" /\ InHead /\ Buffer!LexTake("finish")
    \/ pc = "lex" /\ InHead /\ (Malformed \/ tinfo[nTokens].len > 0) /\ Buffer!LexStop
    \/ Buffer!Compact
    \/ \E m \in 1 .. BufSize : received + m <= sent /\ Buffer!Fill(m)
    \/ Buffer!Finish /\ nTokens' > nTokens /\ (Malformed => InHead)
    \/ nTokens > 0 /\ Buffer!Drop

Parse ==
    /\ spc = "parse"
    /\ GetToken
    /\ UNCHANGED <<peerVars, answered, spc, runVars>>

(* The peer has closed and everything it sent was read.                    *)
ParseEnds ==
    /\ spc = "parse"
    /\ peerClosed /\ received = sent
    /\ Buffer!NoMore("idle")
    /\ spc' = "closed"
    /\ UNCHANGED <<peerVars, answered, runVars>>

(* httpProcessRequest returns an error: the connection is dropped, or, when*)
(* something of the head was accepted, answered with 400 and kept, since   *)
(* "keep-alive" may have been read by then (client.c:128).                 *)
RejectHead ==
    \/ spc' = "closed" /\ UNCHANGED status
    \/ Buffer!Taken > Begin[answered + 1] /\ spc' = "respond" /\ status' = 400

(* There is no token that the parser could go on with.                     *)
Reject ==
    /\ spc = "parse" /\ Malformed
    /\ Buffer!Finish /\ nTokens' = nTokens
    /\ RejectHead
    /\ UNCHANGED <<peerVars, answered, n, input, fd, output, failed>>

(* recv fails, and with it the token.                                      *)
ParseFails ==
    /\ spc = "parse"
    /\ Buffer!NoMore("idle")
    /\ RejectHead
    /\ failed' = failed \cup {answered + 1}
    /\ UNCHANGED <<peerVars, answered, n, input, fd, output>>

-------------------------------------------------------------------------------
(* The script of the site: util.getInput or util.outputFile.               *)

(* The head is through, and the number in it has been converted.           *)
Run ==
    /\ spc = "parse" /\ pc = "idle" /\ nTokens = 0
    /\ answered < Len(requests) /\ Buffer!Taken = HeadEnd /\ ~Malformed
    /\ IF Current.wants = "input"
       THEN /\ n' = IF Current.digits = <<>> THEN 0 ELSE String2Number(Current.digits)
            /\ status' = 200
            /\ spc' = "input"
            /\ UNCHANGED fd
       ELSE /\ fd' = Open(files, Current.wants)
            /\ status' = IF fd'.error = 0 THEN 200 ELSE 404
            /\ spc' = IF fd'.error = 0 THEN "output" ELSE "respond"
            /\ UNCHANGED n
    /\ UNCHANGED <<bufVars, peerVars, answered, input, output, failed>>

(* What request.getContent(len) returns: as much of the buffer as there    *)
(* is, then what one recv brings, which waits for at least one byte or the *)
(* end of the stream.                                                      *)
Remaining == nBufChars - Buffer!Occupied

Content(len) ==
    \E m \in 0 .. len :
        /\ received + m <= sent
        /\ IF Remaining >= len THEN m = 0 ELSE m > 0 \/ (peerClosed /\ received = sent)
        /\ Buffer!GetContent(len, m)
        /\ UNCHANGED failed

(* The recv fails, of which the script hears nothing.                      *)
ContentFails(len) ==
    /\ Remaining < len
    /\ Buffer!GetContent(len, 0)
    /\ failed' = IF content' = <<>> THEN failed \cup {answered + 1} ELSE failed

(* util.getInput adds the chunk, and gives up on an empty one.             *)
AddChunk ==
    /\ n' = IF content' = <<>> THEN 0 ELSE n - Len(content')
    /\ input' = input \o content'
    /\ UNCHANGED <<peerVars, answered, spc, fd, output, status>>

chunkSize == IF Chunk > n THEN n ELSE Chunk

(* Mutant of Input: the size of a chunk is not cut to what is missing.     *)
InputWholeChunks == spc = "input" /\ n > 0 /\ Content(Chunk) /\ AddChunk

(* Mutant of Input: a short chunk is taken for the last one.               *)
InputShortIsLast ==
    /\ spc = "input" /\ n > 0
    /\ Content(chunkSize)
    /\ n' = IF Len(content') < chunkSize THEN 0 ELSE n - Len(content')
    /\ input' = input \o content'
    /\ UNCHANGED <<peerVars, answered, spc, fd, output, status>>

Input      == spc = "input" /\ n > 0 /\ Content(chunkSize) /\ AddChunk
InputFails == spc = "input" /\ n > 0 /\ ContentFails(chunkSize) /\ AddChunk

(* One chunk of util.outputFile, up to an empty one.                       *)
Output ==
    LET r == ReadLen(fd, Chunk) IN
    /\ spc = "output"
    /\ output' = output \o [j \in 1 .. r |-> Byte(files, fd.offset + j - 1)]
    /\ fd' = [fd EXCEPT !.offset = @ + r]
    /\ spc' = IF r = 0 THEN "respond" ELSE "output"
    /\ UNCHANGED <<bufVars, peerVars, answered, n, input, status, failed>>

InputEnds ==
    /\ spc = "input" /\ n <= 0
    /\ spc' = "respond"
    /\ UNCHANGED <<bufVars, peerVars, answered, runVars>>

(* The response is sent, and the connection is kept.                       *)
Respond ==
    /\ spc = "respond"
    /\ answered' = answered + 1
    /\ spc' = "service"
    /\ UNCHANGED <<bufVars, peerVars, runVars>>

Server ==
    \/ Service \/ Parse \/ ParseEnds \/ Reject
    \/ Run \/ Input \/ InputEnds \/ Output \/ Respond

RecvFails == ParseFails \/ InputFails

Next == Server \/ RecvFails \/ PeerCloses \/ \E r \in 1 .. Len(requests) : Send(r)

Spec == Init /\ [][Next]_vars

(* The thread of the client runs where it does not wait; a peer may be     *)
(* silent for ever, and a recv need not fail.                              *)
FairSpec == Spec /\ WF_vars(Server)

-------------------------------------------------------------------------------
(* The server loses its place in the stream (client.c:117) only ahead,     *)
(* when the peer did not wait for a response, or behind, in a request that *)
(* is answered before its end was received: the peer closed in the middle  *)
(* of it, its script left the body unread, its head was rejected with 400  *)
(* and the connection kept (client.c:128), the length of its body does not *)
(* fit the number, or a recv failed for it, in the head or with nothing in *)
(* the buffer (lclient.c:404).                                             *)
Aligned ==
    spc = "lost" =>
        IF received > Begin[answered + 1] THEN ahead
        ELSE \/ peerClosed /\ sent < Begin[answered + 1]
             \/ requests[answered].wants # "input"
             \/ Overflows(requests[answered].digits)
             \/ answered \in failed

(* What util.getInput returns is the body of this request from its first   *)
(* byte on, and all of it unless its length overflows, the peer closed or  *)
(* a recv failed for it that left it without a byte, however buffer and    *)
(* socket shared it (util.lua:157, lclient.c:399).                         *)
InputIsContent ==
    spc = "respond" /\ Current.wants = "input" =>
        /\ Len(input) <= BodyLen(answered + 1)
        /\ \A j \in 1 .. Len(input) : input[j] = HeadEnd + j
        /\ Len(input) < BodyLen(answered + 1) =>
               \/ peerClosed /\ sent < Begin[answered + 2]
               \/ Overflows(Current.digits)
               \/ answered + 1 \in failed

(* Unless the head was answered with 400, a file of the image is sent as it*)
(* was packed, and 404 only for a file that was not packed, or that is     *)
(* empty and the last of the image, whose head the script then does not    *)
(* fill up (mromfs.c:88, genmromfs.tcl:102).                               *)
OutputIsFile ==
    spc = "respond" /\ Current.wants # "input" /\ status # 400 =>
        IF \E i \in DOMAIN files : /\ files[i].name = Current.wants
                                   /\ i = Len(files) /\ FileHead < Align
                                        => files[i].size > 0
        THEN \E i \in DOMAIN files :
                /\ files[i].name = Current.wants
                /\ status = 200
                /\ output = [j \in 1 .. files[i].size |-> <<Current.wants, j>>]
        ELSE status = 404

(* A request that has arrived is answered, unless the connection ends or   *)
(* the server has lost its place: the reader of the body never waits for   *)
(* more than the body (lclient.c:404).                                     *)
Answered ==
    \A r \in 1 .. 2 :
        (r <= Len(requests) /\ sent >= Begin[r + 1])
            ~> (answered >= r \/ spc \in {"closed", "lost"})
===============================================================================
