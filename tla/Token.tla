-------------------------------- MODULE Token --------------------------------
(***************************************************************************)
(* The trace buffer of token.c, through which one client thread reads its  *)
(* connection: tokenGet with its refill and its move of the buffer,        *)
(* tokenDrop, tokenReset, tokenGetRemainedData, and the reader of request  *)
(* content in lclient.c that continues with the socket.                    *)
(*                                                                         *)
(* A byte is its position in the stream, counted from 1, so that the       *)
(* content of the buffer shows which byte ended up where.  What the        *)
(* characters are is left open: for each character http_LexAnalyze may     *)
(* want more, be done with it, or stop before it, and http_LexPostAnalyze  *)
(* may reject the token.  Both analyzers count a character in lenw and     *)
(* lenp alike: len stands for both.                                        *)
(***************************************************************************)
EXTENDS Integers, Sequences

CONSTANTS BufSize,    \* TOKEN_BUF_SIZE
          StreamLen   \* number of bytes the peer sends on the connection

ASSUME BufSizeAssumption   == BufSize \in Nat \ {0}
ASSUME StreamLenAssumption == StreamLen \in Nat

TOKENS_MAX == 2

VARIABLES
    buf,            \* buf[i]: the stream position of the byte stored at i, 0 at first
    nBufChars,      \* bytes in the buffer
    nDroppedChars,  \* bytes of dropped tokens at its start
    nRead,          \* bytes handed out as content, behind the tokens
    nTokens,        \* tokens that are remembered
    tinfo,          \* tinfo[i]: index p of the first byte of token i and its length len
    pc,             \* "idle", in the loop of tokenGet ("lex"), or behind it ("finish")
    rbuf,           \* the read pointer of tokenGet, as an index
    eof,            \* what the last call of tokenGet says of the end of the stream
    parsing,        \* httpProcessRequest is running, the handlers are not yet
    content,        \* the bytes the last call of getContent returned
    received,       \* bytes that were taken from the socket
    direct          \* history: how many of them, since the reset, bypassed the buffer

vars == <<buf, nBufChars, nDroppedChars, nRead, nTokens, tinfo, pc, rbuf, eof, parsing,
          content, received, direct>>

Index == 0 .. BufSize - 1

(* Number of bytes of the remembered tokens.                               *)
TokenChars == (IF nTokens >= 1 THEN tinfo[0].len ELSE 0)
              + (IF nTokens = 2 THEN tinfo[1].len ELSE 0)

Occupied == nDroppedChars + TokenChars + nRead

Init ==
    /\ buf = [i \in Index |-> 0]
    /\ nBufChars = 0 /\ nDroppedChars = 0 /\ nRead = 0 /\ nTokens = 0
    /\ tinfo = [i \in 0 .. TOKENS_MAX - 1 |-> [p |-> 0, len |-> 0]]
    /\ pc = "idle" /\ rbuf = 0 /\ eof = FALSE
    /\ parsing = TRUE
    /\ content = <<>>
    /\ received = 0 /\ direct = 0

(* tokenReset, at the start of every request.                              *)
Reset ==
    /\ pc = "idle"
    /\ nTokens' = 0 /\ nBufChars' = 0 /\ nDroppedChars' = 0 /\ nRead' = 0
    /\ parsing' = TRUE
    /\ direct' = 0
    /\ UNCHANGED <<buf, tinfo, pc, rbuf, eof, content, received>>

(* tokenGet is called; with TOKENS_MAX remembered tokens it returns NULL   *)
(* at once, which is no step.                                              *)
GetBegin ==
    /\ pc = "idle" /\ parsing
    /\ nTokens < TOKENS_MAX
    /\ rbuf' = nDroppedChars + TokenChars
    /\ tinfo' = [tinfo EXCEPT ![nTokens] = [p |-> nDroppedChars + TokenChars, len |-> 0]]
    /\ pc' = "lex"
    /\ eof' = FALSE
    /\ UNCHANGED <<buf, nBufChars, nDroppedChars, nRead, nTokens, parsing, content,
                   received, direct>>

(* A character of the buffer is part of the token; more may follow or not. *)
LexTake(label) ==
    /\ pc = "lex" /\ rbuf < nBufChars
    /\ rbuf' = rbuf + 1
    /\ tinfo' = [tinfo EXCEPT ![nTokens].len = @ + 1]
    /\ pc' = label
    /\ UNCHANGED <<buf, nBufChars, nDroppedChars, nRead, nTokens, eof, parsing, content,
                   received, direct>>

(* It is not, and the token ends before it.                                *)
LexStop ==
    /\ pc = "lex" /\ rbuf < nBufChars
    /\ rbuf' = rbuf + 1
    /\ pc' = "finish"
    /\ UNCHANGED <<buf, nBufChars, nDroppedChars, nRead, nTokens, tinfo, eof, parsing,
                   content, received, direct>>

(* Mutant of Compact: the pointers of the remembered tokens are not moved. *)
CompactStalePointers ==
    /\ pc = "lex" /\ rbuf >= nBufChars /\ nBufChars = BufSize
    /\ nDroppedChars # 0
    /\ buf' = [i \in Index |-> IF i < nBufChars - nDroppedChars
                               THEN buf[i + nDroppedChars] ELSE buf[i]]
    /\ tinfo' = [tinfo EXCEPT ![nTokens].p = @ - nDroppedChars]
    /\ rbuf' = rbuf - nDroppedChars
    /\ nBufChars' = nBufChars - nDroppedChars
    /\ nDroppedChars' = 0
    /\ UNCHANGED <<nRead, nTokens, pc, eof, parsing, content, received, direct>>

(* Mutant of Compact: the read pointer is not moved.                       *)
CompactStaleRbuf ==
    /\ pc = "lex" /\ rbuf >= nBufChars /\ nBufChars = BufSize
    /\ nDroppedChars # 0
    /\ buf' = [i \in Index |-> IF i < nBufChars - nDroppedChars
                               THEN buf[i + nDroppedChars] ELSE buf[i]]
    /\ tinfo' = [i \in 0 .. TOKENS_MAX - 1 |->
                    IF i <= nTokens THEN [tinfo[i] EXCEPT !.p = @ - nDroppedChars]
                                    ELSE tinfo[i]]
    /\ nBufChars' = nBufChars - nDroppedChars
    /\ nDroppedChars' = 0
    /\ UNCHANGED <<rbuf, nRead, nTokens, pc, eof, parsing, content, received, direct>>

(* The buffer is full and read up: the dropped bytes at its start are      *)
(* overwritten by the rest, and every pointer into it moves along.         *)
Compact ==
    /\ pc = "lex" /\ rbuf >= nBufChars /\ nBufChars = BufSize
    /\ nDroppedChars # 0
    /\ buf' = [i \in Index |-> IF i < nBufChars - nDroppedChars
                               THEN buf[i + nDroppedChars] ELSE buf[i]]
    /\ tinfo' = [i \in 0 .. TOKENS_MAX - 1 |->
                    IF i <= nTokens THEN [tinfo[i] EXCEPT !.p = @ - nDroppedChars]
                                    ELSE tinfo[i]]
    /\ rbuf' = rbuf - nDroppedChars
    /\ nBufChars' = nBufChars - nDroppedChars
    /\ nDroppedChars' = 0
    /\ UNCHANGED <<nRead, nTokens, pc, eof, parsing, content, received, direct>>

(* Mutant of TooShort: it does not ask for dropped bytes.                  *)
TooShortAnyway ==
    /\ pc = "lex" /\ rbuf >= nBufChars /\ nBufChars = BufSize
    /\ pc' = "idle"
    /\ UNCHANGED <<buf, nBufChars, nDroppedChars, nRead, nTokens, tinfo, rbuf, eof,
                   parsing, content, received, direct>>

(* "trace buffer too short".                                               *)
TooShort ==
    /\ pc = "lex" /\ rbuf >= nBufChars /\ nBufChars = BufSize
    /\ nDroppedChars = 0
    /\ pc' = "idle"
    /\ UNCHANGED <<buf, nBufChars, nDroppedChars, nRead, nTokens, tinfo, rbuf, eof,
                   parsing, content, received, direct>>

(* Mutant of Fill: the room left is not the limit of what is read.         *)
FillUnlimited(m) ==
    /\ pc = "lex" /\ rbuf >= nBufChars
    /\ received + m <= StreamLen
    /\ buf' = [i \in Index |-> IF i \in rbuf .. rbuf + m - 1
                               THEN received + (i - rbuf) + 1 ELSE buf[i]]
    /\ nBufChars' = nBufChars + m
    /\ received' = received + m
    /\ UNCHANGED <<nDroppedChars, nRead, nTokens, tinfo, pc, rbuf, eof, parsing, content,
                   direct>>

(* getChars puts m bytes at the read pointer.                              *)
Fill(m) ==
    /\ pc = "lex" /\ rbuf >= nBufChars
    /\ m <= BufSize - nBufChars
    /\ received + m <= StreamLen
    /\ buf' = [i \in Index |-> IF i \in rbuf .. rbuf + m - 1
                               THEN received + (i - rbuf) + 1 ELSE buf[i]]
    /\ nBufChars' = nBufChars + m
    /\ received' = received + m
    /\ UNCHANGED <<nDroppedChars, nRead, nTokens, tinfo, pc, rbuf, eof, parsing, content,
                   direct>>

(* getChars reports the end of the stream, on which every token ends, or   *)
(* an error, on which tokenGet returns NULL.                               *)
NoMore(label) ==
    /\ pc = "lex" /\ rbuf >= nBufChars /\ nBufChars < BufSize
    /\ pc' = label
    /\ eof' = (label = "finish")
    /\ UNCHANGED <<buf, nBufChars, nDroppedChars, nRead, nTokens, tinfo, rbuf, parsing,
                   content, received, direct>>

(* A token that is not empty and passes the post analysis is remembered.   *)
Finish ==
    /\ pc = "finish"
    /\ pc' = "idle"
    /\ nTokens' \in {nTokens} \cup (IF tinfo[nTokens].len > 0 THEN {nTokens + 1} ELSE {})
    /\ UNCHANGED <<buf, nBufChars, nDroppedChars, nRead, tinfo, rbuf, eof, parsing, content,
                   received, direct>>

(* Mutant of Drop: the bytes of the tokens are not counted as dropped.     *)
DropUncounted ==
    /\ pc = "idle" /\ parsing
    /\ nTokens' = 0
    /\ UNCHANGED <<buf, nBufChars, nDroppedChars, nRead, tinfo, pc, rbuf, eof, parsing,
                   content, received, direct>>

(* tokenDrop.                                                              *)
Drop ==
    /\ pc = "idle" /\ parsing
    /\ nDroppedChars' = nDroppedChars + TokenChars
    /\ nTokens' = 0
    /\ UNCHANGED <<buf, nBufChars, nRead, tinfo, pc, rbuf, eof, parsing, content, received,
                   direct>>

(* Mutant of GetContent: the socket is read although the buffer has more.  *)
GetContentSkipsBuffer(len, m) ==
    /\ pc = "idle"
    /\ m <= len
    /\ received + m <= StreamLen
    /\ content' = [j \in 1 .. m |-> received + j]
    /\ received' = received + m
    /\ direct' = direct + m
    /\ parsing' = FALSE
    /\ UNCHANGED <<buf, nBufChars, nDroppedChars, nRead, nTokens, tinfo, pc, rbuf, eof>>

(* request:getContent(len): first what tokenGetRemainedData still finds in *)
(* the buffer, and when that is not enough m bytes from the socket (none   *)
(* on end of stream or error).                                             *)
GetContent(len, m) ==
    LET remain == nBufChars - Occupied
        k      == IF remain <= 0 THEN 0 ELSE IF len > remain THEN remain ELSE len
    IN
    /\ pc = "idle"
    /\ m <= len - k
    /\ received + m <= StreamLen
    /\ content' = [j \in 1 .. k + m |-> IF j <= k THEN buf[Occupied + j - 1]
                                        ELSE received + (j - k)]
    /\ nRead' = nRead + k
    /\ received' = received + m
    /\ direct' = direct + m
    /\ parsing' = FALSE
    /\ UNCHANGED <<buf, nBufChars, nDroppedChars, nTokens, tinfo, pc, rbuf, eof>>

Next ==
    \/ Reset
    \/ GetBegin
    \/ LexTake("lex") \/ LexTake("finish") \/ LexStop
    \/ Compact \/ TooShort
    \/ \E m \in 1 .. StreamLen : Fill(m)
    \/ NoMore("finish") \/ NoMore("idle")
    \/ Finish
    \/ Drop
    \/ \E len \in 0 .. StreamLen : \E m \in 0 .. len : GetContent(len, m)

Spec == Init /\ [][Next]_vars

-------------------------------------------------------------------------------
(* The values every variable keeps to.                                     *)
TypeOK ==
    /\ buf \in [Index -> 0 .. StreamLen]
    /\ nBufChars \in 0 .. BufSize
    /\ nDroppedChars \in 0 .. BufSize
    /\ nRead \in 0 .. BufSize
    /\ nTokens \in 0 .. TOKENS_MAX
    /\ tinfo \in [0 .. TOKENS_MAX - 1 -> [p : 0 .. BufSize, len : 0 .. BufSize]]
    /\ pc \in {"idle", "lex", "finish"}
    /\ rbuf \in 0 .. BufSize
    /\ eof \in BOOLEAN
    /\ parsing \in BOOLEAN
    /\ received \in 0 .. StreamLen
    /\ direct \in 0 .. received

(* Dropped bytes, tokens, the token being read and the content handed out  *)
(* lie behind each other in the part of the buffer that is filled          *)
(* (token.c), however often the buffer was refilled and moved.             *)
Layout ==
    /\ nTokens >= 1 => tinfo[0].p = nDroppedChars
    /\ nTokens = 2  => tinfo[1].p = nDroppedChars + tinfo[0].len
    /\ pc = "idle" => Occupied <= nBufChars
    /\ pc # "idle" =>
          /\ parsing /\ nTokens < TOKENS_MAX
          /\ tinfo[nTokens].p = nDroppedChars + TokenChars
          /\ tinfo[nTokens].p + tinfo[nTokens].len <= nBufChars
    /\ pc = "lex" => rbuf = tinfo[nTokens].p + tinfo[nTokens].len
    /\ parsing => nRead = 0 /\ direct = 0

(* The filled part of the buffer holds the last bytes that were put there, *)
(* in the order of the stream.                                             *)
BufferIsStream ==
    /\ nBufChars <= received - direct
    /\ \A i \in Index : i < nBufChars => buf[i] = received - direct - nBufChars + i + 1

(* Content comes from the socket only when the buffer has none left.       *)
ContentAfterBuffer == direct > 0 => Occupied = nBufChars

(* tokenGet gives up on a long token ("trace buffer too short") only when  *)
(* the remembered tokens and the new one fill the whole buffer.            *)
TooShortOnlyWhenFull ==
    [][TooShort => TokenChars + tinfo[nTokens].len = BufSize]_vars

(* What the parser and the handlers see of the buffer is a byte stream:    *)
(* the remembered tokens, the content, and how far they have come.         *)
Taken  == received - nBufChars + Occupied
Tokens == [t \in 1 .. nTokens |-> [j \in 1 .. tinfo[t - 1].len |-> buf[tinfo[t - 1].p + j - 1]]]

Stream == INSTANCE ByteStream WITH taken <- Taken, tokens <- Tokens

ImplementsStream == Stream!Spec
===============================================================================
