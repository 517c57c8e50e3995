----------------------------- MODULE TokenProofs -----------------------------
(***************************************************************************)
(* Proofs about Token, for every size of the trace buffer and every length *)
(* of the stream.                                                          *)
(***************************************************************************)
EXTENDS Token, TLAPS

IInv ==
    /\ TypeOK
    /\ Layout
    /\ BufferIsStream
    /\ ContentAfterBuffer

(* The number of bytes of the remembered tokens, by their number.          *)
LEMMA TokenCharsValue ==
  ASSUME TypeOK
  PROVE  /\ TokenChars \in Nat
         /\ nTokens = 0 => TokenChars = 0
         /\ nTokens = 1 => TokenChars = tinfo[0].len
         /\ nTokens = 2 => TokenChars = tinfo[0].len + tinfo[1].len
<1>1. nTokens \in 0 .. 2 /\ tinfo[0].len \in Nat /\ tinfo[1].len \in Nat
  BY DEF TypeOK, TOKENS_MAX
<1> QED BY <1>1 DEF TokenChars

-------------------------------------------------------------------------------
LEMMA InitIInv == Init => IInv
<1> SUFFICES ASSUME Init PROVE IInv
  OBVIOUS
<1> USE BufSizeAssumption, StreamLenAssumption
<1>1. TypeOK
  BY DEF Init, TypeOK, TOKENS_MAX, Index
<1>2. TokenChars = 0
  BY DEF Init, TokenChars
<1> QED
  BY <1>1, <1>2 DEF Init, IInv, Layout, BufferIsStream, ContentAfterBuffer,
                    Occupied, Index

LEMMA ResetStep == IInv /\ Reset => IInv'
<1> SUFFICES ASSUME IInv, Reset PROVE IInv'
  OBVIOUS
<1> USE BufSizeAssumption, StreamLenAssumption
<1>1. TypeOK'
  BY DEF IInv, TypeOK, Reset, TOKENS_MAX
<1>2. TokenChars' = 0
  BY DEF Reset, TokenChars
<1> QED
  BY <1>1, <1>2 DEF IInv, TypeOK, Reset, Layout, BufferIsStream, ContentAfterBuffer,
                    Occupied, Index

LEMMA GetBeginStep == IInv /\ GetBegin => IInv'
<1> SUFFICES ASSUME IInv, GetBegin PROVE IInv'
  OBVIOUS
<1> USE BufSizeAssumption, StreamLenAssumption
<1>1. nTokens \in {0, 1} /\ TokenChars \in Nat
      /\ nDroppedChars + TokenChars <= nBufChars
  BY TokenCharsValue DEF IInv, TypeOK, GetBegin, Layout, TOKENS_MAX, Occupied
<1>2. /\ tinfo' = [tinfo EXCEPT ![nTokens] = [p |-> nDroppedChars + TokenChars, len |-> 0]]
      /\ nTokens' = nTokens
  BY DEF GetBegin
<1>3. TypeOK'
  <2>1. eof' \in BOOLEAN /\ parsing' \in BOOLEAN
    BY DEF IInv, TypeOK, GetBegin
  <2> QED BY <1>1, <1>2, <2>1 DEF IInv, TypeOK, GetBegin, TOKENS_MAX
<1>4. TokenChars' = TokenChars
  BY <1>1, <1>2 DEF IInv, TypeOK, TokenChars, TOKENS_MAX
<1>5. Layout'
  BY <1>1, <1>2, <1>4 DEF IInv, TypeOK, Layout, GetBegin, TOKENS_MAX
<1>6. BufferIsStream' /\ ContentAfterBuffer'
  BY <1>4 DEF IInv, BufferIsStream, ContentAfterBuffer, GetBegin, Occupied
<1> QED BY <1>3, <1>5, <1>6 DEF IInv

LEMMA LexTakeStep ==
  ASSUME IInv, NEW label \in {"lex", "finish"}, LexTake(label)
  PROVE  IInv'
<1> USE BufSizeAssumption, StreamLenAssumption
<1>1. nTokens \in {0, 1} /\ rbuf = tinfo[nTokens].p + tinfo[nTokens].len
  BY DEF IInv, TypeOK, LexTake, Layout, TOKENS_MAX
<1>2. /\ tinfo' = [tinfo EXCEPT ![nTokens].len = @ + 1]
      /\ nTokens' = nTokens
  BY DEF LexTake
<1>3. TypeOK'
  BY <1>1, <1>2 DEF IInv, TypeOK, LexTake, TOKENS_MAX
<1>4. TokenChars' = TokenChars
  BY <1>1, <1>2 DEF IInv, TypeOK, TokenChars, TOKENS_MAX
<1>5. Layout'
  BY <1>1, <1>2, <1>4 DEF IInv, TypeOK, Layout, LexTake, TOKENS_MAX
<1>6. BufferIsStream' /\ ContentAfterBuffer'
  BY <1>4 DEF IInv, BufferIsStream, ContentAfterBuffer, LexTake, Occupied
<1> QED BY <1>3, <1>5, <1>6 DEF IInv

(* Steps that end the loop of tokenGet or leave it, and touch neither the  *)
(* buffer nor the tokens.                                                  *)
LEMMA LeaveStep ==
  ASSUME IInv, LexStop \/ TooShort \/ NoMore("finish") \/ NoMore("idle")
  PROVE  IInv'
<1> USE BufSizeAssumption, StreamLenAssumption
<1>1. UNCHANGED <<buf, nBufChars, nDroppedChars, nRead, nTokens, tinfo, parsing,
                  received, direct>>
  BY DEF LexStop, TooShort, NoMore
<1>2. pc = "lex" /\ pc' \in {"finish", "idle"} /\ rbuf' \in 0 .. BufSize
  BY DEF LexStop, TooShort, NoMore, IInv, TypeOK
<1>7. eof' \in BOOLEAN
  <2>1. eof' = eof \/ eof' = TRUE \/ eof' = FALSE
    BY DEF LexStop, TooShort, NoMore
  <2> QED BY <2>1 DEF IInv, TypeOK
<1>3. TypeOK'
  BY <1>1, <1>2, <1>7 DEF IInv, TypeOK
<1>4. TokenChars' = TokenChars /\ TokenChars \in Nat
  BY <1>1, TokenCharsValue DEF TokenChars, IInv
<1>5. Layout'
  BY <1>1, <1>2, <1>4 DEF IInv, TypeOK, Layout, TOKENS_MAX, Occupied
<1>6. BufferIsStream' /\ ContentAfterBuffer'
  BY <1>1, <1>4 DEF IInv, BufferIsStream, ContentAfterBuffer, Occupied
<1> QED BY <1>3, <1>5, <1>6 DEF IInv

LEMMA CompactStep == IInv /\ Compact => IInv'
<1> SUFFICES ASSUME IInv, Compact PROVE IInv'
  OBVIOUS
<1> USE BufSizeAssumption, StreamLenAssumption
<1>1. /\ nTokens \in {0, 1} /\ parsing
      /\ nTokens = 1 => tinfo[0].p = nDroppedChars
      /\ tinfo[nTokens].p = nDroppedChars + TokenChars
      /\ rbuf = tinfo[nTokens].p + tinfo[nTokens].len
      /\ rbuf <= nBufChars
      /\ TokenChars \in Nat
  BY TokenCharsValue DEF IInv, TypeOK, Compact, Layout, TOKENS_MAX
<1>2. tinfo' = [i \in 0 .. 1 |-> IF i <= nTokens
                                 THEN [tinfo[i] EXCEPT !.p = @ - nDroppedChars]
                                 ELSE tinfo[i]]
  BY DEF Compact, TOKENS_MAX
<1>3. \A i \in 0 .. 1 : /\ tinfo'[i].len = tinfo[i].len
                        /\ i <= nTokens => tinfo'[i].p = tinfo[i].p - nDroppedChars
                        /\ i > nTokens => tinfo'[i].p = tinfo[i].p
  BY <1>1, <1>2 DEF IInv, TypeOK, TOKENS_MAX
<1>4. tinfo' \in [0 .. 1 -> [p : 0 .. BufSize, len : 0 .. BufSize]]
  <2>1. \A i \in 0 .. nTokens : tinfo[i].p - nDroppedChars \in 0 .. BufSize
    BY <1>1 DEF IInv, TypeOK, TOKENS_MAX
  <2> QED BY <1>1, <1>2, <2>1 DEF IInv, TypeOK, TOKENS_MAX
<1>5. buf' \in [Index -> 0 .. StreamLen]
  BY DEF IInv, TypeOK, Compact, Index
<1>6. TypeOK'
  BY <1>1, <1>4, <1>5 DEF IInv, TypeOK, Compact, TOKENS_MAX
<1>7. TokenChars' = TokenChars
  BY <1>3 DEF TokenChars, Compact
<1>8. Layout'
  BY <1>1, <1>3, <1>7 DEF IInv, TypeOK, Layout, Compact, TOKENS_MAX
<1>9. BufferIsStream'
  <2>1. /\ nBufChars' = nBufChars - nDroppedChars
        /\ received' = received /\ direct' = direct
        /\ \A i \in Index : i < nBufChars' => buf'[i] = buf[i + nDroppedChars]
    BY DEF Compact
  <2>2. ASSUME NEW i \in Index, i < nBufChars'
        PROVE  buf'[i] = received' - direct' - nBufChars' + i + 1
    <3>1. i + nDroppedChars \in Index /\ i + nDroppedChars < nBufChars
      BY <2>1, <2>2 DEF IInv, TypeOK, Index
    <3>2. buf[i + nDroppedChars] = received - direct - nBufChars + (i + nDroppedChars) + 1
      BY <3>1 DEF IInv, BufferIsStream
    <3> QED BY <2>1, <2>2, <3>2 DEF IInv, TypeOK, Index
  <2>3. nBufChars' <= received' - direct'
    BY <2>1 DEF IInv, TypeOK, BufferIsStream
  <2> QED BY <2>2, <2>3 DEF BufferIsStream
<1>10. ContentAfterBuffer'
  BY <1>1 DEF IInv, Layout, ContentAfterBuffer, Compact
<1> QED BY <1>6, <1>8, <1>9, <1>10 DEF IInv

LEMMA FillStep == ASSUME IInv, NEW m \in 1 .. StreamLen, Fill(m) PROVE IInv'
<1> USE BufSizeAssumption, StreamLenAssumption
<1>1. rbuf = nBufChars /\ parsing /\ direct = 0 /\ nTokens \in {0, 1}
  BY DEF IInv, TypeOK, Fill, Layout, TOKENS_MAX
<1>2. UNCHANGED <<nDroppedChars, nRead, nTokens, tinfo, pc, rbuf, eof, parsing, direct>>
  BY DEF Fill
<1>3. /\ buf' = [i \in Index |-> IF i \in rbuf .. rbuf + m - 1
                                 THEN received + (i - rbuf) + 1 ELSE buf[i]]
      /\ nBufChars' = nBufChars + m /\ nBufChars + m <= BufSize
      /\ received' = received + m /\ received + m <= StreamLen
  BY DEF Fill, IInv, TypeOK
<1>4. buf' \in [Index -> 0 .. StreamLen]
  BY <1>3 DEF IInv, TypeOK, Index
<1>5. TypeOK'
  BY <1>2, <1>3, <1>4 DEF IInv, TypeOK
<1>6. TokenChars' = TokenChars
  BY <1>2 DEF TokenChars
<1>7. Layout'
  BY <1>1, <1>2, <1>3, <1>6 DEF IInv, TypeOK, Layout, Fill, TOKENS_MAX
<1>8. BufferIsStream'
  BY <1>1, <1>2, <1>3 DEF IInv, TypeOK, BufferIsStream, Index
<1>9. ContentAfterBuffer'
  BY <1>1, <1>2 DEF ContentAfterBuffer
<1> QED BY <1>5, <1>7, <1>8, <1>9 DEF IInv

LEMMA FinishStep == IInv /\ Finish => IInv'
<1> SUFFICES ASSUME IInv, Finish PROVE IInv'
  OBVIOUS
<1> USE BufSizeAssumption, StreamLenAssumption
<1>1. /\ nTokens \in {0, 1} /\ parsing /\ nRead = 0 /\ direct = 0
      /\ tinfo[nTokens].p = nDroppedChars + TokenChars
      /\ tinfo[nTokens].p + tinfo[nTokens].len <= nBufChars
      /\ tinfo[nTokens].len \in Nat
  BY DEF IInv, TypeOK, Finish, Layout, TOKENS_MAX
<1>2. /\ UNCHANGED <<buf, nBufChars, nDroppedChars, nRead, tinfo, rbuf, eof, parsing,
                     received, direct>>
      /\ pc' = "idle" /\ nTokens' \in {nTokens, nTokens + 1}
  BY DEF Finish
<1>3. TypeOK'
  BY <1>1, <1>2 DEF IInv, TypeOK, TOKENS_MAX
<1>4. /\ TokenChars \in Nat
      /\ nTokens' = nTokens => TokenChars' = TokenChars
      /\ nTokens' = nTokens + 1 => TokenChars' = TokenChars + tinfo[nTokens].len
  BY <1>1, <1>2, TokenCharsValue DEF TokenChars, IInv, TypeOK, TOKENS_MAX
<1>5. Layout'
  <2>1. Occupied' <= nBufChars'
    BY <1>1, <1>2, <1>4 DEF Occupied, IInv, TypeOK
  <2>2. nTokens' = 2 => tinfo'[1].p = nDroppedChars' + tinfo'[0].len
    BY <1>1, <1>2, TokenCharsValue DEF IInv, TypeOK, TOKENS_MAX
  <2>3. nTokens' >= 1 => tinfo'[0].p = nDroppedChars'
    BY <1>1, <1>2, TokenCharsValue DEF IInv, TypeOK, Layout, TOKENS_MAX
  <2> QED BY <1>1, <1>2, <2>1, <2>2, <2>3 DEF Layout
<1>6. BufferIsStream' /\ ContentAfterBuffer'
  BY <1>1, <1>2 DEF IInv, BufferIsStream, ContentAfterBuffer
<1> QED BY <1>3, <1>5, <1>6 DEF IInv

LEMMA DropStep == IInv /\ Drop => IInv'
<1> SUFFICES ASSUME IInv, Drop PROVE IInv'
  OBVIOUS
<1> USE BufSizeAssumption, StreamLenAssumption
<1>1. /\ UNCHANGED <<buf, nBufChars, nRead, tinfo, pc, rbuf, eof, parsing, received, direct>>
      /\ pc = "idle" /\ parsing /\ nTokens' = 0
      /\ nDroppedChars' = nDroppedChars + TokenChars
  BY DEF Drop
<1>2. TokenChars \in Nat /\ TokenChars' = 0 /\ nRead = 0 /\ direct = 0
      /\ nDroppedChars + TokenChars <= nBufChars
  BY <1>1, TokenCharsValue DEF TokenChars, IInv, TypeOK, Layout, Occupied
<1>3. TypeOK'
  BY <1>1, <1>2 DEF IInv, TypeOK, TOKENS_MAX
<1>4. Layout'
  BY <1>1, <1>2 DEF IInv, TypeOK, Layout, Occupied
<1>5. BufferIsStream' /\ ContentAfterBuffer'
  BY <1>1, <1>2 DEF IInv, BufferIsStream, ContentAfterBuffer
<1> QED BY <1>3, <1>4, <1>5 DEF IInv

(* How many bytes getContent finds in the buffer, and what it changes.     *)
LEMMA ContentChanges ==
  ASSUME IInv, NEW len \in Nat, NEW m \in 0 .. len, GetContent(len, m)
  PROVE  \E k \in 0 .. len :
            /\ Occupied \in Nat /\ Occupied + k <= nBufChars
            /\ m > 0 => Occupied + k = nBufChars
            /\ k + m <= len
            /\ k < len => Occupied + k = nBufChars
            /\ nRead' = nRead + k
            /\ content' = [j \in 1 .. k + m |-> IF j <= k THEN buf[Occupied + j - 1]
                                                ELSE received + (j - k)]
<1> DEFINE remain == nBufChars - Occupied
           k == IF remain <= 0 THEN 0 ELSE IF len > remain THEN remain ELSE len
<1>1. Occupied \in Nat /\ Occupied <= nBufChars /\ nBufChars \in Nat /\ len \in Nat /\ m \in Nat
  BY TokenCharsValue DEF IInv, TypeOK, Layout, Occupied, GetContent
<1>2. m <= len - k /\ nRead' = nRead + k
      /\ content' = [j \in 1 .. k + m |-> IF j <= k THEN buf[Occupied + j - 1]
                                          ELSE received + (j - k)]
  BY DEF GetContent
<1>3. /\ k \in 0 .. len /\ k + m <= len /\ Occupied + k <= nBufChars
      /\ (m > 0 \/ k < len) => Occupied + k = nBufChars
  BY <1>1, <1>2
<1> HIDE DEF k
<1> QED BY <1>1, <1>2, <1>3

LEMMA ContentStep ==
  ASSUME IInv, NEW len \in Nat, NEW m \in 0 .. len, GetContent(len, m)
  PROVE  IInv'
<1> USE BufSizeAssumption, StreamLenAssumption
<1>1. PICK k \in 0 .. len :
            /\ Occupied \in Nat /\ Occupied + k <= nBufChars
            /\ m > 0 => Occupied + k = nBufChars
            /\ nRead' = nRead + k
  BY ContentChanges
<1>2. /\ UNCHANGED <<buf, nBufChars, nDroppedChars, nTokens, tinfo, pc, rbuf, eof>>
      /\ received' = received + m /\ direct' = direct + m /\ parsing' = FALSE
      /\ received + m <= StreamLen /\ pc = "idle"
  BY DEF GetContent
<1>3. TokenChars' = TokenChars /\ TokenChars \in Nat /\ Occupied' = Occupied + k
  BY <1>1, <1>2, TokenCharsValue DEF TokenChars, Occupied, IInv, TypeOK
<1>4. TypeOK'
  <2>1. nRead' \in 0 .. BufSize
    BY <1>1, <1>2, <1>3 DEF IInv, TypeOK, Occupied
  <2>2. parsing' \in BOOLEAN
    BY <1>2
  <2>3. received' \in 0 .. StreamLen /\ direct' \in 0 .. received'
    BY <1>2 DEF IInv, TypeOK
  <2>4. UNCHANGED <<buf, nBufChars, nDroppedChars, nTokens, tinfo, pc, rbuf, eof>>
    BY <1>2
  <2> QED BY <2>1, <2>2, <2>3, <2>4 DEF IInv, TypeOK, Index
<1>5. Layout'
  BY <1>1, <1>2, <1>3 DEF IInv, TypeOK, Layout
<1>6. BufferIsStream'
  BY <1>2 DEF IInv, TypeOK, BufferIsStream
<1>7. ContentAfterBuffer'
  BY <1>1, <1>2, <1>3 DEF IInv, TypeOK, ContentAfterBuffer
<1> QED BY <1>4, <1>5, <1>6, <1>7 DEF IInv

LEMMA StutterStep == IInv /\ UNCHANGED vars => IInv'
  BY DEF vars, IInv, TypeOK, Layout, BufferIsStream, ContentAfterBuffer, Occupied,
         TokenChars, Index, TOKENS_MAX

(* The layout of the buffer and its content are invariant.                 *)
THEOREM Invariance == Spec => []IInv
<1>1. Init => IInv
  BY InitIInv
<1>2. IInv /\ [Next]_vars => IInv'
  <2>1. ASSUME IInv, NEW len \in 0 .. StreamLen, NEW m \in 0 .. len, GetContent(len, m)
        PROVE  IInv'
    <3>1. len \in Nat
      BY StreamLenAssumption
    <3> QED BY <2>1, <3>1, ContentStep
  <2> QED
    BY <2>1, ResetStep, GetBeginStep, LexTakeStep, LeaveStep, CompactStep, FillStep,
       FinishStep, DropStep, StutterStep
       DEF Next
<1> QED BY <1>1, <1>2, PTL DEF Spec

(* Every variable keeps its type: in particular no index leaves the        *)
(* buffer, whatever was received, remembered, dropped and handed out.      *)
THEOREM TypeCorrect == Spec => []TypeOK
<1>1. IInv => TypeOK
  BY DEF IInv
<1> QED BY <1>1, Invariance, PTL

(* Dropped bytes, tokens and content lie behind each other in the filled   *)
(* part of the buffer.                                                     *)
THEOREM LayoutKept == Spec => []Layout
<1>1. IInv => Layout
  BY DEF IInv
<1> QED BY <1>1, Invariance, PTL

(* The filled part of the buffer is a piece of the stream, in order.       *)
THEOREM BufferInOrder == Spec => []BufferIsStream
<1>1. IInv => BufferIsStream
  BY DEF IInv
<1> QED BY <1>1, Invariance, PTL

(* The socket is read for content only when the buffer has none left.      *)
THEOREM ContentInOrder == Spec => []ContentAfterBuffer
<1>1. IInv => ContentAfterBuffer
  BY DEF IInv
<1> QED BY <1>1, Invariance, PTL

(* tokenGet gives up on a token only when the remembered tokens and the    *)
(* new one fill the whole buffer.                                          *)
THEOREM TooShortJustified == Spec => TooShortOnlyWhenFull
<1>1. IInv /\ TooShort => TokenChars + tinfo[nTokens].len = BufSize
  <2> SUFFICES ASSUME IInv, TooShort
               PROVE  TokenChars + tinfo[nTokens].len = BufSize
    OBVIOUS
  <2>1. nTokens \in {0, 1} /\ rbuf = tinfo[nTokens].p + tinfo[nTokens].len
        /\ tinfo[nTokens].p = nDroppedChars + TokenChars /\ rbuf <= nBufChars
    BY DEF IInv, TypeOK, Layout, TooShort, TOKENS_MAX
  <2>2. TokenChars \in Nat /\ tinfo[nTokens].len \in Nat
    BY <2>1, TokenCharsValue DEF IInv, TypeOK, TOKENS_MAX
  <2> QED
    BY <2>1, <2>2, BufSizeAssumption DEF IInv, TypeOK, TooShort
<1>2. IInv => [TooShort => TokenChars + tinfo[nTokens].len = BufSize]_vars
  BY <1>1
<1> QED BY <1>2, Invariance, PTL DEF TooShortOnlyWhenFull

-------------------------------------------------------------------------------
(* A remembered token starts behind the dropped bytes and ends within the  *)
(* filled part of the buffer.                                              *)
LEMMA TokenInside ==
  ASSUME IInv, NEW t \in 1 .. nTokens
  PROVE  /\ t - 1 \in 0 .. 1
         /\ tinfo[t - 1].len \in Nat
         /\ tinfo[t - 1].p \in Nat
         /\ tinfo[t - 1].p >= nDroppedChars
         /\ tinfo[t - 1].p + tinfo[t - 1].len <= nBufChars
<1>1. nTokens \in 0 .. 2 /\ t \in {1, 2} /\ (t = 2 => nTokens = 2) /\ nTokens >= 1
  BY DEF IInv, TypeOK, TOKENS_MAX
<1>2. /\ tinfo[0].len \in Nat /\ tinfo[1].len \in Nat
      /\ tinfo[0].p \in Nat /\ tinfo[1].p \in Nat
  BY DEF IInv, TypeOK, TOKENS_MAX
<1>3. nDroppedChars + TokenChars <= nBufChars
  <2>1. CASE pc = "idle"
    BY <2>1, TokenCharsValue DEF IInv, TypeOK, Layout, Occupied
  <2>2. CASE pc # "idle"
    BY <1>1, <1>2, <2>2, TokenCharsValue DEF IInv, TypeOK, Layout, TOKENS_MAX
  <2> QED BY <2>1, <2>2
<1>4. tinfo[0].p = nDroppedChars /\ (nTokens = 2 => tinfo[1].p = nDroppedChars + tinfo[0].len)
  BY <1>1 DEF IInv, Layout
<1>5. nDroppedChars \in Nat /\ nBufChars \in Nat
  BY BufSizeAssumption DEF IInv, TypeOK
<1>6. CASE t = 1
  <2>1. TokenChars >= tinfo[0].len /\ TokenChars \in Nat
    BY <1>1, <1>2 DEF TokenChars
  <2> QED BY <1>2, <1>3, <1>4, <1>5, <1>6, <2>1
<1>7. CASE t = 2
  <2>1. TokenChars = tinfo[0].len + tinfo[1].len /\ nTokens = 2
    BY <1>1, <1>2, <1>7 DEF TokenChars
  <2> QED BY <1>2, <1>3, <1>4, <1>5, <1>7, <2>1
<1> QED BY <1>1, <1>6, <1>7

(* A step that moves no token changes none.                                *)
LEMMA SameTokens ==
  ASSUME nTokens' = nTokens,
         \A t \in 1 .. nTokens :
            /\ tinfo'[t - 1].len = tinfo[t - 1].len
            /\ \A j \in 1 .. tinfo[t - 1].len :
                  buf'[tinfo'[t - 1].p + j - 1] = buf[tinfo[t - 1].p + j - 1]
  PROVE  Tokens' = Tokens
  BY DEF Tokens

(* The table of tokens and the buffer are left alone below the token that  *)
(* is being read.                                                          *)
LEMMA LexKeepsTokens ==
  ASSUME IInv, nTokens' = nTokens, buf' = buf, nTokens \in {0, 1},
         \A i \in 0 .. 1 : i # nTokens => tinfo'[i] = tinfo[i]
  PROVE  Tokens' = Tokens /\ TokenChars' = TokenChars
<1>1. \A t \in 1 .. nTokens : t - 1 \in 0 .. 1 /\ t - 1 # nTokens
  OBVIOUS
<1>2. Tokens' = Tokens
  BY <1>1, SameTokens
<1>3. TokenChars' = TokenChars
  BY DEF TokenChars
<1> QED BY <1>2, <1>3

(* What was taken of the stream was received, and every count is one.      *)
LEMMA TakenInStream ==
  ASSUME IInv
  PROVE  /\ Taken \in Nat /\ Taken <= received /\ received <= StreamLen
         /\ TokenChars \in Nat /\ Occupied \in Nat /\ Occupied <= nBufChars
         /\ received \in Nat /\ direct \in Nat /\ nBufChars \in Nat /\ nBufChars <= BufSize
         /\ nDroppedChars \in Nat /\ nRead \in Nat /\ nTokens \in 0 .. 2
         /\ nBufChars <= received - direct
<1> USE BufSizeAssumption, StreamLenAssumption
<1>1. TokenChars \in Nat
  BY TokenCharsValue DEF IInv
<1>2. nDroppedChars + TokenChars + nRead <= nBufChars
  <2>1. CASE pc = "idle"
    BY <2>1 DEF IInv, Layout, Occupied
  <2>2. CASE pc # "idle"
    BY <1>1, <2>2 DEF IInv, TypeOK, Layout, TOKENS_MAX
  <2> QED BY <2>1, <2>2
<1>3. /\ received \in Nat /\ direct \in Nat /\ nBufChars \in Nat /\ nBufChars <= BufSize
      /\ nDroppedChars \in Nat /\ nRead \in Nat /\ nTokens \in 0 .. 2
      /\ nBufChars <= received - direct /\ received <= StreamLen
  BY DEF IInv, TypeOK, BufferIsStream, TOKENS_MAX
<1> QED BY <1>1, <1>2, <1>3 DEF Taken, Occupied

(* The content getContent returns is what follows in the stream, whatever  *)
(* the buffer and the socket contribute, and the socket is asked only when *)
(* the buffer has no more.                                                 *)
LEMMA ContentIsNext ==
  ASSUME IInv, NEW len \in Nat, NEW m \in 0 .. len, GetContent(len, m)
  PROVE  \E k \in 0 .. len :
            /\ k + m <= len
            /\ Taken + k <= received /\ (k < len => Taken + k = received)
            /\ content' = [j \in 1 .. k + m |-> Taken + j]
            /\ Taken' = Taken + (k + m)
            /\ received' = received + m /\ received' <= StreamLen
            /\ UNCHANGED <<Tokens, TokenChars>>
<1>0. /\ Taken \in Nat /\ received \in Nat /\ Occupied \in Nat
      /\ nBufChars \in Nat /\ nBufChars <= BufSize /\ BufSize \in Nat
      /\ nDroppedChars \in Nat /\ TokenChars \in Nat /\ nRead \in Nat
  BY TakenInStream, BufSizeAssumption
<1>1. PICK k \in 0 .. len :
        /\ Occupied \in Nat /\ Occupied + k <= nBufChars
        /\ m > 0 => Occupied + k = nBufChars
        /\ k + m <= len
        /\ k < len => Occupied + k = nBufChars
        /\ nRead' = nRead + k
        /\ content' = [j \in 1 .. k + m |-> IF j <= k THEN buf[Occupied + j - 1]
                                            ELSE received + (j - k)]
  BY ContentChanges
<1>2. /\ UNCHANGED <<buf, nBufChars, nDroppedChars, nTokens, tinfo>>
      /\ received' = received + m /\ received + m <= StreamLen
  BY DEF GetContent
<1>3. Tokens' = Tokens /\ TokenChars' = TokenChars
  BY <1>2 DEF Tokens, TokenChars
<1>4. /\ Taken' = Taken + (k + m)
      /\ Taken + k <= received /\ (k < len => Taken + k = received)
  BY <1>0, <1>1, <1>2, <1>3 DEF Taken, Occupied
<1>5. ASSUME NEW j \in 1 .. k + m
      PROVE  (IF j <= k THEN buf[Occupied + j - 1] ELSE received + (j - k)) = Taken + j
  <2>1. CASE j <= k
    <3>1. Occupied + j - 1 \in Index /\ Occupied + j - 1 < nBufChars /\ Occupied < nBufChars
      BY <1>0, <1>1, <2>1 DEF Index
    <3>2. direct = 0
      BY <3>1 DEF IInv, TypeOK, ContentAfterBuffer
    <3>3. buf[Occupied + j - 1] = received - direct - nBufChars + (Occupied + j - 1) + 1
      BY <3>1 DEF IInv, BufferIsStream
    <3> QED BY <1>0, <1>1, <2>1, <3>2, <3>3 DEF Taken
  <2>2. CASE j > k
    BY <1>0, <1>1, <2>2 DEF Taken
  <2> QED BY <2>1, <2>2
<1> QED BY <1>1, <1>2, <1>3, <1>4, <1>5

(* The trace buffer implements the byte stream of ByteStream: no refill,   *)
(* no move of the buffer and no order of calls lets a token or a piece of  *)
(* content be anything but the next bytes of the connection.               *)
THEOREM Refinement == Spec => ImplementsStream
<1> USE BufSizeAssumption, StreamLenAssumption
<1>1. Init => Stream!Init
  BY DEF Init, Stream!Init, Taken, Tokens, Occupied, TokenChars
<1>2. IInv /\ IInv' /\ [Next]_vars => [Stream!Next]_(Stream!absVars)
  <2> SUFFICES ASSUME IInv, IInv', [Next]_vars
               PROVE  Stream!Next \/ UNCHANGED <<Taken, Tokens, content>>
    BY DEF Stream!absVars
  <2>0. /\ Taken \in Nat /\ Taken <= received /\ received <= StreamLen
        /\ TokenChars \in Nat /\ Occupied \in Nat
        /\ received \in Nat /\ direct \in Nat /\ nBufChars \in Nat /\ nBufChars <= BufSize
        /\ nDroppedChars \in Nat /\ nRead \in Nat /\ nTokens \in 0 .. 2
        /\ nBufChars <= received - direct
    BY TakenInStream
  <2>1. CASE Reset
    <3>1. Tokens' = <<>> /\ content' = content
      BY <2>1 DEF Reset, Tokens
    <3>2. Taken' = received
      BY <2>0, <2>1 DEF Reset, Taken, Occupied, TokenChars
    <3> QED BY <2>0, <3>1, <3>2 DEF Stream!Next, Stream!Reset
  <2>2. CASE GetBegin
    <3>1. Tokens' = Tokens /\ TokenChars' = TokenChars
      BY <2>2, LexKeepsTokens DEF GetBegin, IInv, TypeOK, TOKENS_MAX
    <3> QED BY <2>2, <3>1 DEF GetBegin, Taken, Occupied
  <2>3. ASSUME NEW label \in {"lex", "finish"}, LexTake(label)
        PROVE  UNCHANGED <<Taken, Tokens, content>>
    <3>1. Tokens' = Tokens /\ TokenChars' = TokenChars
      BY <2>3, LexKeepsTokens DEF LexTake, IInv, TypeOK, Layout, TOKENS_MAX
    <3> QED BY <2>3, <3>1 DEF LexTake, Taken, Occupied
  <2>4. CASE LexStop \/ TooShort \/ NoMore("finish") \/ NoMore("idle")
    <3>1. UNCHANGED <<buf, nBufChars, nDroppedChars, nRead, nTokens, tinfo, content, received>>
      BY <2>4 DEF LexStop, TooShort, NoMore
    <3> QED BY <3>1 DEF Taken, Tokens, Occupied, TokenChars
  <2>5. CASE Compact
    <3>1. nTokens \in {0, 1} /\ nDroppedChars \in Nat /\ nBufChars = BufSize
      BY <2>5 DEF Compact, IInv, TypeOK, Layout, TOKENS_MAX
    <3>2. \A i \in 0 .. 1 : /\ tinfo'[i].len = tinfo[i].len
                            /\ i <= nTokens => tinfo'[i].p = tinfo[i].p - nDroppedChars
      BY <2>5 DEF Compact, IInv, TypeOK, TOKENS_MAX
    <3>3. ASSUME NEW t \in 1 .. nTokens, NEW j \in 1 .. tinfo[t - 1].len
          PROVE  buf'[tinfo'[t - 1].p + j - 1] = buf[tinfo[t - 1].p + j - 1]
      <4>1. /\ t - 1 \in 0 .. 1 /\ t - 1 <= nTokens /\ tinfo[t - 1].p \in Nat
            /\ tinfo[t - 1].p >= nDroppedChars
            /\ tinfo[t - 1].p + tinfo[t - 1].len <= nBufChars /\ tinfo[t - 1].len \in Nat
        BY <3>1, TokenInside
      <4>2. tinfo'[t - 1].p = tinfo[t - 1].p - nDroppedChars
        BY <3>2, <4>1
      <4>3. /\ tinfo'[t - 1].p + j - 1 \in 0 .. BufSize - 1
            /\ tinfo'[t - 1].p + j - 1 < nBufChars - nDroppedChars
        BY <3>1, <4>1, <4>2
      <4>4. buf'[tinfo'[t - 1].p + j - 1] = buf[tinfo'[t - 1].p + j - 1 + nDroppedChars]
        BY <2>5, <4>3 DEF Compact, Index
      <4>5. tinfo'[t - 1].p + j - 1 + nDroppedChars = tinfo[t - 1].p + j - 1
        BY <3>1, <4>1, <4>2
      <4> QED BY <4>4, <4>5
    <3>4. Tokens' = Tokens
      <4>1. \A t \in 1 .. nTokens : tinfo'[t - 1].len = tinfo[t - 1].len
        BY <3>1, <3>2
      <4> QED BY <2>5, <3>3, <4>1, SameTokens DEF Compact
    <3>5. Taken' = Taken
      <4>1. TokenChars' = TokenChars
        BY <2>5, <3>1, <3>2 DEF Compact, TokenChars
      <4> QED BY <2>0, <2>5, <4>1 DEF Compact, Taken, Occupied
    <3> QED BY <2>5, <3>4, <3>5 DEF Compact
  <2>6. ASSUME NEW m \in 1 .. StreamLen, Fill(m)
        PROVE  UNCHANGED <<Taken, Tokens, content>>
    <3>1. rbuf = nBufChars
      BY <2>6 DEF Fill, IInv, TypeOK, Layout, TOKENS_MAX
    <3>2. ASSUME NEW t \in 1 .. nTokens, NEW j \in 1 .. tinfo[t - 1].len
          PROVE  buf'[tinfo[t - 1].p + j - 1] = buf[tinfo[t - 1].p + j - 1]
      <4>1. tinfo[t - 1].p + j - 1 \in 0 .. nBufChars - 1
        <5>1. /\ tinfo[t - 1].len \in Nat /\ tinfo[t - 1].p \in Nat
              /\ tinfo[t - 1].p + tinfo[t - 1].len <= nBufChars
          BY TokenInside
        <5> QED BY <2>0, <5>1
      <4> DEFINE q == tinfo[t - 1].p + j - 1
      <4>2. q \in Index /\ q \notin rbuf .. rbuf + m - 1
        BY <2>0, <3>1, <4>1 DEF Index
      <4>3. buf' = [i \in Index |-> IF i \in rbuf .. rbuf + m - 1
                                   THEN received + (i - rbuf) + 1 ELSE buf[i]]
        BY <2>6 DEF Fill
      <4> HIDE DEF q
      <4>4. buf'[q] = buf[q]
        BY <4>2, <4>3
      <4> QED BY <4>4 DEF q
    <3>3. Tokens' = Tokens
      BY <2>6, <3>2, SameTokens DEF Fill
    <3>4. Taken' = Taken
      BY <2>0, <2>6 DEF Fill, Taken, Occupied, TokenChars, IInv, TypeOK
    <3> QED BY <2>6, <3>3, <3>4 DEF Fill
  <2>7. CASE Finish
    <3>1. UNCHANGED <<buf, nBufChars, nDroppedChars, nRead, tinfo, content, received>>
      BY <2>7 DEF Finish
    <3>2. CASE nTokens' = nTokens
      BY <3>1, <3>2 DEF Taken, Tokens, Occupied, TokenChars
    <3>3. CASE nTokens' = nTokens + 1 /\ tinfo[nTokens].len > 0
      <4> DEFINE len == tinfo[nTokens].len
      <4>1. /\ nTokens \in {0, 1} /\ nRead = 0 /\ direct = 0
            /\ tinfo[nTokens].p = nDroppedChars + TokenChars
            /\ tinfo[nTokens].p + len <= nBufChars /\ len \in Nat
        BY <2>7 DEF Finish, IInv, TypeOK, Layout, TOKENS_MAX
      <4>2. TokenChars' = TokenChars + len
        BY <3>1, <3>3, <4>1, TokenCharsValue DEF TokenChars, IInv, TypeOK, TOKENS_MAX
      <4>3. Taken' = Taken + len
        BY <2>0, <3>1, <4>1, <4>2 DEF Taken, Occupied
      <4>4. Taken + len <= StreamLen /\ len \in 1 .. StreamLen
        BY <2>0, <3>3, <4>1 DEF Taken, Occupied
      <4>5. [j \in 1 .. len |-> buf[tinfo[nTokens].p + j - 1]] = Stream!Slice(len)
        <5>1. ASSUME NEW j \in 1 .. len PROVE buf[tinfo[nTokens].p + j - 1] = Taken + j
          <6>1. tinfo[nTokens].p + j - 1 \in Index /\ tinfo[nTokens].p + j - 1 < nBufChars
            BY <2>0, <4>1 DEF Index
          <6>2. buf[tinfo[nTokens].p + j - 1]
                  = received - direct - nBufChars + (tinfo[nTokens].p + j - 1) + 1
            BY <6>1 DEF IInv, BufferIsStream
          <6> QED BY <2>0, <4>1, <6>2 DEF Taken, Occupied
        <5> QED BY <5>1 DEF Stream!Slice
      <4>6. Tokens' = Append(Tokens, Stream!Slice(len))
        <5>1. Tokens' = [t \in 1 .. nTokens + 1 |->
                            IF t \in 1 .. nTokens THEN Tokens[t] ELSE Stream!Slice(len)]
          BY <3>1, <3>3, <4>1, <4>5 DEF Tokens
        <5>2. Append(Tokens, Stream!Slice(len))
                = [t \in 1 .. nTokens + 1 |->
                            IF t \in 1 .. nTokens THEN Tokens[t] ELSE Stream!Slice(len)]
          <6>1. nTokens \in Nat /\ DOMAIN Tokens = 1 .. nTokens
            BY <4>1 DEF Tokens
          <6>2. Tokens \in Seq({Tokens[t] : t \in 1 .. nTokens}) /\ Len(Tokens) = nTokens
            BY <6>1 DEF Tokens
          <6> QED BY <6>1, <6>2
        <5> QED BY <5>1, <5>2
      <4>7. Stream!GetToken(len)
        BY <3>1, <4>3, <4>4, <4>6 DEF Stream!GetToken
      <4> QED BY <4>4, <4>7 DEF Stream!Next
    <3> QED BY <2>7, <3>2, <3>3 DEF Finish
  <2>8. CASE Drop
    <3>1. Tokens' = <<>> /\ content' = content
      BY <2>8 DEF Drop, Tokens
    <3>2. Taken' = Taken
      BY <2>0, <2>8 DEF Drop, Taken, Occupied, TokenChars, IInv, TypeOK
    <3> QED BY <3>1, <3>2 DEF Stream!Next, Stream!DropTokens
  <2>9. ASSUME NEW len \in 0 .. StreamLen, NEW m \in 0 .. len, GetContent(len, m)
        PROVE  Stream!Next
    <3>1. len \in Nat
      OBVIOUS
    <3>2. PICK k \in 0 .. len :
            /\ content' = [j \in 1 .. k + m |-> Taken + j]
            /\ Taken' = Taken + (k + m)
            /\ Taken + k <= received
            /\ received' = received + m /\ received' <= StreamLen
            /\ Tokens' = Tokens
      BY <2>9, <3>1, ContentIsNext
    <3>3. Taken + (k + m) <= StreamLen /\ k + m \in 0 .. StreamLen
      BY <2>0, <3>2
    <3>4. Stream!GetContent(k + m)
      BY <3>2, <3>3 DEF Stream!GetContent, Stream!Slice
    <3> QED BY <3>3, <3>4 DEF Stream!Next
  <2>10. CASE UNCHANGED vars
    BY <2>10 DEF vars, Taken, Tokens, Occupied, TokenChars
  <2> QED
    BY <2>1, <2>2, <2>3, <2>4, <2>5, <2>6, <2>7, <2>8, <2>9, <2>10 DEF Next
<1> QED BY <1>1, <1>2, Invariance, PTL DEF Spec, ImplementsStream, Stream!Spec
===============================================================================
