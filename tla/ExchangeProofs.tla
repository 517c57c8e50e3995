---------------------------- MODULE ExchangeProofs ----------------------------
(***************************************************************************)
(* Proofs about Exchange, for every plan of the peer, every image, and     *)
(* every size of the trace buffer and of the chunks.                       *)
(***************************************************************************)
EXTENDS Exchange, DataProofs, TLAPS

(* The lemmas about Token, for the trace buffer of the connection.         *)
Trace == INSTANCE TokenProofs

(* What excuses the server for being behind: see Aligned.                  *)
Excused(r) ==
    \/ peerClosed /\ sent < Begin[r + 1]
    \/ requests[r].wants # "input"
    \/ Overflows(requests[r].digits)
    \/ r \in failed

(* The plan of the peer and the image are what the constants allow.        *)
Planned ==
    /\ requests \in Seq([digits : Seq(0 .. Base - 1), wants : STRING])
    /\ files \in Seq([name : STRING, size : Nat]) /\ files # <<>>

(* How far the peer and the server have come; only a peer that is ahead    *)
(* has sent anything of a later request than the current one.              *)
Progress ==
    /\ answered \in 0 .. Len(requests)
    /\ spc \in {"input", "output", "respond"} => answered + 1 \in 1 .. Len(requests)
    /\ sent \in 0 .. Begin[Len(requests) + 1]
    /\ received <= sent
    /\ \A r \in 1 .. Len(requests) : sent > Begin[r] => r <= answered + 1 \/ ahead

(* The server is where the next request begins, or there is an excuse, and *)
(* likewise when it answers a head with 400.                               *)
InPlace ==
    /\ spc \in {"service", "lost"} =>
          /\ received > Begin[answered + 1] => ahead
          /\ received < Begin[answered + 1] => Excused(answered)
    /\ spc = "lost" => received # Begin[answered + 1]
    /\ spc = "parse" => input = <<>> /\ output = <<>>
    /\ spc = "respond" /\ status = 400 => Current.wants = "bad" \/ answered + 1 \in failed

(* What is read of a body is the next piece of it.                         *)
Piece ==
    /\ Current.wants = "input"
    /\ input \in Seq(Nat)
    /\ \A j \in 1 .. Len(input) : input[j] = HeadEnd + j
    /\ Buffer!Taken = HeadEnd + Len(input)
    /\ Len(input) <= BodyLen(answered + 1)

(* The length of a body as util.getInput has it.                           *)
Length(digits) == IF digits = <<>> THEN 0 ELSE String2Number(digits)

(* Nothing comes any more, or nothing came.                                *)
Dry == \/ peerClosed /\ received = sent /\ Buffer!Taken = received
       \/ answered + 1 \in failed

(* What is still missing of a body, or none of it will come.               *)
Reading ==
    /\ spc = "input" =>
          /\ Piece /\ n \in Int /\ status = 200
          /\ \/ n + Len(input) = Length(Current.digits) /\ (n >= 0 \/ input = <<>>)
             \/ n = 0 /\ Dry
    /\ spc = "respond" /\ Current.wants = "input" /\ status # 400 => Piece

(* The first k bytes of the file at i have been sent.                      *)
SentOf(i, k) ==
    /\ files[i].name = Current.wants
    /\ i = Len(files) /\ FileHead < Align => files[i].size > 0
    /\ fd = [error |-> 0, start |-> Offset(files)[i] + Align, size |-> files[i].size,
             offset |-> Offset(files)[i] + Align + k]
    /\ output = [j \in 1 .. k |-> <<Current.wants, j>>]

(* The file that is sent, so far.                                          *)
Sending ==
    spc = "output" =>
        /\ Current.wants # "input" /\ status = 200
        /\ \E i \in 1 .. Len(files) : \E k \in 0 .. files[i].size : SentOf(i, k)

(* The inductive invariant.                                                *)
IInv ==
    /\ Trace!IInv
    /\ Planned /\ Progress /\ InPlace /\ Reading /\ Sending
    /\ InputIsContent /\ OutputIsFile

-------------------------------------------------------------------------------
(* The length of a body is a number.                                       *)
LEMMA RequestFacts ==
  ASSUME Planned, NEW r \in 1 .. Len(requests)
  PROVE  /\ requests[r].digits \in Seq(Nat) /\ BodyLen(r) \in Nat
<1>1. requests[r] \in [digits : Seq(0 .. Base - 1), wants : STRING]
  BY ElementOfSeq DEF Planned
<1>2. requests[r].digits \in Seq(0 .. Base - 1)
  BY <1>1
<1>3. 0 .. Base - 1 \subseteq Nat
  OBVIOUS
<1>4. requests[r].digits \in Seq(Nat)
  <2> DEFINE d == requests[r].digits
             S == 0 .. Base - 1
  <2>1. d \in Seq(S) /\ S \subseteq Nat
    BY <1>2, <1>3
  <2> HIDE DEF d, S
  <2>2. d \in [1 .. Len(d) -> S] /\ Len(d) \in Nat
    BY <2>1
  <2>3. d \in [1 .. Len(d) -> Nat]
    BY <2>1, <2>2
  <2>4. d \in Seq(Nat)
    BY <2>2, <2>3
  <2> QED BY <2>4 DEF d
<1> QED BY <1>4, ResultIsDecimal DEF BodyLen

(* Where a request begins, request by request: Begin is defined by its     *)
(* recursion.                                                              *)
LEMMA BeginSteps ==
  ASSUME Planned
  PROVE  /\ Begin \in [1 .. Len(requests) + 1 -> Nat]
         /\ Begin[1] = 0
         /\ \A r \in 1 .. Len(requests) : Begin[r + 1] = Begin[r] + HeadLen + BodyLen(r)
<1> DEFINE N == Len(requests)
           step == [j \in 1 .. N |-> [x \in Nat |-> x + HeadLen + BodyLen(j)]]
           Def(at) == at = [r \in 1 .. N + 1 |->
                              IF r = 1 THEN 0 ELSE at[r - 1] + HeadLen + BodyLen(r - 1)]
           at == CHOOSE at : Def(at)
<1>1. N \in Nat /\ HeadLen \in Nat /\ \A j \in 1 .. N : BodyLen(j) \in Nat
  BY RequestFacts, LengthsAssumption DEF Planned
<1>2. /\ step \in [1 .. N -> [Nat -> Nat]]
      /\ \A j \in 1 .. N, x \in Nat : step[j][x] = x + HeadLen + BodyLen(j)
  <2> HIDE DEF N
  <2>1. \A j \in 1 .. N, x \in Nat : x + HeadLen + BodyLen(j) \in Nat
    BY <1>1
  <2> QED BY <2>1
<1>3. PICK g \in [0 .. N -> Nat] : Steps(g, N, 0, step)
  <2> HIDE DEF N, step
  <2> QED BY <1>1, <1>2, RecursionExists
<1> DEFINE h == [r \in 1 .. N + 1 |-> g[r - 1]]
<1>4. Def(h)
  <2>1. ASSUME NEW r \in 1 .. N + 1, r # 1
        PROVE  h[r] = h[r - 1] + HeadLen + BodyLen(r - 1)
    <3>1. r - 1 \in 1 .. N /\ r - 1 \in 1 .. N + 1 /\ (r - 1) - 1 \in 0 .. N
      BY <1>1, <2>1
    <3>2. g[r - 1] = step[r - 1][g[(r - 1) - 1]] /\ g[(r - 1) - 1] \in Nat
      <4> HIDE DEF N, step
      <4> QED BY <1>3, <3>1 DEF Steps
    <3>3. g[r - 1] = g[(r - 1) - 1] + HeadLen + BodyLen(r - 1)
      <4> HIDE DEF N, step
      <4> QED BY <1>2, <3>1, <3>2
    <3> QED BY <3>1, <3>3
  <2>2. h[1] = 0
    BY <1>1, <1>3 DEF Steps
  <2> QED BY <2>1, <2>2
<1>5. Begin = at
  BY DEF Begin
<1>6. Def(at)
  <2> HIDE DEF Def, h
  <2> QED BY <1>4
<1> HIDE DEF at
<1>7. \A r \in 1 .. N + 1 :
        at[r] = IF r = 1 THEN 0 ELSE at[r - 1] + HeadLen + BodyLen(r - 1)
  BY <1>6
<1>8. \A r \in 1 .. N : at[r + 1] = at[r] + HeadLen + BodyLen(r)
  <2> SUFFICES ASSUME NEW r \in 1 .. N PROVE at[r + 1] = at[r] + HeadLen + BodyLen(r)
    OBVIOUS
  <2>1. r + 1 \in 1 .. N + 1 /\ r + 1 # 1 /\ (r + 1) - 1 = r
    BY <1>1
  <2> HIDE DEF Def, N
  <2> QED BY <1>7, <2>1
<1>9. 1 .. N + 1 \subseteq {r \in 1 .. N + 1 : at[r] \in Nat}
  <2> DEFINE T == {r \in 1 .. N + 1 : at[r] \in Nat}
  <2>1. 1 \in T
    BY <1>1, <1>7
  <2>2. ASSUME NEW k \in 1 .. (N + 1) - 1, k \in T PROVE k + 1 \in T
    <3>1. k + 1 \in 1 .. N + 1 /\ k \in 1 .. N
      BY <1>1
    <3>2. at[k + 1] = at[k] + HeadLen + BodyLen(k) /\ at[k] \in Nat /\ BodyLen(k) \in Nat
      BY <1>1, <1>8, <2>2, <3>1
    <3>3. at[k + 1] \in Nat
      BY <1>1, <3>2
    <3> QED BY <3>1, <3>3
  <2>3. 1 \in Nat /\ N + 1 \in Nat
    BY <1>1
  <2> HIDE DEF T, N
  <2>4. 1 .. N + 1 \subseteq T
    BY <2>1, <2>2, <2>3, UpTo
  <2> QED BY <2>4 DEF T
<1>10. at \in [1 .. N + 1 -> Nat] /\ at[1] = 0
  <2>1. at = [r \in 1 .. N + 1 |-> at[r]]
    BY <1>6
  <2>2. 1 \in 1 .. N + 1
    BY <1>1
  <2> HIDE DEF Def, N
  <2> QED BY <1>7, <1>9, <2>1, <2>2
<1> QED BY <1>5, <1>8, <1>10

(* The requests are one behind the other.                                  *)
LEMMA BeginGrows ==
  ASSUME Planned, NEW r \in 1 .. Len(requests) + 1,
         NEW q \in 1 .. Len(requests) + 1, r <= q
  PROVE  Begin[r] <= Begin[q]
<1> DEFINE N == Len(requests)
           T == {k \in r .. q : Begin[r] <= Begin[k]}
<1>1. N \in Nat /\ HeadLen \in Nat /\ \A j \in 1 .. N : BodyLen(j) \in Nat
  BY RequestFacts, LengthsAssumption DEF Planned
<1>2. /\ Begin \in [1 .. N + 1 -> Nat]
      /\ \A j \in 1 .. N : Begin[j + 1] = Begin[j] + HeadLen + BodyLen(j)
  BY BeginSteps
<1>3. r \in T
  <2>1. Begin[r] \in Nat /\ r \in r .. q
    BY <1>2
  <2> QED BY <2>1
<1>4. ASSUME NEW k \in r .. q - 1, k \in T PROVE k + 1 \in T
  <2>1. k \in 1 .. N /\ k \in 1 .. N + 1 /\ k + 1 \in r .. q
    BY <1>1
  <2> DEFINE a == Begin[r]
             b == Begin[k]
             c == Begin[k + 1]
             d == BodyLen(k)
  <2>2. a \in Nat /\ b \in Nat /\ d \in Nat /\ a <= b /\ c = b + HeadLen + d
    BY <1>1, <1>2, <1>4, <2>1
  <2> HIDE DEF a, b, c, d
  <2>3. a <= c
    BY <1>1, <2>2
  <2> QED BY <2>1, <2>3 DEF a, c
<1>5. r .. q \subseteq T
  <2>1. r \in Nat /\ q \in Nat
    BY <1>1
  <2> HIDE DEF T
  <2> QED BY <1>3, <1>4, <2>1, UpTo
<1>6. q \in r .. q
  BY <1>1
<1> QED BY <1>5, <1>6

-------------------------------------------------------------------------------
(* The trace buffer is Token's: what leaves it alone keeps its invariant.  *)
LEMMA BufferStutters == Trace!IInv /\ UNCHANGED bufVars => Trace!IInv'
<1>1. UNCHANGED bufVars => UNCHANGED Trace!vars
  BY DEF bufVars, Trace!vars
<1> QED BY <1>1, BufferAssumption, Trace!StutterStep

(* A script that reads content keeps its invariant.                        *)
LEMMA ContentKeepsBuffer ==
  ASSUME Trace!IInv, NEW len \in Nat, Content(len) \/ ContentFails(len)
  PROVE  Trace!IInv'
<1>1. PICK m \in 0 .. len : Buffer!GetContent(len, m)
  BY DEF Content, ContentFails
<1>2. Trace!GetContent(len, m)
  BY <1>1 DEF Buffer!GetContent, Trace!GetContent, Buffer!Occupied, Trace!Occupied,
              Buffer!TokenChars, Trace!TokenChars
<1> QED BY <1>2, BufferAssumption, Trace!ContentStep

(* The parser keeps its invariant.                                         *)
LEMMA TokenKeepsBuffer ==
  ASSUME Trace!IInv, GetToken
  PROVE  Trace!IInv'
<1>1. CASE Buffer!GetBegin
  <2>1. Trace!GetBegin
    BY <1>1 DEF Buffer!GetBegin, Trace!GetBegin, Buffer!TokenChars, Trace!TokenChars,
                Buffer!TOKENS_MAX, Trace!TOKENS_MAX
  <2> QED BY <2>1, BufferAssumption, Trace!GetBeginStep
<1>2. ASSUME NEW label \in {"lex", "finish"}, Buffer!LexTake(label) PROVE Trace!IInv'
  <2>1. Trace!LexTake(label)
    BY <1>2 DEF Buffer!LexTake, Trace!LexTake
  <2> QED BY <2>1, BufferAssumption, Trace!LexTakeStep
<1>3. CASE Buffer!LexStop
  <2>1. Trace!LexStop
    BY <1>3 DEF Buffer!LexStop, Trace!LexStop
  <2> QED BY <2>1, BufferAssumption, Trace!LeaveStep
<1>4. CASE Buffer!Compact
  <2>1. Trace!Compact
    BY <1>4 DEF Buffer!Compact, Trace!Compact, Buffer!Index, Trace!Index,
                Buffer!TOKENS_MAX, Trace!TOKENS_MAX
  <2> QED BY <2>1, BufferAssumption, Trace!CompactStep
<1>5. ASSUME NEW m \in 1 .. BufSize, Buffer!Fill(m) PROVE Trace!IInv'
  <2>1. Trace!Fill(m)
    BY <1>5 DEF Buffer!Fill, Trace!Fill, Buffer!Index, Trace!Index
  <2>2. m \in 1 .. StreamLen
    <3>1. received + m <= StreamLen
      BY <2>1 DEF Trace!Fill
    <3>2. received \in Nat
      BY BufferAssumption DEF Trace!IInv, Trace!TypeOK
    <3> QED BY <3>1, <3>2, BufferAssumption
  <2> QED BY <2>1, <2>2, BufferAssumption, Trace!FillStep
<1>6. CASE Buffer!Finish
  <2>1. Trace!Finish
    BY <1>6 DEF Buffer!Finish, Trace!Finish
  <2> QED BY <2>1, BufferAssumption, Trace!FinishStep
<1>7. CASE Buffer!Drop
  <2>1. Trace!Drop
    BY <1>7 DEF Buffer!Drop, Trace!Drop, Buffer!TokenChars, Trace!TokenChars
  <2> QED BY <2>1, BufferAssumption, Trace!DropStep
<1> QED BY <1>1, <1>2, <1>3, <1>4, <1>5, <1>6, <1>7 DEF GetToken

(* The position of the next byte, and the bytes received, are numbers.     *)
LEMMA TakenOK ==
  ASSUME Trace!IInv
  PROVE  /\ Buffer!Taken \in Nat /\ received \in Nat /\ Buffer!Taken <= received
<1>1. Buffer!Taken = Trace!Taken
  BY DEF Buffer!Taken, Trace!Taken, Buffer!Occupied, Trace!Occupied,
         Buffer!TokenChars, Trace!TokenChars
<1> QED BY <1>1, BufferAssumption, Trace!TakenInStream

(* A chunk of a body is what follows in the stream, and it is empty only   *)
(* when nothing comes any more or the recv failed.                         *)
LEMMA ContentOK ==
  ASSUME Trace!IInv, NEW len \in Nat, Content(len) \/ ContentFails(len),
         received <= sent, sent \in Nat
  PROVE  \E l \in 0 .. len :
            /\ content' = [j \in 1 .. l |-> Buffer!Taken + j]
            /\ Buffer!Taken' = Buffer!Taken + l
            /\ received' \in received .. sent
            /\ l = 0 /\ len > 0 => \/ /\ peerClosed /\ received = sent
                                      /\ Buffer!Taken = received /\ received' = received
                                   \/ answered + 1 \in failed'
<1> DEFINE gaveUp == content' = <<>> => answered + 1 \in failed'
<1>1. PICK m \in 0 .. len :
        /\ received + m <= sent
        /\ \/ IF Remaining >= len THEN m = 0
              ELSE m > 0 \/ (peerClosed /\ received = sent)
           \/ gaveUp
        /\ Buffer!GetContent(len, m)
  <2>1. CASE Content(len)
    BY <2>1 DEF Content
  <2>2. CASE ContentFails(len)
    <3>1. gaveUp /\ Buffer!GetContent(len, 0)
      BY <2>2 DEF ContentFails
    <3>2. received + 0 <= sent /\ 0 \in 0 .. len
      BY TakenOK
    <3> HIDE DEF gaveUp
    <3> QED BY <3>1, <3>2
  <2> QED BY <2>1, <2>2
<1> HIDE DEF gaveUp
<1>2. Trace!GetContent(len, m)
  BY <1>1 DEF Buffer!GetContent, Trace!GetContent, Buffer!Occupied, Trace!Occupied,
              Buffer!TokenChars, Trace!TokenChars
<1>3. /\ Buffer!Occupied = Trace!Occupied /\ Buffer!Taken = Trace!Taken
      /\ Buffer!Taken' = Trace!Taken'
  BY DEF Buffer!Taken, Trace!Taken, Buffer!Occupied, Trace!Occupied,
         Buffer!TokenChars, Trace!TokenChars
<1>4. PICK k \in 0 .. len :
        /\ k + m <= len
        /\ Trace!Taken + k <= received /\ (k < len => Trace!Taken + k = received)
        /\ content' = [j \in 1 .. k + m |-> Trace!Taken + j]
        /\ Trace!Taken' = Trace!Taken + (k + m)
        /\ received' = received + m
  BY <1>2, BufferAssumption, Trace!ContentIsNext
<1>5. /\ Trace!Taken \in Nat /\ received \in Nat /\ Trace!Occupied \in Nat
      /\ nBufChars \in Nat
      /\ Trace!Taken = received - nBufChars + Trace!Occupied
  BY BufferAssumption, Trace!TakenInStream DEF Trace!Taken
<1> DEFINE l == k + m
<1>6. l \in 0 .. len /\ received' \in received .. sent
  BY <1>1, <1>4, <1>5
<1>7. ASSUME l = 0, len > 0, ~gaveUp
      PROVE  peerClosed /\ received = sent /\ Trace!Taken = received
             /\ received' = received
  <2>1. k = 0 /\ m = 0
    BY <1>7
  <2>2. Trace!Taken = received /\ received' = received
    BY <1>4, <1>5, <1>7, <2>1
  <2>3. ~(Remaining >= len)
    BY <1>3, <1>5, <1>7, <2>2 DEF Remaining
  <2> QED BY <1>1, <1>7, <2>1, <2>2, <2>3
<1>8. /\ content' = [j \in 1 .. l |-> Buffer!Taken + j]
      /\ Buffer!Taken' = Buffer!Taken + l
  BY <1>3, <1>4
<1>9. l = 0 => content' = <<>>
  BY <1>8
<1> HIDE DEF l
<1> QED BY <1>3, <1>6, <1>7, <1>8, <1>9 DEF gaveUp

-------------------------------------------------------------------------------
(* Where the requests are, as numbers.                                     *)
LEMMA Places ==
  ASSUME Planned, Progress
  PROVE  /\ Len(requests) \in Nat /\ answered \in Nat /\ answered <= Len(requests)
         /\ answered + 1 \in 1 .. Len(requests) + 1
         /\ sent \in Nat /\ sent <= Begin[Len(requests) + 1]
         /\ \A r \in 1 .. Len(requests) + 1 : Begin[r] \in Nat
         /\ answered < Len(requests) =>
               /\ HeadEnd \in Nat /\ BodyLen(answered + 1) \in Nat
               /\ Begin[answered + 2] = HeadEnd + BodyLen(answered + 1)
               /\ Current.digits \in Seq(Nat)
<1> DEFINE N == Len(requests)
<1>1. N \in Nat
  BY DEF Planned
<1>2. /\ Begin \in [1 .. N + 1 -> Nat]
      /\ \A r \in 1 .. N : Begin[r + 1] = Begin[r] + HeadLen + BodyLen(r)
  BY BeginSteps
<1>3. answered \in 0 .. N /\ sent \in 0 .. Begin[N + 1] /\ Begin[N + 1] \in Nat
  <2>1. N + 1 \in 1 .. N + 1
    BY <1>1
  <2> QED BY <1>2, <2>1 DEF Progress
<1>4. ASSUME answered < N
      PROVE  /\ HeadEnd \in Nat /\ BodyLen(answered + 1) \in Nat
             /\ Begin[answered + 2] = HeadEnd + BodyLen(answered + 1)
             /\ Current.digits \in Seq(Nat)
  <2>1. answered + 1 \in 1 .. N /\ answered + 1 \in 1 .. N + 1
        /\ answered + 2 = (answered + 1) + 1
    BY <1>1, <1>3, <1>4
  <2>2. requests[answered + 1].digits \in Seq(Nat) /\ BodyLen(answered + 1) \in Nat
    BY <2>1, RequestFacts
  <2>3. Begin[answered + 1] \in Nat /\ HeadLen \in Nat
    BY <1>2, <2>1, LengthsAssumption
  <2>4. Begin[answered + 2] = Begin[answered + 1] + HeadLen + BodyLen(answered + 1)
    BY <1>2, <2>1
  <2> QED BY <2>2, <2>3, <2>4 DEF HeadEnd, Current
<1> QED BY <1>1, <1>2, <1>3, <1>4

(* The plan of the peer is fixed, and so is where each request begins.     *)
LEMMA PlanStays ==
  ASSUME Planned, UNCHANGED <<requests, files>>
  PROVE  Planned' /\ Begin' = Begin
  BY DEF Planned, Begin, BodyLen

(* Before a script runs there is nothing to say of what it does.           *)
LEMMA NothingDone ==
  ASSUME spc' \in {"service", "parse", "lost", "closed"}
  PROVE  Reading' /\ Sending' /\ InputIsContent' /\ OutputIsFile'
  BY DEF Reading, Sending, InputIsContent, OutputIsFile

(* The invariant holds at first, and every step keeps it.                  *)
LEMMA InitIInv == Init => IInv
<1> SUFFICES ASSUME Init PROVE IInv
  OBVIOUS
<1>1. Trace!IInv
  <2>1. Trace!Init
    BY DEF Init, Buffer!Init, Trace!Init, Buffer!Index, Trace!Index,
           Buffer!TOKENS_MAX, Trace!TOKENS_MAX
  <2> QED BY <2>1, BufferAssumption, Trace!InitIInv
<1>2. Planned
  BY ScenariosAssumption DEF Init, Planned
<1>3. /\ spc = "service" /\ sent = 0 /\ answered = 0 /\ received = 0
  BY DEF Init, Buffer!Init
<1>4. /\ Begin \in [1 .. Len(requests) + 1 -> Nat] /\ Begin[1] = 0
      /\ Len(requests) \in Nat
  BY <1>2, BeginSteps DEF Planned
<1>5. Progress
  <2>1. Begin[Len(requests) + 1] \in Nat /\ \A r \in 1 .. Len(requests) : Begin[r] \in Nat
    BY <1>4
  <2> QED BY <1>3, <1>4, <2>1 DEF Progress
<1>6. InPlace
  BY <1>3, <1>4 DEF InPlace
<1>7. Reading /\ Sending /\ InputIsContent /\ OutputIsFile
  BY <1>3 DEF Reading, Sending, InputIsContent, OutputIsFile
<1> QED BY <1>1, <1>2, <1>5, <1>6, <1>7 DEF IInv

(* The steps, one by one; first those of the peer.                         *)
LEMMA SendStep ==
  ASSUME IInv, NEW r \in 1 .. Len(requests), Send(r)
  PROVE  IInv'
<1> DEFINE N == Len(requests)
<1>1. /\ ~peerClosed /\ sent >= Begin[r] /\ sent < Begin[r + 1]
      /\ sent' = IF sent = Begin[r] THEN sent + HeadLen ELSE sent + 1
      /\ ahead' = (ahead \/ r > answered + 1)
      /\ UNCHANGED <<bufVars, requests, files, peerClosed, answered, spc, runVars>>
  BY DEF Send
<1>2. Trace!IInv'
  BY <1>1, BufferStutters DEF IInv
<1>3. Planned' /\ Begin' = Begin
  BY <1>1, PlanStays DEF IInv
<1>4. /\ N \in Nat /\ answered \in Nat /\ sent \in Nat
      /\ \A q \in 1 .. N + 1 : Begin[q] \in Nat
  BY Places DEF IInv
<1>5. sent' \in Nat /\ sent < sent' /\ sent' <= Begin[r + 1]
  <2>1. r + 1 \in 1 .. N + 1 /\ r \in 1 .. N + 1
    BY <1>4
  <2>2. Begin[r + 1] = Begin[r] + HeadLen + BodyLen(r) /\ BodyLen(r) \in Nat
    BY BeginSteps, RequestFacts DEF IInv
  <2> DEFINE a == Begin[r]
             b == Begin[r + 1]
             d == BodyLen(r)
  <2>3. a \in Nat /\ b \in Nat /\ b = a + HeadLen + d /\ d \in Nat /\ sent < b
    BY <1>1, <1>4, <2>1, <2>2
  <2>4. sent' = IF sent = a THEN sent + HeadLen ELSE sent + 1
    BY <1>1
  <2> HIDE DEF a, b, d
  <2>5. sent' \in Nat /\ sent < sent' /\ sent' <= b
    BY <1>4, <2>3, <2>4, LengthsAssumption
  <2> QED BY <2>5 DEF b
<1>6. ASSUME NEW q \in 1 .. N, sent' > Begin[q] PROVE q <= r
  <2> SUFFICES ASSUME r < q PROVE FALSE
    BY <1>4
  <2>1. r + 1 \in 1 .. N + 1 /\ q \in 1 .. N + 1 /\ r + 1 <= q
    BY <1>4
  <2>2. Begin[r + 1] <= Begin[q]
    BY <2>1, BeginGrows DEF IInv
  <2>3. Begin[r + 1] \in Nat /\ Begin[q] \in Nat
    BY <1>4, <2>1
  <2> QED BY <1>5, <1>6, <2>2, <2>3
<1>7. Progress'
  <2>1. sent' <= Begin[N + 1]
    <3>1. r + 1 \in 1 .. N + 1 /\ N + 1 \in 1 .. N + 1 /\ r + 1 <= N + 1
      BY <1>4
    <3>2. Begin[r + 1] <= Begin[N + 1] /\ Begin[r + 1] \in Nat /\ Begin[N + 1] \in Nat
      BY <1>4, <3>1, BeginGrows DEF IInv
    <3> QED BY <1>5, <3>2
  <2>2. received' <= sent' /\ Begin[N + 1] \in Nat
    <3>1. received \in Nat /\ received <= sent /\ received' = received
      BY <1>1, TakenOK DEF IInv, Progress, bufVars
    <3>2. N + 1 \in 1 .. N + 1
      BY <1>4
    <3> QED BY <1>4, <1>5, <3>1, <3>2
  <2>3. ASSUME NEW q \in 1 .. N, sent' > Begin[q] PROVE q <= answered + 1 \/ ahead'
    <3>1. q <= r
      BY <1>6, <2>3
    <3>2. r <= answered + 1 \/ r > answered + 1
      BY <1>4
    <3>3. r > answered + 1 => ahead'
      BY <1>1
    <3>4. r <= answered + 1 => q <= answered + 1
      BY <1>4, <3>1
    <3> QED BY <3>2, <3>3, <3>4
  <2> QED BY <1>1, <1>3, <1>5, <2>1, <2>2, <2>3 DEF IInv, Progress
<1>8. InPlace'
  <2>1. /\ UNCHANGED <<received, requests, peerClosed, answered, spc>>
        /\ UNCHANGED <<input, output, status, failed>> /\ Current' = Current
    BY <1>1 DEF bufVars, runVars, Current
  <2>2. Excused(answered) => Excused(answered)'
    BY <1>1, <1>3, <2>1 DEF Excused
  <2>3. ahead => ahead'
    BY <1>1
  <2> QED BY <1>3, <2>1, <2>2, <2>3 DEF IInv, InPlace
<1>9. Reading'
  BY <1>1, <1>3 DEF IInv, Reading, Piece, Dry, Current, HeadEnd, BodyLen, Buffer!Taken,
                    Buffer!Occupied, Buffer!TokenChars, bufVars, runVars
<1>10. Sending' /\ OutputIsFile'
  <2>1. UNCHANGED <<requests, files, answered, spc, fd, output, status>>
    BY <1>1 DEF runVars
  <2>2. Sending'
    <3>1. Current' = Current
      BY <2>1 DEF Current
    <3>2. \A i, k : SentOf(i, k) => SentOf(i, k)'
      BY <2>1, <3>1 DEF SentOf
    <3> QED BY <2>1, <3>1, <3>2 DEF IInv, Sending
  <2>3. OutputIsFile'
    BY <2>1 DEF IInv, OutputIsFile, Current
  <2> QED BY <2>2, <2>3
<1>11. InputIsContent'
  BY <1>1, <1>3 DEF IInv, InputIsContent, Current, HeadEnd, BodyLen, runVars
<1> QED BY <1>2, <1>3, <1>7, <1>8, <1>9, <1>10, <1>11 DEF IInv

(* The peer closes its half of the connection.                             *)
LEMMA PeerClosesStep == IInv /\ PeerCloses => IInv'
<1> SUFFICES ASSUME IInv, PeerCloses PROVE IInv'
  OBVIOUS
<1>1. /\ peerClosed' = TRUE
      /\ UNCHANGED <<bufVars, requests, files, sent, ahead, answered, spc, runVars>>
  BY DEF PeerCloses
<1>2. Trace!IInv'
  BY <1>1, BufferStutters DEF IInv
<1>3. Planned' /\ Begin' = Begin
  BY <1>1, PlanStays DEF IInv
<1>4. Progress'
  BY <1>1, <1>3 DEF IInv, Progress, bufVars
<1>5. InPlace'
  BY <1>1, <1>3 DEF IInv, InPlace, Excused, Current, bufVars, runVars
<1>6. Reading'
  BY <1>1, <1>3 DEF IInv, Reading, Piece, Dry, Current, HeadEnd, BodyLen, Buffer!Taken,
                    Buffer!Occupied, Buffer!TokenChars, bufVars, runVars
<1>7. Sending' /\ OutputIsFile'
  <2>1. UNCHANGED <<requests, files, answered, spc, fd, output, status>>
    BY <1>1 DEF runVars
  <2>2. Sending'
    <3>1. Current' = Current
      BY <2>1 DEF Current
    <3>2. \A i, k : SentOf(i, k) => SentOf(i, k)'
      BY <2>1, <3>1 DEF SentOf
    <3> QED BY <2>1, <3>1, <3>2 DEF IInv, Sending
  <2>3. OutputIsFile'
    BY <2>1 DEF IInv, OutputIsFile, Current
  <2> QED BY <2>2, <2>3
<1>8. InputIsContent'
  BY <1>1, <1>3 DEF IInv, InputIsContent, Current, HeadEnd, BodyLen, runVars
<1> QED BY <1>2, <1>3, <1>4, <1>5, <1>6, <1>7, <1>8 DEF IInv

(* Those of the server: it looks where it is in the stream.                *)
LEMMA ServiceStep == IInv /\ Service => IInv'
<1> SUFFICES ASSUME IInv, Service PROVE IInv'
  OBVIOUS
<1>1. /\ spc = "service" /\ Buffer!Reset
      /\ spc' = IF received = Begin[answered + 1] THEN "parse" ELSE "lost"
      /\ input' = <<>> /\ output' = <<>>
      /\ UNCHANGED <<peerVars, answered, failed>>
  BY DEF Service
<1>2. Trace!IInv'
  <2>1. Trace!Reset
    BY <1>1 DEF Buffer!Reset, Trace!Reset
  <2> QED BY <2>1, BufferAssumption, Trace!ResetStep DEF IInv
<1>3. received' = received
  BY <1>1 DEF Buffer!Reset
<1>4. Planned' /\ Begin' = Begin
  BY <1>1, PlanStays DEF IInv, peerVars
<1>5. Progress'
  BY <1>1, <1>3, <1>4 DEF IInv, Progress, peerVars
<1>6. InPlace'
  BY <1>1, <1>3, <1>4 DEF IInv, InPlace, Excused, peerVars
<1>7. Reading' /\ Sending' /\ InputIsContent' /\ OutputIsFile'
  BY <1>1, NothingDone
<1> QED BY <1>2, <1>4, <1>5, <1>6, <1>7 DEF IInv

(* One more token of the head.                                             *)
LEMMA ParseStep == IInv /\ Parse => IInv'
<1> SUFFICES ASSUME IInv, Parse PROVE IInv'
  OBVIOUS
<1>1. /\ spc = "parse" /\ GetToken
      /\ UNCHANGED <<peerVars, answered, spc, runVars>>
  BY DEF Parse
<1>2. Trace!IInv'
  BY <1>1, TokenKeepsBuffer DEF IInv
<1>3. received' <= sent
  <2>1. \/ received' = received
        \/ \E m \in 1 .. BufSize : received + m <= sent /\ received' = received + m
    BY <1>1 DEF GetToken, Buffer!GetBegin, Buffer!LexTake, Buffer!LexStop,
                Buffer!Compact, Buffer!Fill, Buffer!Finish, Buffer!Drop
  <2> QED BY <2>1 DEF IInv, Progress
<1>4. Planned' /\ Begin' = Begin
  BY <1>1, PlanStays DEF IInv, peerVars
<1>5. Progress'
  BY <1>1, <1>3, <1>4 DEF IInv, Progress, peerVars
<1>6. InPlace'
  BY <1>1, <1>4 DEF IInv, InPlace, runVars
<1>7. Reading' /\ Sending' /\ InputIsContent' /\ OutputIsFile'
  BY <1>1, NothingDone
<1> QED BY <1>2, <1>4, <1>5, <1>6, <1>7 DEF IInv

(* No more of the head comes.                                              *)
LEMMA ParseEndsStep == IInv /\ ParseEnds => IInv'
<1> SUFFICES ASSUME IInv, ParseEnds PROVE IInv'
  OBVIOUS
<1>1. /\ spc' = "closed" /\ Buffer!NoMore("idle")
      /\ UNCHANGED <<peerVars, answered, runVars>>
  BY DEF ParseEnds
<1>2. Trace!IInv'
  <2>1. Trace!NoMore("idle")
    BY <1>1 DEF Buffer!NoMore, Trace!NoMore
  <2> QED BY <2>1, BufferAssumption, Trace!LeaveStep DEF IInv
<1>3. received' = received
  BY <1>1 DEF Buffer!NoMore
<1>4. Planned' /\ Begin' = Begin
  BY <1>1, PlanStays DEF IInv, peerVars
<1>5. Progress'
  BY <1>1, <1>3, <1>4 DEF IInv, Progress, peerVars
<1>6. InPlace'
  BY <1>1 DEF InPlace
<1>7. Reading' /\ Sending' /\ InputIsContent' /\ OutputIsFile'
  BY <1>1, NothingDone
<1> QED BY <1>2, <1>4, <1>5, <1>6, <1>7 DEF IInv

(* The head was no request: it is answered with 400 or not at all.         *)
LEMMA RejectStep == IInv /\ Reject => IInv'
<1> SUFFICES ASSUME IInv, Reject PROVE IInv'
  OBVIOUS
<1>1. /\ Malformed /\ Buffer!Finish
      /\ spc' = "closed" \/ (spc' = "respond" /\ status' = 400)
      /\ UNCHANGED <<peerVars, answered, n, input, fd, output, failed>>
  BY DEF Reject, RejectHead
<1>2. Trace!IInv'
  <2>1. Trace!Finish
    BY <1>1 DEF Buffer!Finish, Trace!Finish
  <2> QED BY <2>1, BufferAssumption, Trace!FinishStep DEF IInv
<1>3. received' = received
  BY <1>1 DEF Buffer!Finish
<1>4. Planned' /\ Begin' = Begin
  BY <1>1, PlanStays DEF IInv, peerVars
<1>5. Progress'
  <2>1. answered + 1 \in 1 .. Len(requests)
    BY <1>1, Places DEF IInv, Malformed
  <2> QED BY <1>1, <1>3, <1>4, <2>1 DEF IInv, Progress, peerVars
<1>6. Current'.wants = "bad"
  BY <1>1 DEF Malformed, Current, peerVars
<1>7. InPlace' /\ Reading' /\ Sending' /\ InputIsContent' /\ OutputIsFile'
  BY <1>1, <1>6 DEF InPlace, Reading, Sending, InputIsContent, OutputIsFile
<1> QED BY <1>2, <1>4, <1>5, <1>7 DEF IInv

(* A recv failed within the head, of which the server has seen something   *)
(* when it answers.                                                        *)
LEMMA ParseFailsStep == IInv /\ ParseFails => IInv'
<1> SUFFICES ASSUME IInv, ParseFails PROVE IInv'
  OBVIOUS
<1>1. /\ spc = "parse" /\ Buffer!NoMore("idle") /\ answered + 1 \in failed'
      /\ \/ spc' = "closed"
         \/ Buffer!Taken > Begin[answered + 1] /\ spc' = "respond" /\ status' = 400
      /\ UNCHANGED <<peerVars, answered, n, input, fd, output>>
  BY DEF ParseFails, RejectHead
<1>2. Trace!IInv'
  <2>1. Trace!NoMore("idle")
    BY <1>1 DEF Buffer!NoMore, Trace!NoMore
  <2> QED BY <2>1, BufferAssumption, Trace!LeaveStep DEF IInv
<1>3. received' = received
  BY <1>1 DEF Buffer!NoMore
<1>4. Planned' /\ Begin' = Begin
  BY <1>1, PlanStays DEF IInv, peerVars
<1>5. ASSUME spc' = "respond" PROVE answered < Len(requests)
  <2>1. Buffer!Taken > Begin[answered + 1] /\ Buffer!Taken <= received /\ received <= sent
    BY <1>1, <1>5, TakenOK DEF IInv, Progress
  <2>2. /\ answered \in Nat /\ Len(requests) \in Nat /\ answered <= Len(requests)
        /\ sent \in Nat /\ sent <= Begin[Len(requests) + 1]
        /\ Begin[answered + 1] \in Nat /\ Begin[Len(requests) + 1] \in Nat
    <3>1. Len(requests) + 1 \in 1 .. Len(requests) + 1
      BY Places DEF IInv
    <3> QED BY <3>1, Places DEF IInv
  <2>3. Buffer!Taken \in Nat /\ received \in Nat
    BY TakenOK DEF IInv
  <2>4. Begin[answered + 1] < Begin[Len(requests) + 1]
    BY <2>1, <2>2, <2>3
  <2> QED BY <2>2, <2>4
<1>6. Progress'
  <2>1. spc' = "respond" => answered + 1 \in 1 .. Len(requests)
    BY <1>5, Places DEF IInv
  <2> QED BY <1>1, <1>3, <1>4, <2>1 DEF IInv, Progress, peerVars
<1>7. InPlace' /\ Reading' /\ Sending' /\ OutputIsFile'
  BY <1>1 DEF InPlace, Reading, Sending, OutputIsFile
<1>8. InputIsContent'
  <2>1. CASE spc' = "closed"
    BY <2>1 DEF InputIsContent
  <2>2. CASE spc' = "respond"
    <3>1. BodyLen(answered + 1)' = BodyLen(answered + 1) /\ BodyLen(answered + 1) \in Nat
      BY <1>1, <1>5, <2>2, Places DEF IInv, BodyLen, peerVars
    <3>2. input' = <<>> /\ Len(input') = 0
      BY <1>1 DEF IInv, InPlace
    <3>3. answered' = answered
      BY <1>1
    <3> QED BY <1>1, <3>1, <3>2, <3>3 DEF InputIsContent
  <2> QED BY <1>1, <2>1, <2>2
<1> QED BY <1>2, <1>4, <1>6, <1>7, <1>8 DEF IInv

(* The length is not more than that of the body, and it is that unless it  *)
(* overflows.                                                              *)
LEMMA LengthExact ==
  ASSUME NEW digits \in Seq(Nat)
  PROVE  /\ Length(digits) \in Int /\ Decimal(digits) \in Nat
         /\ Length(digits) <= Decimal(digits)
         /\ ~Overflows(digits) => Length(digits) = Decimal(digits)
<1>1. CASE digits = <<>>
  <2>1. Decimal(digits) = 0
    <3>1. Len(digits) = 0
      BY <1>1
    <3>2. PICK v \in [0 .. Len(digits) -> Nat] : v[0] = 0
          /\ Decimal(digits) = v[Len(digits)]
      BY DecimalSteps
    <3> QED BY <3>1, <3>2
  <2> QED BY <1>1, <2>1 DEF Length
<1>2. CASE digits # <<>>
  BY <1>2, NumberExact, ResultIsDecimal DEF Length
<1> QED BY <1>1, <1>2

(* The head of the request says which script runs, and whether it has a    *)
(* body to read.                                                           *)
LEMMA RunStep == IInv /\ Run => IInv'
<1> SUFFICES ASSUME IInv, Run PROVE IInv'
  OBVIOUS
<1>1. /\ spc = "parse" /\ answered < Len(requests) /\ Buffer!Taken = HeadEnd
      /\ input = <<>> /\ output = <<>>
      /\ UNCHANGED <<bufVars, peerVars, answered, input, output>>
  BY DEF Run, IInv, InPlace
<1>2. Trace!IInv'
  BY <1>1, BufferStutters DEF IInv
<1>3. UNCHANGED <<requests, files, sent, peerClosed, ahead, received>>
  BY <1>1 DEF peerVars, bufVars
<1>4. Planned' /\ Begin' = Begin
  BY <1>3, PlanStays DEF IInv
<1>5. /\ Len(requests) \in Nat /\ answered \in Nat /\ HeadEnd \in Nat
      /\ BodyLen(answered + 1) \in Nat /\ Current.digits \in Seq(Nat)
  BY <1>1, Places DEF IInv
<1>6. Progress'
  <2>1. answered + 1 \in 1 .. Len(requests)
    BY <1>1, <1>5
  <2> QED BY <1>1, <1>3, <1>4, <2>1 DEF IInv, Progress
<1>7. Buffer!Taken' = Buffer!Taken /\ Current' = Current /\ HeadEnd' = HeadEnd
      /\ BodyLen(answered + 1)' = BodyLen(answered + 1)
  BY <1>1, <1>3, <1>4 DEF bufVars, Buffer!Taken, Buffer!Occupied, Buffer!TokenChars,
                          Current, HeadEnd, BodyLen
<1>8. CASE Current.wants = "input"
  <2>1. spc' = "input" /\ status' = 200 /\ n' = Length(Current.digits)
    BY <1>8 DEF Run, Length
  <2>2. n' \in Int
    BY <1>5, <2>1, LengthExact
  <2>3. Len(input') = 0 /\ input' = <<>>
    BY <1>1
  <2>4. Piece'
    BY <1>1, <1>5, <1>7, <1>8, <2>3 DEF Piece
  <2>5. Reading'
    BY <1>7, <2>1, <2>2, <2>3, <2>4 DEF Reading
  <2>6. InPlace' /\ Sending' /\ InputIsContent' /\ OutputIsFile'
    BY <2>1 DEF InPlace, Sending, InputIsContent, OutputIsFile
  <2> QED BY <1>2, <1>4, <1>6, <2>5, <2>6 DEF IInv
<1>9. CASE Current.wants # "input"
  <2> DEFINE wants == Current.wants
  <2>1. /\ fd' = Open(files, wants)
        /\ status' = IF fd'.error = 0 THEN 200 ELSE 404
        /\ spc' = IF fd'.error = 0 THEN "output" ELSE "respond"
    BY <1>9 DEF Run
  <2>2. files \in Seq([name : STRING, size : Nat]) /\ files # <<>>
        /\ DOMAIN files = 1 .. Len(files)
        /\ Len(files) \in Nat
    BY DEF IInv, Planned
  <2> HIDE DEF wants
  <2>3. InPlace' /\ Reading' /\ InputIsContent'
    BY <1>7, <1>9, <2>1 DEF InPlace, Reading, InputIsContent
  <2>4. CASE /\ \A i \in 1 .. Len(files) : files[i].name # wants
             /\ Open(files, wants) = [error |-> MROMFS_ERROR_NOT_FOUND]
    <3>1. status' = 404 /\ spc' = "respond"
      BY <2>1, <2>4 DEF MROMFS_ERROR_NOT_FOUND
    <3>2. Sending' /\ OutputIsFile'
      BY <1>3, <1>7, <2>2, <2>4, <3>1 DEF Sending, OutputIsFile, wants
    <3> QED BY <1>2, <1>4, <1>6, <2>3, <3>2 DEF IInv
  <2>5. ASSUME NEW i \in 1 .. Len(files), files[i].name = wants,
               \A j \in 1 .. i - 1 : files[j].name # wants,
               Open(files, wants) = Found(files, i)
        PROVE  IInv'
    <3> DEFINE at == Offset(files)[i] + Align
    <3>1. (i = Len(files) /\ files[i].size = 0 /\ FileHead < Align)
             <=> at + files[i].size > Size(files)
      BY <2>2, SizeOfImage
    <3>2. files[i].size \in Nat /\ at \in Nat
      BY <2>2, BuildFacts, OffsetsApart, AlignAssumption
    <3>3. CASE at + files[i].size > Size(files)
      <4>1. Open(files, wants) = [error |-> MROMFS_ERROR_OUT_OF_BOUND]
        BY <2>5, <3>3 DEF Found
      <4>2. status' = 404 /\ spc' = "respond"
        BY <2>1, <4>1 DEF MROMFS_ERROR_OUT_OF_BOUND
      <4>3. i = Len(files) /\ files[i].size = 0 /\ FileHead < Align
        BY <3>1, <3>3
      <4>4. ASSUME NEW j \in 1 .. Len(files), files[j].name = wants PROVE j = i
        BY <2>2, <2>5, <4>3, <4>4
      <4>5. ~ \E j \in 1 .. Len(files) : /\ files[j].name = wants
                                         /\ j = Len(files) /\ FileHead < Align
                                               => files[j].size > 0
        <5>1. ~(files[i].size > 0)
          BY <4>3
        <5> QED BY <4>3, <4>4, <5>1
      <4>6. OutputIsFile'
        BY <1>3, <1>7, <2>2, <4>2, <4>5 DEF OutputIsFile, wants
      <4>7. Sending'
        BY <4>2 DEF Sending
      <4> QED BY <1>2, <1>4, <1>6, <2>3, <4>6, <4>7 DEF IInv
    <3>4. CASE ~(at + files[i].size > Size(files))
      <4>1. Open(files, wants)
              = [error |-> 0, start |-> at, size |-> files[i].size, offset |-> at]
        BY <2>5, <3>4 DEF Found
      <4>2. status' = 200 /\ spc' = "output"
        BY <2>1, <4>1
      <4>3. SentOf(i, 0)'
        <5>1. at + 0 = at
          BY <3>2
        <5>2. output' = [j \in 1 .. 0 |-> <<wants, j>>]
          BY <1>1
        <5>3. i = Len(files) /\ FileHead < Align => files[i].size > 0
          BY <3>1, <3>2, <3>4
        <5> QED BY <1>3, <1>7, <2>1, <2>5, <4>1, <5>1, <5>2, <5>3 DEF SentOf, wants
      <4>4. 0 \in 0 .. files[i].size
        BY <3>2
      <4>5. Sending'
        BY <1>3, <1>7, <1>9, <4>2, <4>3, <4>4 DEF Sending
      <4>6. OutputIsFile'
        BY <4>2 DEF OutputIsFile
      <4> QED BY <1>2, <1>4, <1>6, <2>3, <4>5, <4>6 DEF IInv
    <3> QED BY <3>3, <3>4
  <2> QED BY <2>2, <2>4, <2>5, OpenFinds
<1> QED BY <1>8, <1>9

(* One more piece of the body.                                             *)
LEMMA InputStep == IInv /\ (Input \/ InputFails) => IInv'
<1> SUFFICES ASSUME IInv, Input \/ InputFails PROVE IInv'
  OBVIOUS
<1> DEFINE len == chunkSize
<1>1. /\ spc = "input" /\ n > 0 /\ (Content(len) \/ ContentFails(len))
      /\ n' = IF content' = <<>> THEN 0 ELSE n - Len(content')
      /\ input' = input \o content'
      /\ UNCHANGED <<peerVars, answered, spc, fd, output, status>>
  BY DEF Input, InputFails, AddChunk
<1>2. /\ Piece /\ n \in Int /\ status = 200 /\ n + Len(input) = Length(Current.digits)
  BY <1>1 DEF IInv, Reading
<1>3. /\ len \in Nat /\ len > 0 /\ len <= n
  BY <1>1, <1>2, LengthsAssumption DEF chunkSize
<1> HIDE DEF len
<1>4. Trace!IInv'
  BY <1>1, <1>3, ContentKeepsBuffer DEF IInv
<1>5. Planned' /\ Begin' = Begin
  BY <1>1, PlanStays DEF IInv, peerVars
<1>6. /\ Len(requests) \in Nat /\ answered \in Nat /\ answered < Len(requests)
      /\ sent \in Nat /\ received \in Nat /\ received <= sent
  BY <1>1, Places, TakenOK DEF IInv, Progress
<1>7. /\ HeadEnd \in Nat /\ BodyLen(answered + 1) \in Nat /\ Current.digits \in Seq(Nat)
  BY <1>6, Places DEF IInv
<1>8. PICK l \in 0 .. len :
        /\ content' = [j \in 1 .. l |-> Buffer!Taken + j]
        /\ Buffer!Taken' = Buffer!Taken + l
        /\ received' \in received .. sent
        /\ l = 0 /\ len > 0 => \/ /\ peerClosed /\ received = sent
                                  /\ Buffer!Taken = received /\ received' = received
                               \/ answered + 1 \in failed'
  BY <1>1, <1>3, <1>6, ContentOK DEF IInv
<1>9. Progress'
  BY <1>1, <1>5, <1>6, <1>8 DEF IInv, Progress, peerVars
<1>10. Current' = Current /\ HeadEnd' = HeadEnd
       /\ BodyLen(answered + 1)' = BodyLen(answered + 1)
  BY <1>1, <1>5 DEF Current, HeadEnd, BodyLen, peerVars
<1>11. /\ input' \in Seq(Nat) /\ Len(input') = Len(input) + l
       /\ \A j \in 1 .. Len(input') : input'[j] = HeadEnd + j
       /\ Len(content') = l /\ Len(input) \in Nat
  <2> DEFINE t == Buffer!Taken
             c == content'
  <2>1. /\ t \in Nat /\ l \in Nat /\ input \in Seq(Nat) /\ Len(input) \in Nat
        /\ t = HeadEnd + Len(input) /\ c = [j \in 1 .. l |-> t + j]
        /\ \A j \in 1 .. Len(input) : input[j] = HeadEnd + j
    BY <1>2, <1>8, TakenOK DEF IInv, Piece
  <2>2. input' = input \o c
    BY <1>1
  <2> HIDE DEF t, c
  <2>3. c \in Seq(Nat) /\ Len(c) = l
    BY <2>1
  <2>4. input \o c \in Seq(Nat) /\ Len(input \o c) = Len(input) + l
    BY <2>1, <2>3
  <2>5. ASSUME NEW j \in 1 .. Len(input) + l PROVE (input \o c)[j] = HeadEnd + j
    <3>1. CASE j <= Len(input)
      BY <2>1, <2>3, <3>1
    <3>2. CASE j > Len(input)
      <4>1. (input \o c)[j] = c[j - Len(input)]
        BY <2>1, <2>3, <3>2
      <4>2. j - Len(input) \in 1 .. l
        BY <2>1, <3>2
      <4>3. c[j - Len(input)] = t + (j - Len(input))
        BY <2>1, <4>2
      <4> QED BY <1>7, <2>1, <4>1, <4>3
    <3> QED BY <2>1, <3>1, <3>2
  <2> QED BY <2>1, <2>2, <2>3, <2>4, <2>5 DEF c
<1>12. Len(input) + l <= BodyLen(answered + 1)
  <2>1. Length(Current.digits) <= BodyLen(answered + 1) /\ Length(Current.digits) \in Int
    BY <1>7, LengthExact DEF Current, BodyLen
  <2> QED BY <1>2, <1>3, <1>7, <1>11, <2>1
<1>13. Piece'
  <2>1. Buffer!Taken \in Nat
    BY TakenOK DEF IInv
  <2> QED BY <1>2, <1>7, <1>8, <1>10, <1>11, <1>12, <2>1 DEF Piece
<1>14. n' \in Int
       /\ \/ n' + Len(input') = Length(Current'.digits) /\ (n' >= 0 \/ input' = <<>>)
          \/ n' = 0 /\ Dry'
  <2>1. CASE l = 0
    <3>1. content' = <<>>
      BY <1>8, <2>1
    <3>2. n' = 0
      BY <1>1, <3>1
    <3>3. \/ /\ peerClosed /\ received = sent /\ Buffer!Taken = received
             /\ received' = received
             /\ Buffer!Taken' = Buffer!Taken + 0
          \/ answered + 1 \in failed'
      BY <1>3, <1>8, <2>1
    <3>4. Dry'
      BY <1>1, <1>6, <3>3 DEF Dry, peerVars
    <3> QED BY <3>2, <3>4
  <2>2. CASE l # 0
    <3>1. content' # <<>>
      BY <1>11, <2>2
    <3>2. n' = n - l
      BY <1>1, <1>11, <3>1
    <3>3. n' \in Int /\ n' + Len(input') = n + Len(input) /\ n' >= 0
      BY <1>2, <1>3, <1>11, <3>2
    <3> QED BY <1>2, <1>10, <3>3
  <2> QED BY <2>1, <2>2
<1>15. Reading'
  BY <1>1, <1>2, <1>13, <1>14 DEF Reading
<1>16. InPlace' /\ Sending' /\ InputIsContent' /\ OutputIsFile'
  BY <1>1 DEF InPlace, Sending, InputIsContent, OutputIsFile
<1> QED BY <1>4, <1>5, <1>9, <1>15, <1>16 DEF IInv

(* The whole body has been read, or no more of it comes.                   *)
LEMMA InputEndsStep == IInv /\ InputEnds => IInv'
<1> SUFFICES ASSUME IInv, InputEnds PROVE IInv'
  OBVIOUS
<1>1. /\ spc = "input" /\ n <= 0 /\ spc' = "respond"
      /\ UNCHANGED <<bufVars, peerVars, answered, runVars>>
  BY DEF InputEnds
<1>2. UNCHANGED <<requests, files, sent, peerClosed, ahead, received, n, input, fd, output,
                  status, failed>>
  BY <1>1 DEF bufVars, peerVars, runVars
<1>3. Trace!IInv'
  BY <1>1, BufferStutters DEF IInv
<1>4. Planned' /\ Begin' = Begin
  BY <1>2, PlanStays DEF IInv
<1>5. /\ Piece /\ n \in Int /\ status = 200
      /\ \/ n + Len(input) = Length(Current.digits) /\ (n >= 0 \/ input = <<>>)
         \/ n = 0 /\ Dry
  BY <1>1 DEF IInv, Reading
<1>6. Progress'
  BY <1>1, <1>2, <1>4 DEF IInv, Progress
<1>7. Piece'
  BY <1>1, <1>2, <1>4, <1>5 DEF Piece, Current, HeadEnd, BodyLen, bufVars, Buffer!Taken,
                                Buffer!Occupied, Buffer!TokenChars
<1>8. /\ Len(requests) \in Nat /\ answered \in Nat /\ answered < Len(requests)
      /\ sent \in Nat
  BY <1>1, Places DEF IInv, Progress
<1>9. /\ HeadEnd \in Nat /\ BodyLen(answered + 1) \in Nat /\ Current.digits \in Seq(Nat)
      /\ Begin[answered + 2] = HeadEnd + BodyLen(answered + 1)
  BY <1>8, Places DEF IInv
<1>10. Len(input) < BodyLen(answered + 1) =>
          \/ peerClosed /\ sent < Begin[answered + 2]
          \/ Overflows(Current.digits)
          \/ answered + 1 \in failed
  <2> SUFFICES ASSUME Len(input) < BodyLen(answered + 1), ~Overflows(Current.digits),
                      answered + 1 \notin failed
               PROVE  peerClosed /\ sent < Begin[answered + 2]
    OBVIOUS
  <2>1. Length(Current.digits) = BodyLen(answered + 1)
    BY <1>9, LengthExact DEF Current, BodyLen
  <2>2. Len(input) \in Nat /\ Buffer!Taken = HeadEnd + Len(input)
    BY <1>5 DEF Piece
  <2>3. n = 0 /\ Dry
    <3>1. input = <<>> => Len(input) = 0
      OBVIOUS
    <3> QED BY <1>1, <1>5, <1>9, <2>1, <2>2, <3>1
  <2> QED BY <1>9, <2>2, <2>3 DEF Dry
<1>11. InputIsContent'
  <2>1. InputIsContent' <=> (Current.wants = "input" =>
                /\ Len(input) <= BodyLen(answered + 1)
                /\ \A j \in 1 .. Len(input) : input[j] = HeadEnd + j
                /\ Len(input) < BodyLen(answered + 1) =>
                       \/ peerClosed /\ sent < Begin[answered + 2]
                       \/ Overflows(Current.digits)
                       \/ answered + 1 \in failed)
    BY <1>1, <1>2, <1>4 DEF InputIsContent, Current, HeadEnd, BodyLen
  <2> QED BY <1>5, <1>10, <2>1 DEF Piece
<1>12. InPlace' /\ Reading' /\ Sending'
  BY <1>1, <1>2, <1>5, <1>7 DEF InPlace, Reading, Sending
<1>13. OutputIsFile'
  BY <1>1, <1>2, <1>5 DEF OutputIsFile, Piece, Current
<1> QED BY <1>3, <1>4, <1>6, <1>11, <1>12, <1>13 DEF IInv

(* Two pieces, one behind the other.                                       *)
LEMMA Joined ==
  ASSUME NEW e, NEW k \in Nat, NEW r \in Nat, NEW p, NEW q,
         p = [j \in 1 .. k |-> e[j]], q = [j \in 1 .. r |-> e[k + j]]
  PROVE  p \o q = [j \in 1 .. k + r |-> e[j]]
<1> DEFINE S == {e[j] : j \in Nat}
<1>1. \A j \in 1 .. k : e[j] \in S
  OBVIOUS
<1>2. \A j \in 1 .. r : e[k + j] \in S
  OBVIOUS
<1> HIDE DEF S
<1>3. p \in Seq(S) /\ Len(p) = k /\ q \in Seq(S) /\ Len(q) = r
  BY <1>1, <1>2
<1>4. p \o q \in Seq(S) /\ Len(p \o q) = k + r
  BY <1>3
<1>5. ASSUME NEW j \in 1 .. k + r PROVE (p \o q)[j] = e[j]
  <2>1. CASE j <= k
    BY <1>3, <2>1
  <2>2. CASE j > k
    <3>1. (p \o q)[j] = q[j - k]
      BY <1>3, <2>2
    <3>2. j - k \in 1 .. r /\ k + (j - k) = j
      BY <2>2
    <3>3. q[j - k] = e[k + (j - k)]
      BY <3>2
    <3> QED BY <3>1, <3>2, <3>3
  <2> QED BY <2>1, <2>2
<1> QED BY <1>4, <1>5

(* One more piece of the file.                                             *)
LEMMA OutputStep == IInv /\ Output => IInv'
<1> SUFFICES ASSUME IInv, Output PROVE IInv'
  OBVIOUS
<1>1. PICK r : r = ReadLen(fd, Chunk)
  OBVIOUS
<1> DEFINE piece == [j \in 1 .. r |-> Byte(files, fd.offset + j - 1)]
<1>2. /\ spc = "output"
      /\ output' = output \o piece
      /\ fd' = [fd EXCEPT !.offset = @ + r]
      /\ spc' = IF r = 0 THEN "respond" ELSE "output"
      /\ UNCHANGED <<bufVars, peerVars, answered, n, input, status>>
  BY <1>1 DEF Output
<1> HIDE DEF piece
<1>3. UNCHANGED <<requests, files, sent, peerClosed, ahead, received>>
  BY <1>2 DEF bufVars, peerVars
<1>4. Trace!IInv'
  BY <1>2, BufferStutters DEF IInv
<1>5. Planned' /\ Begin' = Begin
  BY <1>3, PlanStays DEF IInv
<1>6. Progress'
  BY <1>2, <1>3, <1>5 DEF IInv, Progress
<1>7. Current' = Current
  BY <1>2, <1>3 DEF Current
<1>8. /\ Current.wants # "input" /\ status = 200
      /\ \E i \in 1 .. Len(files) : \E k \in 0 .. files[i].size : SentOf(i, k)
  BY <1>2 DEF IInv, Sending
<1>9. PICK i \in 1 .. Len(files) : \E k \in 0 .. files[i].size : SentOf(i, k)
  BY <1>8
<1>10. PICK k \in 0 .. files[i].size : SentOf(i, k)
  BY <1>9
<1>11. files \in Seq([name : STRING, size : Nat]) /\ files # <<>>
       /\ DOMAIN files = 1 .. Len(files)
  BY DEF IInv, Planned
<1> DEFINE wants == Current.wants
           size == files[i].size
           at == Offset(files)[i] + Align
<1>12. /\ files[i].name = wants
       /\ fd = [error |-> 0, start |-> at, size |-> size, offset |-> at + k]
       /\ output = [j \in 1 .. k |-> <<wants, j>>]
  BY <1>10 DEF SentOf
<1>13. size \in Nat /\ at \in Nat /\ k \in Nat /\ k <= size
  BY <1>11, BuildFacts, OffsetsApart, AlignAssumption
<1>14. \A x \in 0 .. size - 1 : Byte(files, at + x) = <<wants, x + 1>>
  BY <1>11, <1>12, BytesOfFile
<1> HIDE DEF wants, size, at
<1>15. /\ r \in Nat /\ k + r <= size /\ (r = 0 => k = size)
  <2>1. r = IF at + size - (at + k) > Chunk THEN Chunk ELSE at + size - (at + k)
    BY <1>1, <1>12 DEF ReadLen
  <2> QED BY <1>13, <2>1, LengthsAssumption
<1>16. fd' = [error |-> 0, start |-> at, size |-> size, offset |-> at + (k + r)]
  <2>1. fd' = [error |-> 0, start |-> at, size |-> size, offset |-> (at + k) + r]
    BY <1>2, <1>12
  <2> QED BY <1>13, <1>15, <2>1
<1>17. output' = [j \in 1 .. k + r |-> <<wants, j>>]
  <2>1. piece = [j \in 1 .. r |-> <<wants, k + j>>]
    <3>1. ASSUME NEW j \in 1 .. r PROVE Byte(files, fd.offset + j - 1) = <<wants, k + j>>
      <4>1. k + j - 1 \in 0 .. size - 1 /\ fd.offset + j - 1 = at + (k + j - 1)
            /\ (k + j - 1) + 1 = k + j
        BY <1>12, <1>13, <1>15
      <4> QED BY <1>14, <4>1
    <3> QED BY <3>1 DEF piece
  <2> DEFINE e == [j \in Nat |-> <<wants, j>>]
  <2>2. output = [j \in 1 .. k |-> e[j]] /\ piece = [j \in 1 .. r |-> e[k + j]]
    <3>1. \A j \in 1 .. r : k + j \in Nat
      BY <1>13, <1>15
    <3> QED BY <1>12, <2>1, <3>1
  <2>3. [j \in 1 .. k + r |-> e[j]] = [j \in 1 .. k + r |-> <<wants, j>>]
    OBVIOUS
  <2> HIDE DEF e
  <2>4. output \o piece = [j \in 1 .. k + r |-> e[j]]
    BY <1>13, <1>15, <2>2, Joined
  <2> QED BY <1>2, <2>3, <2>4, Zenon
<1>18. SentOf(i, k + r)'
  <2>1. files[i].name = wants /\ (i = Len(files) /\ FileHead < Align => files[i].size > 0)
    BY <1>10 DEF SentOf, wants
  <2>2. /\ fd' = [error |-> 0, start |-> Offset(files)[i] + Align, size |-> files[i].size,
                  offset |-> Offset(files)[i] + Align + (k + r)]
        /\ output' = [j \in 1 .. k + r |-> <<Current.wants, j>>]
    BY <1>16, <1>17 DEF at, size, wants
  <2>3. fd' = [error |-> 0, start |-> Offset(files')[i] + Align, size |-> files'[i].size,
               offset |-> Offset(files')[i] + Align + (k + r)]
    BY <1>3, <2>2
  <2>4. output' = [j \in 1 .. k + r |-> <<Current'.wants, j>>]
    BY <1>7, <2>2
  <2>5. /\ files'[i].name = Current'.wants
        /\ i = Len(files') /\ FileHead < Align => files'[i].size > 0
    BY <1>3, <1>7, <2>1 DEF wants
  <2> QED BY <2>3, <2>4, <2>5 DEF SentOf
<1>19. Sending'
  <2>1. k + r \in 0 .. files'[i].size /\ i \in 1 .. Len(files') /\ status' = 200
    BY <1>2, <1>3, <1>8, <1>13, <1>15 DEF size
  <2> QED BY <1>7, <1>8, <1>18, <2>1 DEF Sending
<1>20. OutputIsFile'
  <2>1. CASE r = 0
    <3>1. k + r = size
      BY <1>13, <1>15, <2>1
    <3>2. output' = [j \in 1 .. size |-> <<wants, j>>]
      BY <1>17, <3>1
    <3>3. ASSUME \E j \in DOMAIN files : /\ files[j].name = wants
                                         /\ j = Len(files) /\ FileHead < Align
                                              => files[j].size > 0,
                 \E j \in DOMAIN files :
                    /\ files[j].name = wants
                    /\ status = 200
                    /\ output' = [x \in 1 .. files[j].size |-> <<wants, x>>]
          PROVE  OutputIsFile'
      BY <1>2, <1>3, <1>7, <3>3 DEF OutputIsFile, wants
    <3>4. \E j \in DOMAIN files :
             /\ files[j].name = wants
             /\ status = 200
             /\ output' = [x \in 1 .. files[j].size |-> <<wants, x>>]
      BY <1>8, <1>11, <1>12, <3>2 DEF size
    <3>5. i = Len(files) /\ FileHead < Align => files[i].size > 0
      BY <1>10 DEF SentOf
    <3>6. i \in DOMAIN files /\ files[i].name = wants
      BY <1>11, <1>12
    <3>7. \E j \in DOMAIN files : /\ files[j].name = wants
                                  /\ j = Len(files) /\ FileHead < Align
                                        => files[j].size > 0
      BY <3>5, <3>6
    <3> QED BY <3>3, <3>4, <3>7
  <2>2. CASE r # 0
    BY <1>2, <2>2 DEF OutputIsFile
  <2> QED BY <2>1, <2>2
<1>21. InPlace' /\ Reading' /\ InputIsContent'
  BY <1>2, <1>7, <1>8 DEF InPlace, Reading, InputIsContent
<1> QED BY <1>4, <1>5, <1>6, <1>19, <1>20, <1>21 DEF IInv

(* The answer is complete.                                                 *)
LEMMA RespondStep == IInv /\ Respond => IInv'
<1> SUFFICES ASSUME IInv, Respond PROVE IInv'
  OBVIOUS
<1>1. /\ spc = "respond" /\ answered' = answered + 1 /\ spc' = "service"
      /\ UNCHANGED <<bufVars, peerVars, runVars>>
  BY DEF Respond
<1>2. UNCHANGED <<requests, files, sent, peerClosed, ahead, received>>
  BY <1>1 DEF bufVars, peerVars
<1>3. Trace!IInv'
  BY <1>1, BufferStutters DEF IInv
<1>4. Planned' /\ Begin' = Begin
  BY <1>2, PlanStays DEF IInv
<1>5. /\ Len(requests) \in Nat /\ answered \in Nat /\ answered < Len(requests)
      /\ sent \in Nat
      /\ received \in Nat /\ received <= sent /\ sent <= Begin[Len(requests) + 1]
      /\ \A r \in 1 .. Len(requests) : sent > Begin[r] => r <= answered + 1 \/ ahead
      /\ \A r \in 1 .. Len(requests) + 1 : Begin[r] \in Nat
  BY <1>1, Places, TakenOK DEF IInv, Progress
<1>6. /\ HeadEnd \in Nat /\ BodyLen(answered + 1) \in Nat
      /\ Begin[answered + 2] = HeadEnd + BodyLen(answered + 1)
      /\ answered + 2 = answered' + 1
  BY <1>1, <1>5, Places DEF IInv
<1>7. Progress'
  <2>1. \A r \in 1 .. Len(requests) : sent > Begin[r] => r <= (answered + 1) + 1 \/ ahead
    <3>1. \A r \in 1 .. Len(requests) : r <= answered + 1 => r <= (answered + 1) + 1
      BY <1>5
    <3> QED BY <1>5, <3>1
  <2>2. answered + 1 \in 0 .. Len(requests) /\ sent \in 0 .. Begin[Len(requests) + 1]
    BY <1>1 DEF IInv, Progress
  <2> QED BY <1>1, <1>2, <1>4, <1>5, <2>1, <2>2 DEF Progress
<1>8. ASSUME received > Begin[answered + 2] PROVE ahead
  <2>1. CASE answered + 2 \in 1 .. Len(requests)
    <3>1. sent > Begin[answered + 2]
      BY <1>5, <1>8, <2>1
    <3>2. ~(answered + 2 <= answered + 1)
      BY <1>5
    <3> QED BY <1>5, <2>1, <3>1, <3>2
  <2>2. CASE answered + 2 = Len(requests) + 1
    <3>1. Begin[Len(requests) + 1] \in Nat
      BY <1>5
    <3> QED BY <1>5, <1>8, <2>2, <3>1
  <2> QED BY <1>5, <2>1, <2>2
<1>9. ASSUME received < Begin[answered + 2] PROVE Excused(answered + 1)
  <2>1. CASE Current.wants # "input"
    BY <2>1 DEF Excused, Current
  <2>2. CASE status = 400
    <3>1. Current.wants = "bad" \/ answered + 1 \in failed
      BY <1>1, <2>2 DEF IInv, InPlace
    <3> QED BY <2>1, <3>1 DEF Excused
  <2>3. CASE Current.wants = "input" /\ status # 400
    <3>1. Piece /\ InputIsContent
      BY <1>1, <2>3 DEF IInv, Reading
    <3>2. Len(input) \in Nat /\ Buffer!Taken = HeadEnd + Len(input)
          /\ Buffer!Taken <= received
      BY <3>1, TakenOK DEF IInv, Piece
    <3>3. Len(input) < BodyLen(answered + 1)
      BY <1>5, <1>6, <1>9, <3>2
    <3>4. (peerClosed /\ sent < Begin[answered + 2]) \/ Overflows(Current.digits)
          \/ answered + 1 \in failed
      BY <1>1, <2>3, <3>1, <3>3 DEF InputIsContent
    <3> QED BY <1>5, <1>6, <3>4 DEF Excused, Current
  <2> QED BY <2>1, <2>2, <2>3
<1>10. InPlace'
  <2>1. received' > Begin'[answered' + 1] => ahead'
    BY <1>2, <1>4, <1>6, <1>8
  <2>2. received' < Begin'[answered' + 1] => Excused(answered)'
    <3>1. Excused(answered + 1) => Excused(answered)'
      BY <1>1, <1>2, <1>4 DEF Excused, runVars
    <3> QED BY <1>2, <1>4, <1>6, <1>9, <3>1
  <2> QED BY <1>1, <2>1, <2>2 DEF InPlace
<1>11. Reading' /\ Sending' /\ InputIsContent' /\ OutputIsFile'
  BY <1>1, NothingDone
<1> QED BY <1>3, <1>4, <1>7, <1>10, <1>11 DEF IInv

(* A step that changes nothing.                                            *)
LEMMA StutterStep == IInv /\ UNCHANGED vars => IInv'
<1> SUFFICES ASSUME IInv, UNCHANGED vars PROVE IInv'
  OBVIOUS
<1>1. /\ UNCHANGED <<bufVars, peerVars, runVars>> /\ UNCHANGED <<answered, spc>>
      /\ UNCHANGED <<requests, files, sent, peerClosed, ahead, received, n, input, fd, output,
                     status, failed>>
  BY DEF vars, bufVars, peerVars, runVars
<1>2. Trace!IInv'
  BY <1>1, BufferStutters DEF IInv
<1>3. Planned' /\ Begin' = Begin
  BY <1>1, PlanStays DEF IInv
<1>4. Progress' /\ InPlace'
  BY <1>1, <1>3 DEF IInv, Progress, InPlace, Excused, Current
<1>5. Reading'
  BY <1>1, <1>3 DEF IInv, Reading, Piece, Dry, Current, HeadEnd, BodyLen, Buffer!Taken,
                    Buffer!Occupied, Buffer!TokenChars, bufVars
<1>6. Sending'
  <2>1. Current' = Current
    BY <1>1 DEF Current
  <2>2. \A i, k : SentOf(i, k) => SentOf(i, k)'
    BY <1>1, <2>1 DEF SentOf
  <2> QED BY <1>1, <2>1, <2>2 DEF IInv, Sending
<1>7. OutputIsFile'
  BY <1>1 DEF IInv, OutputIsFile, Current
<1>8. InputIsContent'
  BY <1>1, <1>3 DEF IInv, InputIsContent, Current, HeadEnd, BodyLen
<1> QED BY <1>2, <1>3, <1>4, <1>5, <1>6, <1>7, <1>8 DEF IInv

-------------------------------------------------------------------------------
(* The invariant holds throughout.                                         *)
THEOREM Invariance == Spec => []IInv
<1>1. IInv /\ [Next]_vars => IInv'
  BY ServiceStep, ParseStep, ParseEndsStep, RejectStep, ParseFailsStep, RunStep, InputStep,
     InputEndsStep, OutputStep, RespondStep, PeerClosesStep, SendStep, StutterStep
     DEF Next, Server, RecvFails
<1> QED BY <1>1, InitIInv, PTL DEF Spec

(* Between two requests the server is where the next one begins, unless    *)
(* the peer has sent ahead or there is one of the excuses of Aligned: the  *)
(* peer closed, the body was left unread or its head rejected with 400,    *)
(* its length overflowed, or a recv failed (tokenReset in client.c:117     *)
(* keeps what is behind a request).                                        *)
THEOREM ServerAligned == Spec => []Aligned
<1>1. IInv => Aligned
  <2> SUFFICES ASSUME IInv, spc = "lost"
               PROVE  IF received > Begin[answered + 1] THEN ahead
                      ELSE \/ peerClosed /\ sent < Begin[answered + 1]
                           \/ requests[answered].wants # "input"
                           \/ Overflows(requests[answered].digits)
                           \/ answered \in failed
    BY DEF Aligned
  <2>1. Begin[answered + 1] \in Nat /\ received \in Nat
    BY Places, TakenOK DEF IInv
  <2>2. CASE received > Begin[answered + 1]
    BY <2>2 DEF IInv, InPlace
  <2>3. CASE ~(received > Begin[answered + 1])
    <3>1. received < Begin[answered + 1]
      BY <2>1, <2>3 DEF IInv, InPlace
    <3>2. Excused(answered)
      BY <3>1 DEF IInv, InPlace
    <3> QED BY <2>3, <3>2 DEF Excused
  <2> QED BY <2>2, <2>3
<1> QED BY <1>1, Invariance, PTL

(* The script's reader returns the body that was sent, whatever the pieces *)
(* it comes in and the size of the buffer (util.lua:157, lclient.c:399),   *)
(* and less of it only if its length overflowed, the peer closed, or a     *)
(* recv failed for it with nothing in the buffer (lclient.c:404).          *)
THEOREM BodyRead == Spec => []InputIsContent
<1>1. IInv => InputIsContent
  BY DEF IInv
<1> QED BY <1>1, Invariance, PTL

(* A file of the image is sent as it was packed, whatever else was packed  *)
(* with it and the size of the chunks (mromfs.c:88).                       *)
THEOREM FileSent == Spec => []OutputIsFile
<1>1. IInv => OutputIsFile
  BY DEF IInv
<1> QED BY <1>1, Invariance, PTL
===============================================================================
