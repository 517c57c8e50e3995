--------------------------- MODULE ConnectionProofs ---------------------------
(***************************************************************************)
(* Proofs about Connection with the parser of Http, for every number of    *)
(* responses a script of the site may send.  Each invariant of the model   *)
(* checker's run and KeptAsAnnounced follow from IInv, which says what     *)
(* holds at every TOKEN_GET of the grammar.                                *)
(***************************************************************************)
EXTENDS Connection, TLAPS

Ends == {"EOF", "ERROR"}

(* The TOKEN_GETs of the request target, the only ones behind which more   *)
(* than one rejected character may be left.                                *)
InTarget == {"path", "pathEscape", "slash", "question", "name", "nameEscape", "equal",
             "value", "valueEscape", "and", "uriSp", "uriLine"}

(* The TOKEN_GETs of http_ParseQuery's loop, before and after the name.    *)
InName  == {"name", "nameEscape"}
InValue == {"equal", "and", "value", "valueEscape"}

(* Those behind the content type of _parseHeaderValue.                     *)
InType == {"multipartSlash", "multipart", "semicolon", "owsBoundary", "boundaryName",
           "boundaryEqual", "boundary", "typeSlash", "subtype"}

(* Those before the fields method, path and the table of the query are set.*)
BeforeMethod == {"leading", "method"}
BeforePath   == BeforeMethod \cup {"methodSp", "methodLine", "absPath"}
BeforeQuery  == BeforePath \cup {"path", "pathEscape", "slash"}

(* Those before the name of a header field decides how its value is read.  *)
BeforeName == BeforeQuery \cup InTarget \cup
              {"http", "httpSlash", "major", "dot", "minor", "lineEnd",
               "fieldName", "colon", "owsBefore"}

(* Where client_Service is between the parser and the next request.        *)
Scripted   == {"handler", "errorScript"}
Processing == {"process", "errorPage", "send"} \cup Scripted

-------------------------------------------------------------------------------
(* The characters of the stream not yet part of a token.                   *)
rest == put \o ahead

(* Characters are held back only within a token of two or three given      *)
(* ones.                                                                   *)
HeldBack ==
    /\ pc \in Parsing /\ token = "reading" =>
          /\ Wanted[pc] \in DOMAIN Sign  => len = 0 /\ put = <<>>
          /\ Wanted[pc] \in DOMAIN Class => len <= 1 /\ put = <<>>
          /\ Wanted[pc] = "CRLF"   => len <= 1 /\ Len(put) = len /\ (len = 1 => put[1] = "CR")
          /\ Wanted[pc] = "ESCAPE" => Len(put) = len /\ (len > 0 => put[1] = "%")
    /\ pc \notin Parsing \/ token # "reading" => put = <<>>

(* More than one character is known only after a token was rejected, which *)
(* began with the sign of an escape or of a line end, and none behind one  *)
(* that was found.                                                         *)
Rejected ==
    pc \in Parsing =>
        /\ Len(rest) <= 4
        /\ Len(rest) > 2 => rest[1] = "%"
        /\ Len(rest) > 1 => rest[1] = "CR" \/ (rest[1] = "%" /\ pc \in InTarget)
        /\ token = "found" /\ Wanted[pc] \in DOMAIN Sign \cup {"CRLF"} => ahead = <<>>

(* All that is said of the characters.                                     *)
Lexical ==
    /\ token \in {"reading", "found", "missing"} /\ len \in 0 .. 3
    /\ nTokens \in 0 .. TOKENS_MAX
    /\ put \in Seq(Chars) /\ Len(put) <= 3
    /\ ahead \in Seq(Chars \cup Ends) /\ Len(ahead) <= 4
    /\ \A i \in 1 .. Len(ahead) : ahead[i] \in Chars \/ i = Len(ahead)
    /\ HeldBack /\ Rejected

(* A token stays remembered when the subtype of a multipart type is not    *)
(* form-data, until the end of the line.                                   *)
Remembered ==
    /\ pc \in Parsing => LET found == IF token = "found" THEN 1 ELSE 0
                         IN  \/ nTokens = found
                             \/ nTokens = found + 1 /\ pc \in {"owsAfter", "fieldEnd"}
    /\ pc = "process" /\ error = HTTP_200_OK => nTokens = 0 /\ ahead = <<>>

(* The fields that are set at each TOKEN_GET, and behind the parser.       *)
FieldsSet ==
    LET accepted == pc = "process" /\ error = HTTP_200_OK
        past(S)  == pc \in Parsing \ S \/ accepted
    IN  /\ past(BeforeMethod) => "method" \in fields
        /\ past(BeforePath)   => "path" \in fields
        /\ past(BeforeQuery)  => "qtable" \in fields
        /\ pc \in InName \cup InValue => "query" \in fields
        /\ pc \in InType => "contentType" \in fields
        /\ "boundary" \in fields => "contentType" \in fields

(* A header line has set its field, if it has one, when its value is read. *)
LinesTold ==
    LET accepted == pc = "process" /\ error = HTTP_200_OK
        told(field, line) ==
            /\ field \in fields => line \in lines
            /\ pc \in Parsing \ {line} \/ accepted => (line \in lines => field \in fields)
    IN  /\ lines \subseteq FieldNames
        /\ pc \in FieldNames => pc \in lines
        /\ told("headers", "other")
        /\ told("contentLength", "contentLength")
        /\ told("contentType", "contentType")
        /\ "keepAlive" \in fields => "connection" \in lines
        /\ pc \in Parsing \ BeforeName \/ accepted => lines # {}

Answers == [inHandler : BOOLEAN, said : {"none", "keep-alive", "close"},
            scripted : BOOLEAN, replies : 0 .. MaxReplies + 1]

(* What became of the request so far.                                      *)
Answering ==
    /\ pc \in Parsing \cup {"process"} => answer = NoAnswer
    /\ pc \in Processing => answer.replies <= MaxReplies
    /\ pc \in {"errorPage", "send"} /\ ~answer.scripted => answer.replies = 0
    /\ pc \in Scripted => answer.scripted
    /\ pc \in Processing \cup {"return"} =>
          /\ answer.said = "close"      => "keepAlive" \notin fields
          /\ answer.said = "keep-alive" => "keepAlive" \in fields

IInv ==
    /\ TypeOK /\ Lexical /\ Remembered /\ StackBalanced /\ FieldsSet /\ LinesTold
    /\ Answering /\ KeepAliveOfRequest /\ AnsweredOnce

-------------------------------------------------------------------------------
(* The token types and the characters they take.                           *)

LEMMA WantedTypes ==
  /\ \A at \in Parsing : Wanted[at] \in Types
  /\ \A at \in Parsing : Wanted[at] = "ESCAPE" => at \in InTarget
  /\ \A at \in InTarget : at \in Parsing /\ Wanted[at] \notin {"TCHARS", "ANY_NOT_CRLF"}
<1>1. \A at \in Parsing : Wanted[at] \in Types
  BY DEF Parsing, Wanted, Types, Sign, Class
<1>2. \A at \in Parsing : Wanted[at] = "ESCAPE" => at \in InTarget
  BY DEF Parsing, Wanted, InTarget
<1>3. \A at \in InTarget : at \in Parsing /\ Wanted[at] \notin {"TCHARS", "ANY_NOT_CRLF"}
  BY DEF Parsing, Wanted, InTarget
<1> QED BY <1>1, <1>2, <1>3

(* No type is two of the four kinds.                                       *)
LEMMA Kinds ==
  /\ Types = DOMAIN Sign \cup DOMAIN Class \cup {"CRLF", "ESCAPE"}
  /\ DOMAIN Sign \cap DOMAIN Class = {}
  /\ {"CRLF", "ESCAPE"} \cap (DOMAIN Sign \cup DOMAIN Class) = {}
  BY DEF Types, Sign, Class

(* No type but CRLF takes CR, and % is taken by an escape and by the       *)
(* classes of a header.                                                    *)
LEMMA SignChars == \A type \in DOMAIN Sign : Sign[type] \in Chars \ {"CR", "%"}
<1> SUFFICES ASSUME NEW type \in DOMAIN Sign PROVE Sign[type] \in Chars \ {"CR", "%"}
  OBVIOUS
<1>1. \/ type = "SP" \/ type = "FSLASH" \/ type = "QUESTION" \/ type = "AND"
      \/ type = "EQUAL" \/ type = "DOT" \/ type = "COLON" \/ type = "SEMICOLON"
  BY DEF Sign
<1>2. /\ Sign["SP"] = "SP" /\ Sign["FSLASH"] = "/" /\ Sign["QUESTION"] = "?"
      /\ Sign["AND"] = "&" /\ Sign["EQUAL"] = "=" /\ Sign["DOT"] = "."
      /\ Sign["COLON"] = ":" /\ Sign["SEMICOLON"] = ";"
  BY DEF Sign
<1>3. {"SP", "/", "?", "&", "=", ".", ":", ";"} \subseteq Chars \ {"CR", "%"}
  BY DEF Chars
<1> QED BY <1>1, <1>2, <1>3

LEMMA ClassChars ==
  \A type \in DOMAIN Class :
     /\ Class[type] \subseteq Chars /\ "CR" \notin Class[type]
     /\ type \notin {"TCHARS", "ANY_NOT_CRLF"} => "%" \notin Class[type]
<1> SUFFICES ASSUME NEW type \in DOMAIN Class
             PROVE  /\ Class[type] \subseteq Chars /\ "CR" \notin Class[type]
                    /\ type \notin {"TCHARS", "ANY_NOT_CRLF"} => "%" \notin Class[type]
  OBVIOUS
<1>1. \/ type = "HIALPHA" \/ type = "DIGIT" \/ type = "PCHARX" \/ type = "QUERY"
      \/ type = "OWS" \/ type = "TCHARS" \/ type = "BOUNDARY" \/ type = "ANY_NOT_CRLF"
  BY DEF Class
<1>2. /\ Class["HIALPHA"] = HIALPHA /\ Class["DIGIT"] = DIGIT
      /\ Class["PCHARX"] = PCHAR \cup {"&", "="} /\ Class["QUERY"] = PCHAR
      /\ Class["OWS"] = {"SP", "HT"} /\ Class["TCHARS"] = VCHAR
      /\ Class["BOUNDARY"] = BOUNDARY /\ Class["ANY_NOT_CRLF"] = Chars \ {"CR"}
  BY DEF Class
<1>3. /\ HIALPHA \subseteq Chars \ {"CR", "%"} /\ DIGIT \subseteq Chars \ {"CR", "%"}
      /\ PCHAR \subseteq Chars \ {"CR", "%"} /\ BOUNDARY \subseteq Chars \ {"CR", "%"}
      /\ {"&", "=", "SP", "HT"} \subseteq Chars \ {"CR", "%"}
  BY DEF HIALPHA, ALPHA, DIGIT, BOUNDARY, Chars, PCHAR, SAFE, EXTRA
<1>4. VCHAR \subseteq Chars /\ "CR" \notin VCHAR
  BY DEF VCHAR
<1> QED BY <1>1, <1>2, <1>3, <1>4

(* The characters of an escape and a line end.                             *)
LEMMA CharsOfTokens ==
  /\ HEX \subseteq Chars /\ {"%", "CR", "LF"} \subseteq Chars /\ Chars \cap Ends = {}
  BY DEF HEX, Chars, Ends

(* The character that is taken, and where in the token.                    *)
LEMMA Taken ==
  ASSUME NEW type \in Types, NEW n \in 0 .. 3, NEW ch, Takes(type, n, ch)
  PROVE  /\ ch \in Chars
         /\ type \in DOMAIN Sign  => n = 0 /\ ch \notin {"CR", "%"}
         /\ type \in DOMAIN Class =>
               ch # "CR" /\ (type \notin {"TCHARS", "ANY_NOT_CRLF"} => ch # "%")
         /\ type = "CRLF"   => (n = 0 /\ ch = "CR") \/ (n = 1 /\ ch = "LF")
         /\ type = "ESCAPE" => (n = 0 /\ ch = "%") \/ n \in 1 .. 2
<1>1. CASE type \in DOMAIN Sign
  BY <1>1, Kinds, SignChars DEF Takes
<1>2. CASE type \in DOMAIN Class
  BY <1>2, Kinds, ClassChars DEF Takes
<1>3. CASE type = "CRLF"
  BY <1>3, Kinds, CharsOfTokens DEF Takes
<1>4. CASE type = "ESCAPE"
  BY <1>4, Kinds, CharsOfTokens DEF Takes
<1> QED BY <1>1, <1>2, <1>3, <1>4, Kinds

-------------------------------------------------------------------------------
(* tokenGet.                                                               *)

(* Facts about sequences.                                                  *)
LEMMA SeqGrows == ASSUME NEW S, NEW T, S \subseteq T, NEW s \in Seq(S) PROVE s \in Seq(T)
  OBVIOUS

LEMMA One == ASSUME NEW S, NEW e \in S PROVE <<e>> \in Seq(S) /\ Len(<<e>>) = 1
  OBVIOUS

LEMMA Empty ==
  ASSUME NEW S, NEW s \in Seq(S) PROVE Len(s) \in Nat /\ (s = <<>> <=> Len(s) = 0)
  OBVIOUS

LEMMA Concat ==
  ASSUME NEW S, NEW p \in Seq(S), NEW a \in Seq(S)
  PROVE  /\ p \o a \in Seq(S) /\ Len(p \o a) = Len(p) + Len(a)
         /\ p # <<>> => (p \o a)[1] = p[1]
         /\ p = <<>> => p \o a = a
  OBVIOUS

LEMMA Shift ==
  ASSUME NEW S, NEW p \in Seq(S), NEW a \in Seq(S), a # <<>>
  PROVE  /\ Head(a) \in S /\ Head(a) = a[1]
         /\ Tail(a) \in Seq(S) /\ Len(Tail(a)) = Len(a) - 1
         /\ \A i \in 1 .. Len(a) - 1 : Tail(a)[i] = a[i + 1]
         /\ Append(p, Head(a)) \o Tail(a) = p \o a
         /\ Len(Append(p, Head(a))) = Len(p) + 1
         /\ Append(p, Head(a))[1] = IF p = <<>> THEN Head(a) ELSE p[1]
  OBVIOUS

(* The ways a character goes into a token: as the whole of it, as one of a *)
(* class, as the first or second one of a line end, as one of an escape.   *)
Take(type, ch) ==
    /\ pc \in Parsing /\ token = "reading" /\ nTokens < TOKENS_MAX
    /\ ahead # <<>> /\ type = Wanted[pc] /\ ch = Head(ahead)
    /\ ahead' = Tail(ahead) /\ UNCHANGED pc
    /\ \/ /\ type \in DOMAIN Sign /\ put = <<>> /\ ch \notin {"CR", "%"}
          /\ put' = <<>> /\ len' = 1 /\ token' = "found" /\ nTokens' = nTokens + 1
       \/ /\ type \in DOMAIN Class /\ put = <<>> /\ ch # "CR"
          /\ pc \in InTarget => ch # "%"
          /\ put' = <<>> /\ len' = 1 /\ token' = "reading" /\ nTokens' = nTokens
       \/ /\ type = "CRLF" /\ put = <<>> /\ ch = "CR"
          /\ put' = Append(put, ch) /\ len' = 1 /\ token' = "reading" /\ nTokens' = nTokens
       \/ /\ type = "CRLF" /\ Len(put) = 1 /\ put[1] = "CR" /\ ch = "LF"
          /\ put' = <<>> /\ len' = 2 /\ token' = "found" /\ nTokens' = nTokens + 1
       \/ /\ type = "ESCAPE" /\ Len(put) = len /\ len <= 2
          /\ put = <<>> => ch = "%"
          /\ put # <<>> => put[1] = "%"
          /\ put' = Append(put, ch) /\ len' = len + 1
          /\ token' = "reading" /\ nTokens' = nTokens

(* TakeChar is one of these.                                               *)
LEMMA TakeCases ==
  ASSUME IInv, TakeChar
  PROVE  \E type \in Types, ch \in Chars : Take(type, ch)
<1> DEFINE type == Wanted[pc]
           ch   == Head(ahead)
           n    == IF type \in DOMAIN Class THEN 1 ELSE len + 1
           done == Complete(type, n)
<1>1. /\ pc \in Parsing /\ token = "reading" /\ ahead # <<>> /\ nTokens < TOKENS_MAX
      /\ Takes(type, len, ch) /\ ahead' = Tail(ahead) /\ len' = n
      /\ put' = IF type \in DOMAIN Class \/ done THEN <<>> ELSE Append(put, ch)
      /\ token' = IF done THEN "found" ELSE "reading"
      /\ nTokens' = IF done THEN nTokens + 1 ELSE nTokens
      /\ UNCHANGED pc
  BY DEF TakeChar, Reading
<1>2. type \in Types /\ len \in 0 .. 3
  BY <1>1, WantedTypes DEF IInv, Lexical
<1>3. /\ ch \in Chars
      /\ type \in DOMAIN Sign  => len = 0 /\ ch \notin {"CR", "%"}
      /\ type \in DOMAIN Class =>
            ch # "CR" /\ (type \notin {"TCHARS", "ANY_NOT_CRLF"} => ch # "%")
      /\ type = "CRLF"   => (len = 0 /\ ch = "CR") \/ (len = 1 /\ ch = "LF")
      /\ type = "ESCAPE" => (len = 0 /\ ch = "%") \/ len \in 1 .. 2
  BY <1>1, <1>2, Taken
<1>4. HeldBack /\ put \in Seq(Chars)
  BY DEF IInv, Lexical
<1>5. CASE type \in DOMAIN Sign
  BY <1>1, <1>2, <1>3, <1>4, <1>5, Kinds DEF HeldBack, Complete, Take
<1>6. CASE type \in DOMAIN Class
  BY <1>1, <1>2, <1>3, <1>4, <1>6, Kinds, WantedTypes DEF HeldBack, Complete, Take
<1>7. CASE type = "CRLF" /\ len = 0
  BY <1>1, <1>2, <1>3, <1>4, <1>7, Kinds DEF HeldBack, Complete, Take
<1>8. CASE type = "CRLF" /\ len = 1
  BY <1>1, <1>2, <1>3, <1>4, <1>8, Kinds DEF HeldBack, Complete, Take
<1>9. CASE type = "ESCAPE"
  BY <1>1, <1>2, <1>3, <1>4, <1>9, Kinds DEF HeldBack, Complete, Take
<1> QED BY <1>2, <1>3, <1>5, <1>6, <1>7, <1>8, <1>9, Kinds

(* What is behind a token of given characters was not known before.        *)
LEMMA TakeKeeps == ASSUME IInv, TakeChar PROVE Lexical'
<1>1. PICK type \in Types, ch \in Chars : Take(type, ch)
  BY TakeCases
<1>2. Lexical
  BY DEF IInv
<1>3. /\ ahead' \in Seq(Chars \cup Ends) /\ Len(ahead') = Len(ahead) - 1
      /\ \A i \in 1 .. Len(ahead') : ahead'[i] \in Chars \/ i = Len(ahead')
      /\ ch = ahead[1] /\ ahead # <<>>
  BY <1>1, <1>2, Shift DEF Take, Lexical
<1>4. nTokens' \in 0 .. TOKENS_MAX /\ nTokens < TOKENS_MAX
  BY <1>1, <1>2 DEF Take, Lexical, TOKENS_MAX
<1>5. put \in Seq(Chars \cup Ends)
  BY <1>2, SeqGrows DEF Lexical
<1>6. pc' = pc /\ pc \in Parsing /\ type = Wanted[pc] /\ Wanted' = Wanted
  BY <1>1 DEF Take, Wanted
<1>7. CASE put = <<>> /\ put' = <<>>
  <2>1. Len(ahead) > 1 => (ch = "CR" \/ (ch = "%" /\ pc \in InTarget))
    BY <1>2, <1>3, <1>6, <1>7 DEF Lexical, Rejected, rest
  <2>2. ch # "CR" /\ (pc \in InTarget => ch # "%")
    BY <1>1, <1>2, <1>7 DEF Take, Lexical
  <2>3. ahead' = <<>>
    BY <1>2, <1>3, <2>1, <2>2 DEF Lexical
  <2>4. HeldBack'
    BY <1>1, <1>6, <1>7, Kinds DEF HeldBack, Take
  <2>5. Rejected'
    BY <1>6, <1>7, <2>3 DEF Rejected, rest
  <2>6. token' \in {"reading", "found", "missing"} /\ len' \in 0 .. 3
    BY <1>1, <1>7 DEF Take
  <2> QED BY <1>4, <1>7, <2>3, <2>4, <2>5, <2>6 DEF Lexical
<1>8. CASE put # <<>> /\ put' = <<>>
  <2>1. /\ Len(put) = 1 /\ put[1] = "CR" /\ type = "CRLF"
        /\ token' = "found" /\ nTokens' = nTokens + 1 /\ len' = 2
    BY <1>1, <1>8 DEF Take
  <2>2. Len(rest) = 1 + Len(ahead) /\ rest[1] = "CR"
    BY <1>2, <1>5, <1>8, <2>1, Concat DEF Lexical, rest
  <2>3. ahead' = <<>>
    BY <1>2, <1>3, <1>6, <2>2 DEF Lexical, Rejected
  <2>4. HeldBack' /\ Rejected'
    BY <1>6, <1>8, <2>1, <2>3 DEF HeldBack, Rejected, rest
  <2> QED BY <1>4, <1>8, <2>1, <2>3, <2>4 DEF Lexical
<1>9. CASE put' = Append(put, ch)
  <2>1. put' = Append(put, Head(ahead)) /\ ahead' = Tail(ahead)
    BY <1>1, <1>9 DEF Take
  <2>2. /\ put' \in Seq(Chars) /\ Len(put') = Len(put) + 1
        /\ put'[1] = IF put = <<>> THEN ch ELSE put[1]
    BY <1>1, <1>2, <1>9 DEF Lexical, Take
  <2>3. rest' = rest
    BY <1>2, <1>3, <1>5, <2>1, Shift DEF rest, Lexical
  <2>4. Rejected'
    BY <1>1, <1>2, <1>6, <1>9, <2>2, <2>3, Kinds DEF Lexical, Rejected, Take
  <2>5. /\ token' = "reading"
        /\ \/ type = "CRLF" /\ put = <<>> /\ ch = "CR" /\ len' = 1
           \/ /\ type = "ESCAPE" /\ Len(put) = len /\ len' = len + 1
              /\ put = <<>> => ch = "%"
              /\ put # <<>> => put[1] = "%"
    BY <1>1, <1>2, <1>9 DEF Take, Lexical
  <2>6. HeldBack'
    BY <1>2, <1>6, <2>2, <2>5, Kinds DEF HeldBack, Lexical
  <2>7. Len(put') <= 3 /\ len' \in 0 .. 3 /\ nTokens' = nTokens /\ token' = "reading"
    BY <1>1, <1>2, <1>9, <2>2 DEF Lexical, Take
  <2> QED BY <1>2, <1>3, <2>2, <2>4, <2>6, <2>7 DEF Lexical
<1> QED BY <1>1, <1>7, <1>8, <1>9 DEF Take

(* A character arrives when all the others are held back.                  *)
LEMMA RecvKeeps == ASSUME IInv, NEW ch \in Chars \cup Ends, Recv(ch) PROVE Lexical'
<1>1. /\ pc \in Parsing /\ token = "reading" /\ ahead = <<>> /\ ahead' = <<ch>>
      /\ UNCHANGED <<pc, token, len, put, nTokens>> /\ Wanted' = Wanted
  BY DEF Recv, Waiting, Reading, Wanted
<1>2. Lexical
  BY DEF IInv
<1>3. put \in Seq(Chars \cup Ends) /\ ahead' \in Seq(Chars \cup Ends) /\ Len(ahead') = 1
  BY <1>1, <1>2, SeqGrows DEF Lexical
<1>4. /\ Len(put) \in Nat /\ Len(put) <= 3
      /\ Len(rest') = Len(put) + 1
      /\ Len(put) > 0 => rest'[1] = put[1]
  <2>1. Len(put) <= 3
    BY <1>2 DEF Lexical
  <2> QED BY <1>1, <1>3, <2>1, Concat, Empty DEF rest
<1>5. Len(put) > 0 => \/ Len(put) <= 1 /\ put[1] = "CR"
                      \/ put[1] = "%" /\ pc \in InTarget
  BY <1>1, <1>2, Kinds, WantedTypes DEF Lexical, HeldBack
<1>6. Rejected'
  <2>1. Len(rest') > 1 => rest'[1] = "CR" \/ (rest'[1] = "%" /\ pc \in InTarget)
    BY <1>4, <1>5
  <2>2. Len(rest') > 2 => rest'[1] = "%"
    BY <1>4, <1>5
  <2>3. Len(rest') <= 4 /\ pc' = pc /\ token' = "reading"
    BY <1>1, <1>4
  <2> QED BY <2>1, <2>2, <2>3 DEF Rejected
<1>7. HeldBack'
  BY <1>1, <1>2 DEF Lexical, HeldBack
<1>8. \A i \in 1 .. Len(ahead') : ahead'[i] \in Chars \/ i = Len(ahead')
  BY <1>3
<1> QED BY <1>1, <1>2, <1>3, <1>6, <1>7, <1>8 DEF Lexical

(* An escape that is complete was ended by the last of the four characters.*)
LEMMA EndKeeps == ASSUME IInv, EndToken PROVE Lexical'
<1>1. /\ pc \in Parsing /\ token = "reading" /\ nTokens < TOKENS_MAX
      /\ len > 0 /\ Valid(Wanted[pc], len) /\ token' = "found" /\ nTokens' = nTokens + 1
      /\ put' = <<>> /\ UNCHANGED <<pc, len, ahead>> /\ Wanted' = Wanted
  BY DEF EndToken, Reading, Wanted
<1>2. Lexical
  BY DEF IInv
<1>3. Wanted[pc] \in Types
  BY <1>1, WantedTypes
<1>4. put \in Seq(Chars \cup Ends)
  BY <1>2, SeqGrows DEF Lexical
<1>5. CASE Wanted[pc] \in DOMAIN Class
  <2>1. put = <<>> /\ Wanted[pc] \notin DOMAIN Sign \cup {"CRLF"}
    BY <1>1, <1>2, <1>5, Kinds DEF Lexical, HeldBack
  <2>2. rest' = rest
    BY <1>1, <1>4, <2>1 DEF rest
  <2>3. Rejected'
    BY <1>1, <1>2, <2>1, <2>2 DEF Lexical, Rejected
  <2> QED BY <1>1, <1>2, <2>3 DEF Lexical, HeldBack, TOKENS_MAX
<1>6. CASE Wanted[pc] = "ESCAPE"
  <2>1. len = 3 /\ Len(put) = 3
    BY <1>1, <1>2, <1>6 DEF Lexical, HeldBack, Valid
  <2>2. Len(rest) = 3 + Len(ahead)
    <3>1. ahead \in Seq(Chars \cup Ends)
      BY <1>2 DEF Lexical
    <3>2. Len(put \o ahead) = Len(put) + Len(ahead)
      BY <1>4, <3>1, Concat
    <3> QED BY <2>1, <3>2 DEF rest
  <2>3. Len(ahead) <= 1 /\ rest' = ahead
    BY <1>1, <1>2, <2>2 DEF Lexical, Rejected, rest
  <2>4. Rejected'
    BY <1>1, <1>2, <1>6, <2>3, Kinds DEF Lexical, Rejected
  <2> QED BY <1>1, <1>2, <2>4 DEF Lexical, HeldBack, TOKENS_MAX
<1>7. Wanted[pc] \notin DOMAIN Sign \cup {"CRLF"}
  BY <1>1, <1>2, Kinds DEF Lexical, HeldBack, Valid
<1> QED BY <1>3, <1>5, <1>6, <1>7, Kinds

(* The characters of the rejected token are only moved.                    *)
LEMMA NoKeeps == ASSUME IInv, NoToken PROVE Lexical'
<1>1. /\ pc \in Parsing /\ token = "reading" /\ token' = "missing" /\ ahead # <<>>
      /\ ahead' = put \o ahead /\ put' = <<>> /\ UNCHANGED <<pc, len, nTokens>>
      /\ Wanted' = Wanted
  BY DEF NoToken, Reading, Wanted
<1>2. Lexical
  BY DEF IInv
<1>3. put \in Seq(Chars \cup Ends)
  BY <1>2, SeqGrows DEF Lexical
<1>4. ahead' \in Seq(Chars \cup Ends) /\ rest' = rest /\ ahead' = rest
  BY <1>1, <1>2, <1>3 DEF Lexical, rest
<1>5. \A i \in 1 .. Len(ahead') : ahead'[i] \in Chars \/ i = Len(ahead')
  BY <1>1, <1>2 DEF Lexical
<1>6. Len(ahead') <= 4 /\ Rejected'
  BY <1>1, <1>2, <1>4 DEF Lexical, Rejected
<1>7. HeldBack'
  BY <1>1 DEF HeldBack
<1> QED BY <1>1, <1>2, <1>4, <1>5, <1>6, <1>7 DEF Lexical

-------------------------------------------------------------------------------
(* The grammar.                                                            *)

(* What every step from one TOKEN_GET to the next, or out of the parser,   *)
(* does.                                                                   *)
Moved ==
    /\ pc \in Parsing /\ token # "reading"
    /\ token' = "reading" /\ len' = 0 /\ UNCHANGED <<put, ahead, answer>>
    /\ pc' \in Parsing \cup {"process", "done"}
    /\ pc \in InTarget /\ pc' \in Parsing \ InTarget => pc = "uriSp" /\ token = "found"
    /\ \/ nTokens' = 0
       \/ /\ nTokens' = nTokens
          /\ \/ pc' \notin Parsing
             \/ token = "missing" /\ pc \notin {"owsAfter", "fieldEnd"}
             \/ token = "missing" /\ pc = "owsAfter" /\ pc' = "fieldEnd"
             \/ token = "found" /\ pc = "multipart" /\ pc' = "owsAfter"
    /\ pc' = "process" /\ error' = HTTP_200_OK =>
          pc = "headersEnd" /\ token = "found" /\ nTokens' = 0

(* What the steps of the grammar do to request and to the Lua stack.       *)
Request ==
    /\ fields \subseteq Fields /\ keepAlive \in BOOLEAN
    /\ error \in {0, -1, HTTP_200_OK, HTTP_400_BAD_REQUEST}
    /\ keepAlive <=> "keepAlive" \in fields
    /\ StackBalanced /\ FieldsSet /\ LinesTold

(* The request line sets method and path on its way.                       *)
LEMMA LineKeeps ==
  ASSUME pc \in Parsing, Request, RequestLine
  PROVE  Moved /\ Request'
<1> USE DEF RequestLine, Leading, Method, Space, AbsPath, RelPath, HttpVersion,
            Expect, ExpectWord, ExpectField,
            Found, Missing, Enter, GoOn, DropTo, Fail
<1>1. Moved
  BY DEF Moved, Parsing, Wanted, InTarget, HTTP_200_OK, HTTP_400_BAD_REQUEST
<1>2. /\ fields' \subseteq Fields
      /\ error' \in {error, -1, HTTP_200_OK, HTTP_400_BAD_REQUEST}
      /\ keepAlive' = keepAlive /\ ("keepAlive" \in fields' <=> "keepAlive" \in fields)
  BY DEF Request, Fields, request
<1>3. StackBalanced'
  BY DEF Request, StackBalanced, Stored, lua
<1>4. FieldsSet'
  BY DEF Request, FieldsSet, request, BeforeMethod, BeforePath, BeforeQuery, InName,
     InValue,
     InType, Parsing, Wanted, HTTP_200_OK, HTTP_400_BAD_REQUEST
<1>5. LinesTold'
  <2>1. /\ lines' = lines
        /\ \A field \in {"headers", "contentLength", "contentType", "keepAlive"} :
              field \in fields' <=> field \in fields
    BY DEF request
  <2>2. /\ pc \in BeforeName
        /\ pc' \in BeforeName \cup {"process", "done"}
        /\ pc' = "process" => error' # HTTP_200_OK
    BY DEF BeforeName, BeforeMethod, BeforePath, BeforeQuery, InTarget,
       HTTP_200_OK, HTTP_400_BAD_REQUEST
  <2>3. BeforeName \cap FieldNames = {}
    BY DEF FieldNames, BeforeName, BeforeMethod, BeforePath, BeforeQuery, InTarget
  <2>4. BeforeName \subseteq Parsing /\ {"process", "done"} \cap (Parsing \cup FieldNames) = {}
    BY DEF FieldNames, BeforeName, BeforeMethod, BeforePath, BeforeQuery, InTarget, Parsing, Wanted
  <2> QED BY <2>1, <2>2, <2>3, <2>4 DEF Request, LinesTold, FieldNames
<1>6. keepAlive' \in BOOLEAN
  BY <1>2 DEF Request
<1>7. keepAlive' <=> "keepAlive" \in fields'
  BY <1>2 DEF Request
<1> QED BY <1>1, <1>2, <1>3, <1>4, <1>5, <1>6, <1>7 DEF Request

(* The query sets its table, and leaves the stack as it was.               *)
LEMMA QueryKeeps ==
  ASSUME pc \in Parsing, Request, Query
  PROVE  Moved /\ Request'
<1> USE DEF Query, QueryStart, Question, Name, Value, NextParameter, QueryEnd,
            Found, Missing, Enter, GoOn, DropTo
<1>1. Moved
  BY DEF Moved, Parsing, Wanted, InTarget, HTTP_200_OK, HTTP_400_BAD_REQUEST
<1>2. /\ fields' \subseteq Fields
      /\ error' \in {error, -1, HTTP_200_OK, HTTP_400_BAD_REQUEST}
      /\ keepAlive' = keepAlive /\ ("keepAlive" \in fields' <=> "keepAlive" \in fields)
  BY DEF Request, Fields, request
<1>3. StackBalanced'
  <2>1. CASE QueryStart \/ Value
    BY <2>1 DEF Request, StackBalanced, lua
  <2>2. CASE Question \/ Name
    BY <2>2 DEF Request, StackBalanced, lua
  <2>3. CASE NextParameter \/ QueryEnd
    BY <2>3 DEF Request, StackBalanced, Stored
  <2> QED BY <2>1, <2>2, <2>3
<1>4. FieldsSet'
  BY DEF Request, FieldsSet, request, BeforeMethod, BeforePath, BeforeQuery, InName,
     InValue,
     InType, Parsing, Wanted, HTTP_200_OK, HTTP_400_BAD_REQUEST
<1>5. LinesTold'
  <2>1. /\ lines' = lines
        /\ \A field \in {"headers", "contentLength", "contentType", "keepAlive"} :
              field \in fields' <=> field \in fields
    BY DEF request
  <2>2. /\ pc \in BeforeName
        /\ pc' \in BeforeName \cup {"process", "done"}
        /\ pc' = "process" => error' # HTTP_200_OK
    BY DEF BeforeName, BeforeMethod, BeforePath, BeforeQuery, InTarget,
       HTTP_200_OK, HTTP_400_BAD_REQUEST
  <2>3. BeforeName \cap FieldNames = {}
    BY DEF FieldNames, BeforeName, BeforeMethod, BeforePath, BeforeQuery, InTarget
  <2>4. BeforeName \subseteq Parsing /\ {"process", "done"} \cap (Parsing \cup FieldNames) = {}
    BY DEF FieldNames, BeforeName, BeforeMethod, BeforePath, BeforeQuery, InTarget, Parsing, Wanted
  <2> QED BY <2>1, <2>2, <2>3, <2>4 DEF Request, LinesTold, FieldNames
<1>6. keepAlive' \in BOOLEAN
  BY <1>2 DEF Request
<1>7. keepAlive' <=> "keepAlive" \in fields'
  BY <1>2 DEF Request
<1> QED BY <1>1, <1>2, <1>3, <1>4, <1>5, <1>6, <1>7 DEF Request

(* A header sets its field; Connection sets the flag with it.              *)
LEMMA HeadersKeep ==
  ASSUME pc \in Parsing, Request, Headers
  PROVE  Moved /\ Request'
<1> USE DEF Headers, HeaderValue, ConnectionValue, ContentLength, ContentType, HeaderName,
            FormData, Multipart, OtherType, HeadersEnd, FieldNames,
            Expect, ExpectWord, ExpectField, Optional,
            Found, Missing, Enter, GoOn, DropTo, Fail
<1>1. Moved
  BY DEF Moved, Parsing, Wanted, InTarget, HTTP_200_OK, HTTP_400_BAD_REQUEST
<1>2. /\ fields' \subseteq Fields
      /\ error' \in {error, -1, HTTP_200_OK, HTTP_400_BAD_REQUEST}
      /\ \/ keepAlive' = keepAlive /\ ("keepAlive" \in fields' <=> "keepAlive" \in fields)
         \/ keepAlive' = TRUE /\ "keepAlive" \in fields'
  BY DEF Request, Fields, request
<1>3. StackBalanced'
  BY DEF Request, StackBalanced, Stored, lua
<1>4. FieldsSet'
  BY DEF Request, FieldsSet, request, BeforeMethod, BeforePath, BeforeQuery, InName,
     InValue,
     InType, Parsing, Wanted, HTTP_200_OK, HTTP_400_BAD_REQUEST
<1>5. LinesTold'
  <2>1. CASE HeaderName
    BY <2>1 DEF Request, LinesTold, BeforeName, BeforeMethod, BeforePath, BeforeQuery,
       InTarget, Parsing, Wanted
  <2>2. CASE HeaderValue
    <3>1. lines' = lines /\ pc \in Parsing \ BeforeName
      BY <2>2 DEF request, BeforeName, BeforeMethod, BeforePath, BeforeQuery, InTarget,
         Parsing, Wanted
    <3>2. pc' \notin FieldNames /\ (pc' # "process" \/ error' # HTTP_200_OK)
      BY <2>2 DEF HTTP_200_OK, HTTP_400_BAD_REQUEST
    <3>3. /\ pc = "contentLength" /\ pc' \in Parsing => "contentLength" \in fields'
          /\ pc = "contentType" /\ pc' \in Parsing => "contentType" \in fields'
          /\ pc = "other" /\ pc' \in Parsing => "headers" \in fields'
      BY <2>2 DEF Parsing, Wanted
    <3>4. /\ "contentLength" \in fields' => "contentLength" \in fields \/ pc = "contentLength"
          /\ "contentType" \in fields' => "contentType" \in fields \/ pc = "contentType"
          /\ "headers" \in fields' => "headers" \in fields \/ pc = "other"
          /\ "keepAlive" \in fields' => "keepAlive" \in fields \/ pc = "connection"
      BY <2>2 DEF request
    <3>5. fields \subseteq fields'
      BY <2>2 DEF request
    <3> QED BY <3>1, <3>2, <3>3, <3>4, <3>5 DEF Request, LinesTold
  <2>3. CASE \/ Expect("fieldName", "colon", HTTP_400_BAD_REQUEST)
             \/ Expect("colon", "owsBefore", HTTP_400_BAD_REQUEST)
             \/ Optional("owsAfter", "fieldEnd")
             \/ Expect("fieldEnd", "headersEnd", HTTP_400_BAD_REQUEST)
             \/ HeadersEnd
    <3>1. /\ UNCHANGED <<fields, lines>>
          /\ pc \in {"fieldName", "colon", "owsAfter", "fieldEnd", "headersEnd"}
          /\ pc' \in {"colon", "owsBefore", "fieldEnd", "headersEnd", "fieldName", "process"}
      BY <2>3 DEF request, HTTP_400_BAD_REQUEST
    <3>2. pc' = "process" /\ error' = HTTP_200_OK => pc = "headersEnd"
      BY <2>3 DEF HTTP_200_OK, HTTP_400_BAD_REQUEST
    <3>3. pc' \in {"fieldEnd", "headersEnd"} => pc \in {"owsAfter", "fieldEnd"}
      BY <2>3
    <3>4. pc \notin FieldNames /\ pc' \notin FieldNames
      BY <3>1 DEF FieldNames
    <3>5. {"owsAfter", "fieldEnd", "headersEnd"} \cap BeforeName = {}
      BY DEF BeforeName, BeforeMethod, BeforePath, BeforeQuery, InTarget
    <3>6. {"colon", "owsBefore", "fieldName"} \subseteq BeforeName /\ "process" \notin Parsing
      BY DEF BeforeName, Parsing, Wanted
    <3> QED BY <3>1, <3>2, <3>3, <3>4, <3>5, <3>6 DEF Request, LinesTold, FieldNames
  <2> QED BY <2>1, <2>2, <2>3
<1>6. keepAlive' \in BOOLEAN
  BY <1>2 DEF Request
<1>7. keepAlive' <=> "keepAlive" \in fields'
  BY <1>2 DEF Request
<1> QED BY <1>1, <1>2, <1>3, <1>4, <1>5, <1>6, <1>7 DEF Request

(* A step of the grammar starts at a TOKEN_GET.                            *)
LEMMA GrammarParses == ASSUME RequestLine \/ Query \/ Headers PROVE pc \in Parsing
<1> USE DEF Found, Missing, Parsing, Wanted
<1>1. CASE RequestLine
  BY <1>1 DEF RequestLine, Leading, Method, Space, AbsPath, RelPath, HttpVersion,
     Expect,
     ExpectWord, ExpectField
<1>2. CASE Query
  BY <1>2 DEF Query, QueryStart, Question, Name, Value, NextParameter, QueryEnd
<1>3. CASE Headers
  BY <1>3 DEF Headers, HeaderName, HeaderValue, ConnectionValue, ContentLength, ContentType,
     FormData,
     Multipart, OtherType, HeadersEnd, FieldNames, Expect, ExpectWord, ExpectField, Optional
<1> QED BY <1>1, <1>2, <1>3

(* The characters stay where they are; only the blank behind the target is *)
(* found with nothing behind it when the next place is not in the target.  *)
LEMMA MovedKeeps == ASSUME IInv, Moved PROVE Lexical'
<1>1. pc' \in Parsing /\ pc \in InTarget => pc' \in InTarget \/ ahead = <<>>
  <2>1. Wanted["uriSp"] \in DOMAIN Sign
    BY DEF Wanted, Sign
  <2> QED BY <2>1 DEF Moved, IInv, Lexical, Rejected
<1>2. HeldBack'
  BY DEF Moved, IInv, Lexical, HeldBack
<1>3. rest' = rest
  BY DEF Moved, rest
<1>4. put = <<>>
  BY DEF Moved, IInv, Lexical, HeldBack
<1>5. ahead = <<>> => Len(rest) = 0
  BY <1>4 DEF rest
<1>6. Rejected'
  BY <1>1, <1>3, <1>5 DEF Moved, IInv, Lexical, Rejected
<1> QED BY <1>2, <1>6 DEF Moved, IInv, Lexical, TOKENS_MAX

(* A step of the grammar keeps the invariant,                              *)
LEMMA GrammarKeeps == ASSUME IInv, RequestLine \/ Query \/ Headers PROVE IInv'
<1>1. pc \in Parsing /\ answer = NoAnswer
  BY GrammarParses DEF IInv, Answering
<1>2. Request
  <2>1. keepAlive <=> "keepAlive" \in fields
    BY <1>1 DEF IInv, KeepAliveOfRequest, NoAnswer
  <2> QED BY <2>1 DEF Request, IInv, TypeOK, ParserTypeOK
<1>3. Moved /\ Request'
  BY <1>1, <1>2, LineKeeps, QueryKeeps, HeadersKeep
<1>4. Lexical'
  BY <1>3, MovedKeeps
<1>5. TypeOK'
  BY <1>3, <1>4 DEF IInv, TypeOK, ParserTypeOK, Moved, Lexical, Request, LinesTold, Ends
<1>6. Remembered'
  <2>1. Wanted["headersEnd"] = "CRLF"
    BY DEF Wanted
  <2>2. pc = "headersEnd" /\ token = "found" => ahead = <<>>
    BY <1>3, <2>1 DEF IInv, Lexical, Rejected, Moved
  <2> QED BY <1>3, <2>2 DEF IInv, Remembered, Moved, Lexical
<1>7. Answering'
  BY <1>1, <1>3, MaxRepliesAssumption
     DEF Answering, Moved, NoAnswer, Processing, Scripted, Parsing, Wanted
<1>8. KeepAliveOfRequest' /\ AnsweredOnce'
  BY <1>3 DEF Request, KeepAliveOfRequest, AnsweredOnce, Moved, Parsing, Wanted
<1> QED BY <1>3, <1>4, <1>5, <1>6, <1>7, <1>8 DEF IInv, Request

(* and so does a step of tokenGet.                                         *)
LEMMA CharsKeep ==
  ASSUME IInv,
         \/ TakeChar \/ EndToken \/ NoToken
         \/ \E ch \in Chars \cup {"EOF", "ERROR"} : Recv(ch)
  PROVE  IInv'
<1>1. Lexical'
  BY RecvKeeps, TakeKeeps, EndKeeps, NoKeeps DEF Ends
<1>2. /\ pc \in Parsing /\ token = "reading"
      /\ UNCHANGED <<pc, fields, lines, keepAlive, stack, error, answer>>
      /\ \/ token' = "found" /\ nTokens' = nTokens + 1
         \/ token' # "found" /\ nTokens' = nTokens
  BY DEF TakeChar, EndToken, NoToken, Recv, Waiting, Reading, request, lua
<1>3. TypeOK'
  BY <1>1, <1>2 DEF IInv, TypeOK, ParserTypeOK, Lexical, Ends
<1>4. Remembered'
  BY <1>2 DEF IInv, Remembered, Lexical, Parsing, Wanted
<1>5. StackBalanced' /\ FieldsSet' /\ LinesTold' /\ Answering' /\ KeepAliveOfRequest' /\ AnsweredOnce'
  BY <1>2 DEF IInv, StackBalanced, FieldsSet, LinesTold, Answering, KeepAliveOfRequest,
     AnsweredOnce
<1> QED BY <1>1, <1>3, <1>4, <1>5 DEF IInv

-------------------------------------------------------------------------------
(* client_Service and process.lua.                                         *)

(* The next request starts with nothing but the end of the stream known.   *)
LEMMA ServiceKeeps == ASSUME IInv, Service PROVE IInv'
<1>1. /\ pc = "service" /\ put' = <<>> /\ token' = "reading" /\ len' = 0
      /\ UNCHANGED <<stack, named>>
      /\ \/ pc' = "done" /\ UNCHANGED <<ahead, nTokens, fields, lines, keepAlive, error, answer>>
         \/ /\ pc' = "leading" /\ ahead' \in {<<>>, <<"EOF">>} /\ nTokens' = 0 /\ fields' = {}
            /\ lines' = {} /\ error' = 0 /\ keepAlive' = FALSE /\ answer' = NoAnswer
  BY DEF Service, lua, request
<1>2. Lexical'
  <2>1. CASE pc' = "leading"
    <3>1. ahead' \in {<<>>, <<"EOF">>} /\ nTokens' = 0
      BY <1>1, <2>1
    <3>2. ahead' \in Seq(Chars \cup Ends) /\ Len(ahead') <= 1
      <4>1. "EOF" \in Chars \cup Ends
        BY DEF Ends
      <4>2. CASE ahead' = <<"EOF">>
        BY <4>1, <4>2, One
      <4>3. CASE ahead' = <<>>
        BY <4>3
      <4> QED BY <3>1, <4>2, <4>3
    <3>3. rest' = ahead'
      BY <1>1, <3>2 DEF rest
    <3>4. HeldBack' /\ Rejected'
      BY <1>1, <3>2, <3>3 DEF HeldBack, Rejected
    <3>5. \A i \in 1 .. Len(ahead') : i = Len(ahead')
      BY <3>2
    <3> QED BY <1>1, <3>1, <3>2, <3>4, <3>5 DEF Lexical, TOKENS_MAX
  <2>2. CASE pc' = "done"
    <3>1. pc' \notin Parsing /\ UNCHANGED <<ahead, nTokens>>
      BY <1>1, <2>2 DEF Parsing, Wanted
    <3>2. HeldBack' /\ Rejected'
      BY <1>1, <3>1 DEF HeldBack, Rejected
    <3> QED BY <1>1, <3>1, <3>2 DEF IInv, Lexical
  <2> QED BY <1>1, <2>1, <2>2
<1>3. TypeOK'
  <2>1. /\ fields' \subseteq Fields /\ lines' \subseteq FieldNames /\ keepAlive' \in BOOLEAN
        /\ error' \in {0, -1, HTTP_200_OK, HTTP_400_BAD_REQUEST}
    BY <1>1 DEF IInv, TypeOK, ParserTypeOK
  <2>2. NoAnswer \in Answers
    BY MaxRepliesAssumption DEF NoAnswer, Answers
  <2>3. answer' \in Answers
    BY <1>1, <2>2 DEF IInv, TypeOK, Answers
  <2>4. pc' \in Parsing \cup {"done"}
    BY <1>1 DEF Parsing, Wanted
  <2> QED BY <1>2, <2>1, <2>3, <2>4 DEF TypeOK, ParserTypeOK, Lexical, Ends, Answers
<1>4. Remembered' /\ StackBalanced' /\ FieldsSet' /\ LinesTold'
  BY <1>1 DEF IInv, Remembered, StackBalanced, FieldsSet, LinesTold, FieldNames, BeforeName, Parsing, Wanted,
     BeforeMethod, BeforePath, BeforeQuery, InName, InValue, InType
<1>5. Answering' /\ KeepAliveOfRequest' /\ AnsweredOnce'
  BY <1>1 DEF Answering, KeepAliveOfRequest, AnsweredOnce, NoAnswer, Processing,
     Scripted, Parsing, Wanted
<1> QED BY <1>2, <1>3, <1>4, <1>5 DEF IInv

(* What Response:send adds to the answer.                                  *)
LEMMA Announces ==
  ASSUME answer \in Answers, answer.replies <= MaxReplies, Announce
  PROVE  /\ answer' \in Answers /\ answer'.replies = answer.replies + 1
         /\ answer'.inHandler = answer.inHandler /\ answer'.scripted = answer.scripted
         /\ answer'.said = IF "keepAlive" \in fields THEN "keep-alive" ELSE "close"
<1>1. answer' = [answer EXCEPT !.replies = answer.replies + 1,
                               !.said = IF "keepAlive" \in fields THEN "keep-alive" ELSE "close"]
  BY DEF Announce
<1>2. answer.replies + 1 \in 0 .. MaxReplies + 1
  BY MaxRepliesAssumption DEF Answers
<1>3. /\ answer' \in Answers /\ answer'.replies = answer.replies + 1
      /\ answer'.said = IF "keepAlive" \in fields THEN "keep-alive" ELSE "close"
  BY <1>1, <1>2 DEF Answers
<1> QED BY <1>1, <1>3 DEF Answers

(* process.lua answers once unless a script takes part.                    *)
LEMMA ProcessKeeps == ASSUME IInv, Process PROVE IInv'
<1> USE DEF Processing, Scripted, To
<1>1. /\ pc \in Processing \cup {"return"}
      /\ pc' \in (Processing \ {"process"}) \cup {"return", "service", "done"}
      /\ UNCHANGED <<token, len, put, ahead, nTokens, fields, lines, stack, error>>
      /\ keepAlive' \in {keepAlive, FALSE}
  BY DEF Process, NoHeaders, BadRequest, Route, Send, ErrorPage, ScriptSends,
     CloseConnection, ScriptEnds, Return, Raise, unread, lua
<1>2. (Processing \cup {"return", "service", "done"}) \cap Parsing = {}
  BY DEF Parsing, Wanted
<1>3. Lexical'
  BY <1>1, <1>2 DEF IInv, Lexical, HeldBack, Rejected
<1>4. Remembered' /\ StackBalanced' /\ FieldsSet' /\ LinesTold'
  BY <1>1, <1>2 DEF IInv, Remembered, StackBalanced, FieldsSet, LinesTold, FieldNames, Parsing, Wanted,
     InName, InValue, InType
<1>5. answer \in Answers /\ MaxReplies \in Nat /\ Answering /\ KeepAliveOfRequest /\ AnsweredOnce
  BY MaxRepliesAssumption DEF IInv, TypeOK, Answers
<1>6. answer.replies \in 0 .. MaxReplies + 1 /\ answer.scripted \in BOOLEAN
  BY <1>5 DEF Answers
<1>7. answer' \in Answers /\ Answering' /\ AnsweredOnce'
  <2>1. CASE Raise
    BY <1>1, <1>2, <1>5, <2>1 DEF Raise, Answering, AnsweredOnce
  <2>2. CASE pc \in {"process", "errorPage"} /\ pc' \in {"errorPage", "send"} /\ UNCHANGED answer
    BY <1>1, <1>2, <1>5, <2>2 DEF Answering, AnsweredOnce, NoAnswer
  <2>3. CASE Return
    BY <1>1, <1>2, <1>5, <2>3 DEF Return, Answering, AnsweredOnce
  <2>4. CASE Send /\ Announce
    BY <1>1, <1>2, <1>5, <1>6, <2>4, Announces DEF Send, Raise, Answering, AnsweredOnce
  <2>5. CASE ScriptSends
    BY <1>1, <1>2, <1>5, <1>6, <2>5, Announces DEF ScriptSends, Answering, AnsweredOnce
  <2>6. CASE ErrorPage /\ answer' = [answer EXCEPT !.scripted = TRUE] /\ pc' = "errorScript"
    BY <1>1, <1>2, <1>5, <1>6, <2>6 DEF ErrorPage, Answering, AnsweredOnce, Answers
  <2>7. CASE CloseConnection
    BY <1>1, <1>2, <1>5, <1>6, <2>7 DEF CloseConnection, Answering, AnsweredOnce
  <2>8. CASE ScriptEnds
    BY <1>1, <1>2, <1>5, <1>6, <2>8 DEF ScriptEnds, Answering, AnsweredOnce, Answers
  <2>9. CASE Route
    <3>1. CASE Raise
      BY <2>1, <3>1
    <3>2. CASE pc = "process" /\ pc' \in {"errorPage", "send"} /\ UNCHANGED answer
      BY <2>2, <3>2
    <3>3. CASE /\ pc = "process" /\ pc' \in {"handler", "errorPage"}
               /\ answer' \in Answers /\ answer'.replies = 0 /\ answer'.said = "none"
               /\ pc' = "handler" => answer'.scripted
      BY <1>1, <1>2, <1>5, <3>3 DEF Answering, AnsweredOnce
    <3>4. CASE /\ pc = "process" /\ pc' = "handler"
               /\ answer' = [answer EXCEPT !.inHandler = TRUE, !.scripted = TRUE]
      <4>1. answer = NoAnswer
        BY <1>5, <3>4 DEF Answering
      <4> QED BY <1>5, <3>3, <3>4, <4>1 DEF NoAnswer, Answers
    <3>5. CASE /\ pc = "process" /\ pc' = "errorPage"
               /\ answer' = [answer EXCEPT !.inHandler = TRUE]
      <4>1. answer = NoAnswer
        BY <1>5, <3>5 DEF Answering
      <4> QED BY <1>5, <3>3, <3>5, <4>1 DEF NoAnswer, Answers
    <3> QED BY <2>9, <3>1, <3>2, <3>4, <3>5 DEF Route
  <2>10. CASE NoHeaders \/ BadRequest \/ Send
    BY <2>1, <2>2, <2>4, <2>10 DEF NoHeaders, BadRequest, Send
  <2>11. CASE ErrorPage
    BY <2>2, <2>6, <2>11 DEF ErrorPage
  <2> QED BY <2>3, <2>5, <2>7, <2>8, <2>9, <2>10, <2>11 DEF Process
<1>8. KeepAliveOfRequest'
  BY <1>1, <1>2, <1>5 DEF Process, NoHeaders, BadRequest, Route, Send, ErrorPage,
     ScriptSends, CloseConnection, ScriptEnds, Return, Raise, unread, Announce,
     Answers, Answering, KeepAliveOfRequest
<1>9. TypeOK'
  BY <1>1, <1>3, <1>7 DEF IInv, TypeOK, ParserTypeOK, Lexical, Ends, Answers
<1> QED BY <1>3, <1>4, <1>7, <1>8, <1>9 DEF IInv

(* A connection starts before its first request.                           *)
LEMMA InitKeeps == ASSUME Init PROVE IInv
<1>1. Lexical
  BY DEF Init, InitParser, Lexical, HeldBack, Rejected, Parsing, Wanted, TOKENS_MAX,
     Ends
<1>2. TypeOK
  <2>1. answer \in Answers
    BY MaxRepliesAssumption DEF Init, NoAnswer, Answers
  <2>2. fields \subseteq Fields /\ lines \subseteq FieldNames /\ keepAlive \in BOOLEAN /\ error = 0 /\ pc = "service"
    BY DEF Init, InitParser
  <2> QED BY <1>1, <2>1, <2>2 DEF TypeOK, ParserTypeOK, Lexical, Ends, Answers
<1> QED BY <1>1, <1>2 DEF Init, InitParser, IInv, Remembered, StackBalanced,
   FieldsSet, LinesTold, FieldNames, Answering, KeepAliveOfRequest, AnsweredOnce, NoAnswer, Parsing, Wanted,
   Processing, Scripted, BeforeMethod, BeforePath, BeforeQuery, InName, InValue, InType

(* Every step keeps the invariant.                                         *)
LEMMA StepKeeps == IInv /\ [Next]_vars => IInv'
<1> SUFFICES ASSUME IInv, [Next]_vars PROVE IInv'
  OBVIOUS
<1>1. CASE Service
  BY <1>1, ServiceKeeps
<1>2. CASE \E ch \in Chars \cup {"EOF", "ERROR"} : Recv(ch)
  BY <1>2, CharsKeep
<1>3. CASE Parse
  BY <1>3, CharsKeep, GrammarKeeps DEF Parse
<1>4. CASE Process
  BY <1>4, ProcessKeeps
<1>5. CASE UNCHANGED vars
  BY <1>5 DEF vars, IInv, TypeOK, ParserTypeOK, Lexical, HeldBack, Rejected, rest,
     Remembered,
     StackBalanced, FieldsSet, LinesTold, Answering, KeepAliveOfRequest, AnsweredOnce
<1> QED BY <1>1, <1>2, <1>3, <1>4, <1>5 DEF Next, Ended

(* A client thread keeps the invariant, whatever it receives and whatever  *)
(* the scripts of the site do.                                             *)
THEOREM Invariance == Spec => []IInv
<1>1. Init => IInv
  BY InitKeeps
<1>2. IInv /\ [Next]_vars => IInv'
  BY StepKeeps
<1> QED BY <1>1, <1>2, PTL DEF Spec

-------------------------------------------------------------------------------
(* Every variable keeps to its values; in particular no more than four     *)
(* characters are ever known ahead of the parser, the three of an escape   *)
(* that is none and the one that ended it.                                 *)
THEOREM TypeCorrect == Spec => []TypeOK
<1>1. IInv => TypeOK
  BY DEF IInv
<1> QED BY <1>1, Invariance, PTL

(* tokenGet is never called with TOKENS_MAX tokens remembered, although    *)
(* _parseHeaderValue leaves one behind.                                    *)
THEOREM RoomForToken == Spec => []TokensBounded
<1>1. IInv => TokensBounded
  BY DEF IInv, Remembered, TokensBounded, TOKENS_MAX
<1> QED BY <1>1, Invariance, PTL

(* http_ParseQuery finds its table where it left it, and the parser leaves *)
(* the Lua stack as it found it.                                           *)
THEOREM StackAsFound == Spec => []StackBalanced
<1>1. IInv => StackBalanced
  BY DEF IInv
<1> QED BY <1>1, Invariance, PTL

(* Nothing is appended to a field of request that is nil.                  *)
THEOREM FieldsBeforeAppends == Spec => []AppendsDefined
<1>1. IInv => AppendsDefined
  BY DEF IInv, FieldsSet, AppendsDefined, BeforeMethod, BeforePath, InName, InValue,
     InType,
     Parsing, Wanted
<1> QED BY <1>1, Invariance, PTL

(* A request httpProcessRequest accepts has method, path and the table of  *)
(* its query, exactly the header fields its lines set, so that             *)
(* request.headers may be missing, and nothing of it is left unread.       *)
THEOREM AcceptedComplete == Spec => []AcceptedIsParsed
<1>1. IInv => AcceptedIsParsed
  BY DEF IInv, FieldsSet, LinesTold, Remembered, AcceptedIsParsed
<1> QED BY <1>1, Invariance, PTL

(* client.c's flag and the field of request say the same of this request.  *)
THEOREM FlagOfRequest == Spec => []KeepAliveOfRequest
<1>1. IInv => KeepAliveOfRequest
  BY DEF IInv
<1> QED BY <1>1, Invariance, PTL

(* process.lua by itself answers once.                                     *)
THEOREM OneAnswer == Spec => []AnsweredOnce
<1>1. IInv => AnsweredOnce
  BY DEF IInv
<1> QED BY <1>1, Invariance, PTL

(* No step breaks the promise made with the response.                      *)
THEOREM PromiseKept == Spec => KeptAsAnnounced
<1> DEFINE Kept == pc = "return" =>
                      /\ pc' = "service" => answer.said # "close"
                      /\ pc' = "done" /\ answer.said = "keep-alive" => answer.scripted
<1>1. ASSUME IInv, [Next]_vars PROVE [Kept]_vars
  <2> SUFFICES ASSUME pc = "return", Next PROVE Kept
    BY <1>1
  <2>1. pc \notin Parsing
    BY DEF Parsing, Wanted
  <2>2. Return
    BY <2>1, GrammarParses DEF Next, Parse, Waiting, Reading, Service, Recv,
       TakeChar, EndToken,
       NoToken, Ended, Process, NoHeaders, BadRequest, Route, Send, ErrorPage, ScriptSends,
       CloseConnection, ScriptEnds
  <2>3. keepAlive <=> pc' = "service"
    BY <2>2 DEF Return, To
  <2> QED BY <1>1, <2>3 DEF IInv, Answering, KeepAliveOfRequest, Processing
<1> QED BY <1>1, Invariance, PTL DEF Spec, KeptAsAnnounced
===============================================================================
