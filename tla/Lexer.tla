-------------------------------- MODULE Lexer --------------------------------
(***************************************************************************)
(* The token types of http.c: http_LexAnalyze says of a character whether  *)
(* it belongs to the token, http_LexPostAnalyze whether what was read is a *)
(* token.                                                                  *)
(*                                                                         *)
(* A character stands for all those the analyzers treat alike:             *)
(*   "A" A-F   "G" G-Z   "a" a-f   "g" g-z   "0" the digits                *)
(*   "-" - _ + '   "$" $ ! *   "(" ( ) ,   "#" # " ^ ` | ~                 *)
(*   "<" < > [ \ ] { }, the other control characters and those above 126   *)
(* and every other one for itself.                                         *)
(***************************************************************************)
EXTENDS Naturals

Chars == {"CR", "LF", "SP", "HT", "A", "G", "a", "g", "0", "-", "$", "(", "#", "<",
          "/", "?", "&", "=", ".", ":", ";", "%", "@"}

HIALPHA    == {"A", "G"}
ALPHA      == HIALPHA \cup {"a", "g"}
DIGIT      == {"0"}
HEX        == {"A", "a", "0"}
SAFE       == {"$", "-", "."}
EXTRA      == {"$", "-", "("}
PCHAR      == ALPHA \cup DIGIT \cup SAFE \cup EXTRA \cup {":", "@"}
DELIMITERS == {"(", "/", ":", ";", "<", "=", "?", "@"}
VCHAR      == Chars \ ({"CR", "LF", "SP", "HT"} \cup DELIMITERS)
BOUNDARY   == DIGIT \cup ALPHA \cup {"-", "(", ".", "/", ":", "=", "?"}

(* The token types that are one given character,                           *)
Sign == [SP |-> "SP", FSLASH |-> "/", QUESTION |-> "?", AND |-> "&", EQUAL |-> "=",
         DOT |-> ".", COLON |-> ":", SEMICOLON |-> ";"]

(* and those that are as many characters of a set as there are.            *)
Class == [HIALPHA |-> HIALPHA, DIGIT |-> DIGIT, PCHARX |-> PCHAR \cup {"&", "="},
          QUERY |-> PCHAR, OWS |-> {"SP", "HT"}, TCHARS |-> VCHAR, BOUNDARY |-> BOUNDARY,
          ANY_NOT_CRLF |-> Chars \ {"CR"}]

Types == DOMAIN Sign \cup DOMAIN Class \cup {"CRLF", "ESCAPE"}

(* Mutant of Takes: an escape takes hexadecimal digits as long as there    *)
(* are any.                                                                *)
TakesLongEscape(type, len, ch) ==
    \/ type \in DOMAIN Sign  /\ len = 0 /\ ch = Sign[type]
    \/ type \in DOMAIN Class /\ ch \in Class[type]
    \/ type = "CRLF"   /\ <<len, ch>> \in {<<0, "CR">>, <<1, "LF">>}
    \/ type = "ESCAPE" /\ <<len, ch>> \in {<<0, "%">>} \cup (1 .. 3) \X HEX

(* http_LexAnalyze: the next character belongs to the token, of which len  *)
(* characters were read.                                                   *)
Takes(type, len, ch) ==
    \/ type \in DOMAIN Sign  /\ len = 0 /\ ch = Sign[type]
    \/ type \in DOMAIN Class /\ ch \in Class[type]
    \/ type = "CRLF"   /\ <<len, ch>> \in {<<0, "CR">>, <<1, "LF">>}
    \/ type = "ESCAPE" /\ <<len, ch>> \in {<<0, "%">>} \cup (1 .. 2) \X HEX

(* It returns 1 with the character taken: no other character is looked at. *)
Complete(type, len) == type \in DOMAIN Sign \/ (type = "CRLF" /\ len = 2)

(* http_LexPostAnalyze, of a token that is not empty.                      *)
Valid(type, len) ==
    CASE type = "CRLF"   -> len = 2
      [] type = "ESCAPE" -> len = 3
      [] OTHER           -> len > 0
===============================================================================
