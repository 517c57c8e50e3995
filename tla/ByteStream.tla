------------------------------ MODULE ByteStream ------------------------------
(***************************************************************************)
(* What the trace buffer of token.c promises to the parser and to the      *)
(* request handlers: the bytes of the connection, handed out in order,     *)
(* each once.  A byte is its position in the stream, counted from 1.       *)
(* Tokens stay readable until they are dropped.  Only a reset may lose     *)
(* bytes: those received and not handed out.  Token implements this        *)
(* module.                                                                 *)
(***************************************************************************)
EXTENDS Integers, Sequences

CONSTANTS StreamLen   \* number of bytes the peer sends on the connection

VARIABLES taken,     \* number of bytes handed out or lost so far
          tokens,    \* the tokens that can be read, oldest first
          content    \* the piece of content handed out last

absVars == <<taken, tokens, content>>

(* The next len bytes of the stream.                                       *)
Slice(len) == [j \in 1 .. len |-> taken + j]

Init == taken = 0 /\ tokens = <<>> /\ content = <<>>

GetToken(len) ==
    /\ taken + len <= StreamLen
    /\ tokens' = Append(tokens, Slice(len))
    /\ taken' = taken + len
    /\ UNCHANGED content

DropTokens ==
    /\ tokens' = <<>>
    /\ UNCHANGED <<taken, content>>

GetContent(len) ==
    /\ taken + len <= StreamLen
    /\ content' = Slice(len)
    /\ taken' = taken + len
    /\ UNCHANGED tokens

Reset ==
    /\ tokens' = <<>>
    /\ taken' \in taken .. StreamLen
    /\ UNCHANGED content

Next ==
    \/ \E len \in 1 .. StreamLen : GetToken(len)
    \/ \E len \in 0 .. StreamLen : GetContent(len)
    \/ DropTokens
    \/ Reset

Spec == Init /\ [][Next]_absVars
===============================================================================
