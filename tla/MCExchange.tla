------------------------------ MODULE MCExchange ------------------------------
(* A small instance of Exchange for TLC: binary numbers of three bits, a   *)
(* buffer smaller than a head, files in blocks of two bytes.               *)
EXTENDS Exchange, TLC

Reads(digits) == [digits |-> digits, wants |-> "input"]
Gets(digits)  == [digits |-> digits, wants |-> "f"]
Bad(digits)   == [digits |-> digits, wants |-> "bad"]

F(size) == [name |-> "f", size |-> size]
G(size) == [name |-> "g", size |-> size]

(* Bodies of one, three and four bytes are read, one of one byte is left   *)
(* unread, one is behind a head that is no request, and another request    *)
(* follows; four does not fit the number.                                  *)
Readers == {[requests |-> <<q, Reads(<<1, 1>>)>>, files |-> <<F(2)>>] :
               q \in {Reads(<<1>>), Reads(<<1, 1>>), Reads(<<1, 0, 0>>), Gets(<<1>>),
                     Bad(<<1>>)}}

(* Further ways to write a length, and nine, which wraps around to one.    *)
Lengths == {[requests |-> <<Reads(d)>>, files |-> <<F(2)>>] :
               d \in {<<0>>, <<0, 1>>, <<1, 0>>, <<0, 1, 0>>, <<0, 1, 1>>, <<1, 0, 0, 1>>}}

(* A file that is the first, in the middle, the last, empty, or missing.   *)
Getters == {[requests |-> <<Reads(<<1>>), Gets(<<>>)>>, files |-> build] :
               build \in {<<F(3), G(1)>>, <<G(2), F(0), G(1)>>, <<G(3), F(4)>>,
                          <<G(0), F(0)>>, <<G(1)>>}}

MCScenarios == Readers \cup Lengths \cup Getters
===============================================================================
