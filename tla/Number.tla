-------------------------------- MODULE Number --------------------------------
(***************************************************************************)
(* commonString2Number of common.c: the value of a string of digits.  The  *)
(* sum and the weight of a digit are unsigned and wrap around at the width *)
(* of uint64_t, silently; the result is handed out as a signed number.  A  *)
(* digit is its value.                                                     *)
(***************************************************************************)
EXTENDS Integers, Sequences

CONSTANTS Base,   \* 10
          Width   \* bits of uint64_t

ASSUME BaseAssumption  == Base \in Nat \ {0, 1}
ASSUME WidthAssumption == Width \in Nat \ {0}

Wrap == 2 ^ Width

(* Mutant of Weight: the weight of a digit stays what it was.              *)
WeightConstant(j) == 1

(* The weight of the digit that is j places before the last one.           *)
Weight(j) == LET w[i \in Nat] == IF i = 0 THEN 1 ELSE (w[i - 1] * Base) % Wrap IN w[j]

(* The sum of the last j digits, as the loop leaves it.                    *)
Result(digits) ==
    LET sum[j \in 0 .. Len(digits)] ==
            IF j = 0 THEN 0
            ELSE (sum[j - 1] + digits[Len(digits) - j + 1] * Weight(j - 1)) % Wrap
    IN  sum[Len(digits)]

(* *value = result, from uint64_t to int64_t.                              *)
Signed(u) == IF u < Wrap \div 2 THEN u ELSE u - Wrap

String2Number(digits) == Signed(Result(digits))

(* What the digits stand for.                                              *)
Decimal(digits) ==
    LET value[j \in 0 .. Len(digits)] ==
            IF j = 0 THEN 0 ELSE value[j - 1] * Base + digits[j]
    IN  value[Len(digits)]

Overflows(digits) == Decimal(digits) >= Wrap \div 2
===============================================================================
