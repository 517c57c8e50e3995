------------------------------ MODULE DataProofs ------------------------------
(***************************************************************************)
(* Proofs about what the recursive functions of Number and RomFs compute,  *)
(* for every width of the numbers, every string of digits and every image  *)
(* that can be packed.                                                     *)
(*                                                                         *)
(* Induction is by the least element: the numbers of which something does  *)
(* not hold would have one.  A function that a definition chooses by its   *)
(* recursion is known once a function with that recursion exists.          *)
(***************************************************************************)
EXTENDS Number, RomFs, FiniteSetTheorems, SequenceTheorems, WellFoundedInduction, TLAPS

(* The least-element principle, on which every induction below rests: a    *)
(* set of numbers that is not empty has a least element.                   *)
LEMMA NatMin ==
  ASSUME NEW T, T \subseteq Nat, T # {}
  PROVE  \E x \in T : \A y \in T : x <= y
<1> DEFINE R == {ss \in Nat \X Nat : ss[1] < ss[2]}
<1>1. IsWellFoundedOn(R, Nat)
  BY NatLessThanWellFounded DEF OpToRel
<1>2. \A m, n \in Nat : m < n => <<m, n>> \in R
  OBVIOUS
<1> HIDE DEF R
<1>3. PICK x \in T : \A y \in T : ~ (<<y, x>> \in R)
  BY <1>1, WFMin
<1>4. \A y \in T : x <= y
  <2> SUFFICES ASSUME NEW y \in T, y < x PROVE FALSE
    OBVIOUS
  <2> QED BY <1>2, <1>3
<1> QED BY <1>4

(* What holds of 0, and of each number's successor, holds of all.          *)
LEMMA FromZero ==
  ASSUME NEW T, 0 \in T, \A k \in Nat : k \in T => k + 1 \in T
  PROVE  Nat \subseteq T
<1> DEFINE U == Nat \ T
<1> SUFFICES ASSUME U # {} PROVE FALSE
  OBVIOUS
<1>1. PICK x \in U : \A y \in U : x <= y
  BY NatMin
<1>2. x # 0 /\ x - 1 \in Nat /\ x - 1 \in T
  BY <1>1
<1> QED BY <1>2

(* The same from one number up to another.                                 *)
LEMMA UpTo ==
  ASSUME NEW a \in Nat, NEW b \in Nat,
         NEW T, a \in T, \A k \in a .. b - 1 : k \in T => k + 1 \in T
  PROVE  a .. b \subseteq T
<1> DEFINE U == {k \in Nat : a + k <= b => a + k \in T}
<1>1. 0 \in U
  OBVIOUS
<1>2. ASSUME NEW k \in Nat, k \in U PROVE k + 1 \in U
  <2> SUFFICES ASSUME a + (k + 1) <= b PROVE a + (k + 1) \in T
    OBVIOUS
  <2>1. a + k \in a .. b - 1 /\ a + k \in T
    BY <1>2
  <2>2. (a + k) + 1 \in T
    BY <2>1
  <2> QED BY <2>2
<1>3. Nat \subseteq U
  <2> HIDE DEF U
  <2> QED BY <1>1, <1>2, FromZero
<1> SUFFICES ASSUME NEW i \in a .. b PROVE i \in T
  OBVIOUS
<1>4. i - a \in U /\ i - a \in Nat
  BY <1>3
<1> QED BY <1>4

(* A function is defined by its value at 0 and the step from one number    *)
(* to the next.                                                            *)
Steps(g, N, a, step) == g[0] = a /\ \A j \in 1 .. N : g[j] = step[j][g[j - 1]]

(* There is such a function.                                               *)
LEMMA RecursionExists ==
  ASSUME NEW N \in Nat, NEW S, NEW a \in S, NEW step \in [1 .. N -> [S -> S]]
  PROVE  \E g \in [0 .. N -> S] : Steps(g, N, a, step)
<1> DEFINE T == {k \in 0 .. N : \E g \in [0 .. k -> S] : Steps(g, k, a, step)}
<1>1. 0 \in T
  <2>1. [j \in 0 .. 0 |-> a] \in [0 .. 0 -> S] /\ Steps([j \in 0 .. 0 |-> a], 0, a, step)
    BY DEF Steps
  <2> QED BY <2>1
<1>2. ASSUME NEW k \in 0 .. N - 1, k \in T PROVE k + 1 \in T
  <2>1. PICK g \in [0 .. k -> S] : Steps(g, k, a, step)
    BY <1>2
  <2> DEFINE h == [j \in 0 .. k + 1 |-> IF j <= k THEN g[j] ELSE step[k + 1][g[k]]]
  <2>2. step[k + 1][g[k]] \in S
    <3>1. step[k + 1] \in [S -> S] /\ g[k] \in S
      OBVIOUS
    <3> QED BY <3>1
  <2>3. h \in [0 .. k + 1 -> S]
    BY <2>2
  <2>4. h[0] = a
    BY <2>1 DEF Steps
  <2>5. ASSUME NEW j \in 1 .. k + 1 PROVE h[j] = step[j][h[j - 1]]
    <3>1. h[j - 1] = g[j - 1]
      OBVIOUS
    <3>2. CASE j <= k
      BY <2>1, <3>1, <3>2 DEF Steps
    <3>3. CASE j = k + 1
      BY <3>1, <3>3
    <3> QED BY <3>2, <3>3
  <2>6. Steps(h, k + 1, a, step)
    <3> HIDE DEF h
    <3> QED BY <2>4, <2>5 DEF Steps
  <2> QED BY <2>3, <2>6
<1>3. 0 .. N \subseteq T
  <2> HIDE DEF T
  <2> QED BY <1>1, <1>2, UpTo
<1> QED BY <1>3

(* There is one at most.                                                   *)
LEMMA RecursionUnique ==
  ASSUME NEW N \in Nat, NEW a, NEW step, NEW f,
         NEW g, Steps(f, N, a, step), Steps(g, N, a, step)
  PROVE  \A j \in 0 .. N : f[j] = g[j]
<1> DEFINE T == {j \in 0 .. N : f[j] = g[j]}
<1>1. 0 \in T
  BY DEF Steps
<1>2. ASSUME NEW k \in 0 .. N - 1, k \in T PROVE k + 1 \in T
  <2>1. k + 1 \in 1 .. N /\ (k + 1) - 1 = k
    OBVIOUS
  <2>2. f[k + 1] = step[k + 1][f[k]] /\ g[k + 1] = step[k + 1][g[k]]
    BY <2>1 DEF Steps
  <2> QED BY <1>2, <2>1, <2>2
<1>3. 0 .. N \subseteq T
  <2> HIDE DEF T
  <2> QED BY <1>1, <1>2, UpTo
<1> QED BY <1>3

(* The same over all numbers, with a step that does not depend on them.    *)
Iterates(g, a, step) == g[0] = a /\ \A j \in Nat : g[j + 1] = step[g[j]]

(* There is one on all numbers, put together from those on their           *)
(* beginnings.                                                             *)
LEMMA RecursionOnNat ==
  ASSUME NEW S, NEW a \in S, NEW step \in [S -> S]
  PROVE  \E g \in [Nat -> S] : Iterates(g, a, step)
<1> DEFINE each(k) == [j \in 1 .. k |-> step]
           G(k) == CHOOSE g \in [0 .. k -> S] : Steps(g, k, a, each(k))
           h    == [k \in Nat |-> G(k)[k]]
<1>1. ASSUME NEW k \in Nat PROVE G(k) \in [0 .. k -> S] /\ Steps(G(k), k, a, each(k))
  <2>1. each(k) \in [1 .. k -> [S -> S]]
    OBVIOUS
  <2>2. \E g \in [0 .. k -> S] : Steps(g, k, a, each(k))
    <3> HIDE DEF each
    <3> QED BY <2>1, RecursionExists
  <2> HIDE DEF each
  <2> QED BY <2>2
<1>2. ASSUME NEW k \in Nat
      PROVE  G(k + 1)[k] = G(k)[k] /\ G(k + 1)[k + 1] = step[G(k + 1)[k]]
  <2> DEFINE f == G(k + 1)
  <2>1. f[0] = a /\ \A j \in 1 .. k + 1 : f[j] = step[f[j - 1]]
    <3>1. Steps(f, k + 1, a, each(k + 1))
      <4> HIDE DEF each, G
      <4> QED BY <1>1
    <3> HIDE DEF G, f
    <3> QED BY <3>1 DEF Steps
  <2> HIDE DEF f
  <2>2. Steps(f, k, a, each(k))
    BY <2>1 DEF Steps
  <2>3. f[k] = G(k)[k]
    <3> HIDE DEF each, G
    <3>1. Steps(G(k), k, a, each(k))
      BY <1>1
    <3> QED BY <2>2, <3>1, RecursionUnique
  <2>4. f[k + 1] = step[f[k]]
    BY <2>1
  <2> QED BY <2>3, <2>4 DEF f
<1> HIDE DEF G
<1>3. h \in [Nat -> S]
  <2>1. ASSUME NEW k \in Nat PROVE G(k)[k] \in S
    <3>1. G(k) \in [0 .. k -> S]
      BY <1>1
    <3>2. k \in 0 .. k
      OBVIOUS
    <3> HIDE DEF G
    <3> QED BY <3>1, <3>2
  <2> QED BY <2>1
<1>4. h[0] = a
  BY <1>1 DEF Steps
<1>5. \A j \in Nat : h[j + 1] = step[h[j]]
  BY <1>2
<1>6. Iterates(h, a, step)
  <2> HIDE DEF h
  <2> QED BY <1>4, <1>5 DEF Iterates
<1> QED BY <1>3, <1>6

-------------------------------------------------------------------------------
(* The width of uint64_t leaves something to be counted with.              *)
LEMMA WrapPositive == Wrap \in Nat \ {0}
<1>1. IsFiniteSet(1 .. Width) /\ Cardinality(1 .. Width) = Width
  BY FS_Interval, WidthAssumption
<1>2. IsFiniteSet(SUBSET (1 .. Width)) /\ Cardinality(SUBSET (1 .. Width)) = 2 ^ Width
  BY <1>1, FS_SUBSET
<1>3. Cardinality(SUBSET (1 .. Width)) \in Nat \ {0}
  BY <1>2, FS_EmptySet, FS_CardinalityType
<1> QED BY <1>2, <1>3 DEF Wrap

(* Division with remainder.                                                *)
LEMMA Quotient ==
  ASSUME NEW a \in Nat, NEW w \in Nat \ {0}
  PROVE  \E q \in Int : a = w * q + (a % w) /\ a % w \in 0 .. w - 1
<1>1. ASSUME NEW q, NEW r, q = a \div w, r = a % w PROVE a = w * q + r
  BY <1>1, Z3
<1>2. a \div w \in Int /\ a % w \in 0 .. w - 1
  OBVIOUS
<1> QED BY <1>1, <1>2

(* The remainder is the only one in its range.                             *)
LEMMA Remainder ==
  ASSUME NEW a \in Nat, NEW w \in Nat \ {0}, NEW q \in Int,
         NEW r \in 0 .. w - 1, a = w * q + r
  PROVE  a % w = r
  OBVIOUS

(* Numbers that are the same at the width of uint64_t.                     *)
Same(a, b) == a % Wrap = b % Wrap

(* A number is the same as what is left of it at the width.                *)
LEMMA SameRemainder ==
  ASSUME NEW a \in Nat
  PROVE  a % Wrap \in Nat /\ a % Wrap < Wrap /\ Same(a % Wrap, a)
  BY WrapPositive DEF Same

(* A number that fits stays what it is.                                    *)
LEMMA SmallRemainder == ASSUME NEW a \in Nat, a < Wrap PROVE a % Wrap = a
  BY WrapPositive

(* Being the same is transitive.                                           *)
LEMMA SameTransitive ==
  ASSUME NEW a, NEW b, NEW c, Same(a, b), Same(b, c) PROVE Same(a, c)
  BY DEF Same

(* It survives multiplication.                                             *)
LEMMA SameProduct ==
  ASSUME NEW a \in Nat, NEW b \in Nat, NEW d \in Nat, Same(a, b)
  PROVE  Same(d * a, d * b)
<1>1. Wrap \in Nat \ {0}
  BY WrapPositive
<1>2. PICK qa \in Int : a = Wrap * qa + (a % Wrap) /\ a % Wrap \in 0 .. Wrap - 1
  BY <1>1, Quotient
<1>3. PICK qb \in Int : b = Wrap * qb + (b % Wrap) /\ b % Wrap \in 0 .. Wrap - 1
  BY <1>1, Quotient
<1> DEFINE r == a % Wrap
           x == d * a
           y == d * b
<1>4. r = b % Wrap /\ r \in Nat
  BY <1>2 DEF Same
<1> HIDE DEF r
<1>5. a = Wrap * qa + r /\ b = Wrap * qb + r
  BY <1>2, <1>3, <1>4 DEF r
<1>6. x \in Nat /\ y \in Nat
  OBVIOUS
<1>7. x = y + Wrap * (d * (qa - qb))
  <2>1. x = d * (Wrap * qa + r) /\ y = d * (Wrap * qb + r)
    BY <1>5
  <2>2. d * (Wrap * qa + r) = d * (Wrap * qb + r) + Wrap * (d * (qa - qb))
    BY <1>1, <1>4
  <2> QED BY <2>1, <2>2
<1>8. PICK q \in Int : y = Wrap * q + (y % Wrap) /\ y % Wrap \in 0 .. Wrap - 1
  BY <1>1, <1>6, Quotient
<1>9. x = Wrap * (q + d * (qa - qb)) + (y % Wrap) /\ q + d * (qa - qb) \in Int
  BY <1>1, <1>7, <1>8
<1>10. x % Wrap = y % Wrap
  <2> HIDE DEF x, y
  <2> QED BY <1>1, <1>6, <1>8, <1>9, Remainder
<1> QED BY <1>10 DEF Same

(* It survives addition.                                                   *)
LEMMA SameSum ==
  ASSUME NEW a \in Nat, NEW b \in Nat, NEW c \in Nat,
         NEW d \in Nat, Same(a, b), Same(c, d)
  PROVE  Same(a + c, b + d)
<1>1. Wrap \in Nat \ {0}
  BY WrapPositive
<1>2. PICK qa \in Int : a = Wrap * qa + (a % Wrap)
  BY <1>1, Quotient
<1>3. PICK qb \in Int : b = Wrap * qb + (b % Wrap)
  BY <1>1, Quotient
<1>4. PICK qc \in Int : c = Wrap * qc + (c % Wrap)
  BY <1>1, Quotient
<1>5. PICK qd \in Int : d = Wrap * qd + (d % Wrap)
  BY <1>1, Quotient
<1> DEFINE y == b + d
<1>6. a + c = y + Wrap * (qa + qc - qb - qd)
  <2>1. a + c - y = Wrap * qa + Wrap * qc - Wrap * qb - Wrap * qd
    BY <1>1, <1>2, <1>3, <1>4, <1>5 DEF Same
  <2>2. Wrap * qa + Wrap * qc - Wrap * qb - Wrap * qd = Wrap * (qa + qc - qb - qd)
    BY <1>1
  <2> QED BY <1>1, <2>1, <2>2
<1>7. y \in Nat /\ a + c \in Nat
  OBVIOUS
<1> HIDE DEF y
<1>8. PICK q \in Int : y = Wrap * q + (y % Wrap) /\ y % Wrap \in 0 .. Wrap - 1
  BY <1>1, <1>7, Quotient
<1>9. a + c = Wrap * (q + (qa + qc - qb - qd)) + (y % Wrap)
  BY <1>1, <1>6, <1>8
<1>10. (a + c) % Wrap = y % Wrap
  <2>1. q + (qa + qc - qb - qd) \in Int
    OBVIOUS
  <2> QED BY <1>1, <1>7, <1>8, <1>9, <2>1, Remainder
<1> QED BY <1>10 DEF Same, y

(* What the digits stand for, digit by digit: Decimal is defined by its    *)
(* recursion.                                                              *)
LEMMA DecimalSteps ==
  ASSUME NEW digits \in Seq(Nat)
  PROVE  \E v \in [0 .. Len(digits) -> Nat] :
            /\ v[0] = 0 /\ \A j \in 1 .. Len(digits) : v[j] = v[j - 1] * Base + digits[j]
            /\ Decimal(digits) = v[Len(digits)]
<1> DEFINE N == Len(digits)
           step == [j \in 1 .. N |-> [x \in Nat |-> x * Base + digits[j]]]
           Def(v) == v = [j \in 0 .. N |-> IF j = 0 THEN 0
                                           ELSE v[j - 1] * Base + digits[j]]
<1>1. N \in Nat /\ Base \in Nat /\ \A j \in 1 .. N : digits[j] \in Nat
  BY BaseAssumption
<1>2. step \in [1 .. N -> [Nat -> Nat]]
      /\ \A j \in 1 .. N, x \in Nat : step[j][x] = x * Base + digits[j]
  BY <1>1
<1>3. PICK g \in [0 .. N -> Nat] : Steps(g, N, 0, step)
  <2> HIDE DEF N, step
  <2> QED BY <1>1, <1>2, RecursionExists
<1>4. Def(g)
  <2>1. g[0] = 0 /\ \A j \in 1 .. N : g[j] = g[j - 1] * Base + digits[j]
    <3> HIDE DEF N, step
    <3>1. \A j \in 1 .. N : g[j] = step[j][g[j - 1]] /\ g[j - 1] \in Nat
      <4>1. \A j \in 1 .. N : j - 1 \in 0 .. N
        BY <1>1
      <4> QED BY <1>3, <4>1 DEF Steps
    <3> QED BY <1>2, <1>3, <3>1 DEF Steps
  <2> QED BY <1>1, <2>1
<1>5. Decimal(digits) = (CHOOSE v : Def(v))[N]
  BY DEF Decimal
<1> DEFINE v == CHOOSE v : Def(v)
<1>6. Def(v)
  <2> HIDE DEF Def
  <2> QED BY <1>4
<1> HIDE DEF v
<1>7. v[0] = 0 /\ \A j \in 1 .. N : v[j] = v[j - 1] * Base + digits[j]
  <2>1. \A j \in 0 .. N : v[j] = IF j = 0 THEN 0 ELSE v[j - 1] * Base + digits[j]
    <3> HIDE DEF N
    <3> QED BY <1>6
  <2> HIDE DEF Def
  <2> QED BY <1>1, <2>1
<1>8. \A j \in 0 .. N : v[j] \in Nat
  <2> DEFINE T == {j \in 0 .. N : v[j] \in Nat}
  <2> HIDE DEF N, Def
  <2>1. 0 \in T
    BY <1>1, <1>7
  <2>2. ASSUME NEW k \in 0 .. N - 1, k \in T PROVE k + 1 \in T
    <3>1. k + 1 \in 1 .. N /\ (k + 1) - 1 = k
      BY <1>1
    <3>2. v[k + 1] = v[k] * Base + digits[k + 1]
      BY <1>7, <3>1
    <3>3. v[k] \in Nat /\ digits[k + 1] \in Nat /\ v[k] * Base \in Nat
      BY <1>1, <2>2, <3>1
    <3>4. v[k] * Base + digits[k + 1] \in Nat
      BY <3>3
    <3>5. k + 1 \in 0 .. N /\ v[k + 1] \in Nat
      BY <1>1, <3>1, <3>2, <3>4
    <3> QED BY <3>5
  <2> HIDE DEF T
  <2>3. 0 .. N \subseteq T
    BY <1>1, <2>1, <2>2, UpTo
  <2> QED BY <2>3 DEF T
<1>9. v \in [0 .. N -> Nat]
  BY <1>6, <1>8
<1>10. Decimal(digits) = v[N]
  BY <1>5 DEF v
<1> QED BY <1>7, <1>9, <1>10

(* The weight of a digit, place by place.                                  *)
LEMMA WeightSteps ==
  /\ Weight(0) = 1
  /\ \A j \in Nat : Weight(j) \in Nat /\ Weight(j + 1) = (Weight(j) * Base) % Wrap
<1> DEFINE step == [x \in Nat |-> (x * Base) % Wrap]
           Def(w) == w = [i \in Nat |-> IF i = 0 THEN 1 ELSE (w[i - 1] * Base) % Wrap]
           w == CHOOSE w : Def(w)
<1>1. Base \in Nat /\ Wrap \in Nat \ {0} /\ \A x \in Nat : x * Base \in Nat
  BY BaseAssumption, WrapPositive
<1>2. \A x \in Nat : (x * Base) % Wrap \in Nat
  BY <1>1
<1>3. step \in [Nat -> Nat] /\ \A x \in Nat : step[x] = (x * Base) % Wrap
  BY <1>2
<1>4. PICK g \in [Nat -> Nat] : Iterates(g, 1, step)
  <2> HIDE DEF step
  <2> QED BY <1>3, RecursionOnNat
<1>5. Def(g)
  <2>1. ASSUME NEW j \in Nat, j # 0 PROVE g[j] = (g[j - 1] * Base) % Wrap
    <3>1. j - 1 \in Nat /\ (j - 1) + 1 = j /\ g[j - 1] \in Nat
      BY <2>1
    <3> HIDE DEF step
    <3> QED BY <1>3, <1>4, <3>1 DEF Iterates
  <2> QED BY <1>4, <2>1 DEF Iterates
<1>6. Def(w)
  <2> HIDE DEF Def
  <2> QED BY <1>5
<1>7. \A j \in Nat : Weight(j) = w[j]
  BY DEF Weight
<1> HIDE DEF w
<1>8. \A j \in Nat : w[j] = IF j = 0 THEN 1 ELSE (w[j - 1] * Base) % Wrap
  BY <1>6
<1> HIDE DEF Def
<1>9. \A j \in Nat : w[j + 1] = (w[j] * Base) % Wrap
  <2> SUFFICES ASSUME NEW j \in Nat PROVE w[j + 1] = (w[j] * Base) % Wrap
    OBVIOUS
  <2>1. j + 1 \in Nat /\ j + 1 # 0 /\ (j + 1) - 1 = j
    OBVIOUS
  <2> QED BY <1>8, <2>1
<1>10. Nat \subseteq {j \in Nat : w[j] \in Nat}
  <2> DEFINE T == {j \in Nat : w[j] \in Nat}
  <2>1. 0 \in T
    BY <1>8
  <2>2. \A k \in Nat : k \in T => k + 1 \in T
    BY <1>2, <1>9
  <2> HIDE DEF T
  <2>3. Nat \subseteq T
    BY <2>1, <2>2, FromZero
  <2> QED BY <2>3 DEF T
<1> QED BY <1>7, <1>8, <1>9, <1>10

(* The loop of commonString2Number, turn by turn.                          *)
LEMMA ResultSteps ==
  ASSUME NEW digits \in Seq(Nat)
  PROVE  \E v \in [0 .. Len(digits) -> Nat] :
            /\ v[0] = 0
            /\ \A j \in 1 .. Len(digits) :
                  v[j] = (v[j - 1] + digits[Len(digits) - j + 1] * Weight(j - 1)) % Wrap
            /\ Result(digits) = v[Len(digits)]
<1> DEFINE N == Len(digits)
           add(j) == digits[N - j + 1] * Weight(j - 1)
           step == [j \in 1 .. N |-> [x \in Nat |-> (x + add(j)) % Wrap]]
           Def(v) == v = [j \in 0 .. N |->
                            IF j = 0 THEN 0
                            ELSE (v[j - 1] + digits[N - j + 1] * Weight(j - 1)) % Wrap]
           v == CHOOSE v : Def(v)
<1>1. N \in Nat /\ Wrap \in Nat \ {0}
  BY WrapPositive
<1>2. \A j \in 1 .. N : add(j) \in Nat
  <2> SUFFICES ASSUME NEW j \in 1 .. N PROVE add(j) \in Nat
    OBVIOUS
  <2>1. N - j + 1 \in 1 .. N /\ j - 1 \in Nat
    OBVIOUS
  <2>2. digits[N - j + 1] \in Nat
    BY <2>1
  <2>3. Weight(j - 1) \in Nat
    BY <2>1, WeightSteps
  <2> QED BY <2>2, <2>3
<1> HIDE DEF add
<1>3. \A j \in 1 .. N, x \in Nat : (x + add(j)) % Wrap \in Nat
  BY <1>1, <1>2
<1>4. step \in [1 .. N -> [Nat -> Nat]]
      /\ \A j \in 1 .. N, x \in Nat : step[j][x] = (x + add(j)) % Wrap
  BY <1>3
<1>5. PICK g \in [0 .. N -> Nat] : Steps(g, N, 0, step)
  <2> HIDE DEF N, step
  <2> QED BY <1>1, <1>4, RecursionExists
<1>6. Def(g)
  <2>1. g[0] = 0 /\ \A j \in 1 .. N : g[j] = (g[j - 1] + add(j)) % Wrap
    <3> HIDE DEF N, step
    <3>1. \A j \in 1 .. N : g[j] = step[j][g[j - 1]] /\ g[j - 1] \in Nat
      <4>1. \A j \in 1 .. N : j - 1 \in 0 .. N
        BY <1>1
      <4> QED BY <1>5, <4>1 DEF Steps
    <3> QED BY <1>4, <1>5, <3>1 DEF Steps
  <2> QED BY <1>1, <2>1 DEF add
<1>7. Result(digits) = v[N]
  BY DEF Result
<1>8. Def(v)
  <2> HIDE DEF Def
  <2> QED BY <1>6
<1> HIDE DEF v
<1>9. v[0] = 0 /\ \A j \in 1 .. N : v[j] = (v[j - 1] + add(j)) % Wrap
  <2>1. \A j \in 0 .. N : v[j] = IF j = 0 THEN 0 ELSE (v[j - 1] + add(j)) % Wrap
    <3> HIDE DEF N
    <3> QED BY <1>8 DEF add
  <2> HIDE DEF Def
  <2> QED BY <1>1, <2>1
<1>10. \A j \in 0 .. N : v[j] \in Nat
  <2> DEFINE T == {j \in 0 .. N : v[j] \in Nat}
  <2> HIDE DEF N, Def
  <2>1. 0 \in T
    BY <1>1, <1>9
  <2>2. ASSUME NEW k \in 0 .. N - 1, k \in T PROVE k + 1 \in T
    <3>1. k + 1 \in 1 .. N /\ (k + 1) - 1 = k
      BY <1>1
    <3>2. v[k + 1] = (v[k] + add(k + 1)) % Wrap
      BY <1>9, <3>1
    <3>3. v[k + 1] \in Nat
      BY <1>3, <2>2, <3>1, <3>2
    <3>4. k + 1 \in 0 .. N
      BY <1>1
    <3> QED BY <3>3, <3>4
  <2> HIDE DEF T
  <2>3. 0 .. N \subseteq T
    BY <1>1, <2>1, <2>2, UpTo
  <2> QED BY <2>3 DEF T
<1>11. v \in [0 .. N -> Nat]
  BY <1>8, <1>10
<1> QED BY <1>7, <1>9, <1>11 DEF add

(* The powers of the base, which do not wrap.                              *)
Powers(p) == p[0] = 1 /\ \A j \in Nat : p[j + 1] = p[j] * Base

(* There are such powers.                                                  *)
LEMMA PowersExist == \E p \in [Nat -> Nat] : Powers(p)
<1> DEFINE step == [x \in Nat |-> x * Base]
<1>1. \A x \in Nat : x * Base \in Nat
  BY BaseAssumption
<1>2. step \in [Nat -> Nat] /\ \A x \in Nat : step[x] = x * Base
  BY <1>1
<1> HIDE DEF step
<1>3. PICK p \in [Nat -> Nat] : Iterates(p, 1, step)
  BY <1>2, RecursionOnNat
<1>4. Powers(p)
  BY <1>2, <1>3 DEF Iterates, Powers
<1> QED BY <1>4

(* The weight of a digit is the power of the base at its place, but for    *)
(* what wrapped.                                                           *)
LEMMA WeightIsPower ==
  ASSUME NEW p \in [Nat -> Nat], Powers(p), NEW i \in Nat
  PROVE  Same(Weight(i), p[i])
<1> DEFINE T == {j \in Nat : Same(Weight(j), p[j])}
<1>1. 0 \in T
  BY WeightSteps DEF Powers, Same
<1>2. ASSUME NEW k \in Nat, k \in T PROVE k + 1 \in T
  <2> DEFINE a == Weight(k)
             b == p[k]
  <2>1. /\ a \in Nat /\ b \in Nat /\ Same(a, b) /\ Base \in Nat
        /\ Weight(k + 1) = (a * Base) % Wrap /\ p[k + 1] = b * Base
    BY <1>2, WeightSteps, BaseAssumption DEF Powers
  <2> HIDE DEF a, b
  <2>2. a * Base \in Nat /\ a * Base = Base * a /\ b * Base = Base * b
    BY <2>1
  <2>3. Same(Base * a, Base * b)
    BY <2>1, SameProduct
  <2>4. Same((a * Base) % Wrap, a * Base)
    BY <2>2, SameRemainder
  <2>5. Same((a * Base) % Wrap, b * Base)
    BY <2>2, <2>3, <2>4, SameTransitive
  <2> QED BY <2>1, <2>5
<1>3. Nat \subseteq T
  <2> HIDE DEF T
  <2> QED BY <1>1, <1>2, FromZero
<1> QED BY <1>3

(* commonString2Number loses no digit: its result is the number the        *)
(* digits stand for, reduced to the width of uint64_t (common.c:73).       *)
THEOREM ResultIsDecimal ==
  ASSUME NEW digits \in Seq(Nat)
  PROVE  Decimal(digits) \in Nat /\ Result(digits) = Decimal(digits) % Wrap
<1> DEFINE N == Len(digits)
<1>1. N \in Nat /\ Base \in Nat /\ Wrap \in Nat \ {0}
      /\ \A j \in 1 .. N : digits[j] \in Nat
  BY BaseAssumption, WrapPositive
<1>2. PICK p \in [Nat -> Nat] : Powers(p)
  BY PowersExist
<1>3. PICK v \in [0 .. N -> Nat] :
            /\ v[0] = 0 /\ \A j \in 1 .. N : v[j] = v[j - 1] * Base + digits[j]
            /\ Decimal(digits) = v[N]
  BY DecimalSteps
<1>4. PICK s \in [0 .. N -> Nat] :
            /\ s[0] = 0
            /\ \A j \in 1 .. N :
                  s[j] = (s[j - 1] + digits[N - j + 1] * Weight(j - 1)) % Wrap
            /\ Result(digits) = s[N]
  BY ResultSteps
<1> HIDE DEF N
<1>5. N \in 0 .. N /\ v[N] \in Nat /\ s[N] \in Nat
  BY <1>1
<1> DEFINE T == {j \in 0 .. N :
                    /\ s[j] < Wrap
                    /\ \E r \in Nat : v[N - j] * p[j] + r = v[N] /\ Same(s[j], r)}
<1>6. 0 \in T
  <2>1. N - 0 = N /\ v[N] * 1 + 0 = v[N]
    BY <1>1, <1>5
  <2>2. v[N - 0] * p[0] + 0 = v[N]
    BY <1>2, <2>1 DEF Powers
  <2>3. Same(s[0], 0) /\ s[0] < Wrap
    BY <1>1, <1>4 DEF Same
  <2> QED BY <1>1, <2>2, <2>3
<1>7. ASSUME NEW k \in 0 .. N - 1, k \in T PROVE k + 1 \in T
  <2>1. PICK r \in Nat : v[N - k] * p[k] + r = v[N] /\ Same(s[k], r)
    BY <1>7
  <2> DEFINE d == digits[N - k]
             u == v[N - (k + 1)]
             w == Weight(k)
             x == p[k]
             y == s[k]
             q == r + d * x
  <2>2. k \in Nat /\ k + 1 \in 1 .. N /\ N - k \in 1 .. N /\ N - (k + 1) \in 0 .. N
        /\ N - (k + 1) + 1 = N - k /\ (k + 1) - 1 = k /\ (N - k) - 1 = N - (k + 1)
    BY <1>1
  <2>3. k \in 0 .. N /\ k + 1 \in 0 .. N
    BY <1>1
  <2>4. d \in Nat /\ u \in Nat /\ x \in Nat /\ w \in Nat /\ y \in Nat
    BY <1>1, <2>2, <2>3, WeightSteps
  <2>5. v[N - k] = u * Base + d
    BY <1>3, <2>2
  <2>6. s[k + 1] = (y + d * w) % Wrap
    <3>1. s[k + 1]
            = (s[(k + 1) - 1] + digits[N - (k + 1) + 1] * Weight((k + 1) - 1)) % Wrap
      BY <1>4, <2>2
    <3> QED BY <2>2, <3>1
  <2>7. p[k + 1] = x * Base
    BY <1>2, <2>2 DEF Powers
  <2>8. Same(w, x) /\ Same(y, r)
    BY <1>2, <2>1, <2>2, WeightIsPower
  <2> HIDE DEF d, u, w, x, y
  <2>9. d * x \in Nat /\ d * w \in Nat
    BY <2>4
  <2>10. q \in Nat /\ y + d * w \in Nat
    <3> DEFINE e == d * x
               f == d * w
    <3>1. e \in Nat /\ f \in Nat
      BY <2>9
    <3> HIDE DEF e, f
    <3>2. r + e \in Nat /\ y + f \in Nat
      BY <2>4, <3>1
    <3> QED BY <3>2 DEF e, f
  <2>11. u * (x * Base) + q = v[N]
    <3>1. (u * Base + d) * x + r = v[N]
      BY <2>1, <2>5 DEF x
    <3>2. (u * Base + d) * x = u * (x * Base) + d * x
      BY <1>1, <2>4
    <3>3. u * (x * Base) \in Nat
      BY <1>1, <2>4
    <3> QED BY <2>9, <3>1, <3>2, <3>3
  <2>12. Same(y + d * w, q)
    <3>1. Same(d * w, d * x)
      BY <2>4, <2>8, SameProduct
    <3> HIDE DEF T
    <3> QED BY <2>4, <2>8, <2>9, <3>1, SameSum
  <2>13. Same(s[k + 1], q) /\ s[k + 1] < Wrap
    <3> HIDE DEF q
    <3> DEFINE z == y + d * w
    <3>1. z \in Nat
      BY <2>10
    <3> HIDE DEF z
    <3>2. Same(z % Wrap, z) /\ z % Wrap < Wrap
      BY <3>1, SameRemainder
    <3>3. Same(z, q) /\ s[k + 1] = z % Wrap
      BY <2>6, <2>12 DEF z
    <3> QED BY <3>2, <3>3, SameTransitive
  <2>14. v[N - (k + 1)] * p[k + 1] + q = v[N]
    BY <2>7, <2>11 DEF u
  <2> HIDE DEF q
  <2> QED BY <2>3, <2>10, <2>13, <2>14
<1>8. N \in T
  <2> HIDE DEF T
  <2>1. 0 .. N \subseteq T
    BY <1>1, <1>6, <1>7, UpTo
  <2> QED BY <1>5, <2>1
<1>9. PICK r \in Nat : v[N - N] * p[N] + r = v[N] /\ Same(s[N], r)
  BY <1>8
<1>10. r = v[N]
  <2>1. v[N - N] = 0 /\ p[N] \in Nat
    BY <1>1, <1>3
  <2> DEFINE t == v[N - N] * p[N]
  <2>2. t = 0
    BY <2>1
  <2>3. t + r = v[N]
    BY <1>9
  <2> HIDE DEF t
  <2> QED BY <2>2, <2>3
<1>11. s[N] = v[N] % Wrap
  <2>1. s[N] % Wrap = v[N] % Wrap
    BY <1>9, <1>10 DEF Same
  <2>2. s[N] < Wrap
    BY <1>8
  <2>3. s[N] % Wrap = s[N]
    <3> DEFINE m == s[N]
    <3>1. m \in Nat /\ m < Wrap
      BY <1>5, <2>2
    <3> HIDE DEF m, T
    <3>2. m % Wrap = m
      BY <3>1, SmallRemainder
    <3> QED BY <3>2 DEF m
  <2> QED BY <2>1, <2>3
<1> QED BY <1>3, <1>4, <1>5, <1>11

(* A Content-Length that fits is exact, and none is read as more than      *)
(* what was written.                                                       *)
THEOREM NumberExact ==
  ASSUME NEW digits \in Seq(Nat)
  PROVE  /\ String2Number(digits) \in Int /\ String2Number(digits) <= Decimal(digits)
         /\ ~Overflows(digits) => String2Number(digits) = Decimal(digits)
<1>1. Decimal(digits) \in Nat /\ Result(digits) = Decimal(digits) % Wrap
      /\ Wrap \in Nat \ {0}
  BY ResultIsDecimal, WrapPositive
<1>2. Result(digits) \in Nat /\ Result(digits) < Wrap /\ Result(digits) <= Decimal(digits)
  BY <1>1
<1>3. Wrap \div 2 \in Nat /\ Wrap \div 2 <= Wrap
  BY <1>1
<1>4. Decimal(digits) < Wrap => Result(digits) = Decimal(digits)
  BY <1>1
<1> QED BY <1>1, <1>2, <1>3, <1>4 DEF String2Number, Signed, Overflows

-------------------------------------------------------------------------------
(* A build has files, each with a size.                                    *)
LEMMA BuildFacts ==
  ASSUME NEW build \in Seq([name : STRING, size : Nat]), build # <<>>
  PROVE  /\ Len(build) \in Nat \ {0}
         /\ \A j \in 1 .. Len(build) : build[j].size \in Nat
<1>1. Len(build) # 0 /\ Len(build) \in Nat
  OBVIOUS
<1>2. \A j \in 1 .. Len(build) : build[j] \in [name : STRING, size : Nat]
  BY ElementOfSeq
<1> QED BY <1>1, <1>2

(* The next file starts behind the end of the one before.                  *)
LEMMA NextOffsetBehind ==
  ASSUME NEW offset \in Nat, NEW size \in Nat
  PROVE  NextOffset(offset, size) \in Nat
         /\ NextOffset(offset, size) >= offset + Align + size
<1> DEFINE end == offset + Align + size
<1>1. end \in Nat /\ Align \in Nat \ {0}
  BY AlignAssumption
<1>2. NextOffset(offset, size)
        = IF (end % Align) # 0 THEN end + (Align - (end % Align)) ELSE end
  BY DEF NextOffset
<1> HIDE DEF end
<1>3. end % Align \in 0 .. Align - 1
  BY <1>1
<1>4. NextOffset(offset, size) \in Nat /\ NextOffset(offset, size) >= end
  BY <1>1, <1>2, <1>3
<1> QED BY <1>4 DEF end

(* The places of the files, one behind the other.                          *)
LEMMA OffsetSteps ==
  ASSUME NEW build \in Seq([name : STRING, size : Nat]), build # <<>>
  PROVE  /\ Offset(build) \in [1 .. Len(build) -> Nat]
         /\ Offset(build)[1] = HeadSize
         /\ \A i \in 1 .. Len(build) - 1 :
               Offset(build)[i + 1] = NextOffset(Offset(build)[i], build[i].size)
<1> DEFINE N == Len(build)
           step == [j \in 1 .. N - 1 |-> [x \in Nat |-> NextOffset(x, build[j].size)]]
           Def(at) == at = [i \in 1 .. N |->
                              IF i = 1 THEN HeadSize
                              ELSE NextOffset(at[i - 1], build[i - 1].size)]
           at == CHOOSE at : Def(at)
<1>1. N \in Nat \ {0} /\ HeadSize \in Nat /\ \A j \in 1 .. N : build[j].size \in Nat
  BY AlignAssumption, BuildFacts
<1>2. ASSUME NEW j \in 1 .. N - 1, NEW x \in Nat
      PROVE  NextOffset(x, build[j].size) \in Nat
  <2>1. build[j].size \in Nat
    BY <1>1
  <2> QED BY <2>1, NextOffsetBehind
<1>3. /\ step \in [1 .. N - 1 -> [Nat -> Nat]] /\ N - 1 \in Nat
      /\ \A j \in 1 .. N - 1, x \in Nat : step[j][x] = NextOffset(x, build[j].size)
  <2>1. N - 1 \in Nat
    BY <1>1
  <2> HIDE DEF N
  <2> QED BY <1>2, <2>1
<1>4. PICK g \in [0 .. N - 1 -> Nat] : Steps(g, N - 1, HeadSize, step)
  <2> HIDE DEF N, step
  <2> QED BY <1>1, <1>3, RecursionExists
<1> DEFINE h == [i \in 1 .. N |-> g[i - 1]]
<1>5. Def(h)
  <2>1. ASSUME NEW i \in 1 .. N, i # 1
        PROVE  h[i] = NextOffset(h[i - 1], build[i - 1].size)
    <3>1. i - 1 \in 1 .. N - 1 /\ i - 1 \in 1 .. N /\ (i - 1) - 1 \in 0 .. N - 1
      BY <1>1, <2>1
    <3>2. g[i - 1] = step[i - 1][g[(i - 1) - 1]] /\ g[(i - 1) - 1] \in Nat
      <4> HIDE DEF N, step
      <4> QED BY <1>4, <3>1 DEF Steps
    <3>3. g[i - 1] = NextOffset(g[(i - 1) - 1], build[i - 1].size)
      <4> HIDE DEF N, step
      <4> QED BY <1>3, <3>1, <3>2
    <3> QED BY <3>1, <3>3
  <2>2. h[1] = HeadSize
    BY <1>1, <1>4 DEF Steps
  <2> QED BY <2>1, <2>2
<1>6. Offset(build) = at
  BY DEF Offset
<1>7. Def(at)
  <2> HIDE DEF Def, h
  <2> QED BY <1>5
<1> HIDE DEF at
<1>8. \A i \in 1 .. N :
        at[i] = IF i = 1 THEN HeadSize ELSE NextOffset(at[i - 1], build[i - 1].size)
  BY <1>7
<1>9. \A i \in 1 .. N - 1 : at[i + 1] = NextOffset(at[i], build[i].size)
  <2> SUFFICES ASSUME NEW i \in 1 .. N - 1
               PROVE  at[i + 1] = NextOffset(at[i], build[i].size)
    OBVIOUS
  <2>1. i + 1 \in 1 .. N /\ i + 1 # 1 /\ (i + 1) - 1 = i
    BY <1>1
  <2> HIDE DEF Def
  <2> QED BY <1>8, <2>1
<1>10. 1 .. N \subseteq {i \in 1 .. N : at[i] \in Nat}
  <2> DEFINE T == {i \in 1 .. N : at[i] \in Nat}
  <2>1. 1 \in T
    BY <1>1, <1>8
  <2>2. ASSUME NEW k \in 1 .. N - 1, k \in T PROVE k + 1 \in T
    <3>1. k + 1 \in 1 .. N
      BY <1>1
    <3> QED BY <1>2, <1>9, <2>2, <3>1
  <2> HIDE DEF T, N
  <2>3. 1 .. N \subseteq T
    BY <1>1, <2>1, <2>2, UpTo
  <2> QED BY <2>3 DEF T
<1>11. at \in [1 .. N -> Nat] /\ at[1] = HeadSize
  BY <1>1, <1>7, <1>10
<1> QED BY <1>6, <1>9, <1>11

(* A file ends where a later one starts, or in front of it.                *)
LEMMA OffsetsGrow ==
  ASSUME NEW build \in Seq([name : STRING, size : Nat]), build # <<>>,
         NEW i \in 1 .. Len(build), NEW j \in 1 .. Len(build), i < j
  PROVE  Offset(build)[i] + Align + build[i].size <= Offset(build)[j]
<1> DEFINE N == Len(build)
           at == Offset(build)
           end == at[i] + Align + build[i].size
           T == {k \in i + 1 .. N : end <= at[k]}
<1>1. N \in Nat \ {0} /\ Align \in Nat /\ (\A k \in 1 .. N : build[k].size \in Nat)
      /\ i \in Nat
  BY AlignAssumption, BuildFacts
<1>2. at \in [1 .. N -> Nat]
      /\ \A k \in 1 .. N - 1 : at[k + 1] = NextOffset(at[k], build[k].size)
  BY OffsetSteps
<1> HIDE DEF at, N
<1>3. end \in Nat
  BY <1>1, <1>2 DEF N
<1>4. \A k \in 1 .. N - 1 : at[k + 1] >= at[k] + Align + build[k].size
  <2> SUFFICES ASSUME NEW k \in 1 .. N - 1
               PROVE  at[k + 1] >= at[k] + Align + build[k].size
    OBVIOUS
  <2>1. k \in 1 .. N /\ at[k] \in Nat /\ build[k].size \in Nat
    BY <1>1, <1>2
  <2> QED BY <1>2, <2>1, NextOffsetBehind
<1>5. i + 1 \in T
  <2>1. i \in 1 .. N - 1 /\ i + 1 \in i + 1 .. N
    BY <1>1 DEF N
  <2> QED BY <1>4, <2>1
<1>6. ASSUME NEW k \in i + 1 .. N - 1, k \in T PROVE k + 1 \in T
  <2>1. k \in 1 .. N - 1 /\ k + 1 \in i + 1 .. N /\ k \in 1 .. N /\ k + 1 \in 1 .. N
    BY <1>1 DEF N
  <2>2. at[k + 1] >= at[k] + Align + build[k].size /\ at[k] \in Nat /\ at[k + 1] \in Nat
        /\ build[k].size \in Nat /\ end <= at[k]
    BY <1>1, <1>2, <1>4, <1>6, <2>1
  <2>3. at[k] <= at[k + 1]
    <3> DEFINE x == at[k]
               y == at[k + 1]
               s == build[k].size
    <3>1. x \in Nat /\ y \in Nat /\ s \in Nat /\ Align \in Nat /\ y >= x + Align + s
      BY <1>1, <2>2
    <3> HIDE DEF x, y, s
    <3>2. x <= y
      BY <3>1
    <3> QED BY <3>2 DEF x, y
  <2> HIDE DEF end
  <2>4. end <= at[k + 1]
    BY <1>3, <2>2, <2>3
  <2> QED BY <2>1, <2>4
<1>7. i + 1 .. N \subseteq T
  <2>1. i + 1 \in Nat /\ N \in Nat
    BY <1>1
  <2> HIDE DEF T
  <2> QED BY <1>5, <1>6, <2>1, UpTo
<1>8. j \in i + 1 .. N
  BY <1>1 DEF N
<1> QED BY <1>7, <1>8 DEF at

(* The places of the files are what tells them apart.                      *)
LEMMA OffsetsApart ==
  ASSUME NEW build \in Seq([name : STRING, size : Nat]), build # <<>>
  PROVE  /\ \A i \in 1 .. Len(build) : Offset(build)[i] \in Nat /\ Offset(build)[i] > 0
         /\ \A i, j \in 1 .. Len(build) : Offset(build)[i] = Offset(build)[j] => i = j
<1> DEFINE N == Len(build)
           at == Offset(build)
<1>1. N \in Nat \ {0} /\ (\A k \in 1 .. N : build[k].size \in Nat)
      /\ Align \in Nat \ {0} /\ HeadSize \in Nat \ {0}
  BY AlignAssumption, BuildFacts
<1>2. at \in [1 .. N -> Nat] /\ at[1] = HeadSize
  BY OffsetSteps
<1>3. \A i, j \in 1 .. N : i < j => at[i] + Align + build[i].size <= at[j]
  BY OffsetsGrow
<1> HIDE DEF at, N
<1>4. ASSUME NEW i \in 1 .. N, NEW j \in 1 .. N, i < j PROVE at[i] < at[j]
  <2> DEFINE x == at[i]
             y == at[j]
             s == build[i].size
  <2>1. x \in Nat /\ y \in Nat /\ s \in Nat /\ x + Align + s <= y
    BY <1>1, <1>2, <1>3, <1>4
  <2> HIDE DEF x, y, s
  <2>2. x < y
    BY <1>1, <2>1
  <2> QED BY <2>2 DEF x, y
<1>5. ASSUME NEW i \in 1 .. N PROVE at[i] \in Nat /\ at[i] > 0
  <2>1. 1 \in 1 .. N /\ at[i] \in Nat /\ at[1] > 0 /\ at[1] \in Nat
    BY <1>1, <1>2
  <2>2. i = 1 \/ 1 < i
    BY <1>1
  <2>3. i = 1 \/ at[1] < at[i]
    BY <1>4, <2>1, <2>2
  <2> QED BY <2>1, <2>3
<1>6. ASSUME NEW i \in 1 .. N, NEW j \in 1 .. N, at[i] = at[j] PROVE i = j
  <2>1. i = j \/ i < j \/ j < i
    BY <1>1
  <2>2. ~(at[i] < at[j]) /\ ~(at[j] < at[i])
    BY <1>5, <1>6
  <2> QED BY <1>4, <2>1, <2>2
<1> QED BY <1>5, <1>6 DEF at, N

(* A bounded set of numbers has a greatest one.                            *)
LEMMA MaxExists ==
  ASSUME NEW M, M \subseteq Nat, M # {}, NEW b \in Nat, \A x \in M : x <= b
  PROVE  Max(M) \in M /\ \A y \in M : Max(M) >= y
<1> DEFINE T == {d \in Nat : b - d \in M}
<1>1. T \subseteq Nat /\ T # {}
  <2>1. PICK x \in M : TRUE
    OBVIOUS
  <2>2. b - x \in Nat /\ b - (b - x) = x
    BY <2>1
  <2>3. b - x \in T
    BY <2>1, <2>2
  <2> QED BY <2>3
<1>2. PICK d \in T : \A e \in T : d <= e
  <2> HIDE DEF T
  <2> QED BY <1>1, NatMin
<1>3. ASSUME NEW y \in M PROVE b - d >= y
  <2>1. b - y \in Nat /\ b - (b - y) = y /\ y \in Nat
    OBVIOUS
  <2>2. b - y \in T
    BY <2>1
  <2>3. d <= b - y /\ d \in Nat
    BY <1>2, <2>2
  <2> QED BY <2>1, <2>3
<1>4. \E x \in M : \A y \in M : x >= y
  BY <1>2, <1>3
<1> QED BY <1>4 DEF Max

(* Every file but the last ends in front of the next head, and the last    *)
(* one at the end of the image unless it is empty: then the image ends in  *)
(* its head.                                                               *)
LEMMA SizeOfImage ==
  ASSUME NEW build \in Seq([name : STRING, size : Nat]), build # <<>>
  PROVE  /\ Size(build) \in Nat
         /\ \A i \in 1 .. Len(build) : Offset(build)[i] < Size(build)
         /\ \A i \in 1 .. Len(build) :
               (i = Len(build) /\ build[i].size = 0 /\ FileHead < Align)
                  <=> Offset(build)[i] + Align + build[i].size > Size(build)
<1> DEFINE N == Len(build)
           at == Offset(build)
           M == {HeadSize} \cup {at[i] + FileHead : i \in DOMAIN build}
                \cup {at[i] + Align + build[i].size :
                         i \in {j \in DOMAIN build : build[j].size > 0}}
           b == at[N] + Align + build[N].size
<1>1. N \in Nat \ {0} /\ (\A k \in 1 .. N : build[k].size \in Nat)
      /\ FileHead \in 1 .. Align
      /\ Align \in Nat \ {0} /\ HeadSize \in Nat \ {0} /\ DOMAIN build = 1 .. N
  BY AlignAssumption, FileHeadAssumption, BuildFacts
<1>2. at \in [1 .. N -> Nat] /\ at[1] = HeadSize
  BY OffsetSteps
<1>3. \A i, j \in 1 .. N : i < j => at[i] + Align + build[i].size <= at[j]
  BY OffsetsGrow
<1>4. Size(build) = Max(M)
  BY DEF Size
<1> HIDE DEF at, N
<1>5. N \in 1 .. N /\ 1 \in 1 .. N
      /\ \A i \in 1 .. N : at[i] \in Nat /\ at[i] + Align + build[i].size \in Nat
  <2>1. N \in 1 .. N /\ 1 \in 1 .. N
    BY <1>1
  <2>2. \A i \in 1 .. N : at[i] \in Nat /\ build[i].size \in Nat
    BY <1>1, <1>2
  <2> QED BY <1>1, <2>1, <2>2
<1>6. \A i \in 1 .. N : i # N => at[i] + Align + build[i].size <= at[N]
  BY <1>1, <1>3, <1>5
<1>7. b \in Nat /\ \A i \in 1 .. N : at[i] + Align + build[i].size <= b
  <2>1. b \in Nat /\ at[N] <= b
    <3>1. at[N] \in Nat /\ build[N].size \in Nat /\ Align \in Nat
      BY <1>1, <1>5
    <3> QED BY <3>1
  <2>2. at[N] \in Nat
    BY <1>5
  <2>3. ASSUME NEW i \in 1 .. N, i # N PROVE at[i] + Align + build[i].size <= b
    <3> DEFINE e == at[i] + Align + build[i].size
    <3>1. e \in Nat /\ e <= at[N]
      BY <1>5, <1>6, <2>3
    <3> HIDE DEF e, b
    <3>2. e <= b
      BY <2>1, <2>2, <3>1
    <3> QED BY <3>2 DEF e
  <2> QED BY <2>1, <2>3
<1> HIDE DEF b
<1>8. ASSUME NEW x \in M PROVE x \in Nat /\ x <= b
  <2>1. CASE x = HeadSize
    <3>1. at[1] \in Nat /\ build[1].size \in Nat /\ at[1] + Align + build[1].size <= b
      BY <1>1, <1>5, <1>7
    <3> QED BY <1>1, <1>2, <1>7, <2>1, <3>1
  <2>2. ASSUME NEW i \in 1 .. N, x = at[i] + FileHead PROVE x \in Nat /\ x <= b
    <3>1. at[i] \in Nat /\ build[i].size \in Nat /\ at[i] + Align + build[i].size <= b
      BY <1>1, <1>5, <1>7
    <3> DEFINE u == at[i]
               v == build[i].size
    <3>2. u \in Nat /\ v \in Nat /\ u + Align + v <= b /\ x = u + FileHead
      BY <2>2, <3>1
    <3> HIDE DEF u, v
    <3> QED BY <1>1, <1>7, <3>2
  <2>3. ASSUME NEW i \in 1 .. N, x = at[i] + Align + build[i].size
        PROVE  x \in Nat /\ x <= b
    BY <1>5, <1>7, <2>3
  <2> QED BY <1>1, <2>1, <2>2, <2>3
<1>9. Max(M) \in M /\ \A y \in M : Max(M) >= y
  <2>1. M \subseteq Nat /\ M # {} /\ \A x \in M : x <= b
    BY <1>8
  <2> HIDE DEF M
  <2> QED BY <1>7, <2>1, MaxExists
<1> DEFINE z == Size(build)
<1>10. z \in M /\ z \in Nat /\ \A y \in M : z >= y
  BY <1>4, <1>8, <1>9
<1> HIDE DEF z
<1>11. ASSUME NEW i \in 1 .. N PROVE at[i] < z
  <2>1. at[i] + FileHead \in M /\ at[i] \in Nat
    BY <1>1, <1>5
  <2>2. z >= at[i] + FileHead
    BY <1>10, <2>1
  <2> QED BY <1>1, <1>10, <2>1, <2>2
<1>12. ASSUME NEW i \in 1 .. N, i # N \/ build[i].size # 0 \/ ~(FileHead < Align)
      PROVE  at[i] + Align + build[i].size <= z
  <2>1. at[i] \in Nat /\ build[i].size \in Nat /\ at[i] + Align + build[i].size \in Nat
    BY <1>1, <1>5
  <2>2. CASE build[i].size # 0
    <3>1. i \in {j \in DOMAIN build : build[j].size > 0}
      BY <1>1, <2>1, <2>2
    <3>2. at[i] + Align + build[i].size \in M
      BY <3>1
    <3> QED BY <1>10, <3>2
  <2>3. CASE build[i].size = 0 /\ i # N
    <3> DEFINE e == at[i] + Align + build[i].size
    <3>1. e \in Nat /\ e <= at[N] /\ at[N] < z /\ at[N] \in Nat
      BY <1>5, <1>6, <1>11, <2>1, <2>3
    <3> HIDE DEF e
    <3>2. e <= z
      BY <1>10, <3>1
    <3> QED BY <3>2 DEF e
  <2>4. CASE build[i].size = 0 /\ FileHead = Align
    <3>1. at[i] + FileHead \in M
      BY <1>1
    <3>2. z >= at[i] + FileHead
      BY <1>10, <3>1
    <3> QED BY <1>1, <1>10, <2>1, <2>4, <3>2
  <2> QED BY <1>1, <1>12, <2>2, <2>3, <2>4
<1>13. ASSUME build[N].size = 0, FileHead < Align PROVE at[N] + Align + build[N].size > z
  <2>1. at[N] \in Nat /\ at[N] + Align + build[N].size = at[N] + Align
    BY <1>1, <1>5, <1>13
  <2>2. CASE z = HeadSize
    <3>1. at[1] < z
      BY <1>5, <1>11
    <3> QED BY <1>1, <1>2, <2>2, <3>1
  <2>3. ASSUME NEW i \in 1 .. N, z = at[i] + FileHead PROVE at[N] + Align > z
    <3>1. at[i] \in Nat /\ build[i].size \in Nat
      BY <1>1, <1>5
    <3>2. i = N \/ at[i] + Align + build[i].size <= at[N]
      BY <1>6
    <3> QED BY <1>1, <1>13, <2>1, <2>3, <3>1, <3>2
  <2>4. ASSUME NEW i \in 1 .. N, build[i].size > 0, z = at[i] + Align + build[i].size
        PROVE  at[N] + Align > z
    <3>1. at[i] \in Nat /\ build[i].size \in Nat /\ i # N
      BY <1>1, <1>5, <1>13, <2>4
    <3>2. z <= at[N]
      BY <1>6, <2>4, <3>1
    <3> QED BY <1>1, <1>10, <2>1, <3>2
  <2> QED BY <1>1, <1>10, <2>1, <2>2, <2>3, <2>4
<1>14. ASSUME NEW i \in 1 .. N
       PROVE  (i = N /\ build[i].size = 0 /\ FileHead < Align)
                 <=> at[i] + Align + build[i].size > z
  <2>1. at[i] + Align + build[i].size \in Nat
    BY <1>5
  <2> QED BY <1>10, <1>12, <1>13, <2>1
<1> QED BY <1>10, <1>11, <1>14 DEF at, N, z

(* The heads of the image are those of its files, each where its file is.  *)
LEMMA HeadsAtOffsets ==
  ASSUME NEW build \in Seq([name : STRING, size : Nat]), build # <<>>
  PROVE  /\ DOMAIN Heads(build) = {Offset(build)[i] : i \in 1 .. Len(build)}
         /\ \A i \in 1 .. Len(build) :
               Heads(build)[Offset(build)[i]] =
                  [next   |-> IF i = Len(build) THEN 0 ELSE Offset(build)[i + 1],
                   size   |-> build[i].size,
                   offset |-> Offset(build)[i] + Align,
                   name   |-> build[i].name]
<1> DEFINE N == Len(build)
           at == Offset(build)
           head(o, i) == [next   |-> IF i = N THEN 0 ELSE at[i + 1],
                          size   |-> build[i].size,
                          offset |-> o + Align,
                          name   |-> build[i].name]
           index(o) == CHOOSE i \in DOMAIN build : at[i] = o
<1>1. DOMAIN build = 1 .. N
  OBVIOUS
<1>2. Heads(build) = [o \in {at[i] : i \in DOMAIN build} |-> head(o, index(o))]
  BY DEF Heads
<1>3. ASSUME NEW i \in 1 .. N PROVE index(at[i]) = i
  <2> HIDE DEF at, N
  <2>1. \A j \in 1 .. N : at[i] = at[j] => i = j
    BY OffsetsApart DEF at, N
  <2> QED BY <1>1, <2>1
<1>4. ASSUME NEW i \in 1 .. N PROVE Heads(build)[at[i]] = head(at[i], i)
  <2> HIDE DEF head, index, at, N
  <2>1. at[i] \in {at[j] : j \in DOMAIN build}
    BY <1>1
  <2> QED BY <1>2, <1>3, <2>1
<1>5. DOMAIN Heads(build) = {at[i] : i \in 1 .. N}
  <2> HIDE DEF head, index, at, N
  <2> QED BY <1>1, <1>2
<1> QED BY <1>4, <1>5

(* What mromfsOpen says of the file at i once it has found its name.       *)
Found(build, i) ==
    IF Offset(build)[i] + Align + build[i].size > Size(build)
    THEN [error |-> MROMFS_ERROR_OUT_OF_BOUND]
    ELSE [error |-> 0, start |-> Offset(build)[i] + Align, size |-> build[i].size,
          offset |-> Offset(build)[i] + Align]

(* mromfsOpen finds the first file that was packed with the name, if there *)
(* is one (mromfs.c:62, genmromfs.tcl:102).                                *)
THEOREM OpenFinds ==
  ASSUME NEW build \in Seq([name : STRING, size : Nat]), build # <<>>, NEW name
  PROVE  \/ /\ \A i \in 1 .. Len(build) : build[i].name # name
            /\ Open(build, name) = [error |-> MROMFS_ERROR_NOT_FOUND]
         \/ \E i \in 1 .. Len(build) :
               /\ build[i].name = name
               /\ \A j \in 1 .. i - 1 : build[j].name # name
               /\ Open(build, name) = Found(build, i)
<1> DEFINE N == Len(build)
           at == Offset(build)
           heads == Heads(build)
           D == DOMAIN heads \cup {0}
           NF == [error |-> MROMFS_ERROR_NOT_FOUND]
           Body(s, o) ==
               IF o = 0 THEN [error |-> MROMFS_ERROR_NOT_FOUND]
               ELSE IF o >= Size(build) THEN [error |-> MROMFS_ERROR_OUT_OF_BOUND]
               ELSE IF heads[o].name # name THEN s[heads[o].next]
               ELSE IF heads[o].offset + heads[o].size > Size(build)
               THEN [error |-> MROMFS_ERROR_OUT_OF_BOUND]
               ELSE [error |-> 0, start |-> heads[o].offset, size |-> heads[o].size,
                     offset |-> heads[o].offset]
           Def(s) == s = [o \in D |-> Body(s, o)]
           search == CHOOSE s : Def(s)
           next(i) == IF i = N THEN 0 ELSE at[i + 1]
           result(s, i) == IF build[i].name # name THEN s[next(i)] ELSE Found(build, i)
<1>1. N \in Nat \ {0}
  BY BuildFacts
<1>2. D = {at[i] : i \in 1 .. N} \cup {0}
  BY HeadsAtOffsets
<1>3. ASSUME NEW i \in 1 .. N, NEW s PROVE Body(s, at[i]) = result(s, i)
  <2>1. /\ heads[at[i]].next = next(i) /\ heads[at[i]].size = build[i].size
        /\ heads[at[i]].offset = at[i] + Align /\ heads[at[i]].name = build[i].name
    <3>1. heads[at[i]] = [next |-> next(i), size |-> build[i].size,
                          offset |-> at[i] + Align, name |-> build[i].name]
      BY HeadsAtOffsets
    <3> HIDE DEF heads, next, at
    <3> QED BY <3>1
  <2>2. at[i] # 0 /\ ~(at[i] >= Size(build))
    <3>1. at[i] \in Nat /\ at[i] > 0 /\ at[i] < Size(build) /\ Size(build) \in Nat
      BY OffsetsApart, SizeOfImage
    <3> HIDE DEF at
    <3> QED BY <3>1
  <2>3. Found(build, i) = IF at[i] + Align + build[i].size > Size(build)
                          THEN [error |-> MROMFS_ERROR_OUT_OF_BOUND]
                          ELSE [error |-> 0, start |-> at[i] + Align,
                                size |-> build[i].size,
                                offset |-> at[i] + Align]
    BY DEF Found
  <2> HIDE DEF heads, at, next
  <2> QED BY <2>1, <2>2, <2>3
<1>4. Body(0, 0) = NF /\ \A s : Body(s, 0) = NF
  OBVIOUS
<1>5. Open(build, name) = search[HeadSize]
  BY DEF Open
<1>6. at[1] = HeadSize
  BY OffsetSteps
<1>7. \A i \in 1 .. N : at[i] # 0
  BY OffsetsApart
<1>8. \A i, j \in 1 .. N : at[i] = at[j] => i = j
  BY OffsetsApart
<1> HIDE DEF heads, Body, D
(* The search is a function: from the last head backwards.                 *)
<1>9. \E s : Def(s)
  <2> DEFINE S == {NF} \cup {Found(build, i) : i \in 1 .. N}
             step == [k \in 1 .. N |-> [x \in S |-> IF build[N + 1 - k].name # name THEN x
                                                    ELSE Found(build, N + 1 - k)]]
  <2>1. /\ step \in [1 .. N -> [S -> S]]
        /\ \A k \in 1 .. N, x \in S : step[k][x] = IF build[N + 1 - k].name # name THEN x
                                                   ELSE Found(build, N + 1 - k)
    <3> HIDE DEF N
    <3>1. \A k \in 1 .. N : N + 1 - k \in 1 .. N
      BY <1>1
    <3>2. ASSUME NEW k \in 1 .. N, NEW x \in S
          PROVE  (IF build[N + 1 - k].name # name THEN x ELSE Found(build, N + 1 - k))
                    \in S
      BY <3>1
    <3> HIDE DEF S
    <3> QED BY <3>2
  <2>2. PICK r \in [0 .. N -> S] : Steps(r, N, NF, step)
    <3>1. NF \in S
      OBVIOUS
    <3> HIDE DEF S, step, N, NF
    <3> QED BY <1>1, <2>1, <3>1, RecursionExists
  <2> DEFINE index(o) == CHOOSE i \in 1 .. N : at[i] = o
             s == [o \in D |-> IF o = 0 THEN NF ELSE r[N + 1 - index(o)]]
  <2> HIDE DEF S, NF
  <2>3. ASSUME NEW i \in 1 .. N PROVE s[at[i]] = r[N + 1 - i] /\ at[i] \in D
    <3> HIDE DEF N, at
    <3>1. index(at[i]) = i
      BY <1>8
    <3>2. at[i] \in D /\ at[i] # 0
      BY <1>2, <1>7
    <3> QED BY <3>1, <3>2
  <2>4. 0 \in D /\ s[0] = NF
    BY <1>2
  <2>5. ASSUME NEW i \in 1 .. N PROVE s[next(i)] = r[N - i]
    <3>1. CASE i = N
      <4>1. r[0] = NF
        BY <2>2 DEF Steps
      <4> HIDE DEF s
      <4> QED BY <1>1, <2>4, <3>1, <4>1
    <3>2. CASE i # N
      <4>1. i + 1 \in 1 .. N /\ N + 1 - (i + 1) = N - i
        BY <1>1, <3>2
      <4>2. s[at[i + 1]] = r[N - i]
        <5> HIDE DEF s
        <5> QED BY <2>3, <4>1
      <4> HIDE DEF s
      <4> QED BY <3>2, <4>2
    <3> QED BY <3>1, <3>2
  <2>6. ASSUME NEW i \in 1 .. N PROVE s[at[i]] = Body(s, at[i])
    <3> HIDE DEF s
    <3>1. N + 1 - i \in 1 .. N /\ N + 1 - (N + 1 - i) = i /\ (N + 1 - i) - 1 = N - i
          /\ N - i \in 0 .. N
      BY <1>1
    <3>2. r[N + 1 - i] = step[N + 1 - i][r[N - i]] /\ r[N - i] \in S
      <4> HIDE DEF step, N
      <4> QED BY <2>2, <3>1 DEF Steps
    <3>3. r[N + 1 - i] = IF build[i].name # name THEN r[N - i] ELSE Found(build, i)
      <4> HIDE DEF step, N
      <4> QED BY <2>1, <3>1, <3>2
    <3>4. result(s, i) = r[N + 1 - i]
      <4> HIDE DEF next, N
      <4> QED BY <2>5, <3>3
    <3> QED BY <1>3, <2>3, <3>4
  <2>7. s[0] = Body(s, 0)
    <3> HIDE DEF s
    <3> QED BY <1>4, <2>4 DEF NF
  <2>8. \A o \in D : s[o] = Body(s, o)
    <3> HIDE DEF s, at, N
    <3> QED BY <1>2, <2>6, <2>7
  <2>9. s = [o \in D |-> s[o]]
    OBVIOUS
  <2>10. s = [o \in D |-> Body(s, o)]
    <3> HIDE DEF s
    <3> QED BY <2>8, <2>9
  <2> QED BY <2>10
<1>10. Def(search)
  <2> HIDE DEF Def
  <2> QED BY <1>9
<1> HIDE DEF search
<1>11. search[0] = NF /\ \A i \in 1 .. N : search[at[i]] = result(search, i)
  <2>1. \A o \in D : search[o] = Body(search, o)
    BY <1>10
  <2> HIDE DEF result, at, NF, N, Def
  <2> QED BY <1>2, <1>3, <1>4, <2>1
<1> HIDE DEF Def, NF
(* It stays the same as long as the names differ.                          *)
<1>12. ASSUME NEW f \in 1 .. N, \A j \in 1 .. f - 1 : build[j].name # name
       PROVE  search[at[1]] = search[at[f]]
  <2> DEFINE T == {i \in 1 .. f : search[at[1]] = search[at[i]]}
  <2>1. 1 \in T
    BY <1>1
  <2>2. ASSUME NEW i \in 1 .. f - 1, i \in T PROVE i + 1 \in T
    <3>1. i \in 1 .. N /\ i # N /\ i + 1 \in 1 .. f
      BY <1>1
    <3>2. search[at[i]] = search[at[i + 1]]
      BY <1>11, <1>12, <3>1
    <3> QED BY <2>2, <3>1, <3>2
  <2>3. 1 .. f \subseteq T
    <3>1. 1 \in Nat /\ f \in Nat
      BY <1>1
    <3> HIDE DEF T
    <3> QED BY <2>1, <2>2, <3>1, UpTo
  <2>4. f \in 1 .. f
    BY <1>1
  <2> QED BY <2>3, <2>4
<1>13. CASE \A i \in 1 .. N : build[i].name # name
  <2>1. N \in 1 .. N /\ \A j \in 1 .. N - 1 : build[j].name # name
    BY <1>1, <1>13
  <2>2. search[at[1]] = search[at[N]]
    <3> HIDE DEF at, N
    <3> QED BY <1>12, <2>1
  <2>3. search[at[N]] = NF
    <3> HIDE DEF at, N
    <3> QED BY <1>11, <1>13, <2>1
  <2> QED BY <1>5, <1>6, <1>13, <2>2, <2>3 DEF NF
<1>14. CASE \E i \in 1 .. N : build[i].name = name
  <2> DEFINE F == {i \in 1 .. N : build[i].name = name}
  <2>1. F # {} /\ F \subseteq Nat
    BY <1>14
  <2>2. PICK f \in F : \A i \in F : f <= i
    <3> HIDE DEF F
    <3> QED BY <2>1, NatMin
  <2>3. \A j \in 1 .. f - 1 : build[j].name # name
    <3> SUFFICES ASSUME NEW j \in 1 .. f - 1, build[j].name = name PROVE FALSE
      OBVIOUS
    <3>1. j \in F /\ j < f
      BY <1>1
    <3> QED BY <2>2, <3>1
  <2>4. search[at[1]] = search[at[f]]
    BY <1>12, <2>3
  <2>5. search[at[f]] = Found(build, f)
    BY <1>11
  <2> QED BY <1>5, <1>6, <2>3, <2>4, <2>5
<1> QED BY <1>13, <1>14

(* What mromfsRead finds behind the head of a file are the bytes of the    *)
(* file, whatever else was packed (mromfs.c:88, genmromfs.tcl:102).        *)
THEOREM BytesOfFile ==
  ASSUME NEW build \in Seq([name : STRING, size : Nat]), build # <<>>,
         NEW i \in 1 .. Len(build), NEW k \in 0 .. build[i].size - 1
  PROVE  Byte(build, Offset(build)[i] + Align + k) = <<build[i].name, k + 1>>
<1> DEFINE N == Len(build)
           at == Offset(build)
           o == at[i] + Align + k
           in(j) == o \in at[j] + Align .. at[j] + Align + build[j].size - 1
<1>1. N \in Nat \ {0} /\ (\A j \in 1 .. N : build[j].size \in Nat)
      /\ Align \in Nat \ {0} /\ DOMAIN build = 1 .. N
  BY AlignAssumption, BuildFacts
<1>2. \A j \in 1 .. N : at[j] \in Nat
  BY OffsetsApart
<1>3. \A a, b \in 1 .. N : a < b => at[a] + Align + build[a].size <= at[b]
  BY OffsetsGrow
<1>4. Byte(build, o) = IF \E j \in DOMAIN build : in(j)
                       THEN LET j == CHOOSE j \in DOMAIN build : in(j)
                            IN  <<build[j].name, o - (at[j] + Align) + 1>>
                       ELSE 0
  BY DEF Byte
<1> HIDE DEF at, N
<1>5. in(i)
  <2>1. at[i] \in Nat /\ build[i].size \in Nat
    BY <1>1, <1>2 DEF N
  <2> QED BY <1>1, <2>1
<1>6. ASSUME NEW j \in 1 .. N, in(j) PROVE j = i
  <2>1. at[i] \in Nat /\ build[i].size \in Nat /\ at[j] \in Nat
        /\ build[j].size \in Nat /\ i \in 1 .. N
    BY <1>1, <1>2 DEF N
  <2>2. /\ at[i] + Align <= o /\ o < at[i] + Align + build[i].size
        /\ at[j] + Align <= o /\ o < at[j] + Align + build[j].size
        /\ at[i] + Align \in Nat /\ at[j] + Align \in Nat /\ o \in Nat
        /\ at[i] + Align + build[i].size \in Nat /\ at[j] + Align + build[j].size \in Nat
    <3> DEFINE a == at[i]
               b == at[j]
               s == build[i].size
               t == build[j].size
    <3>1. /\ a \in Nat /\ b \in Nat /\ s \in Nat /\ t \in Nat /\ Align \in Nat
          /\ o \in a + Align .. a + Align + s - 1 /\ o \in b + Align .. b + Align + t - 1
      BY <1>1, <1>5, <1>6, <2>1
    <3> HIDE DEF a, b, s, t, o
    <3>2. /\ a + Align <= o /\ o < a + Align + s /\ b + Align <= o /\ o < b + Align + t
          /\ a + Align \in Nat /\ b + Align \in Nat /\ o \in Nat
          /\ a + Align + s \in Nat /\ b + Align + t \in Nat
      BY <3>1
    <3> QED BY <3>2 DEF a, b, s, t
  <2>3. CASE j < i
    <3> DEFINE x == at[i]
               y == at[j] + Align + build[j].size
    <3>1. y <= x /\ x + Align <= o /\ o < y /\ x \in Nat /\ y \in Nat /\ o \in Nat
      BY <1>3, <2>1, <2>2, <2>3
    <3> HIDE DEF x, y, o
    <3> QED BY <1>1, <3>1
  <2>4. CASE i < j
    <3> DEFINE x == at[j]
               y == at[i] + Align + build[i].size
    <3>1. y <= x /\ x + Align <= o /\ o < y /\ x \in Nat /\ y \in Nat /\ o \in Nat
      BY <1>3, <2>1, <2>2, <2>4
    <3> HIDE DEF x, y, o
    <3> QED BY <1>1, <3>1
  <2> QED BY <1>1, <2>1, <2>3, <2>4
<1>7. (CHOOSE j \in DOMAIN build : in(j)) = i
  <2> HIDE DEF in
  <2>1. i \in DOMAIN build
    BY <1>1 DEF N
  <2> QED BY <1>1, <1>5, <1>6, <2>1
<1>8. o - (at[i] + Align) + 1 = k + 1
  <2>1. at[i] \in Nat
    BY <1>2 DEF N
  <2> QED BY <1>1, <2>1
<1>9. Byte(build, o) = <<build[i].name, o - (at[i] + Align) + 1>>
  <2> HIDE DEF in, o
  <2>1. i \in DOMAIN build
    BY <1>1 DEF N
  <2> QED BY <1>4, <1>5, <1>7, <2>1
<1> QED BY <1>8, <1>9 DEF at
===============================================================================
