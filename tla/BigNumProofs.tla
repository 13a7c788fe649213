---------------------------- MODULE BigNumProofs ----------------------------
(***************************************************************************)
(* bn.c is right for every width of a word, every number of words and all  *)
(* arguments: what MC_BigNumDiv finds on four words of two bits.           *)
(*                                                                         *)
(* A number is the sum of its words, each times the weight of its place;   *)
(* an operation on words that carries at most one keeps that sum           *)
(* (Ripple), so addition, subtraction, the shifts and, row by row, the     *)
(* long multiplication are operations on numbers modulo Top.  bignum_div() *)
(* on words then takes the steps of Division, and those keep               *)
(* denom = b * current for a power of two, so halving both never loses a   *)
(* bit until current is 1.                                                 *)
(*                                                                         *)
(* The recursive functions of BigNum are CHOOSEn; CellFacts!Recursion says *)
(* that a function that follows the recursion exists, and a lemma named    *)
(* ...Steps for each of them states the recursion itself.                  *)
(***************************************************************************)
EXTENDS BigNumDiv, TLAPS

Facts == INSTANCE CellFacts

LEMMA Wordly == /\ WordBits \in Nat /\ WordBits >= 1
                /\ ArraySize \in Nat /\ ArraySize >= 4
                /\ \A i \in Index : i \in 0 .. ArraySize /\ i + 1 \in 0 .. ArraySize
                /\ \A i \in 1 .. ArraySize : i - 1 \in Index
BY WordAssumption DEF Index

\* Induction over a prefix of the numbers.
LEMMA Upto ==
    ASSUME NEW n \in Nat, NEW S, 0 \in S,
           \A k \in Nat : k < n /\ k \in S => k + 1 \in S
    PROVE  \A k \in 0 .. n : k \in S
<1> DEFINE Good == {k \in Nat : k <= n => k \in S}
<1>1. 0 \in Good OBVIOUS
<1>2. ASSUME NEW k \in Good PROVE k + 1 \in Good
  BY <1>2
<1>3. Good \in SUBSET Nat OBVIOUS
<1> HIDE DEF Good
<1>4. Good = Nat BY <1>1, <1>2, <1>3, Facts!NatSet
<1> QED BY <1>4 DEF Good

\* Products of natural numbers.
LEMMA Monotone ==
    ASSUME NEW x \in Nat, NEW y \in Nat, NEW w \in Nat, x <= y
    PROVE  x * w \in Nat /\ y * w \in Nat /\ x * w <= y * w
<1>1. PICK e \in Nat : y = x + e BY x <= y
<1>2. x * w \in Nat /\ e * w \in Nat OBVIOUS
<1>3. (x + e) * w = x * w + e * w OBVIOUS
<1> QED BY <1>1, <1>2, <1>3

\* One more digit in front of a number.
LEMMA OneMoreDigit ==
    ASSUME NEW v \in Nat, NEW w \in Nat, NEW d \in Nat, NEW t \in Nat, v < w, d < t
    PROVE  d * w \in Nat /\ t * w \in Nat /\ v + d * w \in Nat /\ v + d * w < t * w
<1>1. d * w \in Nat /\ t * w \in Nat OBVIOUS
<1>2. (d + 1) * w <= t * w BY Monotone
<1>3. (d + 1) * w = d * w + w OBVIOUS
<1> QED BY <1>1, <1>2, <1>3

\* The powers of two.
LEMMA Pow2Steps ==
    /\ Pow2[0] = 1
    /\ \A k \in 0 .. WordBits : Pow2[k] \in Nat /\ Pow2[k] > 0
    /\ \A k \in 1 .. WordBits : Pow2[k] = 2 * Pow2[k - 1]
<1> DEFINE n == WordBits
           R(g) == g = [k \in 0 .. n |-> IF k = 0 THEN 1 ELSE 2 * g[k - 1]]
           step == [p \in (1 .. n) \X Nat |-> 2 * p[2]]
<1>1. n \in Nat BY Wordly
<1>2. PICK f \in [0 .. n -> Nat] : Facts!Follows(f, n, 1, step)
  <2>1. step \in [(1 .. n) \X Nat -> Nat] OBVIOUS
  <2> HIDE DEF step
  <2> QED BY <1>1, <2>1, Facts!Recursion
<1>3. R(f)
  <2>1. ASSUME NEW k \in 0 .. n PROVE f[k] = IF k = 0 THEN 1 ELSE 2 * f[k - 1]
    <3>1. CASE k = 0 BY <1>2, <3>1 DEF Facts!Follows
    <3>2. CASE k # 0
      <4>1. k \in 1 .. n /\ k - 1 \in 0 .. n BY <3>2, <1>1
      <4>2. <<k, f[k - 1]>> \in (1 .. n) \X Nat BY <4>1
      <4> QED BY <1>2, <4>1, <4>2 DEF Facts!Follows
    <3> QED BY <3>1, <3>2
  <2> QED BY <2>1
<1>4. R(Pow2)
  <2>1. Pow2 = CHOOSE g : R(g) BY DEF Pow2
  <2> HIDE DEF R
  <2> QED BY <1>3, <2>1, Zenon
<1>5. \A k \in 0 .. n : Pow2[k] = IF k = 0 THEN 1 ELSE 2 * Pow2[k - 1]
  BY <1>4, Zenon
<1> DEFINE S == {k \in Nat : Pow2[k] \in Nat /\ Pow2[k] > 0}
<1>6. 0 \in S BY <1>1, <1>5
<1>7. ASSUME NEW k \in Nat, k < n, k \in S PROVE k + 1 \in S
  <2>1. (k + 1) - 1 = k /\ k + 1 \in 0 .. n BY <1>1, <1>7
  <2>2. Pow2[k + 1] = 2 * Pow2[k] BY <1>5, <2>1
  <2> QED BY <1>7, <2>2
<1>8. \A k \in 0 .. n : k \in S
  <2> HIDE DEF S
  <2> QED BY <1>1, <1>6, <1>7, Upto
<1> QED BY <1>1, <1>5, <1>8

\* A word has a top bit.
LEMMA BaseFacts ==
    /\ Base \in Nat /\ HalfMax \in Nat /\ HalfMax >= 1 /\ Base = 2 * HalfMax
    /\ HalfMax = Pow2[WordBits - 1] /\ Base = Pow2[WordBits]
<1>1. WordBits \in 1 .. WordBits /\ WordBits - 1 \in 0 .. WordBits /\ WordBits \in 0 .. WordBits
  BY Wordly
<1>2. Base = Pow2[WordBits] BY WordAssumption
<1>3. /\ Pow2[WordBits - 1] \in Nat /\ Pow2[WordBits - 1] > 0
      /\ Pow2[WordBits] = 2 * Pow2[WordBits - 1]
  BY <1>1, Pow2Steps
<1>4. HalfMax = Pow2[WordBits - 1] BY <1>2, <1>3 DEF HalfMax
<1> QED BY <1>2, <1>3, <1>4

\* The weights of the words.
LEMMA WeightSteps ==
    /\ Weight[0] = 1
    /\ \A k \in 0 .. ArraySize : Weight[k] \in Nat /\ Weight[k] > 0
    /\ \A k \in Index : Weight[k + 1] = Base * Weight[k]
<1> DEFINE n == ArraySize
           R(g) == g = [i \in 0 .. n |-> IF i = 0 THEN 1 ELSE Base * g[i - 1]]
           step == [p \in (1 .. n) \X Nat |-> Base * p[2]]
<1>1. n \in Nat /\ Base \in Nat /\ Base > 0 BY Wordly, BaseFacts
<1>2. PICK f \in [0 .. n -> Nat] : Facts!Follows(f, n, 1, step)
  <2>1. step \in [(1 .. n) \X Nat -> Nat]
    <3>1. \A x \in Nat : Base * x \in Nat BY <1>1
    <3> QED BY <3>1
  <2> HIDE DEF step
  <2> QED BY <1>1, <2>1, Facts!Recursion
<1>3. R(f)
  <2>1. ASSUME NEW k \in 0 .. n PROVE f[k] = IF k = 0 THEN 1 ELSE Base * f[k - 1]
    <3>1. CASE k = 0 BY <1>2, <3>1 DEF Facts!Follows
    <3>2. CASE k # 0
      <4>1. k \in 1 .. n /\ k - 1 \in 0 .. n BY <3>2, <1>1
      <4>2. <<k, f[k - 1]>> \in (1 .. n) \X Nat BY <4>1
      <4> QED BY <1>2, <4>1, <4>2, <3>2 DEF Facts!Follows
    <3> QED BY <3>1, <3>2
  <2> QED BY <2>1
<1>4. R(Weight)
  <2>1. Weight = CHOOSE g : R(g) BY DEF Weight
  <2> HIDE DEF R
  <2> QED BY <1>3, <2>1, Zenon
<1>5. \A k \in 0 .. n : Weight[k] = IF k = 0 THEN 1 ELSE Base * Weight[k - 1]
  BY <1>4, Zenon
<1>6. \A k \in Index : Weight[k + 1] = Base * Weight[k]
  <2> SUFFICES ASSUME NEW k \in Index PROVE Weight[k + 1] = Base * Weight[k] OBVIOUS
  <2>1. (k + 1) - 1 = k /\ k + 1 \in 0 .. n /\ k + 1 # 0 BY <1>1 DEF Index
  <2> QED BY <1>5, <2>1
<1> DEFINE S == {k \in Nat : Weight[k] \in Nat /\ Weight[k] > 0}
<1>7. 0 \in S BY <1>1, <1>5
<1>8. ASSUME NEW k \in Nat, k < n, k \in S PROVE k + 1 \in S
  <2>1. k \in Index BY <1>1, <1>8 DEF Index
  <2>2. Weight[k + 1] = Base * Weight[k] BY <1>6, <2>1
  <2>3. \A x, y \in Nat : x > 0 /\ y > 0 => x * y \in Nat /\ x * y > 0 BY SMTT(20)
  <2> QED BY <1>1, <1>8, <2>2, <2>3
<1>9. \A k \in 0 .. n : k \in S
  <2> HIDE DEF S
  <2> QED BY <1>1, <1>7, <1>8, Upto
<1> QED BY <1>1, <1>5, <1>6, <1>9

\* The recursion of Values, and the range of its numbers.
LEMMA ValueSteps ==
    ASSUME NEW n \in Bn
    PROVE  /\ Values(n)[0] = 0
           /\ \A k \in Index : Values(n)[k + 1] = Values(n)[k] + n[k] * Weight[k]
           /\ \A k \in 0 .. ArraySize : Values(n)[k] \in Nat /\ Values(n)[k] < Weight[k]
<1> DEFINE R(g) == g = [i \in 0 .. ArraySize |-> IF i = 0 THEN 0
                                   ELSE g[i - 1] + n[i - 1] * Weight[i - 1]]
           step == [p \in (1 .. ArraySize) \X Nat |-> p[2] + n[p[1] - 1] * Weight[p[1] - 1]]
<1>1. ArraySize \in Nat /\ Base \in Nat /\ Base > 0 BY Wordly, BaseFacts
<1>2. ASSUME NEW k \in 1 .. ArraySize, NEW x \in Nat
      PROVE  x + n[k - 1] * Weight[k - 1] \in Nat
  <2>1. k - 1 \in Index /\ k - 1 \in 0 .. ArraySize BY <1>1 DEF Index
  <2>2. n[k - 1] \in Nat BY <2>1, <1>1 DEF Bn, Word
  <2>3. Weight[k - 1] \in Nat BY <2>1, WeightSteps
  <2>4. \A u, v \in Nat : u * v \in Nat OBVIOUS
  <2> QED BY <2>2, <2>3, <2>4
<1>3. PICK f \in [0 .. ArraySize -> Nat] : Facts!Follows(f, ArraySize, 0, step)
  <2>1. step \in [(1 .. ArraySize) \X Nat -> Nat] BY <1>2
  <2> HIDE DEF step
  <2> QED BY <1>1, <2>1, Facts!Recursion
<1>4. R(f)
  <2>1. ASSUME NEW k \in 0 .. ArraySize
        PROVE  f[k] = IF k = 0 THEN 0 ELSE f[k - 1] + n[k - 1] * Weight[k - 1]
    <3>1. CASE k = 0 BY <1>3, <3>1 DEF Facts!Follows
    <3>2. CASE k # 0
      <4>1. k \in 1 .. ArraySize /\ k - 1 \in 0 .. ArraySize BY <3>2, <1>1
      <4>2. <<k, f[k - 1]>> \in (1 .. ArraySize) \X Nat BY <4>1
      <4> QED BY <1>3, <4>1, <4>2, <3>2 DEF Facts!Follows
    <3> QED BY <3>1, <3>2
  <2> QED BY <2>1
<1>5. R(Values(n))
  <2>1. Values(n) = CHOOSE g : R(g) BY DEF Values
  <2> HIDE DEF R
  <2> QED BY <1>4, <2>1, Zenon
<1>6. \A k \in 0 .. ArraySize : Values(n)[k] = IF k = 0 THEN 0
                                   ELSE Values(n)[k - 1] + n[k - 1] * Weight[k - 1]
  BY <1>5, Zenon
<1>7. \A k \in Index : Values(n)[k + 1] = Values(n)[k] + n[k] * Weight[k]
  <2> SUFFICES ASSUME NEW k \in Index
               PROVE Values(n)[k + 1] = Values(n)[k] + n[k] * Weight[k] OBVIOUS
  <2>1. (k + 1) - 1 = k /\ k + 1 \in 0 .. ArraySize /\ k + 1 # 0 BY <1>1 DEF Index
  <2> QED BY <1>6, <2>1
<1> DEFINE S == {k \in Nat : Values(n)[k] \in Nat /\ Values(n)[k] < Weight[k]}
<1>8. 0 \in S BY <1>1, <1>6, WeightSteps
<1>9. ASSUME NEW k \in Nat, k < ArraySize, k \in S PROVE k + 1 \in S
  <2>1. k \in Index /\ k \in 0 .. ArraySize BY <1>1, <1>9 DEF Index
  <2>2. Weight[k + 1] = Base * Weight[k] /\ Weight[k] \in Nat BY <2>1, WeightSteps
  <2>3. Values(n)[k + 1] = Values(n)[k] + n[k] * Weight[k] BY <1>7, <2>1
  <2>4. n[k] \in Nat /\ n[k] + 1 <= Base BY <2>1, <1>1 DEF Bn, Word
  <2> DEFINE v == Values(n)[k]
             w == Weight[k]
             d == n[k]
  <2>5. v \in Nat /\ w \in Nat /\ d \in Nat /\ v < w /\ d < Base BY <1>9, <2>2, <2>4, <1>1
  <2>6. Values(n)[k + 1] = v + d * w /\ Weight[k + 1] = Base * w BY <2>2, <2>3
  <2> HIDE DEF v, w, d
  <2>7. v + d * w \in Nat /\ v + d * w < Base * w BY <2>5, <1>1, OneMoreDigit
  <2> QED BY <2>6, <2>7
<1>10. \A k \in 0 .. ArraySize : k \in S
  <2> HIDE DEF S
  <2> QED BY <1>1, <1>8, <1>9, Upto
<1> QED BY <1>1, <1>6, <1>7, <1>10

\* All of this about a word of a number.
LEMMA AtWord ==
    ASSUME NEW n \in Bn, NEW k \in Index
    PROVE  /\ Base \in Nat /\ n[k] \in Nat /\ n[k] < Base
           /\ Weight[k] \in Nat /\ Weight[k] > 0 /\ Weight[k + 1] = Base * Weight[k]
           /\ Values(n)[0] = 0 /\ Values(n)[k] \in Nat
           /\ Values(n)[k + 1] = Values(n)[k] + n[k] * Weight[k]
<1>1. k \in 0 .. ArraySize BY Wordly
<1>2. n[k] \in Nat /\ n[k] < Base BY BaseFacts DEF Bn, Word
<1> QED BY <1>1, <1>2, BaseFacts, WeightSteps, ValueSteps

-----------------------------------------------------------------------------
\* A digit of a sum and what is carried to the next one.
LEMMA Digit ==
    ASSUME NEW s \in Nat, s < 2 * Base
    PROVE  /\ s % Base \in Word
           /\ s = (s % Base) + (IF s >= Base THEN 1 ELSE 0) * Base
<1>1. Base \in Nat /\ Base > 0 BY BaseFacts
<1>2. CASE s >= Base
  <2>1. s - Base \in 0 .. Base - 1 /\ s = Base + (s - Base) BY <1>1, <1>2
  <2>2. s % Base = s - Base BY <1>1, <2>1
  <2> QED BY <1>1, <1>2, <2>1, <2>2 DEF Word
<1>3. CASE s < Base
  <2>1. s % Base = s BY <1>1, <1>3
  <2> QED BY <1>1, <1>3, <2>1 DEF Word
<1> QED BY <1>1, <1>2, <1>3

\* The carries are 0 or 1.
LEMMA CarrySteps ==
    ASSUME NEW x \in Bn, NEW y \in Bn
    PROVE  /\ Carries(x, y) \in [Index -> 0 .. 1]
           /\ Carries(x, y)[0] = 0
           /\ \A k \in Index : k > 0 =>
                Carries(x, y)[k] = IF x[k - 1] + y[k - 1] + Carries(x, y)[k - 1] >= Base
                                     THEN 1 ELSE 0
<1> DEFINE n == ArraySize - 1
           R(g) == g = [i \in Index |->
                          IF i > 0 /\ x[i - 1] + y[i - 1] + g[i - 1] >= Base THEN 1 ELSE 0]
           step == [p \in (1 .. n) \X (0 .. 1) |->
                      IF x[p[1] - 1] + y[p[1] - 1] + p[2] >= Base THEN 1 ELSE 0]
<1>1. n \in Nat /\ Index = 0 .. n BY Wordly DEF Index
<1>2. PICK f \in [0 .. n -> 0 .. 1] : Facts!Follows(f, n, 0, step)
  <2>1. step \in [(1 .. n) \X (0 .. 1) -> 0 .. 1] OBVIOUS
  <2>2. 0 \in 0 .. 1 OBVIOUS
  <2> HIDE DEF step, n
  <2> QED BY <1>1, <2>1, <2>2, Facts!Recursion
<1>3. R(f)
  <2>1. ASSUME NEW k \in 0 .. n
        PROVE  f[k] = IF k > 0 /\ x[k - 1] + y[k - 1] + f[k - 1] >= Base THEN 1 ELSE 0
    <3>1. CASE k = 0 BY <1>2, <3>1 DEF Facts!Follows
    <3>2. CASE k # 0
      <4>1. k \in 1 .. n /\ k - 1 \in 0 .. n /\ k > 0 BY <3>2, <1>1
      <4>2. f[k - 1] \in 0 .. 1 BY <4>1
      <4>3. <<k, f[k - 1]>> \in (1 .. n) \X (0 .. 1) BY <4>1, <4>2
      <4>4. f[k] = step[<<k, f[k - 1]>>] BY <1>2, <4>1 DEF Facts!Follows
      <4> QED BY <4>1, <4>3, <4>4
    <3> QED BY <3>1, <3>2
  <2> HIDE DEF n
  <2> QED BY <2>1, <1>1
<1>4. R(Carries(x, y))
  <2>1. Carries(x, y) = CHOOSE g : R(g) BY DEF Carries
  <2> HIDE DEF R
  <2> QED BY <1>3, <2>1, Zenon
<1>5. Carries(x, y) \in [Index -> 0 .. 1] BY <1>4
<1>6. \A k \in Index : Carries(x, y)[k] =
        IF k > 0 /\ x[k - 1] + y[k - 1] + Carries(x, y)[k - 1] >= Base THEN 1 ELSE 0
  BY <1>4, Zenon
<1> QED BY <1>1, <1>5, <1>6

\* Each word of a sum, and the carry out of it.
LEMMA AddWords ==
    ASSUME NEW x \in Bn, NEW y \in Bn
    PROVE  /\ bignum_add(x, y) \in Bn
           /\ \E cr \in [0 .. ArraySize -> 0 .. 1] :
                /\ cr[0] = 0
                /\ \A k \in Index : x[k] + y[k] + cr[k] = bignum_add(x, y)[k] + cr[k + 1] * Base
<1> DEFINE cy == Carries(x, y)
           cr == [k \in 0 .. ArraySize |->
                    IF k = 0 THEN 0
                    ELSE IF x[k - 1] + y[k - 1] + cy[k - 1] >= Base THEN 1 ELSE 0]
<1>1. /\ cy \in [Index -> 0 .. 1] /\ cy[0] = 0
      /\ \A k \in Index : k > 0 =>
            cy[k] = IF x[k - 1] + y[k - 1] + cy[k - 1] >= Base THEN 1 ELSE 0
  BY CarrySteps
<1>2. bignum_add(x, y) = [k \in Index |-> (x[k] + y[k] + cy[k]) % Base]
  BY DEF bignum_add
<1> HIDE DEF cy
<1>3. cr \in [0 .. ArraySize -> 0 .. 1] OBVIOUS
<1>4. ASSUME NEW k \in Index
      PROVE  /\ cr[k] = cy[k]
             /\ cr[k + 1] = IF x[k] + y[k] + cy[k] >= Base THEN 1 ELSE 0
  <2>1. k \in 0 .. ArraySize /\ k + 1 \in 0 .. ArraySize /\ k >= 0 /\ (k + 1) - 1 = k /\ k + 1 # 0
    BY Wordly DEF Index
  <2>2. cr[k + 1] = IF x[k] + y[k] + cy[k] >= Base THEN 1 ELSE 0
    BY <2>1
  <2>3. cr[k] = cy[k] BY <2>1, <1>1
  <2> QED BY <2>2, <2>3
<1>5. ASSUME NEW k \in Index
      PROVE  /\ bignum_add(x, y)[k] \in Word
             /\ x[k] + y[k] + cr[k] = bignum_add(x, y)[k] + cr[k + 1] * Base
  <2> DEFINE s == x[k] + y[k] + cy[k]
  <2>1. x[k] \in Word /\ y[k] \in Word /\ cy[k] \in 0 .. 1 BY <1>1 DEF Bn
  <2>2. s \in Nat /\ s < 2 * Base BY <2>1, BaseFacts DEF Word
  <2>3. bignum_add(x, y)[k] = s % Base BY <1>2
  <2>4. cr[k] = cy[k] /\ cr[k + 1] = IF s >= Base THEN 1 ELSE 0 BY <1>4
  <2>5. s % Base \in Word /\ s = (s % Base) + (IF s >= Base THEN 1 ELSE 0) * Base
    <3> HIDE DEF s
    <3> QED BY <2>2, Digit
  <2> HIDE DEF cr
  <2> QED BY <2>3, <2>4, <2>5
<1>6. bignum_add(x, y) \in Bn BY <1>2, <1>5 DEF Bn
<1>7. cr[0] = 0 BY Wordly
<1> HIDE DEF cr
<1> QED BY <1>3, <1>5, <1>6, <1>7

\* The numbers are those below Top.
LEMMA ValueRange ==
    /\ Top \in Nat /\ Top > 0 /\ Weight[ArraySize] = Top
    /\ \A n \in Bn : Value(n) \in Nat /\ Value(n) < Top /\ Value(n) = Values(n)[ArraySize]
<1>1. ArraySize \in 0 .. ArraySize BY Wordly
<1>2. Top \in Nat /\ Top > 0 /\ Weight[ArraySize] = Top BY TopAssumption, ArgumentAssumption
<1> QED BY <1>1, <1>2, ValueSteps DEF Value

\* Words that add up with their carries stand for numbers that do.
LEMMA Ripple ==
    ASSUME NEW x \in Bn, NEW y \in Bn, NEW s \in Bn,
           NEW cr \in [0 .. ArraySize -> 0 .. 1],
           \A k \in Index : x[k] + y[k] + cr[k] = s[k] + cr[k + 1] * Base
    PROVE  Value(s) + cr[ArraySize] * Top = Value(x) + Value(y) + cr[0]
<1> DEFINE c0 == cr[0]
           S == {k \in Nat : Values(s)[k] + cr[k] * Weight[k] = Values(x)[k] + Values(y)[k] + c0}
<1>1. 0 \in 0 .. ArraySize BY Wordly
<1>2. c0 \in 0 .. 1 BY <1>1
<1>3. 0 \in S
  <2>1. Values(s)[0] = 0 /\ Values(x)[0] = 0 /\ Values(y)[0] = 0 BY ValueSteps
  <2> QED BY <2>1, <1>2, WeightSteps
<1> HIDE DEF c0
<1>4. ASSUME NEW k \in Nat, k < ArraySize, k \in S PROVE k + 1 \in S
  <2>1. k \in Index /\ k \in 0 .. ArraySize /\ k + 1 \in 0 .. ArraySize
    BY <1>4, Wordly DEF Index
  <2> DEFINE w == Weight[k]
             xk == x[k]
             yk == y[k]
             sk == s[k]
             ck == cr[k]
             cn == cr[k + 1]
             vx == Values(x)[k]
             vy == Values(y)[k]
             vs == Values(s)[k]
  <2>2. /\ w \in Nat /\ xk \in Nat /\ yk \in Nat /\ sk \in Nat /\ ck \in Nat /\ cn \in Nat
        /\ vx \in Nat /\ vy \in Nat /\ vs \in Nat /\ Base \in Nat
    <3>1. ck \in Nat /\ cn \in Nat BY <2>1
    <3> QED BY <2>1, <3>1, AtWord
  <2>3. /\ Values(x)[k + 1] = vx + xk * w
        /\ Values(y)[k + 1] = vy + yk * w
        /\ Values(s)[k + 1] = vs + sk * w
        /\ Weight[k + 1] = Base * w
    BY <2>1, AtWord
  <2>4. xk + yk + ck = sk + cn * Base BY <2>1
  <2>5. vs + ck * w = vx + vy + c0 BY <1>4
  <2>6. cr[k + 1] = cn OBVIOUS
  <2> HIDE DEF w, xk, yk, sk, ck, cn, vx, vy, vs
  <2>7. (xk + yk + ck) * w = xk * w + yk * w + ck * w BY <2>2
  <2>8. (sk + cn * Base) * w = sk * w + cn * (Base * w) BY <2>2
  <2>9. vs + sk * w + cn * (Base * w) = vx + xk * w + (vy + yk * w) + c0
    <3>1. /\ xk * w \in Nat /\ yk * w \in Nat /\ ck * w \in Nat /\ sk * w \in Nat
          /\ cn * (Base * w) \in Nat
      BY <2>2
    <3>2. sk * w + cn * (Base * w) = xk * w + yk * w + ck * w BY <2>4, <2>7, <2>8
    <3> QED BY <1>2, <2>2, <2>5, <3>1, <3>2
  <2> QED BY <2>3, <2>6, <2>9
<1>5. \A k \in 0 .. ArraySize : k \in S
  <2> HIDE DEF S
  <2> QED BY <1>3, <1>4, Upto, Wordly
<1>6. ArraySize \in 0 .. ArraySize BY Wordly
<1> QED BY <1>5, <1>6, ValueRange DEF c0

\* bignum_add adds, modulo the width.
LEMMA AddValue ==
    ASSUME NEW x \in Bn, NEW y \in Bn
    PROVE  /\ bignum_add(x, y) \in Bn
           /\ Value(bignum_add(x, y)) = (Value(x) + Value(y)) % Top
<1> DEFINE s == bignum_add(x, y)
<1>1. s \in Bn BY AddWords
<1>2. PICK cr \in [0 .. ArraySize -> 0 .. 1] :
         /\ cr[0] = 0
         /\ \A k \in Index : x[k] + y[k] + cr[k] = s[k] + cr[k + 1] * Base
  BY AddWords
<1> HIDE DEF s
<1>4. cr[ArraySize] \in 0 .. 1 BY Wordly
<1>5. Value(s) + cr[ArraySize] * Top = Value(x) + Value(y)
  <2>1. Value(s) + cr[ArraySize] * Top = Value(x) + Value(y) + cr[0]
    BY <1>1, <1>2, Ripple
  <2> QED BY <1>2, <2>1, ValueRange
<1>6. /\ Value(s) \in Nat /\ Value(s) < Top /\ Top \in Nat /\ Top > 0
      /\ Value(x) \in Nat /\ Value(y) \in Nat
  BY <1>1, ValueRange
<1>7. CASE cr[ArraySize] = 0 BY <1>5, <1>6, <1>7, <1>1 DEF s
<1>8. CASE cr[ArraySize] = 1
  <2>1. Value(x) + Value(y) = Value(s) + Top BY <1>5, <1>6, <1>8
  <2>2. (Value(s) + Top) % Top = Value(s) BY <1>6
  <2> QED BY <1>1, <2>1, <2>2 DEF s
<1> QED BY <1>4, <1>7, <1>8

-----------------------------------------------------------------------------
\* The borrows are 0 or 1.
LEMMA BorrowSteps ==
    ASSUME NEW x \in Bn, NEW y \in Bn
    PROVE  /\ Borrows(x, y) \in [Index -> 0 .. 1]
           /\ Borrows(x, y)[0] = 0
           /\ \A k \in Index : k > 0 =>
                Borrows(x, y)[k] = IF x[k - 1] + Base - (y[k - 1] + Borrows(x, y)[k - 1]) < Base
                                     THEN 1 ELSE 0
<1> DEFINE n == ArraySize - 1
           R(g) == g = [i \in Index |->
                IF i > 0 /\ x[i - 1] + Base - (y[i - 1] + g[i - 1]) < Base THEN 1 ELSE 0]
           step == [p \in (1 .. n) \X (0 .. 1) |->
                IF x[p[1] - 1] + Base - (y[p[1] - 1] + p[2]) < Base THEN 1 ELSE 0]
<1>1. n \in Nat /\ Index = 0 .. n BY Wordly DEF Index
<1>2. PICK f \in [0 .. n -> 0 .. 1] : Facts!Follows(f, n, 0, step)
  <2>1. step \in [(1 .. n) \X (0 .. 1) -> 0 .. 1] OBVIOUS
  <2>2. 0 \in 0 .. 1 OBVIOUS
  <2> HIDE DEF step, n
  <2> QED BY <1>1, <2>1, <2>2, Facts!Recursion
<1>3. R(f)
  <2>1. ASSUME NEW k \in 0 .. n
        PROVE  f[k] = IF k > 0 /\ x[k - 1] + Base - (y[k - 1] + f[k - 1]) < Base THEN 1 ELSE 0
    <3>1. CASE k = 0 BY <1>2, <3>1 DEF Facts!Follows
    <3>2. CASE k # 0
      <4>1. k \in 1 .. n /\ k - 1 \in 0 .. n /\ k > 0 BY <3>2, <1>1
      <4>2. f[k - 1] \in 0 .. 1 BY <4>1
      <4>3. <<k, f[k - 1]>> \in (1 .. n) \X (0 .. 1) BY <4>1, <4>2
      <4>4. f[k] = step[<<k, f[k - 1]>>] BY <1>2, <4>1 DEF Facts!Follows
      <4> QED BY <4>1, <4>3, <4>4
    <3> QED BY <3>1, <3>2
  <2> HIDE DEF n
  <2> QED BY <2>1, <1>1
<1>4. R(Borrows(x, y))
  <2>1. Borrows(x, y) = CHOOSE g : R(g) BY DEF Borrows
  <2> HIDE DEF R
  <2> QED BY <1>3, <2>1, Zenon
<1>5. Borrows(x, y) \in [Index -> 0 .. 1] BY <1>4
<1>6. \A k \in Index : Borrows(x, y)[k] =
        IF k > 0 /\ x[k - 1] + Base - (y[k - 1] + Borrows(x, y)[k - 1]) < Base THEN 1 ELSE 0
  BY <1>4, Zenon
<1> QED BY <1>1, <1>5, <1>6

\* A difference and what was taken away add up to what it was taken from.
LEMMA SubWords ==
    ASSUME NEW x \in Bn, NEW y \in Bn
    PROVE  /\ bignum_sub(x, y) \in Bn
           /\ \E br \in [0 .. ArraySize -> 0 .. 1] :
                /\ br[0] = 0
                /\ \A k \in Index : bignum_sub(x, y)[k] + y[k] + br[k] = x[k] + br[k + 1] * Base
<1> DEFINE by == Borrows(x, y)
           br == [k \in 0 .. ArraySize |->
                    IF k = 0 THEN 0
                    ELSE IF x[k - 1] + Base - (y[k - 1] + by[k - 1]) < Base THEN 1 ELSE 0]
<1>1. /\ by \in [Index -> 0 .. 1] /\ by[0] = 0
      /\ \A k \in Index : k > 0 =>
            by[k] = IF x[k - 1] + Base - (y[k - 1] + by[k - 1]) < Base THEN 1 ELSE 0
  BY BorrowSteps
<1>2. bignum_sub(x, y) = [k \in Index |-> (x[k] + Base - (y[k] + by[k])) % Base]
  BY DEF bignum_sub
<1> HIDE DEF by
<1>3. br \in [0 .. ArraySize -> 0 .. 1] OBVIOUS
<1>4. ASSUME NEW k \in Index
      PROVE  /\ br[k] = by[k]
             /\ br[k + 1] = IF x[k] + Base - (y[k] + by[k]) < Base THEN 1 ELSE 0
  <2>1. k \in 0 .. ArraySize /\ k + 1 \in 0 .. ArraySize /\ k >= 0 /\ (k + 1) - 1 = k /\ k + 1 # 0
    BY Wordly DEF Index
  <2>2. br[k + 1] = IF x[k] + Base - (y[k] + by[k]) < Base THEN 1 ELSE 0
    BY <2>1
  <2>3. br[k] = by[k] BY <2>1, <1>1
  <2> QED BY <2>2, <2>3
<1>5. ASSUME NEW k \in Index
      PROVE  /\ bignum_sub(x, y)[k] \in Word
             /\ bignum_sub(x, y)[k] + y[k] + br[k] = x[k] + br[k + 1] * Base
  <2> DEFINE s == x[k] + Base - (y[k] + by[k])
  <2>1. x[k] \in Word /\ y[k] \in Word /\ by[k] \in 0 .. 1 BY <1>1 DEF Bn
  <2>2. s \in Nat /\ s < 2 * Base BY <2>1, BaseFacts DEF Word
  <2>3. bignum_sub(x, y)[k] = s % Base BY <1>2
  <2>4. br[k] = by[k] /\ br[k + 1] = IF s < Base THEN 1 ELSE 0 BY <1>4
  <2>5. s % Base \in Word /\ s = (s % Base) + (IF s >= Base THEN 1 ELSE 0) * Base
    <3> HIDE DEF s
    <3> QED BY <2>2, Digit
  <2>6. s + y[k] + by[k] = x[k] + Base BY <2>1, BaseFacts DEF Word
  <2>7. br[k + 1] * Base = IF s >= Base THEN 0 ELSE Base BY <2>4, <2>2, BaseFacts
  <2> DEFINE m == s % Base
             bb == br[k + 1] * Base
  <2> HIDE DEF br, s
  <2>9. m \in Nat /\ s = m + (IF s >= Base THEN Base ELSE 0)
    BY <2>5, BaseFacts DEF Word
  <2>10. bb = IF s >= Base THEN 0 ELSE Base BY <2>7
  <2> HIDE DEF m, bb
  <2>8. m + y[k] + by[k] = x[k] + bb
    BY <2>1, <2>2, <2>6, <2>9, <2>10, BaseFacts DEF Word
  <2> USE DEF m, bb
  <2> QED BY <2>3, <2>4, <2>5, <2>8
<1>6. bignum_sub(x, y) \in Bn BY <1>2, <1>5 DEF Bn
<1>7. br[0] = 0 BY Wordly
<1> HIDE DEF br
<1> QED BY <1>3, <1>5, <1>6, <1>7

\* bignum_sub subtracts, modulo the width.
LEMMA SubValue ==
    ASSUME NEW x \in Bn, NEW y \in Bn
    PROVE  /\ bignum_sub(x, y) \in Bn
           /\ Value(bignum_sub(x, y)) = (Value(x) + Top - Value(y)) % Top
           /\ Value(x) >= Value(y) => Value(bignum_sub(x, y)) = Value(x) - Value(y)
<1> DEFINE d == bignum_sub(x, y)
<1>1. d \in Bn BY SubWords
<1>2. PICK br \in [0 .. ArraySize -> 0 .. 1] :
         /\ br[0] = 0
         /\ \A k \in Index : d[k] + y[k] + br[k] = x[k] + br[k + 1] * Base
  BY SubWords
<1> HIDE DEF d
<1>4. br[ArraySize] \in 0 .. 1 BY Wordly
<1>5. Value(x) + br[ArraySize] * Top = Value(d) + Value(y)
  <2>1. Value(x) + br[ArraySize] * Top = Value(d) + Value(y) + br[0]
    BY <1>1, <1>2, Ripple
  <2> QED BY <1>1, <1>2, <2>1, ValueRange
<1>6. /\ Value(d) \in Nat /\ Value(d) < Top /\ Top \in Nat /\ Top > 0
      /\ Value(x) \in Nat /\ Value(y) \in Nat /\ Value(x) < Top /\ Value(y) < Top
  BY <1>1, ValueRange
<1>7. CASE br[ArraySize] = 0
  <2>1. Value(x) + Top - Value(y) = Value(d) + Top /\ Value(d) = Value(x) - Value(y)
    BY <1>5, <1>6, <1>7
  <2>2. (Value(d) + Top) % Top = Value(d) BY <1>6
  <2> QED BY <1>1, <1>6, <2>1, <2>2 DEF d
<1>8. CASE br[ArraySize] = 1
  <2>1. Value(x) + Top - Value(y) = Value(d) /\ ~(Value(x) >= Value(y)) BY <1>5, <1>6, <1>8
  <2>2. Value(d) % Top = Value(d) BY <1>6
  <2> QED BY <1>1, <2>1, <2>2 DEF d
<1> QED BY <1>4, <1>7, <1>8

-----------------------------------------------------------------------------
\* The first words from the top that differ decide.
LEMMA TopDecides ==
    ASSUME NEW x \in Bn, NEW y \in Bn, NEW t \in Index, x[t] > y[t],
           \A j \in Index : j > t => x[j] = y[j]
    PROVE  Value(x) > Value(y)
<1> DEFINE S == {k \in Nat : k <= t \/ Values(x)[k] > Values(y)[k]}
<1>1. t \in Nat /\ t < ArraySize BY Wordly DEF Index
<1>2. 0 \in S BY <1>1
<1>3. ASSUME NEW k \in Nat, k < ArraySize, k \in S PROVE k + 1 \in S
  <2>1. k \in Index /\ k \in 0 .. ArraySize BY <1>3, Wordly DEF Index
  <2> DEFINE w == Weight[k]
             vx == Values(x)[k]
             vy == Values(y)[k]
             xk == x[k]
             yk == y[k]
  <2>2. w \in Nat /\ vx \in Nat /\ vy \in Nat /\ xk \in Nat /\ yk \in Nat BY <2>1, AtWord
  <2>3. Values(x)[k + 1] = vx + xk * w /\ Values(y)[k + 1] = vy + yk * w BY <2>1, AtWord
  <2>4. vy < w BY <2>1, ValueSteps
  <2>5. CASE k < t BY <2>5, <1>1
  <2>6. CASE k = t
    <3>1. yk < xk BY <2>6
    <3> HIDE DEF w, vx, vy, xk, yk
    <3>2. vy + yk * w < xk * w BY <3>1, <2>2, <2>4, OneMoreDigit
    <3>3. xk * w \in Nat /\ yk * w \in Nat BY <2>2
    <3>4. vx + xk * w > vy + yk * w BY <2>2, <3>2, <3>3
    <3> QED BY <2>3, <3>4
  <2>7. CASE k > t
    <3>1. xk = yk BY <2>1, <2>7
    <3>2. vx > vy BY <1>3, <1>1, <2>7
    <3> HIDE DEF w, vx, vy, xk, yk
    <3>3. yk * w \in Nat BY <2>2
    <3>4. vx + xk * w > vy + yk * w BY <2>2, <3>1, <3>2, <3>3
    <3> QED BY <2>3, <3>4
  <2> QED BY <1>1, <2>5, <2>6, <2>7
<1>4. \A k \in 0 .. ArraySize : k \in S
  <2> HIDE DEF S
  <2> QED BY <1>2, <1>3, Upto, Wordly
<1>5. ArraySize \in S BY <1>4, Wordly
<1>6. Values(x)[ArraySize] > Values(y)[ArraySize] BY <1>1, <1>5
<1> QED BY <1>6 DEF Value

\* bignum_cmp compares.
LEMMA CmpValue ==
    ASSUME NEW x \in Bn, NEW y \in Bn
    PROVE  /\ bignum_cmp(x, y) = IF Value(x) = Value(y) THEN "EQUAL"
                                 ELSE IF Value(x) > Value(y) THEN "LARGER" ELSE "SMALLER"
           /\ Value(x) = Value(y) => x = y
<1> DEFINE differ == {i \in Index : x[i] # y[i]}
           top == CHOOSE i \in differ : \A j \in differ : j <= i
<1>1. Value(x) \in Nat /\ Value(y) \in Nat BY ValueRange
<1>2. CASE differ = {}
  <2>1. x = y BY <1>2 DEF Bn
  <2>2. bignum_cmp(x, y) = "EQUAL" BY <1>2 DEF bignum_cmp
  <2> QED BY <2>1, <2>2
<1>3. CASE differ # {}
  <2> DEFINE fromTop == {m \in Nat : ArraySize - m \in differ}
  <2>1. \E i \in differ : \A j \in differ : j <= i
    <3>1. PICK e \in differ : TRUE BY <1>3
    <3>2. ArraySize - e \in fromTop BY <3>1, Wordly DEF Index
    <3>3. fromTop \in SUBSET Nat /\ fromTop # {} BY <3>2
    <3> HIDE DEF fromTop
    <3>4. PICK n \in fromTop : \A m \in fromTop : n <= m BY <3>3, Facts!LeastElement
    <3> USE DEF fromTop
    <3>5. n \in Nat /\ ArraySize - n \in differ BY <3>4
    <3>6. ASSUME NEW j \in differ PROVE j <= ArraySize - n
      <4>1. j \in Nat /\ j <= ArraySize BY Wordly DEF Index
      <4>2. ArraySize - j \in Nat /\ ArraySize - (ArraySize - j) = j BY <4>1, Wordly
      <4>3. ArraySize - j \in fromTop BY <4>2
      <4>4. n <= ArraySize - j BY <3>4, <4>3
      <4> QED BY <4>1, <4>4, <3>5, Wordly
    <3> QED BY <3>5, <3>6
  <2>2. top \in differ /\ \A j \in differ : j <= top
    <3> HIDE DEF differ
    <3> QED BY <2>1, Zenon
  <2>3. bignum_cmp(x, y) = IF x[top] > y[top] THEN "LARGER" ELSE "SMALLER"
    BY <1>3 DEF bignum_cmp
  <2> HIDE DEF top
  <2>4. top \in Index /\ x[top] # y[top] BY <2>2
  <2>5. \A j \in Index : j > top => x[j] = y[j]
    <3> SUFFICES ASSUME NEW j \in Index, j > top, x[j] # y[j] PROVE FALSE OBVIOUS
    <3>1. j <= top BY <2>2
    <3> QED BY <2>4, <3>1, Wordly DEF Index
  <2>6. x[top] \in Nat /\ y[top] \in Nat BY <2>4, AtWord
  <2>7. CASE x[top] > y[top]
    <3>1. Value(x) > Value(y) BY <2>4, <2>5, <2>7, TopDecides
    <3> QED BY <1>1, <2>3, <2>7, <3>1
  <2>8. CASE y[top] > x[top]
    <3>1. Value(y) > Value(x) BY <2>4, <2>5, <2>8, TopDecides
    <3> QED BY <1>1, <2>3, <2>6, <2>8, <3>1
  <2> QED BY <2>4, <2>6, <2>7, <2>8
<1> QED BY <1>2, <1>3

-----------------------------------------------------------------------------
\* The bit that a doubled word loses is its top bit.
LEMMA DoubledWord ==
    ASSUME NEW w \in Word
    PROVE  /\ w \div HalfMax \in 0 .. 1
           /\ w \div HalfMax = IF w >= HalfMax THEN 1 ELSE 0
           /\ ((2 * w) % Base) + 1 \in Word
           /\ (2 * w) % Base \in Word
           /\ 2 * w = ((2 * w) % Base) + (w \div HalfMax) * Base
<1>1. HalfMax \in Nat /\ HalfMax >= 1 /\ Base = 2 * HalfMax /\ Base \in Nat BY BaseFacts
<1>2. w \in Nat /\ w < Base BY <1>1 DEF Word
<1>3. CASE w >= HalfMax
  <2>1. w = HalfMax * 1 + (w - HalfMax) /\ w - HalfMax \in 0 .. HalfMax - 1 BY <1>1, <1>2, <1>3
  <2>2. w \div HalfMax = 1 BY <1>1, <1>2, <2>1
  <2>3. 2 * w - Base \in 0 .. Base - 2 BY <1>1, <1>2, <1>3
  <2>4. (2 * w) % Base = 2 * w - Base BY <1>1, <1>2, <2>3
  <2> QED BY <1>1, <1>2, <1>3, <2>2, <2>3, <2>4 DEF Word
<1>4. CASE w < HalfMax
  <2>1. w \div HalfMax = 0 BY <1>1, <1>2, <1>4
  <2>2. 2 * w \in 0 .. Base - 2 BY <1>1, <1>2, <1>4
  <2>3. (2 * w) % Base = 2 * w BY <1>1, <2>2
  <2> QED BY <1>1, <1>2, <1>4, <2>1, <2>2, <2>3 DEF Word
<1> QED BY <1>1, <1>2, <1>3, <1>4

\* A shift to the left doubles; it loses a bit when the top bit is set, and
\* that is when the number is in the upper half.
LEMMA LeftValue ==
    ASSUME NEW n \in Bn
    PROVE  /\ _lshift_one_bit(n) \in Bn
           /\ Value(_lshift_one_bit(n)) = (2 * Value(n)) % Top
           /\ n[ArraySize - 1] < HalfMax => Value(_lshift_one_bit(n)) = 2 * Value(n)
           /\ n[ArraySize - 1] < HalfMax <=> 2 * Value(n) < Top
<1> DEFINE l == _lshift_one_bit(n)
           cr == [k \in 0 .. ArraySize |-> IF k = 0 THEN 0 ELSE n[k - 1] \div HalfMax]
<1>1. ASSUME NEW k \in Index
      PROVE  /\ k \in 0 .. ArraySize /\ k + 1 \in 0 .. ArraySize
             /\ (k + 1) - 1 = k /\ k + 1 # 0 /\ k # 0 => k - 1 \in Index
             /\ n[k] \in Word
  BY Wordly DEF Index, Bn
<1>2. cr \in [0 .. ArraySize -> 0 .. 1]
  <2>1. ASSUME NEW k \in 0 .. ArraySize, k # 0 PROVE n[k - 1] \div HalfMax \in 0 .. 1
    <3>1. k - 1 \in Index BY <2>1, Wordly DEF Index
    <3> QED BY <1>1, <3>1, DoubledWord
  <2> QED BY <2>1
<1>3. ASSUME NEW k \in Index
      PROVE  cr[k + 1] = n[k] \div HalfMax /\ l[k] = ((2 * n[k]) % Base) + cr[k]
  BY <1>1 DEF _lshift_one_bit
<1>4. cr[0] = 0 BY Wordly
<1>5. cr[ArraySize] = n[ArraySize - 1] \div HalfMax BY Wordly
<1> HIDE DEF cr
<1>6. ASSUME NEW k \in Index
      PROVE  l[k] \in Word /\ n[k] + n[k] + cr[k] = l[k] + cr[k + 1] * Base
  <2>1. cr[k] \in 0 .. 1 BY <1>1, <1>2
  <2> DEFINE m == (2 * n[k]) % Base
             h == n[k] \div HalfMax
             w == n[k]
             t == h * Base
  <2>2. m \in Word /\ m + 1 \in Word /\ 2 * w = m + t /\ h \in 0 .. 1
    <3>1. w \in Word BY <1>1
    <3> HIDE DEF w
    <3> QED BY <3>1, DoubledWord DEF w
  <2>3. l[k] = m + cr[k] /\ cr[k + 1] = h BY <1>3
  <2>4. w \in Nat BY AtWord
  <2>5. t \in Nat
    <3>1. h = 0 \/ h = 1 BY <2>2
    <3>2. Base \in Nat /\ 0 * Base = 0 /\ 1 * Base = Base BY BaseFacts
    <3> HIDE DEF h
    <3> QED BY <3>1, <3>2
  <2> HIDE DEF m, h, l, w, t
  <2>6. m \in Nat BY <2>2, BaseFacts DEF Word
  <2>7. m + cr[k] \in Word
    <3>1. cr[k] = 0 \/ cr[k] = 1 BY <2>1
    <3>2. m + 0 = m BY <2>6
    <3> QED BY <2>2, <3>1, <3>2
  <2>8. w + w + cr[k] = m + cr[k] + t BY <2>1, <2>2, <2>4, <2>5, <2>6
  <2> QED BY <2>3, <2>7, <2>8 DEF w, t
<1>7. l \in Bn
  <2>1. l = [k \in Index |-> l[k]] BY DEF _lshift_one_bit
  <2> HIDE DEF l
  <2> QED BY <1>6, <2>1 DEF Bn
<1> HIDE DEF l
<1>8. Value(l) + cr[ArraySize] * Top = Value(n) + Value(n) + cr[0]
  BY <1>2, <1>6, <1>7, Ripple
<1>9. /\ Value(l) \in Nat /\ Value(l) < Top /\ Value(n) \in Nat /\ Top \in Nat /\ Top > 0
  BY <1>7, ValueRange
<1>10. ArraySize - 1 \in Index BY Wordly DEF Index
<1>11. /\ cr[ArraySize] \in 0 .. 1
       /\ cr[ArraySize] = 0 <=> n[ArraySize - 1] < HalfMax
  <2>1. n[ArraySize - 1] \in Word BY <1>1, <1>10
  <2>2. n[ArraySize - 1] \in Nat BY <1>10, AtWord
  <2> QED BY <1>5, <2>1, <2>2, DoubledWord, BaseFacts
<1>12. CASE cr[ArraySize] = 0
  <2>1. Value(l) = 2 * Value(n) BY <1>4, <1>8, <1>9, <1>12
  <2>2. Value(l) % Top = Value(l) BY <1>9
  <2> QED BY <1>7, <1>9, <1>11, <1>12, <2>1, <2>2 DEF l
<1>13. CASE cr[ArraySize] = 1
  <2>1. 2 * Value(n) = Value(l) + Top BY <1>4, <1>8, <1>9, <1>13
  <2>2. (Value(l) + Top) % Top = Value(l) BY <1>9
  <2> QED BY <1>7, <1>9, <1>11, <1>13, <2>1, <2>2 DEF l
<1> QED BY <1>11, <1>12, <1>13

\* A shift to the right halves.
LEMMA RightValue ==
    ASSUME NEW n \in Bn
    PROVE  /\ _rshift_one_bit(n) \in Bn
           /\ Value(_rshift_one_bit(n)) = Value(n) \div 2
<1> DEFINE r == _rshift_one_bit(n)
           cr == [k \in 0 .. ArraySize |-> IF k = ArraySize THEN 0 ELSE n[k] % 2]
<1>1. ASSUME NEW k \in Index
      PROVE  /\ k \in 0 .. ArraySize /\ k + 1 \in 0 .. ArraySize /\ k # ArraySize
             /\ k + 1 # ArraySize => k + 1 \in Index
             /\ n[k] \in Nat /\ n[k] < Base
  BY Wordly, AtWord DEF Index
<1>2. cr \in [0 .. ArraySize -> 0 .. 1]
  <2>1. ASSUME NEW k \in 0 .. ArraySize, k # ArraySize PROVE n[k] % 2 \in 0 .. 1
    <3>1. k \in Index BY <2>1, Wordly DEF Index
    <3> QED BY <1>1, <3>1
  <2> QED BY <2>1
<1>3. ASSUME NEW k \in Index
      PROVE  cr[k] = n[k] % 2 /\ r[k] = n[k] \div 2 + cr[k + 1] * HalfMax
  <2>1. cr[k] = n[k] % 2 BY <1>1
  <2>2. CASE k = ArraySize - 1
    <3>1. cr[k + 1] = 0 BY <2>2, <1>1, Wordly
    <3>2. r[k] = n[k] \div 2 + 0 BY <2>2 DEF _rshift_one_bit
    <3> QED BY <2>1, <3>1, <3>2, BaseFacts
  <2>3. CASE k # ArraySize - 1
    <3>1. k + 1 # ArraySize BY <2>3, Wordly DEF Index
    <3>2. cr[k + 1] = n[k + 1] % 2 BY <3>1, <1>1
    <3>3. r[k] = n[k] \div 2 + (n[k + 1] % 2) * HalfMax BY <2>3 DEF _rshift_one_bit
    <3> QED BY <2>1, <3>2, <3>3
  <2> QED BY <2>2, <2>3
<1>4. cr[0] = n[0] % 2 BY Wordly
<1>5. cr[ArraySize] = 0 BY Wordly
<1> HIDE DEF cr
<1>6. ASSUME NEW k \in Index
      PROVE  r[k] \in Word /\ r[k] + r[k] + cr[k] = n[k] + cr[k + 1] * Base
  <2>1. cr[k] \in 0 .. 1 /\ cr[k + 1] \in 0 .. 1 BY <1>1, <1>2
  <2> DEFINE h == n[k] \div 2
  <2>2. n[k] = 2 * h + cr[k] /\ h \in Nat BY <1>1, <1>3
  <2>3. r[k] = h + cr[k + 1] * HalfMax BY <1>3
  <2>4. h < HalfMax BY <2>1, <2>2, <1>1, BaseFacts
  <2> HIDE DEF h, r
  <2>5. CASE cr[k + 1] = 0 BY <2>1, <2>2, <2>3, <2>4, <2>5, BaseFacts DEF Word
  <2>6. CASE cr[k + 1] = 1 BY <2>1, <2>2, <2>3, <2>4, <2>6, BaseFacts DEF Word
  <2> QED BY <2>1, <2>5, <2>6
<1>7. r \in Bn
  <2>1. r = [k \in Index |-> r[k]] BY DEF _rshift_one_bit
  <2> HIDE DEF r
  <2> QED BY <1>6, <2>1 DEF Bn
<1> HIDE DEF r
<1>8. Value(n) + cr[ArraySize] * Top = Value(r) + Value(r) + cr[0]
  BY <1>2, <1>6, <1>7, Ripple
<1>9. Value(r) \in Nat /\ Value(n) \in Nat /\ Top \in Nat BY <1>7, ValueRange
<1>10. cr[0] \in 0 .. 1 BY <1>2, Wordly
<1>11. Value(n) = 2 * Value(r) + cr[0] BY <1>5, <1>8, <1>9, <1>10
<1>12. Value(n) \div 2 = Value(r) BY <1>9, <1>10, <1>11
<1> QED BY <1>7, <1>12 DEF r

\* A number is zero when all its words are.
LEMMA ZeroValue ==
    /\ bignum_init \in Bn /\ Value(bignum_init) = 0
    /\ \A n \in Bn : bignum_is_zero(n) <=> Value(n) = 0
<1>1. bignum_init \in Bn BY BaseFacts DEF bignum_init, Bn, Word
<1> DEFINE z == bignum_init
           S == {k \in Nat : Values(z)[k] = 0}
<1>2. 0 \in S BY <1>1, ValueSteps
<1>3. ASSUME NEW k \in Nat, k < ArraySize, k \in S PROVE k + 1 \in S
  <2>1. k \in Index BY <1>3, Wordly DEF Index
  <2>2. z[k] = 0 BY <2>1 DEF bignum_init
  <2>3. Values(z)[k + 1] = Values(z)[k] + z[k] * Weight[k] /\ Weight[k] \in Nat
    BY <1>1, <2>1, AtWord
  <2> QED BY <1>3, <2>2, <2>3
<1>4. \A k \in 0 .. ArraySize : k \in S
  <2> HIDE DEF S
  <2> QED BY <1>2, <1>3, Upto, Wordly
<1>5. Value(z) = 0
  <2>1. ArraySize \in S BY <1>4, Wordly
  <2> QED BY <2>1 DEF Value
<1>6. ASSUME NEW n \in Bn PROVE bignum_is_zero(n) <=> Value(n) = 0
  <2>1. bignum_is_zero(n) <=> n = z BY DEF bignum_is_zero, bignum_init, Bn
  <2>2. Value(n) = 0 => n = z BY <1>1, <1>5, CmpValue
  <2> QED BY <1>5, <2>1, <2>2
<1> QED BY <1>1, <1>5, <1>6

\* A number of two words.
LEMMA TwoWords ==
    ASSUME NEW v \in Nat, v < Base * Base
    PROVE  /\ bignum_from_uint64_t(v) \in Bn
           /\ \A k \in 2 .. ArraySize : Values(bignum_from_uint64_t(v))[k] = v
           /\ Value(bignum_from_uint64_t(v)) = v
           /\ bignum_to_uint64_t(bignum_from_uint64_t(v)) = v
<1> DEFINE n == bignum_from_uint64_t(v)
           lo == v % Base
           hi == v \div Base
<1>1. Base \in Nat /\ Base > 0 BY BaseFacts
<1>2. lo \in Nat /\ lo < Base /\ hi \in Nat /\ v = lo + hi * Base
  <2>1. v = Base * hi + lo /\ lo \in 0 .. Base - 1 /\ hi \in Nat BY <1>1
  <2> HIDE DEF lo, hi
  <2> QED BY <1>1, <2>1
<1>3. hi < Base
  <2> HIDE DEF lo, hi
  <2> SUFFICES ASSUME hi >= Base PROVE FALSE BY <1>1, <1>2
  <2>1. Base * Base <= hi * Base BY <1>1, <1>2, Monotone
  <2>2. Base * Base \in Nat /\ hi * Base \in Nat BY <1>1, <1>2
  <2> QED BY <1>1, <1>2, <2>1, <2>2
<1>4. hi % Base = hi
  <2> HIDE DEF hi
  <2> QED BY <1>1, <1>2, <1>3
<1>5. /\ 0 \in Index /\ 1 \in Index BY Wordly DEF Index
<1>6. /\ n[0] = lo /\ n[1] = hi
      /\ \A i \in Index : i # 0 /\ i # 1 => n[i] = 0
  BY <1>4, <1>5 DEF bignum_from_uint64_t
<1>7. n \in Bn
  <2>1. ASSUME NEW i \in Index PROVE n[i] \in Word
    <3> HIDE DEF n, lo, hi
    <3> QED BY <1>1, <1>2, <1>3, <1>6 DEF Word
  <2>2. n = [i \in Index |-> n[i]] BY DEF bignum_from_uint64_t
  <2> HIDE DEF n
  <2> QED BY <2>1, <2>2 DEF Bn
<1> HIDE DEF n, lo, hi
<1>8. Weight[0] = 1 /\ Weight[1] = Base
  <2>1. Weight[0] = 1 BY WeightSteps
  <2>2. Weight[0 + 1] = Base * Weight[0] BY <1>5, WeightSteps
  <2> QED BY <1>1, <2>1, <2>2
<1>9. Values(n)[2] = v
  <2>1. /\ Values(n)[0] = 0
        /\ Values(n)[0 + 1] = Values(n)[0] + n[0] * Weight[0]
        /\ Values(n)[1 + 1] = Values(n)[1] + n[1] * Weight[1]
    BY <1>5, <1>7, ValueSteps
  <2>2. Values(n)[1] = lo BY <1>2, <1>6, <1>8, <2>1
  <2> QED BY <1>1, <1>2, <1>6, <1>8, <2>1, <2>2
<1> DEFINE S == {k \in Nat : k < 2 \/ Values(n)[k] = v}
<1>10. 0 \in S OBVIOUS
<1>11. ASSUME NEW k \in Nat, k < ArraySize, k \in S PROVE k + 1 \in S
  <2>1. CASE k = 0 BY <2>1
  <2>2. CASE k = 1 BY <2>2, <1>9
  <2>3. CASE k >= 2
    <3>1. k \in Index BY <1>11, Wordly DEF Index
    <3>2. n[k] = 0 BY <1>6, <2>3, <3>1
    <3>3. /\ Values(n)[k + 1] = Values(n)[k] + n[k] * Weight[k] /\ Weight[k] \in Nat
      BY <1>7, <3>1, AtWord
    <3> QED BY <1>11, <2>3, <3>2, <3>3
  <2> QED BY <1>11, <2>1, <2>2, <2>3
<1>12. \A k \in 0 .. ArraySize : k \in S
  <2> HIDE DEF S
  <2> QED BY <1>10, <1>11, Upto, Wordly
<1>13. \A k \in 2 .. ArraySize : Values(n)[k] = v BY <1>12, Wordly
<1>14. Value(n) = v BY <1>13, Wordly DEF Value
<1>15. bignum_to_uint64_t(n) = v BY <1>2, <1>6 DEF bignum_to_uint64_t
<1> QED BY <1>7, <1>13, <1>14, <1>15 DEF n

-----------------------------------------------------------------------------
\* The weights multiply like powers.
LEMMA WeightSum ==
    ASSUME NEW i \in 0 .. ArraySize, NEW j \in 0 .. ArraySize, i + j <= ArraySize
    PROVE  Weight[i + j] = Weight[i] * Weight[j]
<1> DEFINE S == {k \in Nat : i + k <= ArraySize => Weight[i + k] = Weight[i] * Weight[k]}
<1>1. Weight[i] \in Nat /\ i \in Nat /\ j \in Nat /\ Base \in Nat BY WeightSteps, Wordly, BaseFacts
<1>2. 0 \in S BY <1>1, WeightSteps
<1>3. ASSUME NEW k \in Nat, k < ArraySize, k \in S PROVE k + 1 \in S
  <2> SUFFICES ASSUME i + (k + 1) <= ArraySize
               PROVE  Weight[i + (k + 1)] = Weight[i] * Weight[k + 1]
    OBVIOUS
  <2>1. k \in Index /\ k \in 0 .. ArraySize /\ i + k \in Index BY <1>1, <1>3, Wordly DEF Index
  <2>2. i + (k + 1) = (i + k) + 1 /\ i + k <= ArraySize BY <1>1, Wordly
  <2>3. Weight[(i + k) + 1] = Base * Weight[i + k] BY <2>1, WeightSteps
  <2>4. Weight[k + 1] = Base * Weight[k] /\ Weight[k] \in Nat BY <2>1, WeightSteps
  <2>5. Weight[i + k] = Weight[i] * Weight[k] BY <1>3, <2>2
  <2> DEFINE u == Weight[i]
             w == Weight[k]
  <2>6. u \in Nat /\ w \in Nat BY <1>1, <2>4
  <2> HIDE DEF u, w
  <2>7. Base * (u * w) = u * (Base * w) BY <1>1, <2>6
  <2> QED BY <2>2, <2>3, <2>4, <2>5, <2>7 DEF u, w
<1>4. \A k \in 0 .. ArraySize : k \in S
  <2> HIDE DEF S
  <2> QED BY <1>2, <1>3, Upto, Wordly
<1> QED BY <1>4

\* A number is that of its lowest words and a multiple of the next weight.
LEMMA LowWords ==
    ASSUME NEW n \in Bn, NEW k \in 0 .. ArraySize
    PROVE  \E q \in Nat : Value(n) = Values(n)[k] + q * Weight[k]
<1> DEFINE S == {m \in Nat : m < k \/ \E q \in Nat : Values(n)[m] = Values(n)[k] + q * Weight[k]}
           w == Weight[k]
           vk == Values(n)[k]
<1>1. w \in Nat /\ k \in Nat /\ vk \in Nat BY WeightSteps, ValueSteps, Wordly
<1>2. vk = vk + 0 * w
  <2> HIDE DEF vk, w
  <2> QED BY <1>1
<1>3. 0 \in S BY <1>1, <1>2
<1>4. ASSUME NEW m \in Nat, m < ArraySize, m \in S PROVE m + 1 \in S
  <2>1. CASE m + 1 < k BY <2>1
  <2>2. CASE m + 1 = k BY <2>2, <1>2
  <2>3. CASE m >= k
    <3>1. PICK q \in Nat : Values(n)[m] = vk + q * w BY <1>1, <1>4, <2>3
    <3>2. m \in Index BY <1>4, Wordly DEF Index
    <3>3. m - k \in 0 .. ArraySize /\ k + (m - k) = m BY <1>1, <1>4, <2>3, Wordly
    <3>4. Weight[m] = w * Weight[m - k] /\ Weight[m - k] \in Nat
      <4>1. k + (m - k) <= ArraySize BY <3>3, <1>4, Wordly
      <4>2. Weight[k + (m - k)] = Weight[k] * Weight[m - k] BY <3>3, <4>1, WeightSum
      <4> QED BY <3>3, <4>2, WeightSteps
    <3>5. Values(n)[m + 1] = Values(n)[m] + n[m] * Weight[m] /\ n[m] \in Nat BY <3>2, AtWord
    <3> DEFINE d == n[m]
               e == Weight[m - k]
    <3>6. d \in Nat /\ e \in Nat BY <3>4, <3>5
    <3>7. Values(n)[m + 1] = (vk + q * w) + d * (w * e) BY <3>1, <3>4, <3>5
    <3> HIDE DEF vk, w, d, e, S
    <3>8. q + d * e \in Nat BY <3>6
    <3>9. (vk + q * w) + d * (w * e) = vk + (q + d * e) * w BY <1>1, <3>6
    <3>10. Values(n)[m + 1] = vk + (q + d * e) * w BY <3>7, <3>9
    <3> QED BY <3>8, <3>10 DEF S, vk, w
  <2> QED BY <1>1, <2>1, <2>2, <2>3
<1>5. \A m \in 0 .. ArraySize : m \in S
  <2> HIDE DEF S
  <2> QED BY <1>3, <1>4, Upto, Wordly
<1>6. ArraySize \in S BY <1>5, Wordly
<1>7. ~(ArraySize < k) BY Wordly
<1> QED BY <1>6, <1>7 DEF Value

\* What a shift by words does on the numbers of beginnings.
LEMMA ShiftWords ==
    ASSUME NEW n \in Bn, NEW p \in 0 .. ArraySize
    PROVE  /\ _lshift_word(n, p) \in Bn
           /\ Value(_lshift_word(n, p)) = Weight[p] * Values(n)[ArraySize - p]
<1> DEFINE l == _lshift_word(n, p)
<1>1. p \in Nat /\ p <= ArraySize /\ ArraySize \in Nat BY Wordly
<1>2. ASSUME NEW i \in Index
      PROVE  /\ i < p => l[i] = 0
             /\ i >= p => i - p \in Index /\ l[i] = n[i - p]
             /\ l[i] \in Word
  <2>1. i >= p => i - p \in Index BY <1>1 DEF Index
  <2>2. l[i] = IF i >= p THEN n[i - p] ELSE 0 BY DEF _lshift_word
  <2>3. i \in Nat BY <1>1 DEF Index
  <2>4. 0 \in Word BY BaseFacts DEF Word
  <2>5. i >= p => n[i - p] \in Word BY <2>1 DEF Bn
  <2> HIDE DEF l
  <2> QED BY <1>1, <2>1, <2>2, <2>3, <2>4, <2>5
<1>3. l \in Bn
  <2>1. l = [i \in Index |-> l[i]] BY DEF _lshift_word
  <2> HIDE DEF l
  <2> QED BY <1>2, <2>1 DEF Bn
<1> HIDE DEF l
<1> DEFINE S == {k \in Nat : /\ k <= p => Values(l)[k] = 0
                             /\ k >= p => Values(l)[k] = Weight[p] * Values(n)[k - p]}
           wp == Weight[p]
<1>4. wp \in Nat /\ Values(n)[0] = 0 /\ Values(l)[0] = 0 BY <1>3, WeightSteps, ValueSteps
<1>5. wp * Values(n)[0] = 0
  <2> HIDE DEF wp
  <2> QED BY <1>4
<1>6. 0 \in S
  <2>1. 0 >= p => 0 - p = 0 BY <1>1
  <2> QED BY <1>4, <1>5, <2>1
<1>7. ASSUME NEW k \in Nat, k < ArraySize, k \in S PROVE k + 1 \in S
  <2>1. k \in Index BY <1>1, <1>7 DEF Index
  <2>2. /\ Values(l)[k + 1] = Values(l)[k] + l[k] * Weight[k] /\ Weight[k] \in Nat
        /\ Values(l)[k] \in Nat
    BY <1>3, <2>1, AtWord
  <2>3. CASE k < p
    <3>1. Values(l)[k + 1] = 0 BY <1>2, <1>7, <2>1, <2>2, <2>3
    <3>2. k + 1 >= p => (k + 1) - p = 0 BY <1>1, <2>3
    <3> QED BY <1>1, <1>5, <2>3, <3>1, <3>2
  <2>4. CASE k >= p
    <3>1. Values(l)[k] = wp * Values(n)[k - p] BY <1>7, <2>4
    <3>2. l[k] = n[k - p] /\ k - p \in Index BY <1>2, <2>1, <2>4
    <3>3. /\ Values(n)[(k - p) + 1] = Values(n)[k - p] + n[k - p] * Weight[k - p]
          /\ n[k - p] \in Nat /\ Weight[k - p] \in Nat /\ Values(n)[k - p] \in Nat
      BY <3>2, AtWord
    <3>4. k - p \in 0 .. ArraySize /\ p + (k - p) = k /\ (k + 1) - p = (k - p) + 1
      BY <1>1, <1>7, <2>4
    <3>5. Weight[k] = wp * Weight[k - p]
      <4>1. p + (k - p) <= ArraySize BY <3>4, <1>7, <1>1
      <4>2. Weight[p + (k - p)] = Weight[p] * Weight[k - p] BY <3>4, <4>1, WeightSum
      <4> QED BY <3>4, <4>2
    <3> DEFINE v == Values(n)[k - p]
               d == n[k - p]
               w == Weight[k - p]
    <3>6. v \in Nat /\ d \in Nat /\ w \in Nat BY <3>3
    <3>7. Values(l)[k + 1] = wp * v + d * (wp * w) BY <2>2, <3>1, <3>2, <3>5
    <3>8. Values(n)[(k + 1) - p] = v + d * w BY <3>3, <3>4
    <3> HIDE DEF v, d, w, wp
    <3>9. wp * v + d * (wp * w) = wp * (v + d * w) BY <1>4, <3>6
    <3>10. Values(l)[k + 1] = wp * Values(n)[(k + 1) - p] BY <3>7, <3>8, <3>9
    <3>11. ~(k + 1 <= p) BY <1>1, <2>4
    <3> QED BY <3>10, <3>11 DEF wp
  <2> QED BY <1>1, <2>3, <2>4
<1>8. \A k \in 0 .. ArraySize : k \in S
  <2> HIDE DEF S
  <2> QED BY <1>1, <1>6, <1>7, Upto
<1>9. ArraySize \in S BY <1>1, <1>8
<1> QED BY <1>1, <1>3, <1>9 DEF Value, l

-----------------------------------------------------------------------------
\* Numbers that differ by a multiple of the width.
Cong(x, y) == \E q \in Int : x = y + q * Top

LEMMA CongAdd ==
    ASSUME NEW x \in Int, NEW y \in Int, NEW u \in Int, NEW v \in Int, Cong(x, y), Cong(u, v)
    PROVE  Cong(x + u, y + v)
<1>1. Top \in Int BY ValueRange
<1>2. PICK q \in Int : x = y + q * Top BY DEF Cong
<1>3. PICK r \in Int : u = v + r * Top BY DEF Cong
<1>4. (q + r) * Top = q * Top + r * Top /\ q * Top \in Int /\ r * Top \in Int /\ q + r \in Int
  BY <1>1
<1>5. x + u = (y + v) + (q + r) * Top BY <1>2, <1>3, <1>4
<1> QED BY <1>4, <1>5 DEF Cong

LEMMA CongTimes ==
    ASSUME NEW x \in Int, NEW y \in Int, NEW m \in Int, Cong(x, y)
    PROVE  Cong(m * x, m * y)
<1>1. Top \in Int BY ValueRange
<1>2. PICK q \in Int : x = y + q * Top BY DEF Cong
<1>3. m * (y + q * Top) = m * y + (m * q) * Top /\ m * q \in Int BY <1>1
<1> QED BY <1>2, <1>3 DEF Cong

LEMMA CongTrans ==
    ASSUME NEW x \in Int, NEW y \in Int, NEW z \in Int, Cong(x, y), Cong(y, z)
    PROVE  Cong(x, z)
<1>1. Top \in Int BY ValueRange
<1>2. PICK q \in Int : x = y + q * Top BY DEF Cong
<1>3. PICK r \in Int : y = z + r * Top BY DEF Cong
<1>4. (q + r) * Top = q * Top + r * Top /\ q * Top \in Int /\ r * Top \in Int /\ q + r \in Int
  BY <1>1
<1>5. x = z + (q + r) * Top BY <1>2, <1>3, <1>4
<1> QED BY <1>4, <1>5 DEF Cong

\* A multiple of the width more or less.
LEMMA CongMore ==
    ASSUME NEW x \in Int, NEW q \in Int
    PROVE  Cong(x, x) /\ Cong(x, x + q * Top) /\ Cong(x + q * Top, x)
<1>1. Top \in Int BY ValueRange
<1>2. /\ x = x + 0 * Top /\ x = (x + q * Top) + (-q) * Top /\ -q \in Int BY <1>1
<1> QED BY <1>2 DEF Cong

\* The remainder is the number that is congruent and small enough.
LEMMA CongMod ==
    ASSUME NEW x \in Nat, NEW y \in Int, x < Top
    PROVE  Cong(x, y) <=> x = y % Top
<1>1. Top \in Nat /\ Top > 0 BY ValueRange
<1> DEFINE d == y \div Top
           m == y % Top
<1>2. d \in Int /\ m \in 0 .. Top - 1 /\ y = Top * d + m BY <1>1
<1> HIDE DEF d, m
<1>3. ASSUME x = m PROVE Cong(x, y)
  <2>1. y = x + d * Top BY <1>1, <1>2, <1>3
  <2> QED BY <1>2, <2>1, CongMore
<1>4. ASSUME Cong(x, y) PROVE x = m
  <2>1. PICK q \in Int : x = y + q * Top BY <1>4 DEF Cong
  <2> DEFINE e == q + d
  <2>2. e \in Int /\ x - m = e * Top BY <1>1, <1>2, <2>1
  <2> HIDE DEF e
  <2>3. CASE e >= 1
    <3>1. 1 * Top <= e * Top BY <2>2, <2>3, <1>1, Monotone
    <3> QED BY <1>1, <1>2, <2>2, <3>1
  <2>4. CASE e <= -1
    <3>1. 1 * Top <= (-e) * Top BY <2>2, <2>4, <1>1, Monotone
    <3>2. (-e) * Top = -(e * Top) BY <1>1, <2>2
    <3>3. e * Top \in Int BY <1>1, <2>2
    <3> QED BY <1>1, <1>2, <2>2, <3>1, <3>2, <3>3
  <2>5. CASE e = 0 BY <1>1, <1>2, <2>2, <2>5
  <2> QED BY <2>2, <2>3, <2>4, <2>5
<1> QED BY <1>3, <1>4 DEF m

-----------------------------------------------------------------------------
\* The words of a product of two words, in their place.
Term(x, y, i, j) == _lshift_word(bignum_from_uint64_t(x[i] * y[j]), i + j)

LEMMA TermValue ==
    ASSUME NEW x \in Bn, NEW y \in Bn, NEW i \in Index, NEW j \in Index, i + j < ArraySize
    PROVE  /\ Term(x, y, i, j) \in Bn
           /\ Cong(Value(Term(x, y, i, j)), Weight[i] * x[i] * (y[j] * Weight[j]))
<1> DEFINE v == x[i] * y[j]
           n == bignum_from_uint64_t(v)
           p == i + j
           m == ArraySize - p
<1>1. x[i] \in Nat /\ x[i] < Base /\ y[j] \in Nat /\ y[j] < Base /\ Base \in Nat BY AtWord
<1>2. v \in Nat /\ v < Base * Base
  <2> DEFINE s == x[i]
             t == y[j]
  <2>1. s \in Nat /\ t \in Nat /\ s < Base /\ t < Base BY <1>1
  <2> HIDE DEF s, t
  <2>2. t * s \in Nat /\ t * Base \in Nat /\ Base * Base \in Nat /\ s * t = t * s BY <2>1, <1>1
  <2>3. s * t <= Base * t BY <2>1, <1>1, Monotone
  <2>4. t * Base <= (Base - 1) * Base BY <2>1, <1>1, Monotone
  <2>5. (Base - 1) * Base = Base * Base - Base /\ Base * t = t * Base /\ (Base - 1) * Base \in Int
    BY <2>1, <1>1
  <2>6. s * t < Base * Base BY <2>1, <2>2, <2>3, <2>4, <2>5, <1>1
  <2> QED BY <2>2, <2>6 DEF s, t
<1>3. n \in Bn /\ Value(n) = v
  <2> HIDE DEF v
  <2> QED BY <1>2, TwoWords
<1>4. i \in Nat /\ j \in Nat /\ p \in 0 .. ArraySize /\ m \in 0 .. ArraySize /\ p + m = ArraySize
      /\ i \in 0 .. ArraySize /\ j \in 0 .. ArraySize
  BY Wordly DEF Index
<1> DEFINE l == Term(x, y, i, j)
<1>5. l \in Bn /\ Value(l) = Weight[p] * Values(n)[m]
  <2> HIDE DEF n, m, p
  <2>1. _lshift_word(n, p) \in Bn
        /\ Value(_lshift_word(n, p)) = Weight[p] * Values(n)[ArraySize - p]
    BY <1>3, <1>4, ShiftWords
  <2> QED BY <2>1 DEF Term, n, m, p
<1>6. Weight[p] = Weight[i] * Weight[j] /\ Weight[p] * Weight[m] = Top
  <2>1. p <= ArraySize /\ p + m <= ArraySize BY <1>4
  <2>2. Weight[p] = Weight[i] * Weight[j] BY <1>4, <2>1, WeightSum
  <2>3. Weight[p + m] = Weight[p] * Weight[m]
    <3> HIDE DEF p, m
    <3> QED BY <1>4, <2>1, WeightSum
  <2> QED BY <1>4, <2>2, <2>3, ValueRange
<1>7. PICK q \in Nat : v = Values(n)[m] + q * Weight[m]
  <2> HIDE DEF n, m
  <2> QED BY <1>3, <1>4, LowWords
<1>8. Values(n)[m] \in Nat /\ Weight[p] \in Nat /\ Weight[m] \in Nat
      /\ Weight[i] \in Nat /\ Weight[j] \in Nat
  <2> HIDE DEF n, m, p
  <2> QED BY <1>3, <1>4, ValueSteps, WeightSteps
<1> DEFINE low == Values(n)[m]
           wp == Weight[p]
           wm == Weight[m]
<1>9. wp * low = wp * v + (-q) * Top
  <2>1. wp \in Nat /\ wm \in Nat /\ low \in Nat /\ v = low + q * wm /\ wp * wm = Top
    BY <1>6, <1>7, <1>8
  <2> HIDE DEF wp, wm, low, v
  <2>2. wp * (low + q * wm) = wp * low + q * (wp * wm) BY <2>1
  <2>3. wp * low \in Nat /\ q * Top \in Int /\ (-q) * Top = -(q * Top) BY <2>1, ValueRange
  <2> QED BY <2>1, <2>2, <2>3
<1>10. wp * v = Weight[i] * x[i] * (y[j] * Weight[j])
  <2> DEFINE s == x[i]
             t == y[j]
             wi == Weight[i]
             wj == Weight[j]
  <2>1. s \in Nat /\ t \in Nat /\ wi \in Nat /\ wj \in Nat BY <1>1, <1>8
  <2>2. wp * v = (wi * wj) * (s * t) BY <1>6
  <2> HIDE DEF s, t, wi, wj, wp, v
  <2>3. (wi * wj) * (s * t) = wi * s * (t * wj) BY <2>1
  <2> QED BY <2>2, <2>3 DEF s, t, wi, wj
<1>11. Value(l) = wp * v + (-q) * Top BY <1>5, <1>9
<1>12. Cong(Value(l), wp * v)
  <2>1. wp * v \in Int /\ -q \in Int
    <3> HIDE DEF wp, v
    <3> QED BY <1>2, <1>8 DEF wp
  <2> HIDE DEF wp, v, l
  <2> QED BY <1>11, <2>1, CongMore
<1> QED BY <1>5, <1>10, <1>12

\* The recursion of a row of the multiplication.
LEMMA RowSteps ==
    ASSUME NEW x \in Bn, NEW y \in Bn, NEW i \in Index
    PROVE  \E sum \in [0 .. ArraySize - i -> Bn] :
              /\ sum[0] = bignum_init
              /\ \A j \in Index : i + j < ArraySize =>
                    sum[j + 1] = bignum_add(Term(x, y, i, j), sum[j])
              /\ Row(x, y, i) = sum[ArraySize - i]
<1> DEFINE n == ArraySize - i
           R(g) == g = [j \in 0 .. n |-> IF j = 0 THEN bignum_init
                     ELSE bignum_add(
                            _lshift_word(bignum_from_uint64_t(x[i] * y[j - 1]), i + j - 1),
                            g[j - 1])]
           T(g) == g = [j \in 0 .. n |-> IF j = 0 THEN bignum_init
                                         ELSE bignum_add(Term(x, y, i, j - 1), g[j - 1])]
           step == [p \in (1 .. n) \X Bn |-> bignum_add(Term(x, y, i, p[1] - 1), p[2])]
<1>1. n \in Nat /\ n >= 1 /\ i \in Nat /\ i < ArraySize /\ ArraySize \in Nat BY Wordly DEF Index
<1>2. ASSUME NEW j \in 1 .. n
      PROVE  /\ j - 1 \in Index /\ i + (j - 1) < ArraySize /\ j - 1 \in 0 .. n
             /\ Term(x, y, i, j - 1) \in Bn
             /\ Term(x, y, i, j - 1)
                  = _lshift_word(bignum_from_uint64_t(x[i] * y[j - 1]), i + j - 1)
  <2>1. j - 1 \in Index /\ i + (j - 1) < ArraySize /\ j - 1 \in 0 .. n /\ i + (j - 1) = i + j - 1
    BY <1>1 DEF Index
  <2> HIDE DEF n
  <2>2. Term(x, y, i, j - 1) \in Bn BY <2>1, TermValue
  <2> QED BY <2>1, <2>2 DEF Term
<1> HIDE DEF n
<1>3. step \in [(1 .. n) \X Bn -> Bn]
  <2>1. ASSUME NEW p \in (1 .. n) \X Bn PROVE bignum_add(Term(x, y, i, p[1] - 1), p[2]) \in Bn
    <3>1. p[1] \in 1 .. n /\ p[2] \in Bn OBVIOUS
    <3> QED BY <1>2, <3>1, AddWords
  <2> QED BY <2>1
<1>4. bignum_init \in Bn BY ZeroValue
<1>5. PICK f \in [0 .. n -> Bn] : Facts!Follows(f, n, bignum_init, step)
  <2> HIDE DEF step
  <2> QED BY <1>1, <1>3, <1>4, Facts!Recursion
<1>6. T(f)
  <2>1. ASSUME NEW k \in 0 .. n
        PROVE  f[k] = IF k = 0 THEN bignum_init ELSE bignum_add(Term(x, y, i, k - 1), f[k - 1])
    <3>1. CASE k = 0 BY <1>5, <3>1 DEF Facts!Follows
    <3>2. CASE k # 0
      <4>1. k \in 1 .. n /\ k - 1 \in 0 .. n BY <3>2, <1>1
      <4>2. <<k, f[k - 1]>> \in (1 .. n) \X Bn BY <4>1
      <4>3. f[k] = step[<<k, f[k - 1]>>] BY <1>5, <4>1 DEF Facts!Follows
      <4>4. step[<<k, f[k - 1]>>] = bignum_add(Term(x, y, i, k - 1), f[k - 1]) BY <4>2
      <4> QED BY <3>2, <4>3, <4>4
    <3> QED BY <3>1, <3>2
  <2> QED BY <2>1
<1>7. ASSUME NEW g PROVE T(g) <=> R(g)
  <2>1. [j \in 0 .. n |-> IF j = 0 THEN bignum_init
                     ELSE bignum_add(
                            _lshift_word(bignum_from_uint64_t(x[i] * y[j - 1]), i + j - 1),
                            g[j - 1])]
          = [j \in 0 .. n |-> IF j = 0 THEN bignum_init
                                         ELSE bignum_add(Term(x, y, i, j - 1), g[j - 1])]
    <3>1. ASSUME NEW j \in 0 .. n, j # 0
          PROVE  Term(x, y, i, j - 1)
                   = _lshift_word(bignum_from_uint64_t(x[i] * y[j - 1]), i + j - 1)
      <4>1. j \in 1 .. n BY <1>1, <3>1
      <4> QED BY <1>2, <4>1
    <3> QED BY <3>1
  <2> QED BY <2>1
<1> DEFINE sum == CHOOSE g : R(g)
<1>8. R(sum)
  <2> HIDE DEF R, T
  <2>1. R(f) BY <1>6, <1>7
  <2> QED BY <2>1, Zenon
<1>9. Row(x, y, i) = sum[n] BY DEF Row, n
<1> HIDE DEF sum
<1>10. T(sum)
  <2> HIDE DEF R, T
  <2> QED BY <1>7, <1>8
<1>11. \A k \in 0 .. n : sum[k] = IF k = 0 THEN bignum_init
                                  ELSE bignum_add(Term(x, y, i, k - 1), sum[k - 1])
  BY <1>10, Zenon
<1> DEFINE S == {k \in Nat : sum[k] \in Bn}
<1>12. 0 \in S BY <1>1, <1>4, <1>11
<1>13. ASSUME NEW k \in Nat, k < n, k \in S PROVE k + 1 \in S
  <2>1. k + 1 \in 1 .. n /\ k + 1 \in 0 .. n /\ k + 1 # 0 /\ (k + 1) - 1 = k BY <1>1, <1>13
  <2>2. sum[k + 1] = bignum_add(Term(x, y, i, k), sum[k]) BY <1>11, <2>1
  <2>3. Term(x, y, i, k) \in Bn BY <1>2, <2>1
  <2>4. sum[k] \in Bn BY <1>13
  <2> QED BY <2>2, <2>3, <2>4, AddWords
<1>14. \A k \in 0 .. n : k \in S
  <2> HIDE DEF S
  <2> QED BY <1>1, <1>12, <1>13, Upto
<1>15. sum \in [0 .. n -> Bn]
  <2>1. \A k \in 0 .. n : sum[k] \in Bn BY <1>14
  <2>2. sum = [k \in 0 .. n |-> sum[k]] BY <1>10
  <2> QED BY <2>1, <2>2
<1>16. ASSUME NEW j \in Index, i + j < ArraySize
       PROVE  sum[j + 1] = bignum_add(Term(x, y, i, j), sum[j])
  <2>1. j + 1 \in 0 .. n /\ j + 1 # 0 /\ (j + 1) - 1 = j BY <1>1, <1>16 DEF Index, n
  <2> QED BY <1>11, <2>1
<1>17. sum[0] = bignum_init BY <1>1, <1>11
<1> QED BY <1>9, <1>15, <1>16, <1>17 DEF n

\* A row is the product of a word, in its place, with a number.
LEMMA RowValue ==
    ASSUME NEW x \in Bn, NEW y \in Bn, NEW i \in Index
    PROVE  /\ Row(x, y, i) \in Bn
           /\ Cong(Value(Row(x, y, i)), Weight[i] * x[i] * Value(y))
<1> DEFINE n == ArraySize - i
           f == Weight[i] * x[i]
<1>1. n \in Nat /\ n >= 1 /\ i \in Nat /\ i < ArraySize /\ ArraySize \in Nat /\ n \in 0 .. ArraySize
      /\ i \in 0 .. ArraySize /\ i + n = ArraySize
  BY Wordly DEF Index
<1>2. f \in Nat BY AtWord
<1>3. PICK sum \in [0 .. n -> Bn] :
              /\ sum[0] = bignum_init
              /\ \A j \in Index : i + j < ArraySize =>
                    sum[j + 1] = bignum_add(Term(x, y, i, j), sum[j])
              /\ Row(x, y, i) = sum[n]
  BY RowSteps
<1> DEFINE S == {k \in Nat : Cong(Value(sum[k]), f * Values(y)[k])}
<1>4. 0 \in S
  <2>1. Values(y)[0] = 0 BY ValueSteps
  <2>2. f * 0 = 0 /\ Cong(0, 0)
    <3> HIDE DEF f
    <3> QED BY <1>2, CongMore
  <2> QED BY <1>3, <2>1, <2>2, ZeroValue
<1>5. ASSUME NEW k \in Nat, k < n, k \in S PROVE k + 1 \in S
  <2>1. k \in Index /\ i + k < ArraySize /\ k \in 0 .. n BY <1>1, <1>5 DEF Index
  <2>2. sum[k + 1] = bignum_add(Term(x, y, i, k), sum[k]) BY <1>3, <2>1
  <2> DEFINE t == Term(x, y, i, k)
             s == sum[k]
             w == y[k] * Weight[k]
             v == Values(y)[k]
  <2>3. t \in Bn /\ Cong(Value(t), f * w) BY <2>1, TermValue
  <2>4. s \in Bn /\ Cong(Value(s), f * v) BY <1>3, <1>5, <2>1
  <2>5. w \in Nat /\ v \in Nat /\ Values(y)[k + 1] = v + w BY <2>1, AtWord
  <2>6. Value(t) \in Nat /\ Value(s) \in Nat /\ Top \in Nat /\ Top > 0 BY <2>3, <2>4, ValueRange
  <2> DEFINE u == bignum_add(t, s)
  <2>7. u \in Bn /\ Value(u) = (Value(t) + Value(s)) % Top BY <2>3, <2>4, AddValue
  <2>8. Value(u) \in Nat /\ Value(u) < Top BY <2>7, ValueRange
  <2> HIDE DEF u, t, s, w, v, f
  <2>9. Value(t) + Value(s) \in Int BY <2>6
  <2>10. Cong(Value(u), Value(t) + Value(s)) BY <2>7, <2>8, <2>9, CongMod
  <2>11. f * w \in Int /\ f * v \in Int BY <1>2, <2>5
  <2>12. Cong(Value(t) + Value(s), f * w + f * v) BY <2>3, <2>4, <2>6, <2>11, CongAdd
  <2>13. f * w + f * v \in Int /\ f * w + f * v = f * (v + w) BY <1>2, <2>5, <2>11
  <2>14. Cong(Value(u), f * w + f * v) BY <2>8, <2>9, <2>10, <2>12, <2>13, CongTrans
  <2> QED BY <2>2, <2>5, <2>13, <2>14 DEF u, t, s
<1>6. \A k \in 0 .. n : k \in S
  <2> HIDE DEF S, n
  <2> QED BY <1>1, <1>4, <1>5, Upto
<1> DEFINE r == Row(x, y, i)
           low == Values(y)[n]
<1>7. r \in Bn /\ Cong(Value(r), f * low)
  <2>1. n \in 0 .. n BY <1>1
  <2>2. n \in S BY <1>6, <2>1
  <2> HIDE DEF n, f
  <2> QED BY <1>3, <2>1, <2>2
<1>8. PICK q \in Nat : Value(y) = low + q * Weight[n]
  <2> HIDE DEF n
  <2> QED BY <1>1, LowWords
<1>9. Weight[i] * Weight[n] = Top
  <2> HIDE DEF n
  <2>1. Weight[i + n] = Weight[i] * Weight[n] BY <1>1, WeightSum
  <2> QED BY <1>1, <2>1, ValueRange
<1>10. f * Value(y) = f * low + (x[i] * q) * Top
  <2> DEFINE wi == Weight[i]
             wn == Weight[n]
             xi == x[i]
  <2>1. wi \in Nat /\ wn \in Nat /\ xi \in Nat /\ low \in Nat
    BY <1>1, AtWord, WeightSteps, ValueSteps
  <2>2. Value(y) = low + q * wn /\ wi * wn = Top BY <1>8, <1>9
  <2> HIDE DEF wi, wn, xi, low, n
  <2>3. (wi * xi) * (low + q * wn) = (wi * xi) * low + (xi * q) * (wi * wn) BY <2>1
  <2> QED BY <2>2, <2>3 DEF wi, wn, xi, low
<1>11. low \in Nat /\ Value(r) \in Nat /\ x[i] \in Nat /\ Top \in Nat
  BY <1>1, <1>7, ValueSteps, ValueRange, AtWord
<1>12. Cong(f * low, f * Value(y))
  <2>1. f * low \in Int /\ x[i] * q \in Int
    <3> HIDE DEF f, low
    <3> QED BY <1>2, <1>11
  <2> HIDE DEF f, low
  <2> QED BY <1>10, <2>1, CongMore
<1>13. Value(y) \in Nat BY ValueRange
<1> HIDE DEF f, low, r
<1>14. f * low \in Int /\ f * Value(y) \in Int BY <1>2, <1>11, <1>13
<1>15. Cong(Value(r), f * Value(y)) BY <1>7, <1>11, <1>12, <1>14, CongTrans
<1> QED BY <1>7, <1>15 DEF f, r

\* The recursion of the multiplication.
LEMMA MulSteps ==
    ASSUME NEW x \in Bn, NEW y \in Bn
    PROVE  \E total \in [0 .. ArraySize -> Bn] :
              /\ total[0] = bignum_init
              /\ \A i \in Index : total[i + 1] = bignum_add(total[i], Row(x, y, i))
              /\ bignum_mul(x, y) = total[ArraySize]
<1> DEFINE n == ArraySize
           R(g) == g = [i \in 0 .. ArraySize |-> IF i = 0 THEN bignum_init
                                         ELSE bignum_add(g[i - 1], Row(x, y, i - 1))]
           step == [p \in (1 .. n) \X Bn |-> bignum_add(p[2], Row(x, y, p[1] - 1))]
<1>1. n \in Nat /\ n >= 1 /\ n = ArraySize BY Wordly
<1>2. ASSUME NEW i \in 1 .. n PROVE i - 1 \in Index /\ i - 1 \in 0 .. n /\ Row(x, y, i - 1) \in Bn
  <2>1. i - 1 \in Index /\ i - 1 \in 0 .. n BY <1>1 DEF Index
  <2> QED BY <2>1, RowValue
<1>3. step \in [(1 .. n) \X Bn -> Bn]
  <2>1. ASSUME NEW p \in (1 .. n) \X Bn PROVE bignum_add(p[2], Row(x, y, p[1] - 1)) \in Bn
    <3>1. p[1] \in 1 .. n /\ p[2] \in Bn OBVIOUS
    <3> HIDE DEF n
    <3> QED BY <1>2, <3>1, AddWords
  <2> QED BY <2>1
<1>4. bignum_init \in Bn BY ZeroValue
<1> HIDE DEF n
<1>5. PICK f \in [0 .. n -> Bn] : Facts!Follows(f, n, bignum_init, step)
  <2> HIDE DEF step
  <2> QED BY <1>1, <1>3, <1>4, Facts!Recursion
<1>6. R(f)
  <2>1. ASSUME NEW k \in 0 .. n
        PROVE  f[k] = IF k = 0 THEN bignum_init ELSE bignum_add(f[k - 1], Row(x, y, k - 1))
    <3>1. CASE k = 0 BY <1>5, <3>1 DEF Facts!Follows
    <3>2. CASE k # 0
      <4>1. k \in 1 .. n /\ k - 1 \in 0 .. n BY <3>2, <1>1
      <4>2. <<k, f[k - 1]>> \in (1 .. n) \X Bn BY <4>1
      <4>3. f[k] = step[<<k, f[k - 1]>>] BY <1>5, <4>1 DEF Facts!Follows
      <4>4. step[<<k, f[k - 1]>>] = bignum_add(f[k - 1], Row(x, y, k - 1)) BY <4>2
      <4> QED BY <3>2, <4>3, <4>4
    <3> QED BY <3>1, <3>2
  <2> QED BY <2>1, <1>1
<1> DEFINE total == CHOOSE g : R(g)
<1>7. R(total)
  <2> HIDE DEF R
  <2> QED BY <1>6, Zenon
<1>8. bignum_mul(x, y) = total[n] BY DEF bignum_mul, n
<1> HIDE DEF total
<1>9. \A k \in 0 .. n : total[k] = IF k = 0 THEN bignum_init
                                   ELSE bignum_add(total[k - 1], Row(x, y, k - 1))
  BY <1>1, <1>7, Zenon
<1> DEFINE S == {k \in Nat : total[k] \in Bn}
<1>10. 0 \in S BY <1>1, <1>4, <1>9
<1>11. ASSUME NEW k \in Nat, k < n, k \in S PROVE k + 1 \in S
  <2>1. k + 1 \in 1 .. n /\ k + 1 \in 0 .. n /\ k + 1 # 0 /\ (k + 1) - 1 = k BY <1>1, <1>11
  <2>2. total[k + 1] = bignum_add(total[k], Row(x, y, k)) BY <1>9, <2>1
  <2>3. Row(x, y, k) \in Bn BY <1>2, <2>1
  <2>4. total[k] \in Bn BY <1>11
  <2> QED BY <2>2, <2>3, <2>4, AddWords
<1>12. \A k \in 0 .. n : k \in S
  <2> HIDE DEF S
  <2> QED BY <1>1, <1>10, <1>11, Upto
<1>13. total \in [0 .. n -> Bn]
  <2>1. \A k \in 0 .. n : total[k] \in Bn BY <1>12
  <2>2. total = [k \in 0 .. n |-> total[k]] BY <1>1, <1>7
  <2> QED BY <2>1, <2>2
<1>14. ASSUME NEW i \in Index PROVE total[i + 1] = bignum_add(total[i], Row(x, y, i))
  <2>1. i + 1 \in 0 .. n /\ i + 1 # 0 /\ (i + 1) - 1 = i BY <1>1 DEF Index
  <2> QED BY <1>9, <2>1
<1>15. total[0] = bignum_init BY <1>1, <1>9
<1> QED BY <1>1, <1>8, <1>13, <1>14, <1>15

\* The long multiplication multiplies, modulo the width.
LEMMA MulValue ==
    ASSUME NEW x \in Bn, NEW y \in Bn
    PROVE  /\ bignum_mul(x, y) \in Bn
           /\ Value(bignum_mul(x, y)) = (Value(x) * Value(y)) % Top
<1>1. ArraySize \in Nat BY Wordly
<1>2. PICK total \in [0 .. ArraySize -> Bn] :
              /\ total[0] = bignum_init
              /\ \A i \in Index : total[i + 1] = bignum_add(total[i], Row(x, y, i))
              /\ bignum_mul(x, y) = total[ArraySize]
  BY MulSteps
<1> DEFINE f == Value(y)
           S == {k \in Nat : Cong(Value(total[k]), f * Values(x)[k])}
<1>3. f \in Nat BY ValueRange
<1> HIDE DEF f
<1>4. 0 \in S
  <2>1. Values(x)[0] = 0 BY ValueSteps
  <2>2. f * 0 = 0 /\ Cong(0, 0) BY <1>3, CongMore
  <2> QED BY <1>2, <2>1, <2>2, ZeroValue
<1>5. ASSUME NEW k \in Nat, k < ArraySize, k \in S PROVE k + 1 \in S
  <2>1. k \in Index /\ k \in 0 .. ArraySize BY <1>1, <1>5 DEF Index
  <2>2. total[k + 1] = bignum_add(total[k], Row(x, y, k)) BY <1>2, <2>1
  <2> DEFINE t == Row(x, y, k)
             s == total[k]
             w == x[k] * Weight[k]
             v == Values(x)[k]
  <2>3. Weight[k] * x[k] = w BY <2>1, AtWord
  <2>4. w \in Nat /\ v \in Nat /\ Values(x)[k + 1] = v + w BY <2>1, AtWord
  <2>5. t \in Bn /\ Cong(Value(t), w * f)
    <3>1. t \in Bn /\ Cong(Value(t), Weight[k] * x[k] * Value(y)) BY <2>1, RowValue
    <3> HIDE DEF t, w
    <3> QED BY <2>3, <3>1 DEF f
  <2>6. s \in Bn /\ Cong(Value(s), f * v) BY <1>2, <1>5, <2>1
  <2>7. Value(t) \in Nat /\ Value(s) \in Nat /\ Top \in Nat /\ Top > 0 BY <2>5, <2>6, ValueRange
  <2> DEFINE u == bignum_add(s, t)
  <2>8. u \in Bn /\ Value(u) = (Value(s) + Value(t)) % Top BY <2>5, <2>6, AddValue
  <2>9. Value(u) \in Nat /\ Value(u) < Top BY <2>8, ValueRange
  <2> HIDE DEF u, t, s, w, v
  <2>10. Value(s) + Value(t) \in Int BY <2>7
  <2>11. Cong(Value(u), Value(s) + Value(t)) BY <2>8, <2>9, <2>10, CongMod
  <2>12. w * f \in Int /\ f * v \in Int BY <1>3, <2>4
  <2>13. Cong(Value(s) + Value(t), f * v + w * f) BY <2>5, <2>6, <2>7, <2>12, CongAdd
  <2>14. f * v + w * f \in Int /\ f * v + w * f = f * (v + w) BY <1>3, <2>4, <2>12
  <2>15. Cong(Value(u), f * v + w * f) BY <2>9, <2>10, <2>11, <2>13, <2>14, CongTrans
  <2> QED BY <2>2, <2>4, <2>14, <2>15 DEF u, t, s
<1>6. \A k \in 0 .. ArraySize : k \in S
  <2> HIDE DEF S
  <2> QED BY <1>1, <1>4, <1>5, Upto
<1> DEFINE p == bignum_mul(x, y)
<1>7. p \in Bn /\ Cong(Value(p), f * Value(x))
  <2>1. ArraySize \in S /\ ArraySize \in 0 .. ArraySize BY <1>1, <1>6
  <2> QED BY <1>2, <2>1 DEF Value
<1>8. Value(p) \in Nat /\ Value(p) < Top /\ Value(x) \in Nat BY <1>7, ValueRange
<1> HIDE DEF p
<1>9. f * Value(x) \in Int /\ f * Value(x) = Value(x) * f BY <1>3, <1>8
<1>10. Value(p) = (Value(x) * f) % Top BY <1>7, <1>8, <1>9, CongMod
<1> QED BY <1>7, <1>10 DEF f, p

\* The quotient and the remainder are the numbers that look like them.
LEMMA DivisionUnique ==
    ASSUME NEW x \in Nat, NEW y \in Nat, y > 0,
           NEW q \in Nat, NEW r \in Nat, r < y,
           x = y * q + r
    PROVE  q = x \div y /\ r = x % y
<1> DEFINE d == x \div y
           m == x % y
<1>1. d \in Int /\ m \in 0 .. y - 1 /\ x = y * d + m
  OBVIOUS
<1> HIDE DEF d, m
<1>2. y * (q - d) = m - r
  BY <1>1, SMTT(20)
<1>3. ~ (q - d >= 1)
  <2> SUFFICES ASSUME q - d >= 1 PROVE FALSE
    OBVIOUS
  <2> DEFINE e == q - d
  <2>1. e \in Int /\ e >= 1 /\ y * e = m - r
    BY <1>1, <1>2
  <2> HIDE DEF e
  <2>2. y * e >= y
    BY <2>1, SMTT(20)
  <2> QED
    BY <1>1, <2>1, <2>2
<1>4. ~ (d - q >= 1)
  <2> SUFFICES ASSUME d - q >= 1 PROVE FALSE
    OBVIOUS
  <2> DEFINE e == d - q
  <2>1. e \in Int /\ e >= 1 /\ y * e = r - m
    BY <1>1, <1>2
  <2> HIDE DEF e
  <2>2. y * e >= y
    BY <2>1, SMTT(20)
  <2> QED
    BY <1>1, <2>1, <2>2
<1>5. q = d
  BY <1>1, <1>3, <1>4
<1>6. r = m
  BY <1>1, <1>2, <1>5
<1> QED
  BY <1>5, <1>6 DEF d, m

-----------------------------------------------------------------------------
\* A power of two is an even multiple of every smaller one.
LEMMA Pow2Multiple ==
    ASSUME NEW t \in 0 .. WordBits
    PROVE  \A k \in 0 .. WordBits : t < k => \E m \in Nat : m >= 1 /\ Pow2[k] = 2 * m * Pow2[t]
<1> DEFINE S == {k \in Nat : t < k => \E m \in Nat : m >= 1 /\ Pow2[k] = 2 * m * Pow2[t]}
<1>1. WordBits \in Nat /\ t \in Nat /\ 0 \in S BY Wordly
<1>2. ASSUME NEW k \in Nat, k < WordBits, k \in S PROVE k + 1 \in S
  <2>1. k \in 0 .. WordBits /\ k + 1 \in 1 .. WordBits /\ (k + 1) - 1 = k BY <1>1, <1>2
  <2>2. Pow2[k + 1] = 2 * Pow2[k] /\ Pow2[k] \in Nat /\ Pow2[t] \in Nat BY <2>1, Pow2Steps
  <2>3. CASE t < k
    <3>1. PICK m \in Nat : m >= 1 /\ Pow2[k] = 2 * m * Pow2[t] BY <1>2, <2>3
    <3> DEFINE w == Pow2[t]
    <3>2. 2 * (2 * m * w) = 2 * (2 * m) * w
      <4>1. w \in Nat BY <2>2
      <4> HIDE DEF w
      <4> QED BY <4>1
    <3> DEFINE e == 2 * m
    <3>3. Pow2[k + 1] = 2 * e * Pow2[t] /\ e \in Nat /\ e >= 1 BY <2>2, <3>1, <3>2
    <3> HIDE DEF e
    <3> QED BY <3>3
  <2>4. CASE t = k
    <3>1. Pow2[k + 1] = 2 * 1 * Pow2[t] BY <2>2, <2>4
    <3> QED BY <3>1
  <2>5. CASE k < t
    <3>1. ~(t < k + 1) BY <1>1, <2>5
    <3> QED BY <3>1
  <2> QED BY <1>1, <2>3, <2>4, <2>5
<1>3. \A k \in 0 .. WordBits : k \in S
  <2> HIDE DEF S
  <2> QED BY <1>1, <1>2, Upto
<1> QED BY <1>3

\* One more bit of a number.
LEMMA OneMoreBit ==
    ASSUME NEW v \in Nat, NEW p \in Nat, p > 0
    PROVE  /\ v % p \in Nat /\ (v \div p) \in Nat /\ (v \div p) % 2 \in 0 .. 1
           /\ v % (2 * p) = (v % p) + ((v \div p) % 2) * p
<1> DEFINE d == v \div p
           m == v % p
<1>1. d \in Int /\ m \in 0 .. p - 1 /\ v = p * d + m OBVIOUS
<1>2. d \in Nat
  <2> HIDE DEF d, m
  <2> SUFFICES ASSUME d <= -1 PROVE FALSE BY <1>1
  <2>1. 1 * p <= (-d) * p BY <1>1, Monotone
  <2>2. (-d) * p = -(p * d) /\ p * d \in Int BY <1>1
  <2> QED BY <1>1, <2>1, <2>2
<1> HIDE DEF d, m
<1> DEFINE e == d \div 2
           bit == d % 2
<1>3. e \in Nat /\ bit \in 0 .. 1 /\ d = 2 * e + bit BY <1>2
<1> HIDE DEF e, bit
<1>4. bit * p \in Nat /\ m + bit * p \in 0 .. 2 * p - 1
  <2>1. CASE bit = 0 BY <2>1, <1>1
  <2>2. CASE bit = 1 BY <2>2, <1>1
  <2> QED BY <1>3, <2>1, <2>2
<1>5. v = (2 * p) * e + (m + bit * p)
  <2>1. p * (2 * e + bit) + m = (2 * p) * e + (m + bit * p) BY <1>1, <1>3
  <2> QED BY <1>1, <1>3, <2>1
<1>6. v % (2 * p) = m + bit * p
  <2> DEFINE y == 2 * p
             r == m + bit * p
  <2>1. y \in Nat /\ y > 0 /\ r \in Nat /\ r < y /\ v = y * e + r BY <1>4, <1>5
  <2> HIDE DEF y, r
  <2>2. r = v % y BY <1>3, <2>1, DivisionUnique
  <2> QED BY <2>2 DEF y, r
<1> QED BY <1>1, <1>2, <1>3, <1>6 DEF d, m, bit

\* The recursion of the code's |.
LEMMA OrSteps ==
    ASSUME NEW v \in Nat, NEW w \in Nat
    PROVE  \E bits \in [0 .. WordBits -> Nat] :
              /\ bits[0] = 0
              /\ \A k \in 1 .. WordBits :
                    bits[k] = bits[k - 1] + IF HasBit(v, k - 1) \/ HasBit(w, k - 1)
                                              THEN Pow2[k - 1] ELSE 0
              /\ Or(v, w) = bits[WordBits]
<1> DEFINE n == WordBits
           R(g) == g = [k \in 0 .. WordBits |->
                          IF k = 0 THEN 0
                          ELSE g[k - 1] + IF HasBit(v, k - 1) \/ HasBit(w, k - 1)
                                            THEN Pow2[k - 1] ELSE 0]
           more(k) == IF HasBit(v, k) \/ HasBit(w, k) THEN Pow2[k] ELSE 0
           step == [p \in (1 .. n) \X Nat |-> p[2] + more(p[1] - 1)]
<1>1. n \in Nat /\ n = WordBits BY Wordly
<1>2. ASSUME NEW k \in 1 .. n PROVE more(k - 1) \in Nat /\ k - 1 \in 0 .. n
  <2>1. k - 1 \in 0 .. WordBits BY <1>1
  <2>2. Pow2[k - 1] \in Nat BY <2>1, Pow2Steps
  <2> QED BY <2>1, <2>2
<1> HIDE DEF n, more
<1>3. step \in [(1 .. n) \X Nat -> Nat]
  <2>1. ASSUME NEW p \in (1 .. n) \X Nat PROVE p[2] + more(p[1] - 1) \in Nat
    <3>1. p[1] \in 1 .. n /\ p[2] \in Nat OBVIOUS
    <3>2. more(p[1] - 1) \in Nat BY <1>2, <3>1
    <3> QED BY <3>1, <3>2
  <2> QED BY <2>1
<1>4. PICK f \in [0 .. n -> Nat] : Facts!Follows(f, n, 0, step)
  <2> HIDE DEF step
  <2> QED BY <1>1, <1>3, Facts!Recursion
<1>5. R(f)
  <2>1. ASSUME NEW k \in 0 .. n
        PROVE  f[k] = IF k = 0 THEN 0 ELSE f[k - 1] + more(k - 1)
    <3>1. CASE k = 0 BY <1>4, <3>1 DEF Facts!Follows
    <3>2. CASE k # 0
      <4>1. k \in 1 .. n /\ k - 1 \in 0 .. n BY <3>2, <1>1
      <4>2. <<k, f[k - 1]>> \in (1 .. n) \X Nat BY <4>1
      <4>3. f[k] = step[<<k, f[k - 1]>>] BY <1>4, <4>1 DEF Facts!Follows
      <4>4. step[<<k, f[k - 1]>>] = f[k - 1] + more(k - 1) BY <4>2
      <4> QED BY <3>2, <4>3, <4>4
    <3> QED BY <3>1, <3>2
  <2> QED BY <2>1, <1>1 DEF more
<1> DEFINE bits == CHOOSE g : R(g)
<1>6. R(bits)
  <2> HIDE DEF R
  <2> QED BY <1>5, Zenon
<1>7. Or(v, w) = bits[n] BY DEF Or, n
<1> HIDE DEF bits
<1>8. \A k \in 0 .. n : bits[k] = IF k = 0 THEN 0 ELSE bits[k - 1] + more(k - 1)
  <2>1. R(bits) <=> bits = [k \in 0 .. n |-> IF k = 0 THEN 0 ELSE bits[k - 1] + more(k - 1)]
    BY DEF more, n
  <2> HIDE DEF R
  <2> QED BY <1>6, <2>1, Zenon
<1> DEFINE S == {k \in Nat : bits[k] \in Nat}
<1>9. 0 \in S BY <1>1, <1>8
<1>10. ASSUME NEW k \in Nat, k < n, k \in S PROVE k + 1 \in S
  <2>1. k + 1 \in 1 .. n /\ k + 1 \in 0 .. n /\ k + 1 # 0 /\ (k + 1) - 1 = k BY <1>1, <1>10
  <2>2. bits[k + 1] = bits[k] + more(k) BY <1>8, <2>1
  <2>3. more(k) \in Nat BY <1>2, <2>1
  <2> QED BY <1>10, <2>2, <2>3
<1>11. \A k \in 0 .. n : k \in S
  <2> HIDE DEF S
  <2> QED BY <1>1, <1>9, <1>10, Upto
<1>12. bits \in [0 .. n -> Nat]
  <2>1. \A k \in 0 .. n : bits[k] \in Nat BY <1>11
  <2>2. bits = [k \in 0 .. n |-> bits[k]] BY <1>1, <1>6
  <2> QED BY <2>1, <2>2
<1>13. ASSUME NEW k \in 1 .. n PROVE bits[k] = bits[k - 1] + more(k - 1)
  <2>1. k \in 0 .. n /\ k # 0 BY <1>1
  <2> QED BY <1>8, <2>1
<1>14. bits[0] = 0 BY <1>1, <1>8
<1> QED BY <1>1, <1>7, <1>12, <1>13, <1>14 DEF more

\* Words without a common bit: | adds them.
LEMMA OrAdds ==
    ASSUME NEW v \in Word, NEW w \in Word,
           \A k \in 0 .. WordBits - 1 : ~(HasBit(v, k) /\ HasBit(w, k))
    PROVE  Or(v, w) = v + w
<1>1. v \in Nat /\ w \in Nat /\ v < Base /\ w < Base /\ WordBits \in Nat /\ Base = Pow2[WordBits]
      /\ Base \in Nat
  BY BaseFacts, Wordly DEF Word
<1>2. PICK bits \in [0 .. WordBits -> Nat] :
              /\ bits[0] = 0
              /\ \A k \in 1 .. WordBits :
                    bits[k] = bits[k - 1] + IF HasBit(v, k - 1) \/ HasBit(w, k - 1)
                                              THEN Pow2[k - 1] ELSE 0
              /\ Or(v, w) = bits[WordBits]
  BY <1>1, OrSteps
<1> DEFINE low(u, k) == u % Pow2[k]
           S == {k \in Nat : bits[k] = low(v, k) + low(w, k)}
<1>3. 0 \in S BY <1>1, <1>2, Pow2Steps
<1>4. ASSUME NEW k \in Nat, k < WordBits, k \in S PROVE k + 1 \in S
  <2>1. k \in 0 .. WordBits /\ k \in 0 .. WordBits - 1 /\ k + 1 \in 1 .. WordBits /\ (k + 1) - 1 = k
    BY <1>1, <1>4
  <2>2. bits[k + 1] = bits[k] + IF HasBit(v, k) \/ HasBit(w, k) THEN Pow2[k] ELSE 0
    BY <1>2, <2>1
  <2> DEFINE p == Pow2[k]
  <2>3. p \in Nat /\ p > 0 /\ Pow2[k + 1] = 2 * p BY <2>1, Pow2Steps
  <2> DEFINE bv == (v \div p) % 2
             bw == (w \div p) % 2
             mv == v % p
             mw == w % p
  <2>4. /\ bv \in 0 .. 1 /\ bw \in 0 .. 1 /\ mv \in Nat /\ mw \in Nat
        /\ low(v, k + 1) = mv + bv * p /\ low(w, k + 1) = mw + bw * p
        /\ low(v, k) = mv /\ low(w, k) = mw
    <3>1. /\ bv \in 0 .. 1 /\ bw \in 0 .. 1 /\ mv \in Nat /\ mw \in Nat
          /\ v % (2 * p) = mv + bv * p /\ w % (2 * p) = mw + bw * p
      <4> HIDE DEF p
      <4> QED BY <1>1, <2>3, OneMoreBit
    <3>2. low(v, k + 1) = v % (2 * p) /\ low(w, k + 1) = w % (2 * p) BY <2>3, Zenon
    <3> HIDE DEF p
    <3> QED BY <3>1, <3>2 DEF p
  <2>5. (HasBit(v, k) <=> bv = 1) /\ (HasBit(w, k) <=> bw = 1) BY DEF HasBit
  <2>6. ~(HasBit(v, k) /\ HasBit(w, k)) BY <2>1
  <2> HIDE DEF p, bv, bw, mv, mw, low
  <2>7. bits[k] = mv + mw BY <1>4, <2>4
  <2>8. bits[k + 1] = mv + mw + (IF bv = 1 \/ bw = 1 THEN p ELSE 0) BY <2>2, <2>5, <2>7 DEF p
  <2>9. CASE bv = 1 /\ bw = 0 BY <2>3, <2>4, <2>8, <2>9
  <2>10. CASE bv = 0 /\ bw = 1 BY <2>3, <2>4, <2>8, <2>10
  <2>11. CASE bv = 0 /\ bw = 0 BY <2>3, <2>4, <2>8, <2>11
  <2>12. ~(bv = 1 /\ bw = 1) BY <2>5, <2>6
  <2> QED BY <2>4, <2>9, <2>10, <2>11, <2>12
<1>5. \A k \in 0 .. WordBits : k \in S
  <2> HIDE DEF S
  <2> QED BY <1>1, <1>3, <1>4, Upto
<1>6. low(v, WordBits) = v /\ low(w, WordBits) = w
  <2>1. \A x, y \in Nat : x < y => x % y = x OBVIOUS
  <2>2. v % Base = v /\ w % Base = w BY <1>1, <2>1, Zenon
  <2> QED BY <1>1, <2>2, Zenon
<1> HIDE DEF low
<1>7. WordBits \in S BY <1>1, <1>5
<1> QED BY <1>2, <1>6, <1>7

\* A word with one bit, and a word without a lower one.
LEMMA OrOneBit ==
    ASSUME NEW k \in 0 .. WordBits - 1
    PROVE  /\ Pow2[k] \in Word
           /\ \A v \in Word : Or(v, 0) = v
           /\ \A v \in Word : (\E m \in Nat : v = m * Pow2[k + 1])
                 => Or(v, Pow2[k]) = v + Pow2[k] /\ v + Pow2[k] \in Word
<1> DEFINE p == Pow2[k]
<1>1. /\ WordBits \in Nat /\ k \in 0 .. WordBits /\ k + 1 \in 1 .. WordBits /\ (k + 1) - 1 = k
      /\ WordBits \in 0 .. WordBits /\ k < WordBits
  BY Wordly
<1>2. p \in Nat /\ p > 0 /\ Pow2[k + 1] = 2 * p BY <1>1, Pow2Steps
<1>3. PICK r \in Nat : r >= 1 /\ Base = 2 * r * p BY <1>1, Pow2Multiple, BaseFacts
<1>4. Base \in Nat /\ Word = 0 .. Base - 1 BY BaseFacts DEF Word
<1>5. p \in Word
  <2>1. 1 * p <= r * p /\ r * p \in Nat BY <1>2, <1>3, Monotone
  <2>2. 2 * r * p = 2 * (r * p) BY <1>2
  <2> HIDE DEF p
  <2> QED BY <1>2, <1>3, <1>4, <2>1, <2>2
<1> HIDE DEF p
<1>6. ASSUME NEW q \in Nat, NEW m \in Nat, q > 0 PROVE ((2 * m * q) \div q) % 2 = 0
  <2>1. 2 * m * q = q * (2 * m) + 0 /\ 2 * m * q \in Nat /\ 2 * m \in Nat BY <1>6
  <2>2. 2 * m = (2 * m * q) \div q BY <1>6, <2>1, DivisionUnique
  <2>3. (2 * m) % 2 = 0 OBVIOUS
  <2> QED BY <2>2, <2>3, Zenon
<1>7. ASSUME NEW v \in Word PROVE Or(v, 0) = v
  <2>1. ASSUME NEW t \in 0 .. WordBits - 1 PROVE ~HasBit(0, t)
    <3>1. t \in 0 .. WordBits BY <1>1
    <3>2. Pow2[t] \in Nat /\ Pow2[t] > 0 BY <3>1, Pow2Steps
    <3>3. 0 \div Pow2[t] = 0 BY <3>2
    <3> QED BY <3>3 DEF HasBit
  <2>2. 0 \in Word /\ v \in Nat BY <1>2, <1>4, <1>5
  <2>3. Or(v, 0) = v + 0 BY <2>1, <2>2, OrAdds
  <2> QED BY <2>2, <2>3
<1>8. ASSUME NEW v \in Word, NEW m \in Nat, v = m * Pow2[k + 1]
      PROVE  Or(v, p) = v + p /\ v + p \in Word
  <2>0. v = 2 * m * p BY <1>2, <1>8
  <2>1. ASSUME NEW t \in 0 .. WordBits - 1 PROVE ~(HasBit(v, t) /\ HasBit(p, t))
    <3>1. t \in 0 .. WordBits /\ t \in Nat /\ k \in Nat BY <1>1
    <3>2. Pow2[t] \in Nat /\ Pow2[t] > 0 BY <3>1, Pow2Steps
    <3>3. CASE t < k
      <4>1. PICK e \in Nat : p = 2 * e * Pow2[t] BY <1>1, <3>1, <3>3, Pow2Multiple DEF p
      <4>2. (p \div Pow2[t]) % 2 = 0 BY <1>6, <3>2, <4>1
      <4> QED BY <4>2 DEF HasBit
    <3>4. CASE t = k
      <4>1. (v \div p) % 2 = 0 BY <1>2, <1>6, <2>0
      <4> QED BY <3>4, <4>1 DEF HasBit, p
    <3>5. CASE t > k
      <4>1. PICK e \in Nat : e >= 1 /\ Pow2[t] = 2 * e * p BY <1>1, <3>1, <3>5, Pow2Multiple DEF p
      <4>2. 1 * p <= e * p /\ e * p \in Nat BY <1>2, <4>1, Monotone
      <4>3. 2 * e * p = 2 * (e * p) BY <1>2
      <4>4. p < Pow2[t] BY <1>2, <4>1, <4>2, <4>3
      <4>5. p \div Pow2[t] = 0 BY <1>2, <3>2, <4>4
      <4> QED BY <4>5 DEF HasBit
    <3> QED BY <3>1, <3>3, <3>4, <3>5
  <2>2. Or(v, p) = v + p BY <1>5, <2>1, OrAdds
  <2>3. v + p \in Word
    <3>1. m < r
      <4> SUFFICES ASSUME r <= m PROVE FALSE BY <1>3
      <4>1. r * (2 * p) <= m * (2 * p) /\ m * (2 * p) \in Nat BY <1>2, <1>3, Monotone
      <4>2. r * (2 * p) = 2 * r * p /\ m * (2 * p) = 2 * m * p BY <1>2, <1>3
      <4> QED BY <1>3, <1>4, <2>0, <4>1, <4>2
    <3>2. (m + 1) * (2 * p) <= r * (2 * p) /\ r * (2 * p) = Base
      <4>1. m + 1 <= r /\ m + 1 \in Nat BY <1>3, <3>1
      <4>2. (m + 1) * (2 * p) <= r * (2 * p) BY <1>2, <1>3, <4>1, Monotone
      <4>3. r * (2 * p) = 2 * r * p BY <1>2, <1>3
      <4> QED BY <1>3, <4>2, <4>3
    <3>3. (m + 1) * (2 * p) = 2 * m * p + 2 * p /\ 2 * m * p \in Nat BY <1>2
    <3> QED BY <1>2, <1>4, <2>0, <3>2, <3>3
  <2> QED BY <2>2, <2>3
<1> QED BY <1>5, <1>7, <1>8 DEF p

-----------------------------------------------------------------------------
\* The four lowest words of a number that has no more.
LEMMA FourWords ==
    ASSUME NEW n \in Bn, Value(n) < Weight[4]
    PROVE  bignum_to_uint128_t(n) = Value(n)
<1>1. /\ 0 \in Index /\ 1 \in Index /\ 2 \in Index /\ 3 \in Index /\ 4 \in 0 .. ArraySize
      /\ 0 + 1 = 1 /\ 1 + 1 = 2 /\ 2 + 1 = 3 /\ 3 + 1 = 4
  BY Wordly DEF Index
<1> DEFINE v(k) == Values(n)[k]
           t(k) == n[k] * Weight[k]
<1>2. v(0) = 0 /\ v(1) = v(0) + t(0) /\ v(2) = v(1) + t(1) /\ v(3) = v(2) + t(2)
      /\ v(4) = v(3) + t(3)
  BY <1>1, AtWord
<1>3. v(0) \in Nat /\ v(1) \in Nat /\ v(2) \in Nat /\ v(3) \in Nat
  BY <1>1, AtWord
<1>4. n[0] \in Nat /\ t(0) = n[0] * 1 /\ Weight[0] = 1 BY <1>1, AtWord, WeightSteps
<1>5. t(1) \in Nat /\ t(2) \in Nat /\ t(3) \in Nat
  <2>1. ASSUME NEW k \in Index PROVE t(k) \in Nat
    <3>1. n[k] \in Nat /\ Weight[k] \in Nat BY AtWord
    <3>2. \A x, y \in Nat : x * y \in Nat OBVIOUS
    <3> QED BY <3>1, <3>2
  <2> HIDE DEF t
  <2> QED BY <1>1, <2>1
<1>6. bignum_to_uint128_t(n) = n[0] + t(1) + t(2) + t(3) BY DEF bignum_to_uint128_t
<1>7. v(4) \in Nat /\ Weight[4] \in Nat BY <1>1, ValueSteps, WeightSteps
<1>8. PICK q \in Nat : Value(n) = v(4) + q * Weight[4] BY <1>1, LowWords
<1> DEFINE w == Weight[4]
<1>9. q = 0
  <2>1. w \in Nat /\ v(4) + q * w < w BY <1>7, <1>8
  <2> HIDE DEF v, w
  <2> SUFFICES ASSUME 1 <= q PROVE FALSE OBVIOUS
  <2>2. 1 * w <= q * w /\ q * w \in Nat BY <2>1, Monotone
  <2> QED BY <1>7, <2>1, <2>2
<1>10. Value(n) = v(4)
  <2>1. q * w = 0 BY <1>7, <1>9
  <2> HIDE DEF v
  <2> QED BY <1>7, <1>8, <2>1 DEF w
<1> HIDE DEF v, t
<1> QED BY <1>2, <1>3, <1>4, <1>5, <1>6, <1>10

\* An amount of four words goes into a number and comes out of it.
LEMMA AmountSurvives ==
    ASSUME NEW v \in Nat, v < Weight[4]
    PROVE  /\ uint128_t_to_bignum(v) \in Bn
           /\ Value(uint128_t_to_bignum(v)) = v
           /\ bignum_to_uint128_t(uint128_t_to_bignum(v)) = v
           /\ bignum_to_uint64_t(bignum_from_uint64_t(v % Weight[2])) = v % Weight[2]
<1> DEFINE w == Weight[2]
           lo == v % w
           hi == v \div w
<1>1. /\ 0 \in Index /\ 1 \in Index /\ 2 \in 0 .. ArraySize /\ 4 \in 0 .. ArraySize
      /\ ArraySize \in Nat /\ ArraySize - 2 \in 2 .. ArraySize /\ ArraySize - 4 \in 0 .. ArraySize
      /\ 0 + 1 = 1 /\ 1 + 1 = 2 /\ 2 + 2 = 4 /\ 4 + (ArraySize - 4) = ArraySize
      /\ 4 <= ArraySize
  BY Wordly DEF Index
<1>2. w \in Nat /\ w > 0 /\ w = Base * Base
  <2>1. Weight[1] = Base * 1 /\ Weight[2] = Base * Weight[1] /\ Base \in Nat
    BY <1>1, WeightSteps, BaseFacts
  <2>2. Weight[1] = Base BY <2>1
  <2> QED BY <1>1, <2>1, <2>2, WeightSteps
<1>3. Weight[4] = w * w BY <1>1, WeightSum
<1>4. Top >= Weight[4] /\ Weight[4] \in Nat /\ Top \in Nat
  <2> DEFINE x == Weight[4]
             y == Weight[ArraySize - 4]
  <2>1. x \in Nat /\ y \in Nat /\ y >= 1 BY <1>1, WeightSteps
  <2>2. Top = x * y
    <3>1. Weight[4 + (ArraySize - 4)] = x * y BY <1>1, WeightSum
    <3> QED BY <1>1, <3>1, ValueRange
  <2> HIDE DEF x, y
  <2>3. 1 * x <= y * x BY <2>1, Monotone
  <2> QED BY <2>1, <2>2, <2>3, ValueRange DEF x
<1> HIDE DEF w
<1>5. lo \in Nat /\ lo < w /\ hi \in Nat /\ v = w * hi + lo
  <2>1. lo \in 0 .. w - 1 /\ hi \in Int /\ v = w * hi + lo BY <1>2
  <2>2. hi \in Nat BY <1>2, OneMoreBit
  <2> QED BY <1>2, <2>1, <2>2
<1> HIDE DEF lo, hi
<1>6. hi < w
  <2> SUFFICES ASSUME w <= hi PROVE FALSE BY <1>2, <1>5
  <2>1. w * w <= hi * w /\ hi * w = w * hi /\ w * hi \in Nat BY <1>2, <1>5, Monotone
  <2> QED BY <1>2, <1>3, <1>4, <1>5, <2>1
<1> DEFINE x == bignum_from_uint64_t(lo)
           h == bignum_from_uint64_t(hi)
           y == _lshift_word(h, 2)
<1>7. x \in Bn /\ Value(x) = lo /\ bignum_to_uint64_t(x) = lo BY <1>2, <1>5, TwoWords
<1>8. h \in Bn /\ Values(h)[ArraySize - 2] = hi BY <1>1, <1>2, <1>5, <1>6, TwoWords
<1>9. y \in Bn /\ Value(y) = w * hi
  <2> HIDE DEF h
  <2> QED BY <1>1, <1>8, ShiftWords DEF w
<1> DEFINE n == bignum_add(x, y)
<1>10. n = uint128_t_to_bignum(v) BY DEF uint128_t_to_bignum, lo, hi, w
<1> HIDE DEF x, h, y
<1>11. n \in Bn /\ Value(n) = (Value(x) + Value(y)) % Top BY <1>7, <1>9, AddValue
<1>12. Value(n) = v
  <2>1. Value(x) + Value(y) = v
    <3>1. w * hi \in Nat BY <1>2, <1>5
    <3> QED BY <1>5, <1>7, <1>9, <3>1
  <2>2. \A r, s \in Nat : r < s => r % s = r OBVIOUS
  <2>3. v < Top BY <1>4
  <2> HIDE DEF n
  <2> QED BY <1>4, <1>11, <2>1, <2>2, <2>3
<1> HIDE DEF n
<1>13. bignum_to_uint128_t(n) = v BY <1>11, <1>12, FourWords
<1>14. bignum_to_uint64_t(bignum_from_uint64_t(v % Weight[2])) = v % Weight[2]
  BY <1>7 DEF x, lo, w
<1> QED BY <1>10, <1>11, <1>12, <1>13, <1>14

-----------------------------------------------------------------------------
\* The number of one bit: bit k of word j.
Bit(j, k) == [i \in Index |-> IF i = j THEN Pow2[k] ELSE 0]

Bits == 0 .. WordBits - 1

\* Where a shift moves the only bit.
LEMMA BitShifts ==
    ASSUME NEW j \in Index, NEW k \in Bits
    PROVE  /\ Bit(j, k) \in Bn
           /\ _lshift_one_bit(Bit(j, k)) =
                IF k + 1 \in Bits THEN Bit(j, k + 1)
                ELSE IF j + 1 \in Index THEN Bit(j + 1, 0) ELSE bignum_init
           /\ _rshift_one_bit(Bit(j, k)) =
                IF k > 0 THEN Bit(j, k - 1)
                ELSE IF j > 0 THEN Bit(j - 1, WordBits - 1) ELSE bignum_init
<1> DEFINE p == Pow2[k]
           n == Bit(j, k)
<1>1. /\ WordBits \in Nat /\ ArraySize \in Nat /\ k \in Nat /\ j \in Nat /\ k \in 0 .. WordBits
      /\ Index = 0 .. ArraySize - 1 /\ Bits = 0 .. WordBits - 1 /\ WordBits >= 1
  BY Wordly DEF Bits, Index
<1>2. /\ Base \in Nat /\ HalfMax \in Nat /\ HalfMax >= 1 /\ Base = 2 * HalfMax
      /\ HalfMax = Pow2[WordBits - 1] /\ Word = 0 .. Base - 1
  BY BaseFacts DEF Word
<1>3. p \in Nat /\ p > 0 /\ p < Base /\ p \in Word
  <2>1. p \in Nat /\ p > 0 BY <1>1, Pow2Steps
  <2>2. p \in Word BY <1>1, OrOneBit
  <2> QED BY <1>2, <2>1, <2>2
<1>4. n \in Bn /\ n[j] = p /\ \A i \in Index : i # j => n[i] = 0
  BY <1>2, <1>3 DEF Bn, Bit
<1>5. ASSUME k + 1 \in Bits
      PROVE  2 * p = Pow2[k + 1] /\ 2 * p < Base /\ p < HalfMax
             /\ p \div HalfMax = 0 /\ (2 * p) % Base = 2 * p
  <2>1. k + 1 \in 1 .. WordBits /\ (k + 1) - 1 = k BY <1>1, <1>5
  <2>2. 2 * p = Pow2[k + 1] BY <2>1, Pow2Steps
  <2>3. 2 * p \in Word BY <1>5, <2>2, <1>1, OrOneBit
  <2>4. 2 * p < Base /\ p < HalfMax BY <1>2, <1>3, <2>3
  <2> HIDE DEF p
  <2>5. 2 * p \in Nat BY <1>3
  <2>6. \A x, y \in Nat : x < y => x % y = x /\ x \div y = 0 OBVIOUS
  <2>7. (2 * p) % Base = 2 * p /\ p \div HalfMax = 0
    BY <1>2, <1>3, <2>4, <2>5, <2>6, Zenon
  <2> QED BY <2>2, <2>4, <2>7
<1>6. ASSUME k + 1 \notin Bits
      PROVE  p = HalfMax /\ p \div HalfMax = 1 /\ (2 * p) % Base = 0
  <2>1. k = WordBits - 1 BY <1>1, <1>6
  <2>2. p = HalfMax BY <1>2, <2>1
  <2>3. HalfMax \div HalfMax = 1 /\ (2 * HalfMax) % (2 * HalfMax) = 0 BY <1>2
  <2> HIDE DEF p
  <2> QED BY <1>2, <2>2, <2>3
<1>7. 0 % Base = 0 /\ 0 \div HalfMax = 0 BY <1>2
<1> HIDE DEF p, n
<1>8. _lshift_one_bit(n) =
                IF k + 1 \in Bits THEN Bit(j, k + 1)
                ELSE IF j + 1 \in Index THEN Bit(j + 1, 0) ELSE bignum_init
  <2> DEFINE out(i) == IF i = 0 THEN 0 ELSE n[i - 1] \div HalfMax
             r(i) == ((2 * n[i]) % Base) + out(i)
  <2>1. _lshift_one_bit(n) = [i \in Index |-> r(i)] BY DEF _lshift_one_bit
  <2>2. ASSUME NEW i \in Index, i # j, i # j + 1 PROVE r(i) = 0
    <3>1. n[i] = 0 BY <1>4, <2>2
    <3>2. out(i) = 0
      <4>1. CASE i = 0 BY <4>1
      <4>2. CASE i # 0
        <5>1. i - 1 \in Index /\ i - 1 # j BY <1>1, <2>2, <4>2
        <5>2. n[i - 1] = 0 BY <1>4, <5>1
        <5> QED BY <4>2, <5>2, <1>7
      <4> QED BY <4>1, <4>2
    <3> HIDE DEF out
    <3> QED BY <3>1, <3>2, <1>7
  <2>3. r(j) = (2 * p) % Base
    <3>1. out(j) = 0
      <4>1. CASE j = 0 BY <4>1
      <4>2. CASE j # 0
        <5>1. j - 1 \in Index /\ j - 1 # j BY <1>1, <4>2
        <5>2. n[j - 1] = 0 BY <1>4, <5>1
        <5> QED BY <4>2, <5>2, <1>7
      <4> QED BY <4>1, <4>2
    <3> HIDE DEF out
    <3> QED BY <1>2, <1>3, <1>4, <3>1
  <2>4. ASSUME j + 1 \in Index PROVE r(j + 1) = p \div HalfMax
    <3>1. (j + 1) - 1 = j /\ j + 1 # 0 /\ j + 1 # j BY <1>1
    <3>2. n[j + 1] = 0 /\ out(j + 1) = p \div HalfMax BY <1>4, <2>4, <3>1
    <3>3. p \div HalfMax \in Int BY <1>2, <1>3
    <3> HIDE DEF out
    <3> QED BY <3>2, <3>3, <1>7
  <2> HIDE DEF r
  <2>5. CASE k + 1 \in Bits
    <3>1. \A i \in Index : r(i) = IF i = j THEN Pow2[k + 1] ELSE 0
      BY <1>5, <2>2, <2>3, <2>4, <2>5
    <3> QED BY <2>1, <2>5, <3>1 DEF Bit
  <2>6. CASE k + 1 \notin Bits /\ j + 1 \in Index
    <3>1. \A i \in Index : r(i) = IF i = j + 1 THEN 1 ELSE 0
      BY <1>1, <1>6, <2>2, <2>3, <2>4, <2>6
    <3> QED BY <2>1, <2>6, <3>1, Pow2Steps DEF Bit
  <2>7. CASE k + 1 \notin Bits /\ j + 1 \notin Index
    <3>1. \A i \in Index : r(i) = 0
      BY <1>1, <1>6, <2>2, <2>3, <2>7
    <3> QED BY <2>1, <2>7, <3>1 DEF bignum_init
  <2> QED BY <2>5, <2>6, <2>7
<1>9. _rshift_one_bit(n) =
                IF k > 0 THEN Bit(j, k - 1)
                ELSE IF j > 0 THEN Bit(j - 1, WordBits - 1) ELSE bignum_init
  <2> DEFINE in(i) == IF i = ArraySize - 1 THEN 0 ELSE (n[i + 1] % 2) * HalfMax
             r(i) == n[i] \div 2 + in(i)
  <2>1. _rshift_one_bit(n) = [i \in Index |-> r(i)] BY DEF _rshift_one_bit
  <2>2. ASSUME NEW i \in Index, i # j, i + 1 # j PROVE r(i) = 0
    <3>1. n[i] = 0 BY <1>4, <2>2
    <3>2. in(i) = 0
      <4>1. CASE i = ArraySize - 1 BY <4>1
      <4>2. CASE i # ArraySize - 1
        <5>1. i + 1 \in Index BY <1>1, <4>2
        <5>2. n[i + 1] = 0 BY <1>4, <2>2, <5>1
        <5>3. (0 % 2) * HalfMax = 0 BY <1>2
        <5> QED BY <4>2, <5>2, <5>3
      <4> QED BY <4>1, <4>2
    <3> HIDE DEF in
    <3> QED BY <3>1, <3>2
  <2>3. r(j) = p \div 2
    <3>1. in(j) = 0
      <4>1. CASE j = ArraySize - 1 BY <4>1
      <4>2. CASE j # ArraySize - 1
        <5>1. j + 1 \in Index /\ j + 1 # j BY <1>1, <4>2
        <5>2. n[j + 1] = 0 BY <1>4, <5>1
        <5>3. (0 % 2) * HalfMax = 0 BY <1>2
        <5> QED BY <4>2, <5>2, <5>3
      <4> QED BY <4>1, <4>2
    <3> HIDE DEF in
    <3> QED BY <1>3, <1>4, <3>1
  <2>4. ASSUME j > 0 PROVE j - 1 \in Index /\ r(j - 1) = (p % 2) * HalfMax
    <3>1. (j - 1) + 1 = j /\ j - 1 \in Index /\ j - 1 # j /\ j - 1 # ArraySize - 1 BY <1>1, <2>4
    <3>2. n[j - 1] = 0 /\ in(j - 1) = (p % 2) * HalfMax BY <1>4, <3>1
    <3>3. (p % 2) * HalfMax \in Int BY <1>2, <1>3
    <3> HIDE DEF in
    <3> QED BY <3>1, <3>2, <3>3
  <2> HIDE DEF r
  <2>5. CASE k > 0
    <3>1. k \in 1 .. WordBits /\ k - 1 \in 0 .. WordBits BY <1>1, <2>5
    <3>2. p = 2 * Pow2[k - 1] /\ Pow2[k - 1] \in Nat BY <3>1, Pow2Steps DEF p
    <3>3. p \div 2 = Pow2[k - 1] /\ p % 2 = 0 BY <3>2
    <3>4. (p % 2) * HalfMax = 0 BY <1>2, <3>3
    <3>5. \A i \in Index : i + 1 = j => j > 0 /\ i = j - 1 BY <1>1
    <3>6. \A i \in Index : r(i) = IF i = j THEN Pow2[k - 1] ELSE 0
      BY <2>2, <2>3, <2>4, <3>3, <3>4, <3>5
    <3> QED BY <2>1, <2>5, <3>6 DEF Bit
  <2>6. CASE k = 0
    <3>1. p = 1 BY <2>6, Pow2Steps DEF p
    <3>2. p \div 2 = 0 /\ p % 2 = 1 BY <3>1
    <3>3. (p % 2) * HalfMax = Pow2[WordBits - 1] BY <1>2, <3>2
    <3>4. CASE j > 0
      <4>1. \A i \in Index : i + 1 = j <=> i = j - 1 BY <1>1
      <4>2. j # j - 1 BY <1>1
      <4>3. \A i \in Index : r(i) = IF i = j - 1 THEN Pow2[WordBits - 1] ELSE 0
        BY <2>2, <2>3, <2>4, <3>2, <3>3, <3>4, <4>1, <4>2
      <4> QED BY <2>1, <2>6, <3>4, <4>3 DEF Bit
    <3>5. CASE j = 0
      <4>1. \A i \in Index : i + 1 # j BY <1>1, <3>5
      <4>2. \A i \in Index : r(i) = 0 BY <2>2, <2>3, <3>2, <4>1
      <4> QED BY <2>1, <2>6, <3>5, <4>2 DEF bignum_init
    <3> QED BY <1>1, <3>4, <3>5
  <2> QED BY <1>1, <2>5, <2>6
<1> QED BY <1>4, <1>8, <1>9 DEF n

-----------------------------------------------------------------------------
\* No bit of n is set at bit k of word j or below it.
Clear(n, j, k) == /\ \A i \in Index : i < j => n[i] = 0
                  /\ \E m \in Nat : n[j] = m * Pow2[k + 1]

\* One place to the right, too.
LEMMA ClearRight ==
    ASSUME NEW n \in Bn, NEW j \in Index, NEW k \in Bits
    PROVE  /\ Clear(bignum_init, j, k)
           /\ Clear(n, j, k) => /\ k > 0 => k - 1 \in Bits /\ Clear(n, j, k - 1)
                                /\ k = 0 /\ j > 0 => Clear(n, j - 1, WordBits - 1)
<1>1. /\ WordBits \in Nat /\ ArraySize \in Nat /\ k \in Nat /\ j \in Nat /\ k + 1 \in 1 .. WordBits
      /\ Index = 0 .. ArraySize - 1 /\ Bits = 0 .. WordBits - 1 /\ (k + 1) - 1 = k
  BY Wordly DEF Bits, Index
<1>2. /\ Pow2[k + 1] = 2 * Pow2[k] /\ Pow2[k] \in Nat /\ Pow2[k + 1] \in Nat
  BY <1>1, Pow2Steps
<1>3. Clear(bignum_init, j, k)
  <2>1. 0 * Pow2[k + 1] = 0 BY <1>2
  <2> QED BY <2>1 DEF Clear, bignum_init
<1>4. ASSUME Clear(n, j, k), k > 0 PROVE k - 1 \in Bits /\ Clear(n, j, k - 1)
  <2>1. PICK m \in Nat : n[j] = m * Pow2[k + 1] BY <1>4 DEF Clear
  <2> DEFINE e == 2 * m
  <2>2. n[j] = e * Pow2[k] /\ e \in Nat BY <1>2, <2>1
  <2> HIDE DEF e
  <2>3. k - 1 \in Bits /\ (k - 1) + 1 = k BY <1>1, <1>4
  <2> QED BY <1>4, <2>2, <2>3 DEF Clear
<1>5. ASSUME Clear(n, j, k), j > 0 PROVE Clear(n, j - 1, WordBits - 1)
  <2>1. j - 1 \in Index /\ j - 1 < j /\ \A i \in Index : i < j - 1 => i < j BY <1>1, <1>5
  <2>2. n[j - 1] = 0 BY <1>5, <2>1 DEF Clear
  <2>3. Pow2[(WordBits - 1) + 1] \in Nat BY <1>1, Wordly, Pow2Steps
  <2>4. 0 * Pow2[(WordBits - 1) + 1] = 0 BY <2>3
  <2> QED BY <1>5, <2>1, <2>2, <2>4 DEF Clear
<1> QED BY <1>3, <1>4, <1>5

\* The bit that comes in is above all that is clear: | adds it.
LEMMA OrBit ==
    ASSUME NEW n \in Bn, NEW j \in Index, NEW k \in Bits, Clear(n, j, k)
    PROVE  /\ bignum_or(n, Bit(j, k)) \in Bn
           /\ Value(bignum_or(n, Bit(j, k))) = Value(n) + Value(Bit(j, k))
           /\ k > 0 => k - 1 \in Bits /\ Clear(bignum_or(n, Bit(j, k)), j, k - 1)
           /\ k = 0 /\ j > 0 => Clear(bignum_or(n, Bit(j, k)), j - 1, WordBits - 1)
<1> DEFINE p == Pow2[k]
           r == bignum_or(n, Bit(j, k))
<1>1. /\ WordBits \in Nat /\ ArraySize \in Nat /\ k \in Nat /\ j \in Nat /\ k + 1 \in 1 .. WordBits
      /\ Index = 0 .. ArraySize - 1 /\ Bits = 0 .. WordBits - 1 /\ (k + 1) - 1 = k
  BY Wordly DEF Bits, Index
<1>2. Pow2[k + 1] = 2 * p /\ p \in Nat BY <1>1, Pow2Steps
<1>3. PICK m \in Nat : n[j] = m * Pow2[k + 1] BY DEF Clear
<1>4. n[j] \in Word /\ Bit(j, k)[j] = p /\ Bit(j, k) \in Bn BY BitShifts DEF Bn, Bit
<1>5. r[j] = n[j] + p /\ r[j] \in Word
  <2>1. r[j] = Or(n[j], p) BY <1>4 DEF bignum_or
  <2>2. \E i \in Nat : n[j] = i * Pow2[k + 1] BY <1>3
  <2>3. Or(n[j], p) = n[j] + p /\ n[j] + p \in Word
    <3> HIDE DEF p
    <3> QED BY <1>1, <1>4, <2>2, OrOneBit DEF p
  <2> QED BY <2>1, <2>3
<1>6. ASSUME NEW i \in Index, i # j PROVE r[i] = n[i] /\ n[i] \in Word /\ Bit(j, k)[i] = 0
  <2>1. n[i] \in Word /\ Bit(j, k)[i] = 0 BY <1>6 DEF Bn, Bit
  <2>2. r[i] = Or(n[i], 0) BY <2>1 DEF bignum_or
  <2>3. Or(n[i], 0) = n[i] BY <1>1, <2>1, OrOneBit
  <2> QED BY <2>1, <2>2, <2>3
<1>7. r = [i \in Index |-> r[i]] BY DEF bignum_or
<1>8. r \in Bn BY <1>5, <1>6, <1>7 DEF Bn
<1> HIDE DEF p, r
<1>9. Value(r) = Value(n) + Value(Bit(j, k))
  <2> DEFINE cr == [i \in 0 .. ArraySize |-> 0]
  <2>1. cr \in [0 .. ArraySize -> 0 .. 1] OBVIOUS
  <2>2. ASSUME NEW i \in Index
        PROVE  n[i] + Bit(j, k)[i] + cr[i] = r[i] + cr[i + 1] * Base
    <3>1. cr[i] = 0 /\ cr[i + 1] = 0 BY Wordly
    <3>2. Base \in Nat /\ n[i] \in Nat /\ p \in Nat BY AtWord, <1>2
    <3> HIDE DEF cr
    <3>3. CASE i = j BY <1>4, <1>5, <3>1, <3>2, <3>3
    <3>4. CASE i # j BY <1>6, <3>1, <3>2, <3>4
    <3> QED BY <3>3, <3>4
  <2>3. cr[0] = 0 /\ cr[ArraySize] = 0 BY Wordly
  <2> HIDE DEF cr
  <2>4. Value(r) + cr[ArraySize] * Top = Value(n) + Value(Bit(j, k)) + cr[0]
    BY <1>4, <1>8, <2>1, <2>2, Ripple
  <2>5. Value(r) \in Nat /\ Value(n) \in Nat /\ Value(Bit(j, k)) \in Nat /\ Top \in Nat
    BY <1>4, <1>8, ValueRange
  <2> QED BY <2>3, <2>4, <2>5
<1>10. ASSUME k > 0 PROVE k - 1 \in Bits /\ Clear(r, j, k - 1)
  <2> DEFINE e == 2 * m + 1
  <2>1. r[j] = e * p /\ e \in Nat
    <3>1. (2 * m + 1) * p = m * (2 * p) + p /\ m * (2 * p) \in Nat BY <1>2
    <3> QED BY <1>2, <1>3, <1>5, <3>1
  <2> HIDE DEF e
  <2>2. k - 1 \in Bits /\ (k - 1) + 1 = k BY <1>1, <1>10
  <2>3. \A i \in Index : i < j => i # j BY <1>1
  <2>4. \A i \in Index : i < j => r[i] = 0 BY <1>6, <2>3 DEF Clear
  <2> QED BY <2>1, <2>2, <2>4 DEF Clear, p
<1>11. ASSUME j > 0 PROVE Clear(r, j - 1, WordBits - 1)
  <2>1. \A i \in Index : i < j => i # j BY <1>1
  <2>2. \A i \in Index : i < j => r[i] = 0 BY <1>6, <2>1 DEF Clear
  <2>3. j - 1 \in Index /\ j - 1 < j /\ \A i \in Index : i < j - 1 => i < j BY <1>1, <1>11
  <2>4. Pow2[(WordBits - 1) + 1] \in Nat BY <1>1, Wordly, Pow2Steps
  <2>5. 0 * Pow2[(WordBits - 1) + 1] = 0 BY <2>4
  <2> QED BY <2>2, <2>3, <2>5 DEF Clear
<1> QED BY <1>8, <1>9, <1>10, <1>11 DEF r

-----------------------------------------------------------------------------
\* Shifted, zero is zero.
LEMMA ZeroShifts ==
    _lshift_one_bit(bignum_init) = bignum_init /\ _rshift_one_bit(bignum_init) = bignum_init
<1>1. bignum_init \in Bn /\ Value(bignum_init) = 0 BY ZeroValue
<1>2. Top \in Nat /\ Top > 0 /\ 0 % Top = 0 /\ 2 * 0 = 0 /\ 0 \div 2 = 0 BY ValueRange
<1>3. /\ _lshift_one_bit(bignum_init) \in Bn /\ Value(_lshift_one_bit(bignum_init)) = 0
      /\ _rshift_one_bit(bignum_init) \in Bn /\ Value(_rshift_one_bit(bignum_init)) = 0
  BY <1>1, <1>2, LeftValue, RightValue
<1> QED BY <1>1, <1>3, CmpValue

\* The locals are numbers; current has one bit, which the result has nothing
\* at or below, or none; overflow says what the first loop has seen.
Locals == /\ a \in Bn /\ b \in Bn /\ current \in Bn
          /\ denom \in Bn /\ tmp \in Bn /\ c \in Bn

OneBit == \/ current = bignum_init
          \/ \E j \in Index, k \in Bits :
                current = Bit(j, k) /\ (pc = "divide" => Clear(c, j, k))

Overflowed == pc = "scale" /\ overflow => /\ bignum_cmp(denom, a) # "LARGER"
                                          /\ denom[ArraySize - 1] >= HalfMax

WordInv == Locals /\ OneBit /\ Overflowed

\* An array of words for a number, and the number one.
LEMMA InitWords ==
    /\ \A v \in Nat : Words(v) \in Bn
    /\ bignum_from_uint64_t(1) \in Bn
    /\ bignum_from_uint64_t(1) = Bit(0, 0) /\ 0 \in Index /\ 0 \in Bits
    /\ Value(bignum_from_uint64_t(1)) = 1
<1>1. /\ Base \in Nat /\ Base >= 2 /\ Word = 0 .. Base - 1 BY BaseFacts DEF Word
<1>2. ASSUME NEW v \in Nat PROVE Words(v) \in Bn
  <2>1. ASSUME NEW i \in Index PROVE (v \div Weight[i]) % Base \in Word
    <3>1. Weight[i] \in Nat /\ Weight[i] > 0 BY Wordly, WeightSteps
    <3>2. v \div Weight[i] \in Nat BY <3>1, OneMoreBit
    <3> QED BY <1>1, <3>2
  <2> QED BY <2>1 DEF Words, Bn
<1>3. 1 < Base * Base
  <2>1. 2 * Base <= Base * Base /\ Base * Base \in Nat BY <1>1, Monotone
  <2> QED BY <1>1, <2>1
<1>4. bignum_from_uint64_t(1) \in Bn /\ Value(bignum_from_uint64_t(1)) = 1
  BY <1>3, TwoWords
<1>5. 0 \in Index /\ 0 \in Bits BY Wordly DEF Index, Bits
<1>6. bignum_from_uint64_t(1) = Bit(0, 0)
  <2>1. \A x, y \in Nat : x < y => x % y = x /\ x \div y = 0 OBVIOUS
  <2>2. 1 % Base = 1 /\ 1 \div Base = 0 /\ 0 % Base = 0 BY <1>1, <2>1
  <2>3. \A i \in Index : (CASE i = 0 -> 1 % Base [] i = 1 -> (1 \div Base) % Base [] OTHER -> 0)
                         = IF i = 0 THEN Pow2[0] ELSE 0
    BY <2>2, Pow2Steps
  <2> QED BY <2>3 DEF bignum_from_uint64_t, Bit
<1> QED BY <1>2, <1>4, <1>5, <1>6

LEMMA InitWordInv == Init => WordInv
<1> SUFFICES ASSUME Init PROVE WordInv OBVIOUS
<1>1. Dividends \subseteq Nat /\ Divisors \subseteq Nat BY ArgumentAssumption, TopAssumption
<1>2. Locals BY <1>1, InitWords, ZeroValue DEF Init, Locals
<1>3. OneBit
  <2>1. pc # "divide" BY DEF Init
  <2> QED BY <2>1, InitWords DEF Init, OneBit
<1> QED BY <1>2, <1>3 DEF WordInv, Init, Overflowed

\* The bit of current after a shift to the left: the first loop.
LEMMA ScaleWordInv == WordInv /\ Scale => WordInv'
<1> SUFFICES ASSUME WordInv, Scale PROVE WordInv' OBVIOUS
<1> USE DEF Scale
<1>1. Locals' BY LeftValue DEF WordInv, Locals
<1>2. OneBit'
  <2>1. CASE current = bignum_init BY <2>1, ZeroShifts DEF OneBit
  <2>2. CASE \E j \in Index, k \in Bits : current = Bit(j, k)
    <3>1. PICK j \in Index, k \in Bits : current = Bit(j, k) BY <2>2
    <3>2. current' = IF k + 1 \in Bits THEN Bit(j, k + 1)
                     ELSE IF j + 1 \in Index THEN Bit(j + 1, 0) ELSE bignum_init
      BY <3>1, BitShifts
    <3>3. pc' # "divide" /\ 0 \in Bits BY InitWords
    <3> QED BY <3>2, <3>3 DEF OneBit
  <2> QED BY <2>1, <2>2 DEF WordInv, OneBit
<1>3. Overflowed' BY DEF Overflowed
<1> QED BY <1>1, <1>2, <1>3 DEF WordInv

\* The bit of current after a shift to the right.
LEMMA RightOneBit ==
    ASSUME WordInv, current' = _rshift_one_bit(current), c' \in Bn,
           \A j \in Index, k \in Bits : current = Bit(j, k) =>
              /\ k > 0 => k - 1 \in Bits /\ Clear(c', j, k - 1)
              /\ k = 0 /\ j > 0 => Clear(c', j - 1, WordBits - 1)
    PROVE  OneBit'
<1>1. CASE current = bignum_init BY <1>1, ZeroShifts DEF OneBit
<1>2. CASE \E j \in Index, k \in Bits : current = Bit(j, k)
  <2>1. PICK j \in Index, k \in Bits : current = Bit(j, k) BY <1>2
  <2>2. current' = IF k > 0 THEN Bit(j, k - 1)
                   ELSE IF j > 0 THEN Bit(j - 1, WordBits - 1) ELSE bignum_init
    BY <2>1, BitShifts
  <2>3. /\ k \in Nat /\ j \in Nat /\ WordBits - 1 \in Bits /\ (j > 0 => j - 1 \in Index)
    BY Wordly DEF Bits, Index
  <2>4. CASE k > 0 BY <2>1, <2>2, <2>4 DEF OneBit
  <2>5. CASE k = 0 /\ j > 0 BY <2>1, <2>2, <2>3, <2>5 DEF OneBit
  <2>6. CASE k = 0 /\ j = 0 BY <2>2, <2>6 DEF OneBit
  <2> QED BY <2>3, <2>4, <2>5, <2>6
<1> QED BY <1>1, <1>2 DEF WordInv, OneBit

LEMMA BeginDivideWordInv == WordInv /\ BeginDivide => WordInv'
<1> SUFFICES ASSUME WordInv, BeginDivide PROVE WordInv' OBVIOUS
<1> USE DEF BeginDivide
<1>1. c' = bignum_init /\ bignum_init \in Bn /\ pc' = "divide" BY ZeroValue
<1>2. Locals'
  <2>1. CASE overflow BY <1>1, <2>1 DEF WordInv, Locals
  <2>2. CASE ~overflow BY <1>1, <2>2, RightValue DEF WordInv, Locals
  <2> QED BY <2>1, <2>2
<1>3. OneBit'
  <2>1. CASE overflow BY <1>1, <2>1, ClearRight DEF WordInv, OneBit
  <2>2. CASE ~overflow
    <3>1. ASSUME NEW j \in Index, NEW k \in Bits
          PROVE  /\ k > 0 => k - 1 \in Bits /\ Clear(c', j, k - 1)
                 /\ k = 0 /\ j > 0 => Clear(c', j - 1, WordBits - 1)
      BY <1>1, ClearRight
    <3> QED BY <1>1, <2>2, <3>1, RightOneBit
  <2> QED BY <2>1, <2>2
<1>4. Overflowed' BY <1>1 DEF Overflowed
<1> QED BY <1>2, <1>3, <1>4 DEF WordInv

\* What a turn of the second loop does to the result.
LEMMA DivideWordInv ==
    WordInv /\ Divide =>
        /\ WordInv'
        /\ bignum_cmp(tmp, denom) # "SMALLER" => Value(c') = Value(c) + Value(current)
<1> SUFFICES ASSUME WordInv, Divide
             PROVE  /\ WordInv'
                    /\ bignum_cmp(tmp, denom) # "SMALLER" => Value(c') = Value(c) + Value(current)
  OBVIOUS
<1> USE DEF Divide
<1>1. PICK j \in Index, k \in Bits : current = Bit(j, k) /\ Clear(c, j, k)
  <2>1. current # bignum_init BY ZeroValue DEF bignum_is_zero, bignum_init
  <2> QED BY <2>1 DEF WordInv, OneBit
<1>2. a \in Bn /\ b \in Bn /\ current \in Bn /\ denom \in Bn /\ tmp \in Bn /\ c \in Bn
  BY DEF WordInv, Locals
<1>3. c' \in Bn /\ tmp' \in Bn
  <2>1. CASE bignum_cmp(tmp, denom) # "SMALLER" BY <1>1, <1>2, <2>1, OrBit, SubValue
  <2>2. CASE bignum_cmp(tmp, denom) = "SMALLER" BY <1>2, <2>2
  <2> QED BY <2>1, <2>2
<1>4. Locals' BY <1>2, <1>3, RightValue DEF Locals
<1>5. /\ k > 0 => k - 1 \in Bits /\ Clear(c', j, k - 1)
      /\ k = 0 /\ j > 0 => Clear(c', j - 1, WordBits - 1)
  <2>1. CASE bignum_cmp(tmp, denom) # "SMALLER" BY <1>1, <1>2, <2>1, OrBit
  <2>2. CASE bignum_cmp(tmp, denom) = "SMALLER" BY <1>1, <1>2, <2>2, ClearRight
  <2> QED BY <2>1, <2>2
<1>6. OneBit'
  <2>1. current' = IF k > 0 THEN Bit(j, k - 1)
                   ELSE IF j > 0 THEN Bit(j - 1, WordBits - 1) ELSE bignum_init
    BY <1>1, BitShifts
  <2>2. /\ k \in Nat /\ j \in Nat /\ WordBits - 1 \in Bits /\ (j > 0 => j - 1 \in Index)
    BY Wordly DEF Bits, Index
  <2>3. CASE k > 0 BY <1>5, <2>1, <2>3 DEF OneBit
  <2>4. CASE k = 0 /\ j > 0 BY <1>5, <2>1, <2>2, <2>4 DEF OneBit
  <2>5. CASE k = 0 /\ j = 0 BY <2>1, <2>5 DEF OneBit
  <2> QED BY <2>2, <2>3, <2>4, <2>5
<1>7. Overflowed' BY DEF Overflowed
<1>8. ASSUME bignum_cmp(tmp, denom) # "SMALLER" PROVE Value(c') = Value(c) + Value(current)
  BY <1>1, <1>2, <1>8, OrBit
<1> QED BY <1>4, <1>6, <1>7, <1>8 DEF WordInv

LEMMA NextWordInv == WordInv /\ [Next]_vars => WordInv'
<1> SUFFICES ASSUME WordInv, [Next]_vars PROVE WordInv' OBVIOUS
<1>1. CASE Scale BY <1>1, ScaleWordInv
<1>2. CASE ScaleOverflow
  BY <1>2 DEF ScaleOverflow, WordInv, Locals, OneBit, Overflowed
<1>3. CASE BeginDivide BY <1>3, BeginDivideWordInv
<1>4. CASE Divide BY <1>4, DivideWordInv
<1>5. CASE Return BY <1>5 DEF Return, WordInv, Locals, OneBit, Overflowed
<1>6. CASE UNCHANGED vars BY <1>6 DEF vars, WordInv, Locals, OneBit, Overflowed
<1> QED BY <1>1, <1>2, <1>3, <1>4, <1>5, <1>6 DEF Next

\* The arithmetic on words is arithmetic of numbers.
THEOREM ArithmeticOnWords == Spec => []WordsAreNumbers
<1>1. WordInv => WordsAreNumbers
  <2> SUFFICES ASSUME WordInv PROVE WordsAreNumbers OBVIOUS
  <2>1. a \in Bn /\ b \in Bn BY DEF WordInv, Locals
  <2>2. Value(bignum_add(a, b)) = (Value(a) + Value(b)) % Top BY <2>1, AddValue
  <2>3. Value(bignum_sub(a, b)) = (Value(a) + Top - Value(b)) % Top BY <2>1, SubValue
  <2>4. Value(bignum_mul(a, b)) = (Value(a) * Value(b)) % Top BY <2>1, MulValue
  <2>5. bignum_cmp(a, b) = IF Value(a) = Value(b) THEN "EQUAL"
                           ELSE IF Value(a) > Value(b) THEN "LARGER" ELSE "SMALLER"
    BY <2>1, CmpValue
  <2> QED BY <2>2, <2>3, <2>4, <2>5 DEF WordsAreNumbers
<1> QED BY InitWordInv, NextWordInv, <1>1, PTL DEF Spec

\* Amounts of 128 bits survive.
THEOREM AmountsKept == Spec => []AmountsSurvive
<1>1. WordInv => AmountsSurvive
  <2> SUFFICES ASSUME WordInv PROVE AmountsSurvive OBVIOUS
  <2> DEFINE v == Value(a) % Weight[4]
  <2>1. v \in Nat /\ v < Weight[4]
    <3>1. Value(a) \in Nat BY ValueRange DEF WordInv, Locals
    <3>2. Weight[4] \in Nat /\ Weight[4] > 0 BY Wordly, WeightSteps
    <3> QED BY <3>1, <3>2
  <2> HIDE DEF v
  <2>2. /\ Value(uint128_t_to_bignum(v)) = v
        /\ bignum_to_uint128_t(uint128_t_to_bignum(v)) = v
        /\ bignum_to_uint64_t(bignum_from_uint64_t(v % Weight[2])) = v % Weight[2]
    BY <2>1, AmountSurvives
  <2> QED BY <2>2 DEF v, AmountsSurvive
<1> QED BY InitWordInv, NextWordInv, <1>1, PTL DEF Spec

-----------------------------------------------------------------------------
\* The width is even.
LEMMA TopFacts == /\ Top \in Nat /\ Numbers!Half \in Nat /\ Top = 2 * Numbers!Half
                  /\ Numbers!Half >= 1 /\ 1 % Top = 1
  BY TopAssumption DEF Numbers!Half

LEMMA InitKeeps == Init => Numbers!Init
<1> SUFFICES ASSUME Init PROVE Numbers!Init OBVIOUS
<1>1. Locals BY InitWordInv DEF WordInv
<1>2. Value(a) \in 0 .. Top - 1 /\ Value(b) \in 0 .. Top - 1 /\ Value(c) \in 0 .. Top - 1
  BY <1>1, ValueRange DEF Locals
<1>3. Value(current) = 1 % Top BY InitWords, TopFacts DEF Init
<1> QED BY <1>2, <1>3 DEF Init, Numbers!Init, Numbers!Numbers

\* Every turn of the loops on words is a turn of the loops on numbers, or none.
LEMMA NextKeeps == WordInv /\ [Next]_vars => [Numbers!Next]_(Numbers!vars)
<1> SUFFICES ASSUME WordInv, [Next]_vars PROVE [Numbers!Next]_(Numbers!vars) OBVIOUS
<1>1. /\ a \in Bn /\ b \in Bn /\ current \in Bn /\ denom \in Bn /\ tmp \in Bn /\ c \in Bn
  BY DEF WordInv, Locals
<1>2. /\ Value(a) \in Nat /\ Value(b) \in Nat /\ Value(current) \in Nat
      /\ Value(denom) \in Nat /\ Value(tmp) \in Nat /\ Value(c) \in Nat /\ Value(a) < Top
  BY <1>1, ValueRange
<1>3. /\ bignum_cmp(denom, a) = "LARGER" <=> Value(denom) > Value(a)
      /\ bignum_cmp(tmp, denom) = "SMALLER" <=> Value(tmp) < Value(denom)
  <2>1. /\ bignum_cmp(denom, a) = IF Value(denom) = Value(a) THEN "EQUAL"
                                  ELSE IF Value(denom) > Value(a) THEN "LARGER" ELSE "SMALLER"
        /\ bignum_cmp(tmp, denom) = IF Value(tmp) = Value(denom) THEN "EQUAL"
                                  ELSE IF Value(tmp) > Value(denom) THEN "LARGER" ELSE "SMALLER"
    BY <1>1, CmpValue
  <2> QED BY <1>2, <2>1
<1>4. denom[ArraySize - 1] < HalfMax <=> Value(denom) < Numbers!Half
  BY <1>1, <1>2, LeftValue, TopFacts
<1>5. denom[ArraySize - 1] \in Nat /\ HalfMax \in Nat
  <2>1. ArraySize - 1 \in Index BY Wordly DEF Index
  <2> QED BY <1>1, <2>1, AtWord, BaseFacts
<1>6. bignum_is_zero(current) <=> Value(current) = 0 BY <1>1, ZeroValue
<1>7. CASE Scale
  <2>1. pc = "scale" /\ Value(denom) <= Value(a) /\ Value(denom) < Numbers!Half
    BY <1>2, <1>3, <1>4, <1>7 DEF Scale
  <2>2. Value(current') = (2 * Value(current)) % Top /\ Value(denom') = 2 * Value(denom)
    BY <1>1, <1>7, LeftValue DEF Scale
  <2>3. a' = a /\ b' = b /\ tmp' = tmp /\ c' = c /\ pc' = pc BY <1>7 DEF Scale
  <2>4. Numbers!ScaleUp BY <2>1, <2>2, <2>3 DEF Numbers!ScaleUp
  <2> QED BY <2>4 DEF Numbers!Next
<1>8. CASE ScaleOverflow
  BY <1>8 DEF ScaleOverflow, Numbers!vars
<1>9. CASE BeginDivide
  <2>1. Value(c') = 0 /\ pc = "scale" /\ pc' = "divide" /\ a' = a /\ b' = b /\ tmp' = tmp
    BY <1>9, ZeroValue DEF BeginDivide
  <2>2. CASE overflow
    <3>1. bignum_cmp(denom, a) # "LARGER" /\ denom[ArraySize - 1] >= HalfMax
      BY <1>9, <2>2 DEF BeginDivide, WordInv, Overflowed
    <3>2. Value(denom) <= Value(a) /\ Value(denom) >= Numbers!Half
      BY <1>2, <1>3, <1>4, <1>5, <3>1, TopFacts
    <3>3. current' = current /\ denom' = denom BY <1>9, <2>2 DEF BeginDivide
    <3>4. Numbers!ScaleStop BY <2>1, <3>2, <3>3 DEF Numbers!ScaleStop
    <3> QED BY <3>4 DEF Numbers!Next
  <2>3. CASE ~overflow
    <3>1. Value(denom) > Value(a) BY <1>3, <1>9, <2>3 DEF BeginDivide
    <3>2. Value(denom') = Value(denom) \div 2 /\ Value(current') = Value(current) \div 2
      BY <1>1, <1>9, <2>3, RightValue DEF BeginDivide
    <3>3. Numbers!ScaleBack BY <2>1, <3>1, <3>2 DEF Numbers!ScaleBack
    <3> QED BY <3>3 DEF Numbers!Next
  <2> QED BY <2>2, <2>3
<1>10. CASE Divide
  <2>1. pc = "divide" /\ Value(current) # 0 /\ a' = a /\ b' = b /\ pc' = pc
    BY <1>6, <1>10 DEF Divide
  <2>2. Value(current') = Value(current) \div 2 /\ Value(denom') = Value(denom) \div 2
    BY <1>1, <1>10, RightValue DEF Divide
  <2>3. CASE bignum_cmp(tmp, denom) # "SMALLER"
    <3>1. Value(c') = Value(c) + Value(current) BY <1>10, <2>3, DivideWordInv
    <3>2. Value(tmp) >= Value(denom) BY <1>2, <1>3, <2>3
    <3>3. Value(tmp') = Value(tmp) - Value(denom) BY <1>1, <1>10, <2>3, <3>2, SubValue DEF Divide
    <3>4. Numbers!Subtract BY <2>1, <2>2, <3>1, <3>2, <3>3 DEF Numbers!Subtract
    <3> QED BY <3>4 DEF Numbers!Next
  <2>4. CASE bignum_cmp(tmp, denom) = "SMALLER"
    <3>1. ~(Value(tmp) >= Value(denom)) BY <1>2, <1>3, <2>4
    <3>2. tmp' = tmp /\ c' = c BY <1>10, <2>4 DEF Divide
    <3>3. Numbers!Subtract BY <2>1, <2>2, <3>1, <3>2 DEF Numbers!Subtract
    <3> QED BY <3>3 DEF Numbers!Next
  <2> QED BY <2>3, <2>4
<1>11. CASE Return
  <2>1. Numbers!Return BY <1>6, <1>11 DEF Return, Numbers!Return
  <2> QED BY <2>1 DEF Numbers!Next
<1>12. CASE UNCHANGED vars
  BY <1>12 DEF vars, Numbers!vars
<1> QED BY <1>7, <1>8, <1>9, <1>10, <1>11, <1>12 DEF Next

\* On words bignum_div() does what Division does on numbers.
THEOREM WordsKeepDivision == Spec => KeepsDivision
BY InitWordInv, NextWordInv, InitKeeps, NextKeeps, PTL
DEF Spec, KeepsDivision, Numbers!Spec

-----------------------------------------------------------------------------
\* Powers of two are the numbers of every set that holds 1 and is closed under
\* doubling; this needs no induction over the number of doublings.
Doubling(S) == 1 \in S /\ \A n \in S : 2 * n \in S

Power2 == {p \in Nat : \A S \in SUBSET Nat : Doubling(S) => p \in S}

-----------------------------------------------------------------------------
\* A power of two above 1 is twice a power of two.
LEMMA PowerHalves ==
    /\ Power2 \subseteq Nat
    /\ 1 \in Power2
    /\ \A p \in Power2 : 2 * p \in Power2
    /\ \A p \in Power2 : p = 1 \/ \E q \in Power2 : p = 2 * q
<1>1. 1 \in Power2 /\ Power2 \subseteq Nat
  BY DEF Power2, Doubling
<1>2. ASSUME NEW p \in Power2
      PROVE  2 * p \in Power2
  <2>1. p \in Nat /\ 2 * p \in Nat
    BY DEF Power2
  <2>2. ASSUME NEW S \in SUBSET Nat, Doubling(S)
        PROVE  2 * p \in S
    BY <2>2 DEF Power2, Doubling
  <2> QED
    BY <2>1, <2>2 DEF Power2
<1> DEFINE T == {p \in Power2 : p = 1 \/ \E q \in Power2 : p = 2 * q}
<1>3. Doubling(T)
  <2>1. 1 \in T
    BY <1>1
  <2>2. ASSUME NEW n \in T
        PROVE  2 * n \in T
    BY <1>2
  <2> HIDE DEF T
  <2> QED
    BY <2>1, <2>2 DEF Doubling
<1>4. T \in SUBSET Nat
  BY <1>1
<1>5. ASSUME NEW p \in Power2
      PROVE  p \in T
  <2> HIDE DEF T
  <2> QED
    BY <1>3, <1>4 DEF Power2
<1> QED
  BY <1>1, <1>2, <1>5

NumbersOK == /\ Value(a) \in Nat /\ Value(b) \in Nat /\ Value(current) \in Nat
             /\ Value(denom) \in Nat /\ Value(tmp) \in Nat /\ Value(c) \in Nat
             /\ Value(a) < Top
             /\ pc \in {"scale", "divide", "returned"}

\* Scaling: the divisor is a power of two times b, no more than one doubling
\* above the dividend, and nothing has been divided yet.
Scaling == pc = "scale" => /\ Value(tmp) = Value(a)
                           /\ Value(b) > 0 =>
                                /\ Value(current) \in Power2
                                /\ Value(denom) = Value(b) * Value(current)
                                /\ Value(denom) < Top
                                /\ Value(current) = 1 \/ Value(denom) <= 2 * Value(a)
                           /\ Value(b) = 0 => Value(denom) = 0

\* Dividing: what is left of the dividend is below twice the scaled divisor,
\* and below b once the divisor has been scaled down all the way.
Dividing == pc \in {"divide", "returned"} =>
                /\ Value(b) > 0
                /\ Value(a) = Value(b) * Value(c) + Value(tmp)
                /\ IF Value(current) = 0 THEN Value(tmp) < Value(b)
                   ELSE /\ Value(current) \in Power2
                        /\ Value(denom) = Value(b) * Value(current)
                        /\ Value(tmp) < 2 * Value(denom)

Finished == pc = "returned" => Value(current) = 0

IInv == NumbersOK /\ Scaling /\ Dividing /\ Finished

\* A power of two times b halves without a remainder, unless it is b itself.
LEMMA Halve ==
    ASSUME NEW x \in Nat, NEW p \in Power2, x > 0
    PROVE  /\ p \in Nat /\ (x * p) \div 2 \in Nat /\ p \div 2 \in Nat
           /\ p = 1 => p \div 2 = 0
           /\ p # 1 => /\ p \div 2 \in Power2 /\ p \div 2 # 0
                       /\ (x * p) \div 2 = x * (p \div 2)
                       /\ 2 * ((x * p) \div 2) = x * p
<1>1. p \in Nat /\ (p = 1 \/ \E q \in Power2 : p = 2 * q)
  BY PowerHalves
<1>2. CASE p = 1
  BY <1>2
<1>3. CASE p # 1
  <2>1. PICK q \in Power2 : p = 2 * q
    BY <1>1, <1>3
  <2>2. q \in Nat
    BY PowerHalves
  <2>3. q # 0
    <3> DEFINE P == Nat \ {0}
    <3>1. Doubling(P) /\ P \in SUBSET Nat
      BY DEF Doubling
    <3>2. q \in P
      <4> HIDE DEF P
      <4> QED
        BY <3>1 DEF Power2
    <3> QED
      BY <3>2
  <2>4. p \div 2 = q
    BY <2>1, <2>2
  <2> DEFINE y == x * q
  <2>5. y \in Nat /\ x * p = 2 * y
    BY <2>1, <2>2, SMTT(20)
  <2> HIDE DEF y
  <2>6. (2 * y) \div 2 = y
    BY <2>5
  <2>7. (x * p) \div 2 = y
    BY <2>5, <2>6
  <2> QED
    BY <1>1, <1>3, <2>3, <2>4, <2>5, <2>7 DEF y
<1> QED
  BY <1>2, <1>3

-----------------------------------------------------------------------------
\* Before the first turn nothing is scaled and nothing divided.
LEMMA InitIInv == Numbers!Init => IInv
<1> SUFFICES ASSUME Numbers!Init PROVE IInv
  OBVIOUS
<1> USE DEF Numbers!Init, Numbers!Numbers
<1>1. Value(current) = 1 /\ 1 \in Power2
  BY TopFacts, PowerHalves
<1>2. NumbersOK
  BY <1>1, TopFacts DEF NumbersOK
<1>3. Value(b) > 0 => Value(denom) = Value(b) * Value(current) /\ Value(denom) < Top
  BY <1>1, TopFacts
<1> QED
  BY <1>1, <1>2, <1>3 DEF IInv, Scaling, Dividing, Finished

\* One more doubling keeps denom = b * current and does not wrap.
LEMMA ScaleUpIInv == IInv /\ Numbers!ScaleUp => IInv'
<1> SUFFICES ASSUME IInv, Numbers!ScaleUp PROVE IInv'
  OBVIOUS
<1> USE DEF Numbers!ScaleUp
<1>1. NumbersOK /\ Scaling
  BY DEF IInv
<1>2. Value(current') \in Nat /\ Value(denom') \in Nat /\ Value(denom') < Top
  BY <1>1, TopFacts DEF NumbersOK
<1>3. NumbersOK'
  BY <1>1, <1>2 DEF NumbersOK
<1>4. ASSUME Value(b) > 0
      PROVE  Value(current') \in Power2 /\ Value(denom') = Value(b) * Value(current')
  <2>1. /\ Value(current) \in Power2 /\ Value(denom) = Value(b) * Value(current)
        /\ Value(b) \in Nat /\ Value(current) \in Nat
    BY <1>1, <1>4, Zenon DEF Scaling, NumbersOK, Numbers!ScaleUp
  <2>2. Value(current) <= Value(denom)
    BY <1>4, <2>1, SMTT(20)
  <2>3. 2 * Value(current) < Top /\ 2 * Value(current) \in Nat
    BY <2>1, <2>2, TopFacts, <1>1 DEF NumbersOK
  <2>4. Value(current') = 2 * Value(current)
    BY <2>3, TopFacts
  <2>5. Value(denom') = Value(b) * (2 * Value(current))
    BY <2>1, SMTT(20)
  <2> QED
    BY <2>1, <2>4, <2>5, PowerHalves
<1>5. Scaling'
  BY <1>1, <1>2, <1>4 DEF Scaling, NumbersOK
<1> QED
  BY <1>3, <1>5 DEF IInv, Dividing, Finished

\* Stopped at the top bit: twice the divisor is more than any dividend.
LEMMA ScaleStopIInv == IInv /\ Numbers!ScaleStop => IInv'
<1> SUFFICES ASSUME IInv, Numbers!ScaleStop PROVE IInv'
  OBVIOUS
<1> USE DEF Numbers!ScaleStop
<1>1. NumbersOK /\ Scaling
  BY DEF IInv
<1>2. Value(b) > 0
  BY <1>1, TopFacts DEF Scaling, NumbersOK
<1>3. /\ Value(current) \in Power2 /\ Value(denom) = Value(b) * Value(current)
      /\ Value(tmp) = Value(a)
  BY <1>1, <1>2, Zenon DEF Scaling
<1>4. Value(tmp) < 2 * Value(denom)
  BY <1>1, <1>3, TopFacts DEF NumbersOK
<1>5. Value(current) # 0
  BY <1>1, <1>2, <1>3, TopFacts, SMTT(20) DEF NumbersOK
<1>6. Value(a) = Value(b) * 0 + Value(tmp)
  BY <1>1, <1>3 DEF NumbersOK
<1> QED
  BY <1>1, <1>2, <1>3, <1>4, <1>5, <1>6 DEF IInv, NumbersOK, Scaling, Dividing, Finished

\* One doubling too far: halving gives a divisor that is not above the
\* dividend, or drops the only bit of current when b itself is above it.
LEMMA ScaleBackIInv == IInv /\ Numbers!ScaleBack => IInv'
<1> SUFFICES ASSUME IInv, Numbers!ScaleBack PROVE IInv'
  OBVIOUS
<1> USE DEF Numbers!ScaleBack
<1>1. NumbersOK /\ Scaling
  BY DEF IInv
<1>2. Value(b) > 0
  BY <1>1 DEF Scaling, NumbersOK
<1>3. /\ Value(current) \in Power2 /\ Value(denom) = Value(b) * Value(current)
      /\ Value(tmp) = Value(a)
      /\ Value(current) = 1 \/ Value(denom) <= 2 * Value(a)
  BY <1>1, <1>2, Zenon DEF Scaling
<1>4. /\ Value(denom') \in Nat /\ Value(current') \in Nat
      /\ Value(current) = 1 => Value(current') = 0
      /\ Value(current) # 1 => /\ Value(current') \in Power2 /\ Value(current') # 0
                        /\ Value(denom') = Value(b) * Value(current')
                        /\ 2 * Value(denom') = Value(denom)
  BY <1>1, <1>2, <1>3, Halve DEF NumbersOK
<1>5. NumbersOK'
  BY <1>1, <1>4 DEF NumbersOK
<1>6. Value(a) = Value(b) * Value(c') + Value(tmp)
  BY <1>1, <1>3 DEF NumbersOK
<1>7. Value(current) = 1 => Value(tmp) < Value(b)
  BY <1>1, <1>3 DEF NumbersOK
<1>8. Value(tmp) < Value(denom)
  BY <1>3
<1>9. Dividing'
  <2>1. CASE Value(current) = 1
    BY <2>1, <1>2, <1>4, <1>6, <1>7 DEF Dividing
  <2>2. CASE Value(current) # 1
    BY <2>2, <1>1, <1>2, <1>4, <1>6, <1>8 DEF Dividing, NumbersOK
  <2> QED
    BY <2>1, <2>2
<1> QED
  BY <1>5, <1>9 DEF IInv, Scaling, Finished

\* A turn of the second loop moves b * current from what is left to the
\* result, if it goes in, and halves the divisor.
LEMMA SubtractIInv == IInv /\ Numbers!Subtract => IInv'
<1> SUFFICES ASSUME IInv, Numbers!Subtract PROVE IInv'
  OBVIOUS
<1> USE DEF Numbers!Subtract
<1>1. NumbersOK /\ Dividing
  BY DEF IInv
<1>2. /\ Value(b) > 0 /\ Value(a) = Value(b) * Value(c) + Value(tmp)
      /\ Value(current) \in Power2
      /\ Value(denom) = Value(b) * Value(current) /\ Value(tmp) < 2 * Value(denom)
  BY <1>1 DEF Dividing
<1>3. /\ Value(denom') \in Nat /\ Value(current') \in Nat
      /\ Value(current) = 1 => Value(current') = 0
      /\ Value(current) # 1 => /\ Value(current') \in Power2 /\ Value(current') # 0
                        /\ Value(denom') = Value(b) * Value(current')
                        /\ 2 * Value(denom') = Value(denom)
  BY <1>1, <1>2, Halve DEF NumbersOK
<1>4. /\ Value(tmp') \in Nat /\ Value(c') \in Nat /\ Value(tmp') < Value(denom)
      /\ Value(a) = Value(b) * Value(c') + Value(tmp')
  <2>1. CASE Value(tmp) >= Value(denom)
    <3>1. Value(tmp') = Value(tmp) - Value(denom) /\ Value(c') = Value(c) + Value(current)
      BY <2>1
    <3>2. Value(b) * (Value(c) + Value(current)) = Value(b) * Value(c) + Value(b) * Value(current)
      BY <1>1, SMTT(20) DEF NumbersOK
    <3> QED
      BY <1>1, <1>2, <2>1, <3>1, <3>2 DEF NumbersOK
  <2>2. CASE ~ (Value(tmp) >= Value(denom))
    BY <1>1, <1>2, <2>2 DEF NumbersOK
  <2> QED
    BY <2>1, <2>2
<1>5. NumbersOK'
  BY <1>1, <1>3, <1>4 DEF NumbersOK
<1>6. Dividing'
  <2>1. CASE Value(current) = 1
    <3>1. Value(denom) = Value(b)
      BY <1>1, <1>2, <2>1 DEF NumbersOK
    <3> QED
      BY <2>1, <3>1, <1>2, <1>3, <1>4 DEF Dividing
  <2>2. CASE Value(current) # 1
    BY <2>2, <1>2, <1>3, <1>4 DEF Dividing
  <2> QED
    BY <2>1, <2>2
<1> QED
  BY <1>5, <1>6 DEF IInv, Scaling, Finished

\* One lemma for each turn.
LEMMA NextIInv == IInv /\ [Numbers!Next]_(Numbers!vars) => IInv'
<1> SUFFICES ASSUME IInv, [Numbers!Next]_(Numbers!vars) PROVE IInv'
  OBVIOUS
<1>1. CASE Numbers!ScaleUp
  BY <1>1, ScaleUpIInv
<1>2. CASE Numbers!ScaleStop
  BY <1>2, ScaleStopIInv
<1>3. CASE Numbers!ScaleBack
  BY <1>3, ScaleBackIInv
<1>4. CASE Numbers!Subtract
  BY <1>4, SubtractIInv
<1>5. CASE Numbers!Return
  BY <1>5 DEF Numbers!Return, IInv, NumbersOK, Scaling, Dividing, Finished
<1>6. CASE UNCHANGED Numbers!vars
  BY <1>6 DEF Numbers!vars, IInv, NumbersOK, Scaling, Dividing, Finished
<1> QED
  BY <1>1, <1>2, <1>3, <1>4, <1>5, <1>6 DEF Numbers!Next

\* Whatever the width, a division that returns had a positive divisor and
\* returns the quotient rounded down: bignum_div() of bn.c.
THEOREM QuotientCorrect == Numbers!Spec => []Numbers!Quotient
<1>1. IInv => Numbers!Quotient
  <2> SUFFICES ASSUME IInv, pc = "returned"
               PROVE  /\ Value(b) > 0
                      /\ Value(c) = Value(a) \div Value(b)
                      /\ Value(tmp) = Value(a) % Value(b)
    BY DEF Numbers!Quotient
  <2>1. Value(a) = Value(b) * Value(c) + Value(tmp) /\ Value(tmp) < Value(b) /\ Value(b) > 0
    BY DEF IInv, Dividing, Finished
  <2>2. Value(b) \in Nat /\ Value(c) \in Nat /\ Value(tmp) \in Nat /\ Value(a) \in Nat
    BY DEF IInv, NumbersOK
  <2> QED
    BY <2>1, <2>2, DivisionUnique
<1> QED
  BY InitIInv, NextIInv, <1>1, PTL DEF Numbers!Spec


\* What bignum_div() returns, in words: a divisor that was not zero, the
\* quotient rounded down in c and the remainder in tmp.
THEOREM DivisionOnWords == Spec => []Numbers!Quotient
BY WordsKeepDivision, QuotientCorrect, PTL DEF KeepsDivision

=============================================================================
