------------------------------- MODULE BigNum -------------------------------
(***************************************************************************)
(* The big numbers of bn.c: arrays of ArraySize words of Base values each, *)
(* least significant first.  In the code a word has 32 bits and a number   *)
(* 32 words.  An intermediate result has twice the bits of a word          *)
(* (DTYPE_TMP): a sum of two words and a carry fits it, and so does a      *)
(* product of two words.                                                   *)
(***************************************************************************)
EXTENDS Integers

CONSTANTS
    WordBits,    \* 8 * WORD_SIZE
    Base,        \* MAX_VAL + 1
    ArraySize    \* BN_ARRAY_SIZE

\* The powers of two that a word or its overflow can be.
Pow2[k \in 0 .. WordBits] == IF k = 0 THEN 1 ELSE 2 * Pow2[k - 1]

ASSUME WordAssumption == /\ WordBits \in Nat \ {0} /\ Base = Pow2[WordBits]
                         /\ ArraySize \in Nat /\ ArraySize >= 4

Word == 0 .. Base - 1
Index == 0 .. ArraySize - 1
HalfMax == Base \div 2     \* half_max, the top bit of a word
Bn == [Index -> Word]

\* What one counts for in word i: the base to the power of i.
Weight[i \in 0 .. ArraySize] == IF i = 0 THEN 1 ELSE Base * Weight[i - 1]

\* The numbers that the lowest words of an array stand for, and that all do.
Values(n) ==
    LET v[i \in 0 .. ArraySize] == IF i = 0 THEN 0
                                   ELSE v[i - 1] + n[i - 1] * Weight[i - 1]
    IN  v
Value(n) == Values(n)[ArraySize]

-----------------------------------------------------------------------------
bignum_init == [i \in Index |-> 0]

\* Of a number of two words: its low word and its high word.
bignum_from_uint64_t(v) ==
    [i \in Index |-> CASE i = 0 -> v % Base
                       [] i = 1 -> (v \div Base) % Base
                       [] OTHER -> 0]

bignum_to_uint64_t(n) == n[0] + n[1] * Base

\* The carry into each word is at most one.
Carries(x, y) ==
    LET carry[i \in Index] ==
          IF i > 0 /\ x[i - 1] + y[i - 1] + carry[i - 1] >= Base THEN 1 ELSE 0
    IN  carry

bignum_add(x, y) == [i \in Index |-> (x[i] + y[i] + Carries(x, y)[i]) % Base]

\* A word borrows from the next one when, with the base added, it has not the
\* base left.
Borrows(x, y) ==
    LET borrow[i \in Index] ==
          IF i > 0 /\ x[i - 1] + Base - (y[i - 1] + borrow[i - 1]) < Base THEN 1 ELSE 0
    IN  borrow

bignum_sub(x, y) ==
    [i \in Index |-> (x[i] + Base - (y[i] + Borrows(x, y)[i])) % Base]

\* The | of the code, on words: a bit is set that is set in one of them.
HasBit(word, k) == (word \div Pow2[k]) % 2 = 1

Or(v, w) ==
    LET bits[k \in 0 .. WordBits] ==
          IF k = 0 THEN 0
          ELSE bits[k - 1] + IF HasBit(v, k - 1) \/ HasBit(w, k - 1) THEN Pow2[k - 1] ELSE 0
    IN  bits[WordBits]

bignum_or(x, y) == [i \in Index |-> Or(x[i], y[i])]

\* The words compared from the top: the first that differ decide.
bignum_cmp(x, y) ==
    LET differ == {i \in Index : x[i] # y[i]}
        top == CHOOSE i \in differ : \A j \in differ : j <= i
    IN  IF differ = {} THEN "EQUAL" ELSE IF x[top] > y[top] THEN "LARGER" ELSE "SMALLER"

bignum_is_zero(n) == \A i \in Index : n[i] = 0

_lshift_word(n, nwords) ==
    [i \in Index |-> IF i >= nwords THEN n[i - nwords] ELSE 0]

\* A shift by one bit: the words' outer bits cross into their neighbours; the
\* bits of a word that was shifted and the one that comes in do not meet.
_lshift_one_bit(n) ==
    [i \in Index |-> ((2 * n[i]) % Base) + (IF i = 0 THEN 0 ELSE n[i - 1] \div HalfMax)]

_rshift_one_bit(n) ==
    [i \in Index |-> n[i] \div 2
                     + (IF i = ArraySize - 1 THEN 0 ELSE (n[i + 1] % 2) * HalfMax)]

\* Mutation: the product of two words is cut to one word.
Row_word(x, y, i) ==
    LET sum[j \in 0 .. ArraySize - i] ==
          IF j = 0 THEN bignum_init
          ELSE bignum_add(
                 _lshift_word(bignum_from_uint64_t((x[i] * y[j - 1]) % Base), i + j - 1),
                 sum[j - 1])
    IN  sum[ArraySize - i]

\* Long multiplication: one row for each word of x, the products that lie
\* beyond the last word left out.
Row(x, y, i) ==
    LET sum[j \in 0 .. ArraySize - i] ==
          IF j = 0 THEN bignum_init
          ELSE bignum_add(
                 _lshift_word(bignum_from_uint64_t(x[i] * y[j - 1]), i + j - 1),
                 sum[j - 1])
    IN  sum[ArraySize - i]

bignum_mul(x, y) ==
    LET total[i \in 0 .. ArraySize] ==
          IF i = 0 THEN bignum_init ELSE bignum_add(total[i - 1], Row(x, y, i - 1))
    IN  total[ArraySize]

-----------------------------------------------------------------------------
\* Mutation: the high half lands one word too low.
uint128_t_to_bignum_low(v) ==
    bignum_add(bignum_from_uint64_t(v % Weight[2]),
               _lshift_word(bignum_from_uint64_t(v \div Weight[2]), 1))

\* The type script's amounts of four words, there and back.
uint128_t_to_bignum(v) ==
    bignum_add(bignum_from_uint64_t(v % Weight[2]),
               _lshift_word(bignum_from_uint64_t(v \div Weight[2]), 2))

bignum_to_uint128_t(n) ==
    n[0] + n[1] * Weight[1] + n[2] * Weight[2] + n[3] * Weight[3]

=============================================================================
