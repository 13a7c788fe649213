----------------------------- MODULE BigNumDiv -----------------------------
(***************************************************************************)
(* bignum_div() of bn.c, one step for each turn of its two loops, on the   *)
(* words of its local numbers.  The dividend and the divisor are any pair  *)
(* of numbers; a divisor of zero is for the callers to exclude.            *)
(***************************************************************************)
EXTENDS BigNum, Width

CONSTANTS Dividends, Divisors    \* the arguments to divide, as numbers

ASSUME ArgumentAssumption == /\ Top = Weight[ArraySize]
                             /\ Dividends \union Divisors \subseteq 0 .. Top - 1

VARIABLES a, b, current, denom, tmp, c, overflow, pc

vars == <<a, b, current, denom, tmp, c, overflow, pc>>

\* The array that stands for a number.
Words(v) == [i \in Index |-> (v \div Weight[i]) % Base]

\* The result is one of the caller's temporaries: blank, or with the words of
\* an earlier result, here as many as the dividend's.
Init == /\ a \in {Words(v) : v \in Dividends}
        /\ b \in {Words(v) : v \in Divisors}
        /\ current = bignum_from_uint64_t(1)
        /\ denom = b
        /\ tmp = a
        /\ c \in {bignum_init, a}
        /\ overflow = FALSE
        /\ pc = "scale"

\* Mutation: the first loop without the test of the divisor's top bit.
Scale_no_overflow ==
    /\ pc = "scale" /\ bignum_cmp(denom, a) # "LARGER"
    /\ current' = _lshift_one_bit(current)
    /\ denom' = _lshift_one_bit(denom)
    /\ UNCHANGED <<a, b, tmp, c, overflow, pc>>

\* while (denom <= a)
Scale == /\ pc = "scale" /\ ~overflow /\ bignum_cmp(denom, a) # "LARGER"
         /\ denom[ArraySize - 1] < HalfMax
         /\ current' = _lshift_one_bit(current)
         /\ denom' = _lshift_one_bit(denom)
         /\ UNCHANGED <<a, b, tmp, c, overflow, pc>>

ScaleOverflow == /\ pc = "scale" /\ ~overflow /\ bignum_cmp(denom, a) # "LARGER"
                 /\ denom[ArraySize - 1] >= HalfMax
                 /\ overflow' = TRUE
                 /\ UNCHANGED <<a, b, current, denom, tmp, c, pc>>

\* Mutation: the step back is always taken.
BeginDivide_always_back ==
    /\ pc = "scale" /\ (overflow \/ bignum_cmp(denom, a) = "LARGER")
    /\ denom' = _rshift_one_bit(denom)
    /\ current' = _rshift_one_bit(current)
    /\ c' = bignum_init
    /\ pc' = "divide"
    /\ UNCHANGED <<a, b, tmp, overflow>>

\* Behind the first loop.
BeginDivide ==
    /\ pc = "scale" /\ (overflow \/ bignum_cmp(denom, a) = "LARGER")
    /\ IF overflow THEN UNCHANGED <<current, denom>>
       ELSE /\ denom' = _rshift_one_bit(denom)
            /\ current' = _rshift_one_bit(current)
    /\ c' = bignum_init
    /\ pc' = "divide"
    /\ UNCHANGED <<a, b, tmp, overflow>>

\* while (current != 0)
Divide == /\ pc = "divide" /\ ~bignum_is_zero(current)
          /\ IF bignum_cmp(tmp, denom) # "SMALLER"
               THEN /\ tmp' = bignum_sub(tmp, denom)
                    /\ c' = bignum_or(c, current)
               ELSE UNCHANGED <<tmp, c>>
          /\ current' = _rshift_one_bit(current)
          /\ denom' = _rshift_one_bit(denom)
          /\ UNCHANGED <<a, b, overflow, pc>>

Return == /\ pc = "divide" /\ bignum_is_zero(current)
          /\ pc' = "returned"
          /\ UNCHANGED <<a, b, current, denom, tmp, c, overflow>>

Next == Scale \/ ScaleOverflow \/ BeginDivide \/ Divide \/ Return

\* A running function takes its next step.
Spec == Init /\ [][Next]_vars /\ WF_vars(Next)

-----------------------------------------------------------------------------
\* The arithmetic on words is arithmetic of numbers modulo the width of the
\* array: the carries, the borrows and the rows of the long multiplication.
WordsAreNumbers ==
    /\ Value(bignum_add(a, b)) = (Value(a) + Value(b)) % Top
    /\ Value(bignum_sub(a, b)) = (Value(a) + Top - Value(b)) % Top
    /\ Value(bignum_mul(a, b)) = (Value(a) * Value(b)) % Top
    /\ bignum_cmp(a, b) = IF Value(a) = Value(b) THEN "EQUAL"
                          ELSE IF Value(a) > Value(b) THEN "LARGER" ELSE "SMALLER"

\* An amount of 128 bits goes into a big number and comes out of it unchanged.
AmountsSurvive ==
    LET v == Value(a) % Weight[4]
    IN  /\ Value(uint128_t_to_bignum(v)) = v
        /\ bignum_to_uint128_t(uint128_t_to_bignum(v)) = v
        /\ bignum_to_uint64_t(bignum_from_uint64_t(v % Weight[2])) = v % Weight[2]

\* The numbers of Division that the words stand for.
Numbers == INSTANCE Division
    WITH a <- Value(a), b <- Value(b), current <- Value(current),
         denom <- Value(denom), tmp <- Value(tmp), c <- Value(c)

\* On words bignum_div() does what Division does on numbers; the turn of the
\* loop that sets overflow is no step of its own there.
KeepsDivision == Numbers!Spec

\* bignum_div() returns whenever the divisor is not zero, also at the width's
\* end, where doubling would overflow.  (That it does not return otherwise is
\* safety: DivisionOnWords.  The callers test the divisor first.)
Returns == (b # bignum_init) => <>(pc = "returned")

=============================================================================
