------------------------------ MODULE Division ------------------------------
(***************************************************************************)
(* bignum_div() of bn.c on the numbers its word arrays stand for: scale    *)
(* the divisor up by doubling, then subtract and halve.  Numbers are below *)
(* Top, 2^1024 in the code; BigNumDiv does the same on words.              *)
(***************************************************************************)
EXTENDS Width

VARIABLES
    a, b,       \* the arguments: dividend and divisor
    current,    \* the power of two that denom is a multiple by
    denom,
    tmp,        \* what is left of the dividend
    c,          \* the result
    pc          \* "scale": the first loop; "divide": the second; "returned"

vars == <<a, b, current, denom, tmp, c, pc>>

Numbers == 0 .. Top - 1
Half == Top \div 2

\* c holds whatever the caller last computed in it.
Init == /\ a \in Numbers /\ b \in Numbers /\ c \in Numbers
        /\ current = 1 % Top
        /\ denom = b
        /\ tmp = a
        /\ pc = "scale"

\* One more doubling: the divisor is not above the dividend and has a bit left.
ScaleUp == /\ pc = "scale"
           /\ denom <= a /\ denom < Half
           /\ current' = (2 * current) % Top
           /\ denom' = 2 * denom
           /\ UNCHANGED <<a, b, tmp, c, pc>>

\* overflow: the top bit of the divisor is set, it stays where it is.
ScaleStop == /\ pc = "scale"
             /\ denom <= a /\ denom >= Half
             /\ c' = 0
             /\ pc' = "divide"
             /\ UNCHANGED <<a, b, current, denom, tmp>>

\* The loop has gone one doubling too far and steps back.
ScaleBack == /\ pc = "scale"
             /\ denom > a
             /\ denom' = denom \div 2 /\ current' = current \div 2
             /\ c' = 0
             /\ pc' = "divide"
             /\ UNCHANGED <<a, b, tmp>>

Subtract == /\ pc = "divide" /\ current # 0
            /\ IF tmp >= denom
                 THEN tmp' = tmp - denom /\ c' = c + current
                 ELSE UNCHANGED <<tmp, c>>
            /\ current' = current \div 2 /\ denom' = denom \div 2
            /\ UNCHANGED <<a, b, pc>>

Return == /\ pc = "divide" /\ current = 0
          /\ pc' = "returned"
          /\ UNCHANGED <<a, b, current, denom, tmp, c>>

Next == ScaleUp \/ ScaleStop \/ ScaleBack \/ Subtract \/ Return

Spec == Init /\ [][Next]_vars

-----------------------------------------------------------------------------
\* What bignum_div() is for ("c = a / b", bn.h:90): it returns for no divisor
\* but a positive one, and then with the quotient rounded down and the
\* remainder left in tmp.
Quotient == pc = "returned" => /\ b > 0
                               /\ c = a \div b
                               /\ tmp = a % b

=============================================================================
