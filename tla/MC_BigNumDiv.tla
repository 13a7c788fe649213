--------------------------- MODULE MC_BigNumDiv ---------------------------
(***************************************************************************)
(* bignum_div() for TLC, on numbers of four words of two bits: small and   *)
(* large dividends and divisors, with and without the top bit.             *)
(***************************************************************************)
EXTENDS BigNumDiv

SomeDividends == (0 .. 24) \union (60 .. 68) \union (124 .. 131) \union (248 .. 255)
SomeDivisors == (0 .. 9) \union {16, 17, 63, 64, 65, 127, 128, 129, 200, 254, 255}
=============================================================================
