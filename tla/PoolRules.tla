------------------------------ MODULE PoolRules ------------------------------
(***************************************************************************)
(* What the scripts demand of the numbers of one pool: the branches of the *)
(* type script's main() after udtswap_default_check() has read the cells,  *)
(* and the comparison of the liquidity token script.                       *)
(*                                                                         *)
(* r1, r2, liquidity are the values before the transaction, the names that *)
(* end in _after the values behind it.  The reserves are net: main() has   *)
(* subtracted the defaults that creation locked (lines 1009-1012).         *)
(***************************************************************************)
EXTENDS SwapMath

CONSTANTS
    AddMinimum,  \* ADD_LIQUIDITY_MINIMUM
    U128         \* 2^128, the width of token amounts and of pool data

ASSUME WidthAssumption == /\ AddMinimum \in Nat \ {0}
                          /\ U128 \in Nat \ {0}

-----------------------------------------------------------------------------
\* RESERVE_BELOW_MINIMUM_ERROR, on the reserves as the cells hold them: before
\* the transaction a pool may hold its defaults, behind it it must hold more.
above_minimum(reserve, reserve_after, default) ==
    /\ reserve >= default
    /\ reserve_after > default

\* Total liquidity unchanged: a swap, in the direction the reserves show.
swap_branch(r1, r2, liquidity, r1_after, r2_after, liquidity_after) ==
    /\ liquidity = liquidity_after
    /\ r1 # 0 /\ r2 # 0
    /\ liquidity # 0
    /\ \/ r1 < r1_after /\ r2 > r2_after /\ swap(r1, r2, r1_after, r2_after)
       \/ r1 > r1_after /\ r2 < r2_after /\ swap(r2, r1, r2_after, r1_after)

\* Total liquidity risen.  An empty pool takes any pair of amounts and mints
\* as much liquidity as the first one; a funded pool takes proportional ones.
add_branch(r1, r2, liquidity, r1_after, r2_after, liquidity_after) ==
    /\ liquidity < liquidity_after
    /\ r1_after > r1 /\ r2_after > r2
    /\ \/ /\ liquidity = 0
          /\ r1_after >= AddMinimum
          /\ liquidity_after = r1_after
       \/ /\ liquidity # 0
          /\ r1_after - r1 >= AddMinimum
          /\ add_liquidity(r1, r2, r1_after, r2_after, liquidity, liquidity_after)

\* Total liquidity fallen.
remove_branch(r1, r2, liquidity, r1_after, r2_after, liquidity_after) ==
    /\ liquidity > liquidity_after
    /\ r1 # 0 /\ r2 # 0
    /\ r1_after < r1 /\ r2_after < r2
    /\ remove_liquidity(r1, r2, r1_after, r2_after, liquidity, liquidity_after)

-----------------------------------------------------------------------------
\* Sums and differences of 128-bit amounts wrap.
Wrap(n) == n % U128

\* Mutation: the branch for burning is missing.
liquidity_moved_no_burn(liquidity, liquidity_after, input, output) ==
    IF liquidity_after > liquidity
      THEN Wrap(input + liquidity_after - liquidity) = output
      ELSE input = output

\* The end of check_owner_mode_transfer(): the tokens of a pool that a
\* transaction of this pool consumes (input) and creates (output) differ by
\* what the total liquidity gains or loses, up to wrapping.
liquidity_moved(liquidity, liquidity_after, input, output) ==
    IF liquidity_after > liquidity
      THEN Wrap(input + liquidity_after - liquidity) = output
      ELSE IF liquidity_after < liquidity
      THEN input = Wrap(output + liquidity - liquidity_after)
      ELSE input = output

=============================================================================
