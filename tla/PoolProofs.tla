----------------------------- MODULE PoolProofs -----------------------------
(***************************************************************************)
(* The theorems about a single pool, for every fee, every minimum, all     *)
(* defaults and all widths of the amounts: what the formulas of the type   *)
(* script guarantee, what the pool guarded by them keeps and promises,     *)
(* what a share is worth over any run of transactions, and what the quotes *)
(* of the wallet are to the scripts.                                       *)
(*                                                                         *)
(* Then the transactions that the wallet builds for its requests, for all  *)
(* wallets, pools, amounts and capacities.  That what is collected         *)
(* suffices is a fact about the sums the caps are made of.  For the rest,  *)
(* BuilderInv says what has been built when the first pools have been      *)
(* added, as a term (AllInputs, AllOutputs); Laid says where the cells of  *)
(* the whole transaction are that the change is computed from.             *)
(***************************************************************************)
EXTENDS PoolHistory, Quotes, TxBuilder, CellFacts

-----------------------------------------------------------------------------
(* The formulas of the type script. *)

\* Truncating division, as BigInt and bignum_div compute it.
LEMMA DivBounds ==
    ASSUME NEW a \in Nat, NEW b \in Nat \ {0}
    PROVE  /\ a \div b \in Nat
           /\ (a \div b) * b <= a
           /\ a < (a \div b) * b + b
OBVIOUS

\* Products of amounts are amounts: the provers want it said.
LEMMA ProductNat == \A a, b \in Nat : a * b \in Nat
OBVIOUS

\* No product of positive amounts is rounded to nothing.
LEMMA ProductPositive == \A a, b \in Nat : a > 0 /\ b > 0 => a * b > 0
OBVIOUS

\* More than the fair share of the input (input * rest, a product of what the
\* pool gains and keeps) means a larger product of the reserves.
LEMMA ProductOfParts ==
    ASSUME NEW ir \in Nat, NEW or \in Nat, NEW input \in Nat, NEW output \in Nat,
           input * (or - output) > ir * output
    PROVE  (ir + input) * (or - output) > ir * or
<1>1. (ir + input) * (or - output) = ir * or - ir * output + input * (or - output)
  OBVIOUS
<1> QED
  BY <1>1

\* The fee takes a part of the input that is worth something.
LEMMA FeeBites ==
    ASSUME NEW p \in Nat, NEW q \in Nat, q > 0, p * ExceptFee >= q * Thousand
    PROVE  p > q
BY FeeAssumption

\* A reserve that is not empty can be divided out of a comparison.
LEMMA Cancel ==
    ASSUME NEW r \in Nat \ {0}, NEW p \in Nat, NEW q \in Nat, r * p <= r * q
    PROVE  p <= q
OBVIOUS

-----------------------------------------------------------------------------
\* Every swap the type script accepts leaves the pool with a larger product of
\* its reserves, whichever of the two formulas accepts it.
THEOREM SwapGrowsProduct ==
    ASSUME NEW ir \in Nat \ {0}, NEW or \in Nat \ {0},
           NEW ir_after \in Nat, NEW or_after \in Nat \ {0},
           ir_after > ir, or_after < or,
           swap(ir, or, ir_after, or_after)
    PROVE  ir_after * or_after > ir * or
<1> DEFINE input == ir_after - ir
           output == or - or_after
           rest == (or - output) * ExceptFee
           paid == ir * Thousand + input * ExceptFee
           kept == input * (or - output)
           given == ir * output
<1>1. /\ input \in Nat \ {0} /\ output \in Nat \ {0}
      /\ or - output = or_after /\ ir_after = ir + input
      /\ Thousand \in Nat \ {0} /\ ExceptFee \in Nat \ {0}
  BY FeeAssumption
<1>2. kept \in Nat /\ given \in Nat /\ given > 0
  BY <1>1, ProductNat, ProductPositive
<1>3. rest \in Nat \ {0}
  BY <1>1, ProductNat, ProductPositive
<1>4. paid \in Nat \ {0}
  BY <1>1, ProductNat, ProductPositive
<1>5. kept * ExceptFee >= given * Thousand
  <2>1. CASE (ir * Thousand * output) \div rest + 1 = input
    <3>1. ir * Thousand * output \in Nat
      BY <1>1
    <3>2. ir * Thousand * output
            < ((ir * Thousand * output) \div rest) * rest + rest
      BY <1>3, <3>1, DivBounds
    <3> DEFINE q == (ir * Thousand * output) \div rest
    <3>3. q \in Nat
      BY <1>3, <3>1, DivBounds
    <3>4. q * rest + rest = input * rest
      <4> HIDE DEF q, rest, input
      <4>1. input = q + 1
        BY <2>1, <3>3 DEF q, rest, input
      <4> QED
        BY <4>1, <3>3, <1>3
    <3>5. input * rest = kept * ExceptFee
      BY <1>1
    <3>6. ir * Thousand * output = given * Thousand
      BY <1>1
    <3> QED
      BY <3>1, <3>2, <3>4, <3>5, <3>6, <1>1, <1>2
  <2>2. CASE (input * ExceptFee * or) \div paid = output
    <3>1. input * ExceptFee * or \in Nat
      BY <1>1
    <3>2. output * paid <= input * ExceptFee * or
      BY <1>4, <2>2, <3>1, DivBounds
    <3>3. output * paid = given * Thousand + output * input * ExceptFee
      BY <1>1
    <3>4. input * ExceptFee * or = kept * ExceptFee + output * input * ExceptFee
      BY <1>1
    <3> QED
      BY <3>2, <3>3, <3>4, <1>1, <1>2
  <2> QED
    BY <2>1, <2>2 DEF swap
<1>6. kept > given
  BY <1>2, <1>5, FeeBites
<1> QED
  BY <1>1, <1>6, ProductOfParts

\* A deposit leaves every unit of liquidity worth at least as much of both
\* reserves as before, although one amount is rounded up and one down.
THEOREM AddKeepsShares ==
    ASSUME NEW r1 \in Nat \ {0}, NEW r2 \in Nat, NEW r1_after \in Nat,
           NEW r2_after \in Nat, NEW tl \in Nat, NEW tl_after \in Nat,
           r1_after > r1, r2_after > r2, tl_after > tl,
           add_liquidity(r1, r2, r1_after, r2_after, tl, tl_after)
    PROVE  /\ r1 * tl_after <= r1_after * tl
           /\ r2 * tl_after <= r2_after * tl
<1> DEFINE a1 == r1_after - r1
           a2 == r2_after - r2
           L == tl_after - tl
<1>1. /\ a1 \in Nat /\ a2 \in Nat /\ L \in Nat
      /\ r1_after = r1 + a1 /\ r2_after = r2 + a2 /\ tl_after = tl + L
  OBVIOUS
<1>2. L * r1 <= tl * a1
  <2>1. tl * a1 \in Nat /\ (tl * a1) \div r1 = L
    BY <1>1 DEF add_liquidity
  <2> QED
    BY <2>1, DivBounds
<1>3. r2 * a1 <= a2 * r1
  <2> DEFINE q == (r2 * a1) \div r1
  <2>1. r2 * a1 \in Nat /\ q + 1 = a2
    BY <1>1 DEF add_liquidity
  <2>2. q \in Nat /\ r2 * a1 < q * r1 + r1
    BY <2>1, DivBounds
  <2> HIDE DEF q, a1, a2
  <2>3. q * r1 + r1 = a2 * r1
    BY <2>1, <2>2
  <2> QED
    BY <2>1, <2>2, <2>3, <1>1
<1> HIDE DEF a1, a2, L
<1>4. r1 * tl_after <= r1_after * tl
  BY <1>1, <1>2
<1>5. r2 * L <= a2 * tl
  <2>1. r1 * (r2 * L) <= r2 * (tl * a1)
    <3>1. r1 * (r2 * L) = r2 * (L * r1)
      BY <1>1
    <3>2. L * r1 \in Nat /\ tl * a1 \in Nat
      BY <1>1
    <3> QED
      BY <1>2, <3>1, <3>2
  <2>2. tl * (r2 * a1) <= tl * (a2 * r1)
    <3>1. r2 * a1 \in Nat /\ a2 * r1 \in Nat
      BY <1>1
    <3> QED
      BY <1>3, <3>1
  <2>3. r2 * (tl * a1) = tl * (r2 * a1) /\ tl * (a2 * r1) = r1 * (a2 * tl)
    BY <1>1
  <2>4. r2 * L \in Nat /\ a2 * tl \in Nat
    BY <1>1
  <2>5. r1 * (r2 * L) <= r1 * (a2 * tl)
    BY <2>1, <2>2, <2>3, <2>4, <1>1
  <2> QED
    BY <2>4, <2>5, Cancel
<1>6. r2 * tl_after <= r2_after * tl
  BY <1>1, <1>5
<1> QED
  BY <1>4, <1>6

\* A withdrawal does so too: both amounts are rounded down.
THEOREM RemoveKeepsShares ==
    ASSUME NEW r1 \in Nat, NEW r2 \in Nat, NEW r1_after \in Nat,
           NEW r2_after \in Nat, NEW tl \in Nat \ {0}, NEW tl_after \in Nat,
           r1_after < r1, r2_after < r2, tl_after < tl,
           remove_liquidity(r1, r2, r1_after, r2_after, tl, tl_after)
    PROVE  /\ r1 * tl_after <= r1_after * tl
           /\ r2 * tl_after <= r2_after * tl
<1>1. ASSUME NEW r \in Nat, NEW r_after \in Nat, r_after < r,
             ((tl - tl_after) * r) \div tl = r - r_after
      PROVE  r * tl_after <= r_after * tl
  <2> DEFINE L == tl - tl_after
             a == r - r_after
  <2>1. /\ L \in Nat /\ a \in Nat /\ L * r \in Nat
        /\ tl_after = tl - L /\ r_after = r - a
    BY <1>1
  <2>2. a * tl <= L * r
    BY <1>1, <2>1, DivBounds
  <2> HIDE DEF L, a
  <2> QED
    BY <2>1, <2>2
<1> QED
  BY <1>1 DEF remove_liquidity

-----------------------------------------------------------------------------
\* Products grow with their factors.
LEMMA ProductMonotone ==
    ASSUME NEW k \in Nat, NEW x \in Nat, NEW y \in Nat, x <= y
    PROVE  k * x \in Nat /\ k * y \in Nat /\ k * x <= k * y
BY SMTT(20)

\* No product or sum of the three functions leaves the big numbers, if these
\* hold twice Thousand times the square of an amount's width: with amounts of
\* 128 bits and a fee in thousandths that is less than 267 bits of 1024.
\* SwapMath may therefore compute with the numbers of Nat.
THEOREM IntermediatesFit ==
    ASSUME NEW w \in Nat, NEW top \in Nat, top > 2 * (Thousand * (w * w)),
           NEW x \in 0 .. w - 1, NEW y \in 0 .. w - 1, NEW z \in 0 .. w - 1
    PROVE  /\ x * y + 1 < top                          \* the two proportions
           /\ x * Thousand * y + 1 < top               \* input by output
           /\ x * ExceptFee * y < top                  \* output by input
           /\ x * Thousand + z * ExceptFee < top       \* its divisor
<1> DEFINE s == w * w
           p == x * y
<1>1. w >= 1 /\ Thousand \in Nat /\ ExceptFee \in Nat /\ Thousand >= 2 /\ ExceptFee < Thousand
  BY FeeAssumption
<1>2. p \in Nat /\ s \in Nat /\ s >= 1 /\ p + 1 <= s
  <2>1. x + 1 <= w /\ y + 1 <= w
    OBVIOUS
  <2>2. (x + 1) * (y + 1) <= w * w
    BY <2>1, SMTT(20)
  <2>3. (x + 1) * (y + 1) = x * y + x + y + 1
    BY SMTT(20)
  <2> QED
    BY <2>2, <2>3, <1>1, ProductNat
<1>3. x <= s /\ z <= s
  <2>1. w <= w * w
    BY <1>1, SMTT(20)
  <2> QED
    BY <2>1
<1>4. x * Thousand * y = Thousand * p /\ x * ExceptFee * y = ExceptFee * p
  BY <1>1, SMTT(20)
<1>5. x * Thousand = Thousand * x /\ z * ExceptFee = ExceptFee * z
  BY <1>1, SMTT(20)
<1> HIDE DEF s, p
<1>6. /\ Thousand * p <= Thousand * s /\ Thousand * x <= Thousand * s
      /\ Thousand * p \in Nat /\ Thousand * s \in Nat /\ Thousand * x \in Nat
  BY <1>1, <1>2, <1>3, ProductMonotone
<1>7. /\ ExceptFee * p <= Thousand * p /\ ExceptFee * p \in Nat
      /\ ExceptFee * z <= Thousand * z /\ ExceptFee * z \in Nat
  BY <1>1, <1>2, SMTT(20)
<1>8. Thousand * z <= Thousand * s /\ Thousand * z \in Nat
  BY <1>1, <1>2, <1>3, ProductMonotone
<1>9. s <= Thousand * s
  BY <1>1, <1>2, SMTT(20)
<1>10. top > 2 * (Thousand * s)
  BY DEF s
<1>11. Thousand * s >= 2
  BY <1>1, <1>2, SMTT(20)
<1>12. p + 1 < top
  BY <1>2, <1>6, <1>9, <1>10
<1>13. Thousand * p + 1 < top /\ ExceptFee * p < top
  BY <1>6, <1>7, <1>10, <1>11
<1>14. Thousand * x + ExceptFee * z < top
  BY <1>6, <1>7, <1>8, <1>10
<1> QED
  BY <1>4, <1>5, <1>12, <1>13, <1>14 DEF p

-----------------------------------------------------------------------------
(* The invariants and the promise of a pool. *)

\* The inductive invariant: the types, the reserves tied to the liquidity, and
\* a pool that does not exist yet has no liquidity.
IInv == /\ TypeOK
        /\ FundedIffLiquidity
        /\ ~created => total_liquidity = 0

-----------------------------------------------------------------------------
\* The last liquidity cannot be withdrawn: all of it is worth all of the
\* reserve, and a reserve must stay above its default.
LEMMA RemoveLeavesLiquidity ==
    ASSUME NEW r1 \in Nat, NEW r2 \in Nat, NEW r1_after \in Nat \ {0},
           NEW r2_after \in Nat, NEW tl \in Nat \ {0}, NEW tl_after \in Nat,
           remove_liquidity(r1, r2, r1_after, r2_after, tl, tl_after)
    PROVE  tl_after # 0
<1> SUFFICES ASSUME tl_after = 0 PROVE FALSE
  OBVIOUS
<1>1. (tl * r1) \div tl = r1 - r1_after
  BY DEF remove_liquidity
<1>2. tl * r1 \in Nat
  OBVIOUS
<1>3. tl * r1 < (r1 - r1_after) * tl + tl
  BY <1>1, <1>2, DivBounds
<1>4. (r1 - r1_after) * tl + tl = tl * r1 - (r1_after - 1) * tl
  OBVIOUS
<1>5. (r1_after - 1) * tl >= 0
  OBVIOUS
<1> QED
  BY <1>3, <1>4, <1>5

\* What an accepted transaction of a pool does to its net reserves: they are
\* positive behind it, and were natural numbers before.
LEMMA AboveNets ==
    ASSUME TypeOK, NEW r1 \in Reserve1, NEW r2 \in Reserve2, Above(r1, r2)
    PROVE  /\ created
           /\ Net1 \in Nat /\ Net2 \in Nat
           /\ r1 - Default1 \in Nat \ {0} /\ r2 - Default2 \in Nat \ {0}
BY PoolAssumption DEF TypeOK, Above, above_minimum, Net1, Net2, Reserve1, Reserve2

-----------------------------------------------------------------------------
\* Before its creation a pool holds nothing and no liquidity.
LEMMA InitIInv == Init => IInv
<1> SUFFICES ASSUME Init PROVE IInv
  OBVIOUS
<1>1. reserve1 \in Reserve1 /\ reserve2 \in Reserve2
      /\ total_liquidity \in Liquidity /\ lp_supply \in Nat
  BY PoolAssumption DEF Init, Reserve1, Reserve2, Liquidity
<1> QED
  BY <1>1, Zenon DEF Init, IInv, TypeOK, FundedIffLiquidity

\* A swap changes neither liquidity nor the sign of a reserve: the script
\* refuses to touch a pool without liquidity and to empty one with it.
LEMMA SwapIInv ==
    ASSUME IInv, NEW r1 \in Reserve1, NEW r2 \in Reserve2, Swap(r1, r2)
    PROVE  IInv'
<1>1. /\ r1 - Default1 > 0 /\ r2 - Default2 > 0
  BY AboveNets DEF IInv, Swap
<1>2. total_liquidity > 0
  BY DEF IInv, TypeOK, Liquidity, Swap, swap_branch
<1> QED
  BY <1>1, <1>2 DEF IInv, TypeOK, FundedIffLiquidity, Net1, Net2, Swap, Above

\* Token amounts never become negative, whatever a transaction moves.
LEMMA SupplyNat ==
    ASSUME TypeOK, NEW after, NEW input \in 0 .. lp_supply, NEW output \in Nat,
           MoveTokens(after, input, output)
    PROVE  lp_supply' \in Nat
BY DEF TypeOK, MoveTokens

\* A deposit leaves liquidity, and reserves above the defaults.
LEMMA AddIInv ==
    ASSUME IInv, NEW r1 \in Reserve1, NEW r2 \in Reserve2,
           NEW liquidity \in Liquidity, AddLiquidity(r1, r2, liquidity)
    PROVE  IInv'
<1>1. /\ r1 - Default1 > 0 /\ r2 - Default2 > 0
  BY AboveNets DEF IInv, AddLiquidity
<1>2. liquidity > 0
  BY DEF IInv, TypeOK, Liquidity, AddLiquidity, add_branch
<1>3. lp_supply' \in Nat
  <2>1. PICK input \in 0 .. lp_supply, output \in 1 .. LpOutputLimit - 1 :
          MoveTokens(liquidity, input, output)
    BY DEF AddLiquidity
  <2> QED
    BY <2>1, SupplyNat, PoolAssumption DEF IInv
<1> QED
  BY <1>1, <1>2, <1>3
     DEF IInv, TypeOK, FundedIffLiquidity, Net1, Net2, AddLiquidity, Above

\* A withdrawal does so too, because it cannot be of the last liquidity.
LEMMA RemoveIInv ==
    ASSUME IInv, NEW r1 \in Reserve1, NEW r2 \in Reserve2,
           NEW liquidity \in Liquidity, RemoveLiquidity(r1, r2, liquidity)
    PROVE  IInv'
<1>1. /\ Net1 \in Nat /\ Net2 \in Nat
      /\ r1 - Default1 \in Nat \ {0} /\ r2 - Default2 \in Nat \ {0}
  BY AboveNets DEF IInv, RemoveLiquidity
<1>2. liquidity > 0
  <2>1. total_liquidity \in Nat \ {0} /\ liquidity \in Nat
    BY PoolAssumption DEF IInv, TypeOK, Liquidity, RemoveLiquidity, remove_branch
  <2>2. remove_liquidity(Net1, Net2, r1 - Default1, r2 - Default2,
                         total_liquidity, liquidity)
    BY DEF RemoveLiquidity, remove_branch
  <2> QED
    BY <1>1, <2>1, <2>2, RemoveLeavesLiquidity
<1>3. lp_supply' \in Nat
  <2>1. PICK input \in 1 .. lp_supply, output \in 0 .. LpOutputLimit - 1 :
          MoveTokens(liquidity, input, output)
    BY DEF RemoveLiquidity
  <2> QED
    BY <2>1, SupplyNat, PoolAssumption DEF IInv
<1> QED
  BY <1>1, <1>2, <1>3
     DEF IInv, TypeOK, FundedIffLiquidity, Net1, Net2, RemoveLiquidity, Above

\* Every accepted transaction keeps the inductive invariant.
LEMMA NextIInv == IInv /\ [Next]_vars => IInv'
<1> SUFFICES ASSUME IInv, [Next]_vars PROVE IInv'
  OBVIOUS
<1>1. CASE Create
  BY <1>1, PoolAssumption
     DEF Create, IInv, TypeOK, FundedIffLiquidity, Net1, Net2, Reserve1,
         Reserve2, Liquidity
<1>2. ASSUME NEW r1 \in Reserve1, NEW r2 \in Reserve2, Swap(r1, r2)
      PROVE  IInv'
  BY <1>2, SwapIInv
<1>3. ASSUME NEW r1 \in Reserve1, NEW r2 \in Reserve2,
             NEW liquidity \in Liquidity, AddLiquidity(r1, r2, liquidity)
      PROVE  IInv'
  BY <1>3, AddIInv
<1>4. ASSUME NEW r1 \in Reserve1, NEW r2 \in Reserve2,
             NEW liquidity \in Liquidity, RemoveLiquidity(r1, r2, liquidity)
      PROVE  IInv'
  BY <1>4, RemoveIInv
<1>5. CASE TransferTokens
  <2>1. PICK input \in 1 .. lp_supply, output \in 1 .. LpOutputLimit - 1 :
          MoveTokens(total_liquidity, input, output)
    BY <1>5 DEF TransferTokens
  <2>2. lp_supply' \in Nat
    BY <2>1, SupplyNat, PoolAssumption DEF IInv
  <2> QED
    BY <1>5, <2>2
       DEF TransferTokens, IInv, TypeOK, FundedIffLiquidity, Net1, Net2
<1>6. CASE UNCHANGED vars
  BY <1>6 DEF vars, IInv, TypeOK, FundedIffLiquidity, Net1, Net2
<1> QED
  BY <1>1, <1>2, <1>3, <1>4, <1>5, <1>6 DEF Next

\* The inductive invariant holds for ever.
LEMMA Invariance == Spec => []IInv
BY InitIInv, NextIInv, PTL DEF Spec

\* The reserves stay within the widths of a capacity and of a token amount,
\* and no number becomes negative.
THEOREM TypeCorrect == Spec => []TypeOK
<1>1. IInv => TypeOK
  BY DEF IInv
<1> QED
  BY <1>1, Invariance, PTL

\* A pool has liquidity exactly as long as it holds more than its defaults of
\* both tokens; once it has, it is never empty again.
THEOREM FundedIffLiquidityHolds == Spec => []FundedIffLiquidity
<1>1. IInv => FundedIffLiquidity
  BY DEF IInv
<1> QED
  BY <1>1, Invariance, PTL

-----------------------------------------------------------------------------
\* No sum of the token script reaches 2^128: the liquidity and the tokens one
\* transaction creates are together no larger.
NoWrap == LiquidityLimit + LpOutputLimit <= U128

\* Wrapping leaves a number that has the width alone.
LEMMA WrapSmall ==
    ASSUME NEW n \in Nat, n < U128
    PROVE  Wrap(n) = n
BY WidthAssumption DEF Wrap

\* Without wrapping the token script keeps the books: the tokens in
\* circulation change by what the total liquidity changes.
LEMMA MoveTokensBacked ==
    ASSUME NoWrap, TypeOK, SupplyBacked, NEW after \in Liquidity,
           NEW input \in 0 .. lp_supply, NEW output \in 0 .. LpOutputLimit - 1,
           MoveTokens(after, input, output)
    PROVE  lp_supply' = after
<1>1. /\ total_liquidity \in Nat /\ after \in Nat /\ input \in Nat /\ output \in Nat
      /\ lp_supply = total_liquidity /\ input <= total_liquidity
      /\ total_liquidity < LiquidityLimit /\ after < LiquidityLimit
      /\ output < LpOutputLimit /\ U128 \in Nat
      /\ LiquidityLimit <= U128 /\ LiquidityLimit \in Nat /\ LpOutputLimit \in Nat
  BY PoolAssumption, WidthAssumption DEF TypeOK, SupplyBacked, Liquidity
<1>2. liquidity_moved(total_liquidity, after, input, output)
  BY DEF MoveTokens
<1>3. lp_supply' = lp_supply - input + output
  BY DEF MoveTokens
<1>4. CASE after > total_liquidity
  <2>1. /\ input + after - total_liquidity \in Nat
        /\ input + after - total_liquidity < U128
    BY <1>1, <1>4
  <2>2. Wrap(input + after - total_liquidity) = output
    BY <1>2, <1>4 DEF liquidity_moved
  <2>3. Wrap(input + after - total_liquidity) = input + after - total_liquidity
    BY <2>1, WrapSmall
  <2> QED
    BY <1>1, <1>3, <2>2, <2>3
<1>5. CASE after < total_liquidity
  <2>1. /\ output + total_liquidity - after \in Nat
        /\ output + total_liquidity - after < U128
    BY <1>1, <1>5 DEF NoWrap
  <2>2. input = Wrap(output + total_liquidity - after)
    BY <1>1, <1>2, <1>5 DEF liquidity_moved
  <2>3. Wrap(output + total_liquidity - after) = output + total_liquidity - after
    BY <2>1, WrapSmall
  <2> QED
    BY <1>1, <1>3, <2>2, <2>3
<1>6. CASE after = total_liquidity
  BY <1>1, <1>2, <1>3, <1>6 DEF liquidity_moved
<1> QED
  BY <1>1, <1>4, <1>5, <1>6

\* Every accepted transaction keeps the books, if no sum wraps.
LEMMA NextSupplyBacked ==
    ASSUME NoWrap, IInv, SupplyBacked, [Next]_vars
    PROVE  SupplyBacked'
<1>1. CASE Create
  <2>1. total_liquidity = 0
    BY <1>1 DEF Create, IInv
  <2> QED
    BY <1>1, <2>1 DEF Create, SupplyBacked
<1>2. ASSUME NEW r1 \in Reserve1, NEW r2 \in Reserve2, Swap(r1, r2)
      PROVE  SupplyBacked'
  BY <1>2 DEF Swap, SupplyBacked
<1>3. ASSUME NEW r1 \in Reserve1, NEW r2 \in Reserve2,
             NEW liquidity \in Liquidity, AddLiquidity(r1, r2, liquidity)
      PROVE  SupplyBacked'
  <2>1. PICK input \in 0 .. lp_supply, output \in 1 .. LpOutputLimit - 1 :
          MoveTokens(liquidity, input, output)
    BY <1>3 DEF AddLiquidity
  <2>2. output \in 0 .. LpOutputLimit - 1
    BY PoolAssumption
  <2>3. lp_supply' = liquidity
    BY <2>1, <2>2, MoveTokensBacked DEF IInv
  <2> QED
    BY <1>3, <2>3 DEF AddLiquidity, SupplyBacked
<1>4. ASSUME NEW r1 \in Reserve1, NEW r2 \in Reserve2,
             NEW liquidity \in Liquidity, RemoveLiquidity(r1, r2, liquidity)
      PROVE  SupplyBacked'
  <2>1. PICK input \in 1 .. lp_supply, output \in 0 .. LpOutputLimit - 1 :
          MoveTokens(liquidity, input, output)
    BY <1>4 DEF RemoveLiquidity
  <2>2. input \in 0 .. lp_supply
    BY DEF IInv, TypeOK
  <2>3. lp_supply' = liquidity
    BY <2>1, <2>2, MoveTokensBacked DEF IInv
  <2> QED
    BY <1>4, <2>3 DEF RemoveLiquidity, SupplyBacked
<1>5. CASE TransferTokens
  <2>1. PICK input \in 1 .. lp_supply, output \in 1 .. LpOutputLimit - 1 :
          MoveTokens(total_liquidity, input, output)
    BY <1>5 DEF TransferTokens
  <2>2. input \in 0 .. lp_supply /\ output \in 0 .. LpOutputLimit - 1
    BY PoolAssumption DEF IInv, TypeOK
  <2>3. total_liquidity \in Liquidity
    BY DEF IInv, TypeOK
  <2>4. lp_supply' = total_liquidity
    BY <2>1, <2>2, <2>3, MoveTokensBacked DEF IInv
  <2> QED
    BY <1>5, <2>4 DEF TransferTokens, SupplyBacked
<1>6. CASE UNCHANGED vars
  BY <1>6 DEF vars, SupplyBacked
<1> QED
  BY <1>1, <1>2, <1>3, <1>4, <1>5, <1>6 DEF Next

\* As long as no sum wraps, the liquidity tokens in circulation are as many as
\* the pool has recorded.  (Without NoWrap they need not be: run pool_wrap.)
THEOREM SupplyBackedHolds ==
    ASSUME NoWrap
    PROVE  Spec => []SupplyBacked
<1>1. Init => SupplyBacked
  BY DEF Init, SupplyBacked
<1>2. IInv /\ SupplyBacked /\ [Next]_vars => SupplyBacked'
  BY NextSupplyBacked
<1> QED
  BY <1>1, <1>2, Invariance, PTL DEF Spec

-----------------------------------------------------------------------------
\* A swap is a trade: it moves the reserves in opposite directions and their
\* product up.
LEMMA SwapPromise ==
    ASSUME IInv, NEW r1 \in Reserve1, NEW r2 \in Reserve2, Swap(r1, r2)
    PROVE  Promise!Trade
<1> DEFINE x1 == r1 - Default1
           x2 == r2 - Default2
<1>1. /\ created
      /\ Net1 \in Nat /\ Net2 \in Nat
      /\ x1 \in Nat \ {0} /\ x2 \in Nat \ {0}
  BY AboveNets DEF IInv, Swap
<1>2. /\ Net1 # 0 /\ Net2 # 0
      /\ \/ Net1 < x1 /\ Net2 > x2 /\ swap(Net1, Net2, x1, x2)
         \/ Net1 > x1 /\ Net2 < x2 /\ swap(Net2, Net1, x2, x1)
      /\ total_liquidity # 0
  BY DEF Swap, swap_branch
<1>3. x1 * x2 > Net1 * Net2
  <2>1. CASE Net1 < x1 /\ Net2 > x2 /\ swap(Net1, Net2, x1, x2)
    BY <1>1, <1>2, <2>1, SwapGrowsProduct
  <2>2. CASE Net1 > x1 /\ Net2 < x2 /\ swap(Net2, Net1, x2, x1)
    <3>1. x2 * x1 > Net2 * Net1
      BY <1>1, <1>2, <2>2, SwapGrowsProduct
    <3> QED
      BY <3>1, <1>1
  <2> QED
    BY <1>2, <2>1, <2>2
<1>4. created' = created /\ total_liquidity' = total_liquidity
      /\ Net1' = x1 /\ Net2' = x2
  BY DEF Swap, Net1, Net2
<1>5. total_liquidity > 0
  BY <1>2 DEF IInv, TypeOK, Liquidity
<1> HIDE DEF x1, x2
<1> QED
  BY <1>1, <1>2, <1>3, <1>4, <1>5 DEF Promise!Trade

\* A deposit is the first one, which sets the price, or one that dilutes no
\* share.
LEMMA AddPromise ==
    ASSUME IInv, NEW r1 \in Reserve1, NEW r2 \in Reserve2,
           NEW liquidity \in Liquidity, AddLiquidity(r1, r2, liquidity)
    PROVE  Promise!Fund \/ Promise!Deposit
<1> DEFINE x1 == r1 - Default1
           x2 == r2 - Default2
<1>1. /\ created
      /\ Net1 \in Nat /\ Net2 \in Nat
      /\ x1 \in Nat \ {0} /\ x2 \in Nat \ {0}
      /\ total_liquidity \in Nat /\ liquidity \in Nat
  BY AboveNets, PoolAssumption DEF IInv, TypeOK, Liquidity, AddLiquidity
<1>2. add_branch(Net1, Net2, total_liquidity, x1, x2, liquidity)
  BY DEF AddLiquidity
<1>3. created' = created /\ total_liquidity' = liquidity
      /\ Net1' = x1 /\ Net2' = x2
  BY DEF AddLiquidity, Net1, Net2
<1> HIDE DEF x1, x2
<1>4. CASE total_liquidity = 0
  <2>1. liquidity = x1
    BY <1>2, <1>4 DEF add_branch
  <2> QED
    BY <1>1, <1>3, <1>4, <2>1 DEF Promise!Fund
<1>5. CASE total_liquidity # 0
  <2>1. /\ x1 > Net1 /\ x2 > Net2 /\ liquidity > total_liquidity
        /\ add_liquidity(Net1, Net2, x1, x2, total_liquidity, liquidity)
    BY <1>2, <1>5 DEF add_branch
  <2>2. Net1 \in Nat \ {0}
    BY <1>1, <1>5 DEF IInv, FundedIffLiquidity
  <2>3. /\ Net1 * liquidity <= x1 * total_liquidity
        /\ Net2 * liquidity <= x2 * total_liquidity
    BY <1>1, <2>1, <2>2, AddKeepsShares
  <2> QED
    BY <1>1, <1>3, <1>5, <2>1, <2>3 DEF Promise!Deposit, Promise!NoDilution
<1> QED
  BY <1>4, <1>5

\* A withdrawal dilutes no share and does not empty the pool.
LEMMA RemovePromise ==
    ASSUME IInv, NEW r1 \in Reserve1, NEW r2 \in Reserve2,
           NEW liquidity \in Liquidity, RemoveLiquidity(r1, r2, liquidity)
    PROVE  Promise!Withdraw
<1> DEFINE x1 == r1 - Default1
           x2 == r2 - Default2
<1>1. /\ created
      /\ Net1 \in Nat /\ Net2 \in Nat
      /\ x1 \in Nat \ {0} /\ x2 \in Nat \ {0}
      /\ total_liquidity \in Nat /\ liquidity \in Nat
  BY AboveNets, PoolAssumption DEF IInv, TypeOK, Liquidity, RemoveLiquidity
<1>2. /\ total_liquidity > liquidity /\ x1 < Net1 /\ x2 < Net2
      /\ remove_liquidity(Net1, Net2, x1, x2, total_liquidity, liquidity)
  BY DEF RemoveLiquidity, remove_branch
<1>3. created' = created /\ total_liquidity' = liquidity
      /\ Net1' = x1 /\ Net2' = x2
  BY DEF RemoveLiquidity, Net1, Net2
<1> HIDE DEF x1, x2
<1>4. total_liquidity \in Nat \ {0}
  BY <1>1, <1>2
<1>5. liquidity > 0
  BY <1>1, <1>2, <1>4, RemoveLeavesLiquidity
<1>6. /\ Net1 * liquidity <= x1 * total_liquidity
      /\ Net2 * liquidity <= x2 * total_liquidity
  BY <1>1, <1>2, <1>4, RemoveKeepsShares
<1> QED
  BY <1>1, <1>2, <1>3, <1>4, <1>5, <1>6
     DEF Promise!Withdraw, Promise!NoDilution

\* A pool that the scripts guard is a pool that keeps PoolPromise: trades make
\* the product of its reserves grow, and neither deposits nor withdrawals nor
\* trades let a share lose value.
THEOREM PoolKeepsPromise == Spec => KeepsPromise
<1>1. Init => Promise!Init
  BY DEF Init, Promise!Init
<1>2. IInv /\ [Next]_vars => [Promise!Next]_(Promise!promise)
  <2> SUFFICES ASSUME IInv, [Next]_vars
               PROVE  Promise!Next \/ UNCHANGED Promise!promise
    OBVIOUS
  <2>1. CASE Create
    <3>1. /\ ~created /\ created' = TRUE
          /\ total_liquidity' = 0 /\ total_liquidity = 0
          /\ Net1' = 0 /\ Net2' = 0
      BY <2>1, PoolAssumption DEF Create, Net1, Net2, IInv
    <3> QED
      BY <3>1 DEF Promise!Open, Promise!Next
  <2>2. ASSUME NEW r1 \in Reserve1, NEW r2 \in Reserve2, Swap(r1, r2)
        PROVE  Promise!Next
    BY <2>2, SwapPromise DEF Promise!Next
  <2>3. ASSUME NEW r1 \in Reserve1, NEW r2 \in Reserve2,
               NEW liquidity \in Liquidity, AddLiquidity(r1, r2, liquidity)
        PROVE  Promise!Next
    BY <2>3, AddPromise DEF Promise!Next
  <2>4. ASSUME NEW r1 \in Reserve1, NEW r2 \in Reserve2,
               NEW liquidity \in Liquidity, RemoveLiquidity(r1, r2, liquidity)
        PROVE  Promise!Next
    BY <2>4, RemovePromise DEF Promise!Next
  <2>5. CASE TransferTokens \/ UNCHANGED vars
    BY <2>5 DEF TransferTokens, vars, Promise!promise, Net1, Net2
  <2> QED
    BY <2>1, <2>2, <2>3, <2>4, <2>5 DEF Next
<1> QED
  BY <1>1, <1>2, Invariance, PTL DEF Spec, KeepsPromise, Promise!Spec

-----------------------------------------------------------------------------
(* The value of a share. *)

\* A comparison of products follows from one of their factors.
LEMMA ProductsCompare ==
    ASSUME NEW p \in Nat, NEW q \in Nat, NEW u \in Nat, NEW v \in Nat, p <= q, u <= v
    PROVE  p * u <= q * v
<1>1. p * u <= q * u
  OBVIOUS
<1>2. q * u <= q * v
  OBVIOUS
<1> QED
  BY <1>1, <1>2, ProductNat

\* Value is kept by a step (from p and s to q and t) and was kept up to it (from
\* p0 and s0): it is kept over both.  p, q are products of reserves, s, t
\* squares of liquidity.
LEMMA ValueChain ==
    ASSUME NEW p0 \in Nat, NEW s0 \in Nat, NEW p \in Nat \ {0}, NEW s \in Nat,
           NEW q \in Nat, NEW t \in Nat,
           p * s0 >= p0 * s, q * s >= p * t
    PROVE  q * s0 >= p0 * t
<1>1. q * (p0 * s) <= q * (p * s0)
  BY ProductNat, ProductsCompare
<1>2. p0 * (p * t) <= p0 * (q * s)
  BY ProductNat, ProductsCompare
<1>3. /\ q * (p0 * s) = p0 * (q * s)
      /\ p0 * (p * t) = p * (p0 * t)
      /\ q * (p * s0) = p * (q * s0)
  BY SMTT(30)
<1> DEFINE left == p0 * t
           right == q * s0
<1>4. left \in Nat /\ right \in Nat
  BY ProductNat
<1>5. /\ q * (p0 * s) \in Nat /\ q * (p * s0) \in Nat
      /\ p0 * (p * t) \in Nat /\ p0 * (q * s) \in Nat
  BY ProductNat
<1>6. p * left <= p * right
  BY <1>1, <1>2, <1>3, <1>5
<1> HIDE DEF left, right
<1>7. left <= right
  BY <1>4, <1>6, Cancel
<1> QED
  BY <1>4, <1>7 DEF left, right

\* A transaction that dilutes neither reserve keeps the value of a share.
LEMMA NoDilutionKeepsValue ==
    ASSUME NEW x \in Nat, NEW y \in Nat, NEW s \in Nat,
           NEW x1 \in Nat, NEW y1 \in Nat, NEW s1 \in Nat,
           x * s1 <= x1 * s, y * s1 <= y1 * s
    PROVE  x1 * y1 * (s * s) >= x * y * (s1 * s1)
<1>1. (x * s1) * (y * s1) <= (x1 * s) * (y1 * s)
  BY ProductNat, ProductsCompare
<1>2. /\ (x * s1) * (y * s1) = x * y * (s1 * s1)
      /\ (x1 * s) * (y1 * s) = x1 * y1 * (s * s)
  BY SMTT(30)
<1> QED
  BY <1>1, <1>2

\* A trade keeps the liquidity and raises the product.
LEMMA TradeKeepsValue ==
    ASSUME NEW p \in Nat, NEW q \in Nat, NEW s \in Nat, p <= q
    PROVE  q * (s * s) >= p * (s * s)
<1>1. s * s \in Nat
  BY ProductNat
<1> QED
  BY <1>1, ProductsCompare

-----------------------------------------------------------------------------
FundedNumbers == /\ created
                 /\ Net1 \in Nat \ {0} /\ Net2 \in Nat \ {0}
                 /\ total_liquidity \in Nat \ {0}

\* What FundedIffLiquidity says of a pool that has liquidity.
LEMMA FundedIsPositive ==
    ASSUME IInv, created, total_liquidity > 0
    PROVE  FundedNumbers
BY PoolAssumption
   DEF IInv, TypeOK, FundedIffLiquidity, FundedNumbers, Net1, Net2,
       Reserve1, Reserve2, Liquidity

\* The same behind a step.
LEMMA FundedAfter ==
    ASSUME IInv', created', total_liquidity' > 0
    PROVE  FundedNumbers'
<1>1. /\ reserve1' \in Nat /\ reserve2' \in Nat /\ total_liquidity' \in Nat
      /\ Default1 \in Nat /\ Default2 \in Nat
  <2>1. /\ reserve1' \in Reserve1 /\ reserve2' \in Reserve2
        /\ total_liquidity' \in Liquidity
    BY DEF IInv, TypeOK
  <2> QED
    BY <2>1, PoolAssumption DEF Reserve1, Reserve2, Liquidity
<1>2. \/ total_liquidity' = 0
      \/ Net1' > 0 /\ Net2' > 0
  BY DEF IInv, FundedIffLiquidity
<1>3. Net1' \in Nat \ {0} /\ Net2' \in Nat \ {0} /\ total_liquidity' \in Nat \ {0}
  <2>1. Net1' = reserve1' - Default1 /\ Net2' = reserve2' - Default2
    BY DEF Net1, Net2
  <2>2. Net1' \in Int /\ Net2' \in Int
    BY <1>1, <2>1
  <2> QED
    BY <1>1, <1>2, <2>2
<1> QED
  BY <1>3 DEF FundedNumbers

Kept == /\ FundedNumbers'
        /\ Net1' * Net2' * (total_liquidity * total_liquidity)
             >= Net1 * Net2 * (total_liquidity' * total_liquidity')

\* No step of a funded pool lowers the value of a share, or empties the pool.
LEMMA StepKeepsValue ==
    ASSUME IInv, IInv', FundedNumbers, [Next]_vars
    PROVE  Kept
<1>1. CASE Create
  BY <1>1 DEF Create, FundedNumbers
<1>2. ASSUME NEW r1 \in Reserve1, NEW r2 \in Reserve2, Swap(r1, r2)
      PROVE  Kept
  <2>1. Promise!Trade
    BY <1>2, SwapPromise
  <2>2. /\ created' /\ total_liquidity' = total_liquidity
        /\ Net1' * Net2' > Net1 * Net2
    BY <1>2, <2>1 DEF Promise!Trade, Swap, Above, FundedNumbers
  <2>3. FundedNumbers'
    BY <2>2, FundedAfter DEF FundedNumbers
  <2> DEFINE p == Net1 * Net2
             q == Net1' * Net2'
  <2>4. p \in Nat /\ q \in Nat /\ p <= q
    <3>1. /\ Net1 \in Nat /\ Net2 \in Nat /\ Net1' \in Nat /\ Net2' \in Nat
      BY <2>3 DEF FundedNumbers
    <3>2. p \in Nat /\ q \in Nat
      BY <3>1, ProductNat
    <3> QED
      BY <2>2, <3>2
  <2> HIDE DEF p, q
  <2>5. q * (total_liquidity * total_liquidity) >= p * (total_liquidity * total_liquidity)
    BY <2>4, TradeKeepsValue DEF FundedNumbers
  <2> QED
    BY <2>2, <2>3, <2>5 DEF Kept, p, q
<1>3. ASSUME Promise!NoDilution, created', total_liquidity' > 0, total_liquidity' \in Nat
      PROVE  Kept
  <2>1. FundedNumbers'
    BY <1>3, FundedAfter
  <2>2. /\ Net1 * total_liquidity' <= Net1' * total_liquidity
        /\ Net2 * total_liquidity' <= Net2' * total_liquidity
    BY <1>3 DEF Promise!NoDilution, FundedNumbers
  <2> QED
    BY <2>1, <2>2, NoDilutionKeepsValue DEF Kept, FundedNumbers
<1>4. ASSUME NEW r1 \in Reserve1, NEW r2 \in Reserve2,
             NEW liquidity \in Liquidity, AddLiquidity(r1, r2, liquidity)
      PROVE  Kept
  <2>1. Promise!Deposit
    BY <1>4, AddPromise DEF Promise!Fund, FundedNumbers
  <2>2. created' /\ total_liquidity' = liquidity /\ liquidity \in Nat /\ total_liquidity' > 0
    BY <1>4, <2>1 DEF AddLiquidity, FundedNumbers, Liquidity, Promise!Deposit, Promise!NoDilution
  <2> QED
    BY <2>1, <2>2, <1>3 DEF Promise!Deposit
<1>5. ASSUME NEW r1 \in Reserve1, NEW r2 \in Reserve2,
             NEW liquidity \in Liquidity, RemoveLiquidity(r1, r2, liquidity)
      PROVE  Kept
  <2>1. Promise!Withdraw
    BY <1>5, RemovePromise
  <2>2. created' /\ total_liquidity' = liquidity /\ liquidity \in Nat /\ total_liquidity' > 0
    BY <1>5, <2>1 DEF RemoveLiquidity, FundedNumbers, Liquidity, Promise!Withdraw, Promise!NoDilution
  <2> QED
    BY <2>1, <2>2, <1>3 DEF Promise!Withdraw
<1>6. CASE TransferTokens \/ UNCHANGED vars
  <2>1. /\ created' = created /\ total_liquidity' = total_liquidity
        /\ Net1' = Net1 /\ Net2' = Net2
    BY <1>6 DEF TransferTokens, vars, Net1, Net2
  <2>2. Net1 * Net2 * (total_liquidity * total_liquidity) \in Nat
    BY ProductNat DEF FundedNumbers
  <2> QED
    BY <2>1, <2>2 DEF Kept, FundedNumbers
<1> QED
  BY <1>1, <1>2, <1>4, <1>5, <1>6 DEF Next

-----------------------------------------------------------------------------
\* A marked pool is funded, and the value of its shares has been kept.
HInv == mark # NotMarked =>
            /\ FundedNumbers
            /\ mark.x \in Nat \ {0} /\ mark.y \in Nat \ {0} /\ mark.shares \in Nat \ {0}
            /\ ValueKept

\* The moment itself: nothing lies between.
LEMMA MarkHInv == IInv /\ Mark => HInv'
<1> SUFFICES ASSUME IInv, Mark PROVE HInv'
  OBVIOUS
<1>1. FundedNumbers
  BY FundedIsPositive DEF Mark
<1>2. FundedNumbers'
  BY <1>1 DEF Mark, vars, FundedNumbers, Net1, Net2
<1>3. /\ mark'.x = Net1 /\ mark'.y = Net2 /\ mark'.shares = total_liquidity
      /\ Net1' = Net1 /\ Net2' = Net2 /\ total_liquidity' = total_liquidity
  BY DEF Mark, vars, Net1, Net2
<1>4. Net1 * Net2 * (total_liquidity * total_liquidity) \in Nat
  BY <1>1, ProductNat DEF FundedNumbers
<1>5. ValueKept'
  BY <1>3, <1>4 DEF ValueKept
<1> QED
  BY <1>1, <1>2, <1>3, <1>5 DEF HInv, FundedNumbers

\* One step more, by the chain.
LEMMA StepHInv == IInv /\ IInv' /\ HInv /\ [Next]_vars /\ mark' = mark => HInv'
<1> SUFFICES ASSUME IInv, IInv', HInv, [Next]_vars, mark' = mark, mark # NotMarked
             PROVE  FundedNumbers' /\ ValueKept'
  BY DEF HInv
<1>1. Kept
  BY StepKeepsValue DEF HInv
<1> DEFINE p0 == mark.x * mark.y
           s0 == mark.shares * mark.shares
           p == Net1 * Net2
           s == total_liquidity * total_liquidity
           q == Net1' * Net2'
           t == total_liquidity' * total_liquidity'
<1>2. /\ p0 \in Nat /\ s0 \in Nat /\ p \in Nat \ {0} /\ s \in Nat
      /\ q \in Nat /\ t \in Nat
  <2>1. p0 \in Nat /\ s0 \in Nat
    BY ProductNat DEF HInv
  <2>2. p \in Nat \ {0} /\ s \in Nat
    BY ProductNat, ProductPositive DEF HInv, FundedNumbers
  <2>3. q \in Nat /\ t \in Nat
    BY <1>1, ProductNat DEF Kept, FundedNumbers
  <2> QED
    BY <2>1, <2>2, <2>3
<1>3. p * s0 >= p0 * s
  BY DEF HInv, ValueKept
<1>4. q * s >= p * t
  BY <1>1 DEF Kept
<1>5. q * s0 >= p0 * t
  <2> HIDE DEF p0, s0, p, s, q, t
  <2> QED
    BY <1>2, <1>3, <1>4, ValueChain
<1> QED
  BY <1>1, <1>5 DEF Kept, ValueKept

\* Marking is no step of the pool, so its invariant holds of a marked pool too.
LEMMA HistoryInvariance == HistorySpec => []HInv
<1>1. HistorySpec => Spec
  <2>1. HistoryInit => Init
    BY DEF HistoryInit
  <2>2. [HistoryNext]_<<vars, mark>> => [Next]_vars
    BY DEF HistoryNext, Mark
  <2> QED
    BY <2>1, <2>2, PTL DEF HistorySpec, Spec
<1>2. HistoryInit => HInv
  BY DEF HistoryInit, HInv
<1>3. IInv /\ IInv' /\ HInv /\ [HistoryNext]_<<vars, mark>> => HInv'
  <2> SUFFICES ASSUME IInv, IInv', HInv, [HistoryNext]_<<vars, mark>> PROVE HInv'
    OBVIOUS
  <2>1. CASE Mark
    BY <2>1, MarkHInv
  <2>2. CASE ~Mark
    <3>1. [Next]_vars /\ mark' = mark
      BY <2>2 DEF HistoryNext
    <3> QED
      BY <3>1, StepHInv
  <2> QED
    BY <2>1, <2>2
<1> QED
  BY <1>1, <1>2, <1>3, Invariance, PTL DEF HistorySpec

\* Every pair of a moment and a later one: no sequence of transactions lowers
\* the value of a share.
THEOREM ValueIsKept == HistorySpec => []ValueKept
<1>1. HInv => ValueKept
  BY DEF HInv, ValueKept
<1> QED
  BY <1>1, HistoryInvariance, PTL

\* Nobody gets something for nothing out of a pool, however many transactions
\* and users take part.
THEOREM RoundTripsAreNotFree == HistorySpec => []NoFreeRoundTrip
<1>1. HInv => NoFreeRoundTrip
  <2> SUFFICES ASSUME HInv, mark # NotMarked, total_liquidity = mark.shares
               PROVE  /\ Net1 < mark.x => Net2 > mark.y
                      /\ Net2 < mark.y => Net1 > mark.x
    BY DEF NoFreeRoundTrip
  <2>1. /\ Net1 \in Nat \ {0} /\ Net2 \in Nat \ {0} /\ total_liquidity \in Nat \ {0}
        /\ mark.x \in Nat \ {0} /\ mark.y \in Nat \ {0}
    BY DEF HInv, FundedNumbers
  <2> DEFINE s == total_liquidity * total_liquidity
             p == Net1 * Net2
             p0 == mark.x * mark.y
  <2>2. p * s >= p0 * s
    BY DEF HInv, ValueKept
  <2>3. s \in Nat \ {0} /\ p \in Nat /\ p0 \in Nat
    BY <2>1, ProductNat, ProductPositive
  <2>4. p >= p0
    <3> HIDE DEF s, p, p0
    <3>1. s * p0 <= s * p
      BY <2>2, <2>3
    <3> QED
      BY <2>3, <3>1, Cancel
  <2>5. ASSUME NEW x \in Nat \ {0}, NEW y \in Nat \ {0},
               NEW x0 \in Nat \ {0}, NEW y0 \in Nat \ {0},
               x < x0, y <= y0
        PROVE  x * y < x0 * y0
    <3>1. x * y < x0 * y
      BY <2>5
    <3>2. x0 * y <= x0 * y0
      BY <2>5
    <3> QED
      BY <3>1, <3>2, ProductNat
  <2>6. ~ (Net1 < mark.x /\ Net2 <= mark.y)
    BY <2>1, <2>3, <2>4, <2>5
  <2>7. ~ (Net2 < mark.y /\ Net1 <= mark.x)
    <3>1. ASSUME Net2 < mark.y, Net1 <= mark.x
          PROVE  Net2 * Net1 < mark.y * mark.x
      BY <2>1, <2>5, <3>1
    <3> QED
      BY <2>1, <2>3, <2>4, <3>1
  <2> QED
    BY <2>1, <2>6, <2>7
<1> QED
  BY <1>1, HistoryInvariance, PTL

-----------------------------------------------------------------------------
(* The quotes of the wallet. *)

\* A quotient is the largest number that goes that many times.
LEMMA QuotientIsLargest ==
    ASSUME NEW n \in Nat, NEW d \in Nat \ {0}, NEW k \in Nat, k * d <= n
    PROVE  k <= n \div d
<1> DEFINE q == n \div d
<1>1. q \in Nat /\ n < q * d + d
  BY DivBounds
<1> HIDE DEF q
<1>2. d * k < d * (q + 1)
  BY <1>1
<1>3. k < q + 1
  <2> SUFFICES ASSUME k >= q + 1 PROVE FALSE
    BY <1>1
  <2>1. d * (q + 1) <= d * k
    BY <1>1, SMTT(20)
  <2> QED
    BY <1>1, <1>2, <2>1, SMTT(20)
<1> QED
  BY <1>1, <1>3 DEF q

\* A quotient is small where the number is.
LEMMA QuotientBelow ==
    ASSUME NEW n \in Nat, NEW d \in Nat \ {0}, NEW k \in Nat, n < k * d
    PROVE  n \div d < k
<1> DEFINE q == n \div d
<1>1. q \in Nat /\ q * d <= n
  BY DivBounds
<1> HIDE DEF q
<1>2. d * q < d * k
  BY <1>1
<1>3. q < k
  <2> SUFFICES ASSUME q >= k PROVE FALSE
    BY <1>1
  <2>1. d * k <= d * q
    BY <1>1, SMTT(20)
  <2> QED
    BY <1>1, <1>2, <2>1, SMTT(20)
<1> QED
  BY <1>3 DEF q

\* What an input amount is quoted leaves something in the pool, and satisfies
\* the second formula of swap().
LEMMA QuoteSwaps ==
    ASSUME NEW ir \in Nat \ {0}, NEW or \in Nat \ {0}, NEW input \in Nat \ {0},
           NEW output, output = calculateSwapOutputFromInput(ir, or, input), output > 0
    PROVE  /\ output \in Nat \ {0} /\ output < or
           /\ swap(ir, or, ir + input, or - output)
<1> DEFINE withFee == input * ExceptFee
           paid == ir * Thousand + withFee
           rest == (or - output) * ExceptFee
<1>1. /\ Thousand \in Nat \ {0} /\ ExceptFee \in Nat \ {0}
      /\ withFee \in Nat /\ ir * Thousand \in Nat /\ ir * Thousand > 0
  BY FeeAssumption, ProductNat, ProductPositive
<1>2. paid \in Nat \ {0} /\ withFee * or \in Nat
  BY <1>1, ProductNat
<1>3. output = (withFee * or) \div paid
  BY DEF calculateSwapOutputFromInput
<1>4. withFee * or < or * paid
  <2> HIDE DEF withFee
  <2>1. or * paid = or * (ir * Thousand) + withFee * or
    BY <1>1
  <2>2. or * (ir * Thousand) > 0
    BY <1>1, ProductPositive
  <2> QED
    BY <1>1, <1>2, <2>1, <2>2, ProductNat
<1>5. output \in Nat \ {0} /\ output < or
  <2> HIDE DEF withFee, paid
  <2> QED
    BY <1>2, <1>3, <1>4, QuotientBelow, DivBounds
<1>6. rest # 0
  BY <1>1, <1>5, ProductPositive
<1>7. (ir + input) - ir = input /\ or - (or - output) = output
  BY <1>5
<1>8. swap(ir, or, ir + input, or - output)
  <2>1. /\ or >= output /\ rest # 0 /\ paid # 0
        /\ (input * ExceptFee * or) \div paid = output
    BY <1>2, <1>3, <1>5, <1>6
  <2> QED
    BY <1>7, <2>1 DEF swap
<1> QED
  BY <1>5, <1>8

\* What a swap pays out is at most the quote for what it pays in.
LEMMA SwapWithinQuote ==
    ASSUME NEW ir \in Nat \ {0}, NEW or \in Nat \ {0},
           NEW ir_after \in Nat, NEW or_after \in Nat \ {0},
           ir_after > ir, or_after < or, swap(ir, or, ir_after, or_after)
    PROVE  or - or_after <= calculateSwapOutputFromInput(ir, or, ir_after - ir)
<1> DEFINE input == ir_after - ir
           output == or - or_after
           rest == (or - output) * ExceptFee
           paid == ir * Thousand + input * ExceptFee
           asked == ir * Thousand * output
<1>1. /\ input \in Nat \ {0} /\ output \in Nat \ {0} /\ or - output = or_after
      /\ Thousand \in Nat \ {0} /\ ExceptFee \in Nat \ {0}
  BY FeeAssumption
<1> HIDE DEF input, output
<1>2. /\ rest \in Nat \ {0} /\ paid \in Nat \ {0} /\ asked \in Nat
      /\ input * ExceptFee * or \in Nat
  BY <1>1, ProductNat, ProductPositive
<1>3. \/ asked \div rest + 1 = input
      \/ (input * ExceptFee * or) \div paid = output
  BY DEF swap, input, output
<1>4. CASE asked \div rest + 1 = input
  <2>1. asked < input * rest
    <3> HIDE DEF asked, rest
    <3>1. asked < (asked \div rest) * rest + rest /\ asked \div rest \in Nat
      BY <1>2, DivBounds
    <3>2. asked \div rest = input - 1
      BY <1>1, <1>4, <3>1
    <3>3. (input - 1) * rest + rest = input * rest
      BY <1>1, <1>2, SMTT(20)
    <3> QED
      BY <3>1, <3>2, <3>3
  <2>2. input * rest = input * ExceptFee * or - input * ExceptFee * output
    BY <1>1, SMTT(20)
  <2>3. output * paid = asked + input * ExceptFee * output
    BY <1>1, SMTT(20)
  <2>4. input * ExceptFee * output \in Nat
    BY <1>1, ProductNat
  <2>5. output * paid <= input * ExceptFee * or
    BY <1>2, <2>1, <2>2, <2>3, <2>4
  <2>6. output <= (input * ExceptFee * or) \div paid
    <3> HIDE DEF paid
    <3> QED
      BY <1>1, <1>2, <2>5, QuotientIsLargest
  <2> QED
    BY <2>6 DEF calculateSwapOutputFromInput, input, output
<1>5. CASE (input * ExceptFee * or) \div paid = output
  BY <1>1, <1>5 DEF calculateSwapOutputFromInput, input, output
<1> QED
  BY <1>3, <1>4, <1>5

-----------------------------------------------------------------------------
\* The numbers of a funded pool.
LEMMA FundedNets ==
    ASSUME IInv, Funded
    PROVE  /\ created /\ total_liquidity \in Nat \ {0}
           /\ Net1 \in Nat \ {0} /\ Net2 \in Nat \ {0}
           /\ reserve1 \in Nat /\ reserve2 \in Nat
           /\ reserve1 = Net1 + Default1 /\ reserve2 = Net2 + Default2
           /\ Default1 \in Nat /\ Default2 \in Nat
           /\ Limit1 \in Nat /\ Limit2 \in Nat
BY PoolAssumption
   DEF IInv, TypeOK, FundedIffLiquidity, Funded, Net1, Net2, Reserve1, Reserve2, Liquidity

\* A swap quoted by the wallet is accepted, whatever the amounts.
THEOREM SwapQuotesAccepted == Spec => []SwapQuoteAccepted
<1>1. ASSUME IInv, Funded, NEW input \in 1 .. Limit1 - 1 - reserve1,
             calculateSwapOutputFromInput(Net1, Net2, input) > 0
      PROVE  LET output == calculateSwapOutputFromInput(Net1, Net2, input)
             IN  /\ Above(reserve1 + input, reserve2 - output)
                 /\ swap_branch(Net1, Net2, total_liquidity,
                                Net1 + input, Net2 - output, total_liquidity)
  <2> DEFINE output == calculateSwapOutputFromInput(Net1, Net2, input)
  <2>1. input \in Nat \ {0}
    BY <1>1, FundedNets
  <2>2. /\ output \in Nat \ {0} /\ output < Net2
        /\ swap(Net1, Net2, Net1 + input, Net2 - output)
    BY <1>1, <2>1, FundedNets, QuoteSwaps
  <2> HIDE DEF output
  <2>3. Above(reserve1 + input, reserve2 - output)
    BY <1>1, <2>1, <2>2, FundedNets DEF Above, above_minimum
  <2>4. swap_branch(Net1, Net2, total_liquidity,
                    Net1 + input, Net2 - output, total_liquidity)
    BY <1>1, <2>1, <2>2, FundedNets DEF swap_branch
  <2> QED
    BY <2>3, <2>4 DEF output
<1>2. ASSUME IInv, Funded, NEW input \in 1 .. Limit2 - 1 - reserve2,
             calculateSwapOutputFromInput(Net2, Net1, input) > 0
      PROVE  LET output == calculateSwapOutputFromInput(Net2, Net1, input)
             IN  /\ Above(reserve1 - output, reserve2 + input)
                 /\ swap_branch(Net1, Net2, total_liquidity,
                                Net1 - output, Net2 + input, total_liquidity)
  <2> DEFINE output == calculateSwapOutputFromInput(Net2, Net1, input)
  <2>1. input \in Nat \ {0}
    BY <1>2, FundedNets
  <2>2. /\ output \in Nat \ {0} /\ output < Net1
        /\ swap(Net2, Net1, Net2 + input, Net1 - output)
    BY <1>2, <2>1, FundedNets, QuoteSwaps
  <2> HIDE DEF output
  <2>3. Above(reserve1 - output, reserve2 + input)
    BY <1>2, <2>1, <2>2, FundedNets DEF Above, above_minimum
  <2>4. swap_branch(Net1, Net2, total_liquidity,
                    Net1 - output, Net2 + input, total_liquidity)
    BY <1>2, <2>1, <2>2, FundedNets DEF swap_branch
  <2> QED
    BY <2>3, <2>4 DEF output
<1>3. IInv => SwapQuoteAccepted
  BY <1>1, <1>2, Zenon DEF SwapQuoteAccepted
<1> QED
  BY <1>3, Invariance, PTL

\* A deposit quoted by the wallet is accepted, if it buys any liquidity.
THEOREM AddQuotesAccepted == Spec => []AddQuoteAccepted
<1>1. ASSUME IInv, Funded, NEW udt1Amount \in AddMinimum .. Limit1 - 1 - reserve1
      PROVE  LET q == calculateAddLiquidityUDT2Amount(Net1, Net2, total_liquidity,
                                                      udt1Amount)
             IN  q.userLiquidity > 0 =>
                   add_branch(Net1, Net2, total_liquidity, Net1 + udt1Amount,
                              Net2 + q.udt2Amount, total_liquidity + q.userLiquidity)
  <2> DEFINE udt2Amount == (Net2 * udt1Amount) \div Net1 + 1
             userLiquidity == (total_liquidity * udt1Amount) \div Net1
  <2>1. udt1Amount \in Nat \ {0} /\ udt1Amount >= AddMinimum
    BY <1>1, FundedNets, WidthAssumption
  <2>2. udt2Amount \in Nat \ {0} /\ userLiquidity \in Nat
    <3>1. Net2 * udt1Amount \in Nat /\ total_liquidity * udt1Amount \in Nat
      BY <1>1, <2>1, FundedNets, ProductNat
    <3>2. (Net2 * udt1Amount) \div Net1 \in Nat /\ userLiquidity \in Nat
      BY <1>1, <3>1, FundedNets, DivBounds
    <3> QED
      BY <3>2
  <2>3. ASSUME userLiquidity > 0
        PROVE  add_branch(Net1, Net2, total_liquidity, Net1 + udt1Amount,
                          Net2 + udt2Amount, total_liquidity + userLiquidity)
    <3>1. /\ (Net1 + udt1Amount) - Net1 = udt1Amount
          /\ (Net2 + udt2Amount) - Net2 = udt2Amount
          /\ (total_liquidity + userLiquidity) - total_liquidity = userLiquidity
      <4> HIDE DEF udt2Amount, userLiquidity
      <4> QED
        BY <1>1, <2>1, <2>2, FundedNets
    <3>2. add_liquidity(Net1, Net2, Net1 + udt1Amount, Net2 + udt2Amount,
                        total_liquidity, total_liquidity + userLiquidity)
      <4>1. Net1 # 0
        BY <1>1, FundedNets
      <4> QED
        BY <3>1, <4>1 DEF add_liquidity
    <3> HIDE DEF udt2Amount, userLiquidity
    <3>3. /\ total_liquidity < total_liquidity + userLiquidity
          /\ Net1 + udt1Amount > Net1 /\ Net2 + udt2Amount > Net2
          /\ total_liquidity # 0
          /\ (Net1 + udt1Amount) - Net1 >= AddMinimum
      BY <1>1, <2>1, <2>2, <2>3, <3>1, FundedNets
    <3> QED
      BY <3>2, <3>3 DEF add_branch
  <2> QED
    BY <2>3 DEF calculateAddLiquidityUDT2Amount
<1>2. IInv => AddQuoteAccepted
  BY <1>1, Zenon DEF AddQuoteAccepted
<1> QED
  BY <1>2, Invariance, PTL

\* A part of the liquidity is worth less than the whole of either reserve.
LEMMA PartIsLess ==
    ASSUME NEW l \in Nat, NEW total \in Nat \ {0}, NEW r \in Nat \ {0}, l < total
    PROVE  (l * r) \div total \in Nat /\ (l * r) \div total < r
<1>1. l * r \in Nat
  BY ProductNat
<1>2. l * r < r * total
  <2>1. (l + 1) * r <= total * r
    BY SMTT(20)
  <2>2. (l + 1) * r = l * r + r /\ total * r = r * total
    BY SMTT(20)
  <2> QED
    BY <1>1, <2>1, <2>2, ProductNat
<1> QED
  BY <1>1, <1>2, QuotientBelow, DivBounds

\* A withdrawal quoted by the wallet is accepted, if it takes out something of
\* both tokens and not the whole liquidity.
THEOREM RemoveQuotesAccepted == Spec => []RemoveQuoteAccepted
<1>1. ASSUME IInv, Funded, NEW userLiquidity \in 1 .. total_liquidity - 1
      PROVE  LET q == calculateRemoveLiquidityAmount(Net1, Net2, total_liquidity,
                                                     userLiquidity)
             IN  q.udt1Amount > 0 /\ q.udt2Amount > 0 =>
                   /\ Above(reserve1 - q.udt1Amount, reserve2 - q.udt2Amount)
                   /\ remove_branch(Net1, Net2, total_liquidity,
                                    Net1 - q.udt1Amount, Net2 - q.udt2Amount,
                                    total_liquidity - userLiquidity)
  <2> DEFINE udt1Amount == (userLiquidity * Net1) \div total_liquidity
             udt2Amount == (userLiquidity * Net2) \div total_liquidity
  <2>1. userLiquidity \in Nat \ {0} /\ userLiquidity < total_liquidity
    BY <1>1, FundedNets
  <2>2. /\ udt1Amount \in Nat /\ udt1Amount < Net1
        /\ udt2Amount \in Nat /\ udt2Amount < Net2
    BY <1>1, <2>1, FundedNets, PartIsLess
  <2>3. ASSUME udt1Amount > 0, udt2Amount > 0
        PROVE  /\ Above(reserve1 - udt1Amount, reserve2 - udt2Amount)
               /\ remove_branch(Net1, Net2, total_liquidity,
                                Net1 - udt1Amount, Net2 - udt2Amount,
                                total_liquidity - userLiquidity)
    <3>1. /\ Net1 - (Net1 - udt1Amount) = udt1Amount
          /\ Net2 - (Net2 - udt2Amount) = udt2Amount
          /\ total_liquidity - (total_liquidity - userLiquidity) = userLiquidity
      <4> HIDE DEF udt1Amount, udt2Amount
      <4> QED
        BY <1>1, <2>1, <2>2, FundedNets
    <3>2. remove_liquidity(Net1, Net2, Net1 - udt1Amount, Net2 - udt2Amount,
                           total_liquidity, total_liquidity - userLiquidity)
      <4>1. total_liquidity # 0
        BY <1>1, FundedNets
      <4> QED
        BY <3>1, <4>1 DEF remove_liquidity
    <3> HIDE DEF udt1Amount, udt2Amount
    <3>3. Above(reserve1 - udt1Amount, reserve2 - udt2Amount)
      BY <1>1, <2>2, FundedNets DEF Above, above_minimum
    <3>4. /\ total_liquidity > total_liquidity - userLiquidity
          /\ Net1 # 0 /\ Net2 # 0
          /\ Net1 - udt1Amount < Net1 /\ Net2 - udt2Amount < Net2
      BY <1>1, <2>1, <2>2, <2>3, FundedNets
    <3> QED
      BY <3>2, <3>3, <3>4 DEF remove_branch
  <2> QED
    BY <2>3 DEF calculateRemoveLiquidityAmount
<1>2. IInv => RemoveQuoteAccepted
  BY <1>1, Zenon DEF RemoveQuoteAccepted
<1> QED
  BY <1>2, Invariance, PTL


-----------------------------------------------------------------------------
WithinQuote ==
    created /\ total_liquidity' = total_liquidity
      => /\ Net1' > Net1 => Net2 - Net2'
              <= calculateSwapOutputFromInput(Net1, Net2, Net1' - Net1)
         /\ Net2' > Net2 => Net1 - Net1'
              <= calculateSwapOutputFromInput(Net2, Net1, Net2' - Net2)

\* A swap pays within its quote, in either direction.
LEMMA SwapStepWithinQuote ==
    ASSUME IInv, NEW r1 \in Reserve1, NEW r2 \in Reserve2, Swap(r1, r2)
    PROVE  WithinQuote
<1> DEFINE x1 == r1 - Default1
           x2 == r2 - Default2
<1>1. /\ Net1 \in Nat \ {0} /\ Net2 \in Nat \ {0}
      /\ x1 \in Nat \ {0} /\ x2 \in Nat \ {0}
  BY AboveNets DEF IInv, Swap, swap_branch
<1>2. \/ Net1 < x1 /\ Net2 > x2 /\ swap(Net1, Net2, x1, x2)
      \/ Net1 > x1 /\ Net2 < x2 /\ swap(Net2, Net1, x2, x1)
  BY DEF Swap, swap_branch
<1>3. Net1' = x1 /\ Net2' = x2
  BY DEF Swap, Net1, Net2
<1> HIDE DEF x1, x2
<1>4. CASE Net1 < x1 /\ Net2 > x2 /\ swap(Net1, Net2, x1, x2)
  <2>1. Net2 - x2 <= calculateSwapOutputFromInput(Net1, Net2, x1 - Net1)
    BY <1>1, <1>4, SwapWithinQuote
  <2>2. ~ (x2 > Net2)
    BY <1>1, <1>4
  <2> QED
    BY <1>3, <2>1, <2>2 DEF WithinQuote
<1>5. CASE Net1 > x1 /\ Net2 < x2 /\ swap(Net2, Net1, x2, x1)
  <2>1. Net1 - x1 <= calculateSwapOutputFromInput(Net2, Net1, x2 - Net2)
    BY <1>1, <1>5, SwapWithinQuote
  <2>2. ~ (x1 > Net1)
    BY <1>1, <1>5
  <2> QED
    BY <1>3, <2>1, <2>2 DEF WithinQuote
<1> QED
  BY <1>2, <1>4, <1>5

\* No accepted swap is a better deal than the wallet's quote, although swap()
\* accepts a second formula: "output amount by input amount" and "input amount
\* by output amount" (lines 233, 245) bound each other.
THEOREM NothingBeatsQuote == Spec => NeverBeatsQuote
<1>1. IInv /\ [Next]_vars => WithinQuote \/ UNCHANGED vars
  <2> SUFFICES ASSUME IInv, Next PROVE WithinQuote
    BY Zenon
  <2>1. CASE Create
    BY <2>1 DEF Create, WithinQuote
  <2>2. ASSUME NEW r1 \in Reserve1, NEW r2 \in Reserve2, Swap(r1, r2)
        PROVE  WithinQuote
    BY <2>2, SwapStepWithinQuote
  <2>3. ASSUME NEW r1 \in Reserve1, NEW r2 \in Reserve2,
               NEW liquidity \in Liquidity, AddLiquidity(r1, r2, liquidity)
        PROVE  WithinQuote
    <3>1. total_liquidity' > total_liquidity
      BY <2>3 DEF AddLiquidity, add_branch
    <3>2. total_liquidity \in Int
      BY DEF IInv, TypeOK, Liquidity
    <3> QED
      BY <3>1, <3>2 DEF WithinQuote
  <2>4. ASSUME NEW r1 \in Reserve1, NEW r2 \in Reserve2,
               NEW liquidity \in Liquidity, RemoveLiquidity(r1, r2, liquidity)
        PROVE  WithinQuote
    <3>1. total_liquidity > total_liquidity'
      BY <2>4 DEF RemoveLiquidity, remove_branch
    <3>2. total_liquidity \in Int
      BY DEF IInv, TypeOK, Liquidity
    <3> QED
      BY <3>1, <3>2 DEF WithinQuote
  <2>5. CASE TransferTokens
    <3>1. Net1' = Net1 /\ Net2' = Net2
      BY <2>5 DEF TransferTokens, Net1, Net2
    <3>2. Net1 \in Int /\ Net2 \in Int
      BY PoolAssumption DEF IInv, TypeOK, Reserve1, Reserve2, Net1, Net2
    <3>3. ~ (Net1' > Net1) /\ ~ (Net2' > Net2)
      BY <3>1, <3>2
    <3> QED
      BY <3>3 DEF WithinQuote
  <2> QED
    BY <2>1, <2>2, <2>3, <2>4, <2>5 DEF Next
<1> QED
  BY <1>1, Invariance, PTL DEF Spec, NeverBeatsQuote, WithinQuote
-----------------------------------------------------------------------------
(* The wallet's transactions. *)

\* A pool cell as the wallet knows it, a leg and a request: what they hold.
PoolKnown(p) ==
    /\ p.lock = PairLock(p.lock.t1, p.lock.t2) /\ p.lock.t1 \in Nat /\ p.lock.t2 \in Nat
    /\ p.type = PoolType(p.type.id) /\ p.type.id \in Nat
    /\ p.data = <<p.data[1], p.data[2], p.data[3]>>
    /\ p.data[1] \in Nat /\ p.data[2] \in Nat /\ p.data[3] \in Nat

LegKnown(leg) ==
    /\ leg.isRev \in BOOLEAN
    /\ leg.amounts[1] \in Nat /\ leg.amounts[2] \in Nat
    /\ PoolKnown(leg.pool)

RequestKnown(r) ==
    /\ r.kind \in {"swap", "add", "remove", "create"}
    /\ Len(r.legs) \in 1 .. 2
    /\ r.kind # "swap" => Len(r.legs) = 1
    /\ \A j \in 1 .. Len(r.legs) : LegKnown(r.legs[j])
    /\ r.liquidity \in Nat

\* A pool with liquidity has more than the defaults in its reserves.
LEMMA FundedReserves ==
    ASSUME NEW p \in KnownPools
    PROVE  /\ PoolKnown(p)
           /\ p \in FundedPools => \A k \in 1 .. 2 : Net(p, k) \in Nat /\ Net(p, k) > 0
<1>1. IsPool(p) BY TxBuilderAssumption
<1>2. \A k \in 1 .. 2 : Net(p, k) \in Int
  BY <1>1, TypeScriptAssumption DEF Net, Default, IsPool
<1> QED BY <1>1, <1>2 DEF PoolKnown, IsPool, FundedPools

\* What a leg is made of.
LEMMA LegIsKnown ==
    ASSUME NEW p, PoolKnown(p), NEW isRev \in BOOLEAN, NEW a1 \in Nat, NEW a2 \in Nat
    PROVE  LegKnown(Leg(p, isRev, a1, a2))
BY DEF Leg, LegKnown

\* A request of one leg.
LEMMA AskIsKnown ==
    ASSUME NEW kind \in {"swap", "add", "remove", "create"}, NEW leg, LegKnown(leg),
           NEW liquidity \in Nat
    PROVE  RequestKnown(Ask(kind, <<leg>>, liquidity))
<1> DEFINE r == Ask(kind, <<leg>>, liquidity)
<1>1. r.kind = kind /\ r.legs = <<leg>> /\ r.liquidity = liquidity BY DEF Ask
<1>2. Len(<<leg>>) = 1 /\ <<leg>>[1] = leg OBVIOUS
<1> HIDE DEF r
<1>3. Len(r.legs) = 1 /\ \A j \in 1 .. 1 : r.legs[j] = leg BY <1>1, <1>2
<1>4. RequestKnown(r) BY <1>1, <1>3 DEF RequestKnown
<1> QED BY <1>4 DEF r

\* A quotient of amounts is an amount.
LEMMA QuotientNat == \A m \in Nat, n \in Nat \ {0} : m \div n \in Nat
OBVIOUS

\* A leg of a swap is priced from the reserves of a pool: the quote is an amount.
LEMMA SwapLegKnown ==
    ASSUME NEW leg \in SwapLegs
    PROVE  LegKnown(leg) /\ leg.pool \in KnownPools
<1>1. PICK p \in KnownPools, isRev \in BOOLEAN, n \in Amounts :
         p \in FundedPools /\ leg = SwapLeg(p, isRev, n)
  BY DEF SwapLegs, FundedPools
<1>2. n \in Nat /\ n > 0 BY TxBuilderAssumption
<1> DEFINE from == IF isRev THEN 2 ELSE 1
           in == Net(p, from)
           out == Net(p, 3 - from)
<1>3. in \in Nat /\ out \in Nat /\ in > 0 BY <1>1, FundedReserves
<1> HIDE DEF in, out
<1>4. calculateSwapOutputFromInput(in, out, n) \in Nat
  <2> DEFINE fee == n * ExceptFee
  <2>1. fee \in Nat BY <1>2, FeeAssumption, ProductNat
  <2>2. in * Thousand \in Nat /\ in * Thousand > 0 BY <1>3, FeeAssumption
  <2>3. fee * out \in Nat BY <1>3, <2>1, ProductNat
  <2> HIDE DEF fee
  <2>4. in * Thousand + fee \in Nat \ {0} BY <2>1, <2>2
  <2>5. (fee * out) \div (in * Thousand + fee) \in Nat BY <2>3, <2>4, QuotientNat
  <2> QED BY <2>5 DEF calculateSwapOutputFromInput, fee
<1>5. leg = Leg(p, isRev, n, calculateSwapOutputFromInput(in, out, n))
  BY <1>1 DEF SwapLeg, in, out
<1>6. PoolKnown(p) BY FundedReserves
<1>7. leg.pool = p BY <1>5 DEF Leg
<1> QED BY <1>2, <1>4, <1>5, <1>6, <1>7, LegIsKnown

\* Every request of the tests is one of these.
LEMMA RequestsKnown ==
    ASSUME NEW r \in Requests
    PROVE  RequestKnown(r)
<1>1. CASE r \in Swaps
  <2>1. CASE \E leg \in SwapLegs : r = Ask("swap", <<leg>>, 0)
    BY <2>1, SwapLegKnown, AskIsKnown
  <2>2. CASE \E l \in SwapLegs \X SwapLegs : r = Ask("swap", l, 0)
    <3>1. PICK l1 \in SwapLegs, l2 \in SwapLegs : r = Ask("swap", <<l1, l2>>, 0)
      BY <2>2
    <3>2. r.kind = "swap" /\ r.legs = <<l1, l2>> /\ r.liquidity = 0 BY <3>1 DEF Ask
    <3>3. Len(<<l1, l2>>) = 2 /\ <<l1, l2>>[1] = l1 /\ <<l1, l2>>[2] = l2 OBVIOUS
    <3>4. \A j \in 1 .. 2 : j = 1 \/ j = 2 OBVIOUS
    <3>5. LegKnown(l1) /\ LegKnown(l2) BY SwapLegKnown
    <3> QED BY <3>2, <3>3, <3>4, <3>5 DEF RequestKnown
  <2> QED BY <1>1, <2>1, <2>2 DEF Swaps
<1>2. CASE r \in FirstAdds
  <2>1. PICK p \in KnownPools, n \in Amounts, m \in Amounts :
           r = FirstAddOf(p, n, m)
    BY <1>2 DEF FirstAdds, Deposits
  <2>2. n \in Nat /\ m \in Nat BY TxBuilderAssumption
  <2>3. PoolKnown(p) BY FundedReserves
  <2> QED BY <2>1, <2>2, <2>3, LegIsKnown, AskIsKnown DEF FirstAddOf
<1>3. CASE r \in LaterAdds
  <2>1. PICK p \in KnownPools, n \in Amounts : p \in FundedPools /\ r = AddOf(p, n)
    BY <1>3 DEF LaterAdds, FundedPools, Deposits
  <2> DEFINE q == calculateAddLiquidityUDT2Amount(Net(p, 1), Net(p, 2), p.data[3], n)
  <2>2. n \in Nat BY TxBuilderAssumption
  <2>3. PoolKnown(p) /\ \A k \in 1 .. 2 : Net(p, k) \in Nat /\ Net(p, k) > 0
    BY <2>1, FundedReserves
  <2>4. q.udt2Amount \in Nat /\ q.userLiquidity \in Nat
    <3>1. Net(p, 1) \in Nat \ {0} /\ Net(p, 2) \in Nat /\ p.data[3] \in Nat
      BY <2>3 DEF PoolKnown
    <3>2. Net(p, 2) * n \in Nat /\ p.data[3] * n \in Nat BY <2>2, <3>1, ProductNat
    <3>3. (Net(p, 2) * n) \div Net(p, 1) \in Nat /\ (p.data[3] * n) \div Net(p, 1) \in Nat
      BY <3>1, <3>2, QuotientNat
    <3> QED BY <3>3 DEF calculateAddLiquidityUDT2Amount
  <2>5. r = Ask("add", <<Leg(p, FALSE, n, q.udt2Amount)>>, q.userLiquidity)
    BY <2>1 DEF AddOf
  <2> HIDE DEF q
  <2> QED BY <2>2, <2>3, <2>4, <2>5, LegIsKnown, AskIsKnown
<1>4. CASE r \in Creates
  <2>1. PICK p \in KnownPools :
           r = Ask("create", <<Leg([p EXCEPT !.data = <<0, 0, 0>>], FALSE, 0, 0)>>, 0)
    BY <1>4 DEF Creates
  <2>2. IsPool(p) BY TxBuilderAssumption
  <2> DEFINE q == [p EXCEPT !.data = <<0, 0, 0>>]
  <2>3. PoolKnown(q)
    <3>1. q.lock = p.lock /\ q.type = p.type /\ q.data = <<0, 0, 0>>
      BY <2>2 DEF IsPool
    <3> QED BY <2>2, <3>1 DEF PoolKnown, IsPool
  <2> HIDE DEF q
  <2>4. r = Ask("create", <<Leg(q, FALSE, 0, 0)>>, 0) BY <2>1 DEF q
  <2> QED BY <2>3, <2>4, LegIsKnown, AskIsKnown
<1>5. CASE r \in Removes
  <2>1. PICK p \in KnownPools, n \in Amounts : p \in FundedPools /\ r = RemoveOf(p, n)
    BY <1>5 DEF Removes, FundedPools
  <2> DEFINE q == calculateRemoveLiquidityAmount(Net(p, 1), Net(p, 2), p.data[3], n)
  <2>2. n \in Nat BY TxBuilderAssumption
  <2>3. PoolKnown(p) /\ \A k \in 1 .. 2 : Net(p, k) \in Nat /\ Net(p, k) > 0
    BY <2>1, FundedReserves
  <2>4. q.udt1Amount \in Nat /\ q.udt2Amount \in Nat
    <3>1. p.data[3] \in Nat \ {0} /\ Net(p, 1) \in Nat /\ Net(p, 2) \in Nat
      BY <2>1, <2>3 DEF PoolKnown, FundedPools
    <3>2. n * Net(p, 1) \in Nat /\ n * Net(p, 2) \in Nat BY <2>2, <3>1, ProductNat
    <3>3. (n * Net(p, 1)) \div p.data[3] \in Nat /\ (n * Net(p, 2)) \div p.data[3] \in Nat
      BY <3>1, <3>2, QuotientNat
    <3> QED BY <3>3 DEF calculateRemoveLiquidityAmount
  <2>5. r = Ask("remove", <<Leg(p, FALSE, q.udt1Amount, q.udt2Amount)>>, n)
    BY <2>1 DEF RemoveOf
  <2> HIDE DEF q
  <2> QED BY <2>2, <2>3, <2>4, <2>5, LegIsKnown, AskIsKnown
<1> QED BY <1>1, <1>2, <1>3, <1>4, <1>5 DEF Requests

\* The sum over the slots of one leg, and of two.
LEMMA SumOfSlots ==
    ASSUME poolCnt \in 1 .. 2, NEW f, \A s \in Slots : f[s] \in Int
    PROVE  /\ poolCnt = 1 => SumOver(f) = f[<<1, 1>>] + f[<<1, 2>>]
           /\ poolCnt = 2 => SumOver(f) = f[<<1, 1>>] + f[<<1, 2>>] + f[<<2, 1>>] + f[<<2, 2>>]
<1> DEFINE n == 2 * poolCnt
           x == [k \in 1 .. n |-> f[SlotAt(k)]]
<1>1. n \in Nat /\ (poolCnt = 1 => n = 2) /\ (poolCnt = 2 => n = 4) OBVIOUS
<1>2. /\ SlotAt(1) = <<1, 1>> /\ SlotAt(2) = <<1, 2>>
      /\ SlotAt(3) = <<2, 1>> /\ SlotAt(4) = <<2, 2>>
  <2>1. (1 + 1) \div 2 = 1 /\ (2 + 1) \div 2 = 1 /\ (3 + 1) \div 2 = 2 /\ (4 + 1) \div 2 = 2
    OBVIOUS
  <2>2. 1 % 2 = 1 /\ 2 % 2 = 0 /\ 3 % 2 = 1 /\ 4 % 2 = 0 OBVIOUS
  <2> QED BY <2>1, <2>2 DEF SlotAt
<1>3. /\ <<1, 1>> \in Slots /\ <<1, 2>> \in Slots
      /\ poolCnt = 2 => <<2, 1>> \in Slots /\ <<2, 2>> \in Slots
  BY DEF Slots
<1>4. \A k \in 1 .. n : k = 1 \/ k = 2 \/ (poolCnt = 2 /\ (k = 3 \/ k = 4)) BY <1>1
<1>5. ASSUME NEW k \in 1 .. n PROVE x[k] = f[SlotAt(k)] /\ f[SlotAt(k)] \in Int
  BY <1>2, <1>3, <1>4
<1>6. x \in Seq(Int) /\ Len(x) = n
  <2>1. x \in [1 .. n -> Int] BY <1>5
  <2> HIDE DEF n, x
  <2> QED BY <1>1, <2>1
<1>7. SumOver(f) = Total(x) BY DEF SumOver
<1> HIDE DEF x, n
<1>8. /\ Total(x) = SumTo(x, n) /\ SumTo(x, 0) = 0
      /\ \A k \in 0 .. n - 1 : SumTo(x, k) \in Int /\ SumTo(x, k + 1) = SumTo(x, k) + x[k + 1]
  BY <1>6, TotalIsSum
<1>9. x[1] = f[<<1, 1>>] /\ x[2] = f[<<1, 2>>] /\ f[<<1, 1>>] \in Int /\ f[<<1, 2>>] \in Int
  <2>1. 1 \in 1 .. n /\ 2 \in 1 .. n BY <1>1
  <2> QED BY <1>2, <1>5, <2>1
<1>10. SumTo(x, 2) = f[<<1, 1>>] + f[<<1, 2>>]
  <2>1. 0 \in 0 .. n - 1 /\ 1 \in 0 .. n - 1 BY <1>1
  <2>2. SumTo(x, 0 + 1) = 0 + x[0 + 1] /\ SumTo(x, 1 + 1) = SumTo(x, 1) + x[1 + 1]
    BY <1>8, <2>1
  <2> QED BY <1>9, <2>2
<1>11. CASE poolCnt = 1 BY <1>1, <1>7, <1>8, <1>10, <1>11
<1>12. CASE poolCnt = 2
  <2>1. 2 \in 0 .. n - 1 /\ 3 \in 0 .. n - 1 BY <1>1, <1>12
  <2>2. SumTo(x, 2 + 1) = SumTo(x, 2) + x[2 + 1] /\ SumTo(x, 3 + 1) = SumTo(x, 3) + x[3 + 1]
    BY <1>8, <2>1
  <2>3. x[3] = f[<<2, 1>>] /\ x[4] = f[<<2, 2>>] /\ f[<<2, 1>>] \in Int /\ f[<<2, 2>>] \in Int
    <3>1. 3 \in 1 .. n /\ 4 \in 1 .. n BY <1>1, <1>12
    <3> QED BY <1>2, <1>5, <3>1
  <2> QED BY <1>1, <1>7, <1>8, <1>9, <1>10, <1>12, <2>2, <2>3
<1> QED BY <1>11, <1>12

\* What a slot stands for.
LEMMA SlotFacts ==
    ASSUME RequestKnown(request), NEW s \in Slots
    PROVE  /\ s[1] \in 1 .. poolCnt /\ s[2] \in 1 .. 2 /\ s = <<s[1], s[2]>>
           /\ LegKnown(legs[s[1]])
           /\ TokenOf(s) \in Nat /\ Actual(s) \in Nat
           /\ Reserved(s) \in Nat /\ Reserved(s) > Actual(s)
<1>1. s[1] \in 1 .. poolCnt /\ s[2] \in 1 .. 2 /\ s = <<s[1], s[2]>> BY DEF Slots
<1>2. LegKnown(legs[s[1]]) BY <1>1 DEF RequestKnown, legs, poolCnt
<1>3. \A k \in 1 .. 2 : Pair(legs[s[1]].pool)[k] \in Nat
  BY <1>2 DEF Pair, LegKnown, PoolKnown
<1>4. TokenOf(s) \in Nat
  <2>1. s[2] \in 1 .. 2 /\ 3 - s[2] \in 1 .. 2 BY <1>1
  <2> QED BY <1>3, <2>1 DEF TokenOf
<1>5. Actual(s) \in Nat
  <2>1. \A k \in 1 .. 2 : legs[s[1]].amounts[k] \in Nat BY <1>2 DEF LegKnown
  <2>2. Default(TokenOf(s)) \in Nat BY TypeScriptAssumption DEF Default
  <2> QED BY <1>1, <2>1, <2>2 DEF Actual
<1>6. Minimum(TokenOf(s)) \in Nat /\ Minimum(TokenOf(s)) > 0
  BY TxBuilderAssumption DEF Minimum
<1> QED BY <1>1, <1>2, <1>4, <1>5, <1>6 DEF Reserved

\* What is reserved for a set of slots, and what one slot adds.
LEMMA ReservedAdds ==
    ASSUME RequestKnown(request), NEW S \in SUBSET Slots
    PROVE  /\ ReservedFor(S) \in Nat
           /\ \A s \in S : ReservedFor(S) = ReservedFor(S \ {s}) + Reserved(s)
<1> DEFINE f(T) == [u \in Slots |-> IF u \in T THEN Reserved(u) ELSE 0]
<1>1. poolCnt \in 1 .. 2 BY DEF RequestKnown, poolCnt, legs
<1>2. \A u \in Slots : Reserved(u) \in Nat BY SlotFacts
<1>3. ASSUME NEW T \in SUBSET Slots
      PROVE  \A u \in Slots : f(T)[u] \in Nat
  BY <1>2
<1>4. /\ <<1, 1>> \in Slots /\ <<1, 2>> \in Slots
      /\ poolCnt = 2 => <<2, 1>> \in Slots /\ <<2, 2>> \in Slots
  BY <1>1 DEF Slots
<1>5. \A T : ReservedFor(T) = SumOver(f(T)) BY DEF ReservedFor
<1>6. ReservedFor(S) \in Nat
  <2>1. \A u \in Slots : f(S)[u] \in Int BY <1>3
  <2> HIDE DEF f
  <2> QED BY <1>1, <1>3, <1>4, <1>5, <2>1, SumOfSlots
<1>7. ASSUME NEW s \in S
      PROVE  ReservedFor(S) = ReservedFor(S \ {s}) + Reserved(s)
  <2> DEFINE a == f(S)
             b == f(S \ {s})
  <2>1. \A u \in Slots : /\ a[u] \in Nat /\ b[u] \in Nat
                         /\ u # s => a[u] = b[u]
                         /\ u = s => a[u] = Reserved(u) /\ b[u] = 0
    BY <1>2, <1>7
  <2>2. \A u \in Slots : a[u] \in Int /\ b[u] \in Int BY <2>1
  <2>3. SumOver(a) = ReservedFor(S) /\ SumOver(b) = ReservedFor(S \ {s}) BY <1>5
  <2>4. s \in Slots /\ Reserved(s) \in Nat BY <1>2, <1>7
  <2> HIDE DEF a, b, f
  <2>5. CASE poolCnt = 1
    <3>1. s = <<1, 1>> \/ s = <<1, 2>> BY <2>4, <2>5 DEF Slots
    <3>2. <<1, 1>> # <<1, 2>> OBVIOUS
    <3>3. SumOver(a) = a[<<1, 1>>] + a[<<1, 2>>] /\ SumOver(b) = b[<<1, 1>>] + b[<<1, 2>>]
      BY <1>1, <2>2, <2>5, SumOfSlots
    <3> QED BY <1>4, <2>1, <2>3, <2>4, <3>1, <3>2, <3>3
  <2>6. CASE poolCnt = 2
    <3>1. s = <<1, 1>> \/ s = <<1, 2>> \/ s = <<2, 1>> \/ s = <<2, 2>>
      BY <2>4, <2>6 DEF Slots
    <3>2. /\ <<1, 1>> # <<1, 2>> /\ <<1, 1>> # <<2, 1>> /\ <<1, 1>> # <<2, 2>>
          /\ <<1, 2>> # <<2, 1>> /\ <<1, 2>> # <<2, 2>> /\ <<2, 1>> # <<2, 2>>
      OBVIOUS
    <3>3. /\ SumOver(a) = a[<<1, 1>>] + a[<<1, 2>>] + a[<<2, 1>>] + a[<<2, 2>>]
          /\ SumOver(b) = b[<<1, 1>>] + b[<<1, 2>>] + b[<<2, 1>>] + b[<<2, 2>>]
      BY <1>1, <2>2, <2>6, SumOfSlots
    <3> QED BY <1>4, <2>1, <2>3, <2>4, <2>6, <3>1, <3>2, <3>3
  <2> QED BY <1>1, <2>5, <2>6
<1> QED BY <1>6, <1>7

-----------------------------------------------------------------------------
\* Scripts and cells of all kinds, as sets.
Codes == {"none", "user", "fee", "udt", "liquidity", "udtswap", "udtswap_lock"}
AnyScript == [code : Codes, t1 : Nat, t2 : Nat, id : Nat]
AnyCell == [lock : AnyScript, type : AnyScript, capacity : Int, data : Seq(Int)]

\* The scripts that the builder names.
LEMMA AnyScripts ==
    /\ NoScript \in AnyScript /\ UserLock \in AnyScript /\ FeeLock \in AnyScript
    /\ \A t1, t2, id \in Nat : Script("liquidity", t1, t2, id) \in AnyScript
    /\ \A t1, t2 \in Nat : PairLock(t1, t2) \in AnyScript
    /\ \A id \in Nat : PoolType(id) \in AnyScript
    /\ \A t \in Nat : UdtType(t) \in AnyScript
<1>1. ASSUME NEW code \in Codes, NEW t1 \in Nat, NEW t2 \in Nat, NEW id \in Nat
      PROVE  Script(code, t1, t2, id) \in AnyScript
  BY DEF Script, AnyScript
<1>2. /\ "none" \in Codes /\ "user" \in Codes /\ "fee" \in Codes /\ "udt" \in Codes
      /\ "liquidity" \in Codes /\ "udtswap_lock" \in Codes /\ "udtswap" \in Codes
  BY DEF Codes
<1>3. NoScript \in AnyScript /\ UserLock \in AnyScript /\ FeeLock \in AnyScript
  BY <1>1, <1>2 DEF NoScript, UserLock, FeeLock
<1>4. \A t1, t2, id \in Nat : Script("liquidity", t1, t2, id) \in AnyScript
  BY <1>1, <1>2
<1>5. \A t1, t2 \in Nat : PairLock(t1, t2) \in AnyScript BY <1>1, <1>2 DEF PairLock
<1>6. \A id \in Nat : PoolType(id) \in AnyScript BY <1>1, <1>2 DEF PoolType
<1>7. \A t \in Nat : UdtType(t) \in AnyScript BY <1>1, <1>2 DEF UdtType
<1> HIDE DEF AnyScript
<1> QED BY <1>3, <1>4, <1>5, <1>6, <1>7

\* The cells that it makes.
LEMMA AnyCells ==
    ASSUME NEW lock \in AnyScript, NEW type \in AnyScript, NEW capacity \in Int,
           NEW data \in Seq(Int)
    PROVE  Cell(lock, type, capacity, data) \in AnyCell
BY DEF Cell, AnyCell

\* Data as tuples.
LEMMA AnyData ==
    /\ <<>> \in Seq(Int)
    /\ \A a \in Int : <<a>> \in Seq(Int) /\ Len(<<a>>) = 1
    /\ \A a, b, c \in Int : <<a, b, c>> \in Seq(Int)
OBVIOUS

\* A cell of the wallet, part by part.
LEMMA WalletCellFacts ==
    ASSUME NEW c \in WalletCells
    PROVE  /\ c \in AnyCell
           /\ c = Cell(UserLock, c.type, c.capacity, c.data)
           /\ c.lock = UserLock /\ c.capacity \in Nat
           /\ c.type # NoScript => c.data[1] \in Nat \ {0} /\ Len(c.data) = 1
           /\ c.type.code = "udt" => c.type = UdtType(c.type.t1) /\ c.type.t1 \in Nat \ {CKB}
<1>1. IsWalletCell(c) BY TxBuilderAssumption
<1>2. c = Cell(UserLock, c.type, c.capacity, c.data) BY <1>1 DEF IsWalletCell
<1>3. c.lock = UserLock /\ c.capacity \in Nat BY <1>1, <1>2 DEF Cell, IsWalletCell
<1>4. CASE c.type = NoScript /\ c.data = <<>>
  <2>1. c \in AnyCell
    <3>1. c.type \in AnyScript /\ UserLock \in AnyScript BY <1>4, AnyScripts
    <3>2. c.data \in Seq(Int) /\ c.capacity \in Int BY <1>3, <1>4, AnyData
    <3> HIDE DEF AnyScript, AnyCell
    <3> QED BY <1>2, <3>1, <3>2, AnyCells
  <2>2. c.type.code # "udt" BY <1>4 DEF NoScript, Script
  <2> QED BY <1>2, <1>3, <1>4, <2>1, <2>2
<1>5. CASE /\ c.type \in {UdtType(c.type.t1), LiquidityType(c.type, c.type.id)}
           /\ {c.type.t1, c.type.t2, c.type.id} \subseteq Nat
           /\ c.type.code = "udt" => c.type.t1 # CKB
           /\ c.data = <<c.data[1]>> /\ c.data[1] \in Nat \ {0}
  <2>1. c.type \in AnyScript BY <1>5, AnyScripts DEF LiquidityType
  <2>2. c.data \in Seq(Int) /\ Len(c.data) = 1
    <3>1. c.data[1] \in Int BY <1>5
    <3>2. <<c.data[1]>> \in Seq(Int) /\ Len(<<c.data[1]>>) = 1 BY <3>1, AnyData
    <3> QED BY <1>5, <3>2
  <2>3. c \in AnyCell
    <3>1. UserLock \in AnyScript /\ c.capacity \in Int BY <1>3, AnyScripts
    <3> QED BY <1>2, <2>1, <2>2, <3>1, AnyCells
  <2>4. c.type.code = "udt" => c.type = UdtType(c.type.t1)
    <3>1. LiquidityType(c.type, c.type.id).code = "liquidity" BY DEF LiquidityType, Script
    <3> QED BY <1>5, <3>1
  <2> QED BY <1>2, <1>3, <1>5, <2>2, <2>3, <2>4
<1> QED BY <1>1, <1>4, <1>5 DEF IsWalletCell

\* A sum of natural numbers is one.
LEMMA TotalNat ==
    ASSUME NEW numbers \in Seq(Nat)
    PROVE  Total(numbers) \in Nat /\ (numbers = <<>> => Total(numbers) = 0)
<1>1. PICK f \in [0 .. Len(numbers) -> Nat] : f[0] = 0 /\ Total(numbers) = f[Len(numbers)]
  BY TotalSteps
<1>2. Len(numbers) \in 0 .. Len(numbers) OBVIOUS
<1>3. numbers = <<>> => Len(numbers) = 0 OBVIOUS
<1> QED BY <1>1, <1>2, <1>3

\* What cells of a type hold, and that there must be one if it is anything.
LEMMA HeldFacts ==
    ASSUME NEW cells \in Seq(WalletCells), NEW type, type # NoScript
    PROVE  /\ sum_amounts(CellsOfType(cells, type)) \in Nat
           /\ sum_amounts(CellsOfType(cells, type)) > 0
                => \E k \in DOMAIN cells : cells[k].type = type
<1> DEFINE S == OfType(cells, type)
           sel == Selected(cells, S)
           numbers == [k \in DOMAIN sel |-> AmountOf(sel[k])]
<1>1. S \in SUBSET DOMAIN cells BY DEF OfType
<1>2. sel \in Seq(WalletCells) /\ IsFiniteSet(S) /\ Len(sel) = Cardinality(S)
  BY <1>1, SelectedCount
<1>3. \A j \in DOMAIN sel : \E k \in S : sel[j] = cells[k] BY <1>1, SelectedHas
<1>4. ASSUME NEW j \in DOMAIN sel PROVE AmountOf(sel[j]) \in Nat
  <2>1. PICK k \in S : sel[j] = cells[k] BY <1>3
  <2>2. cells[k].type = type BY <2>1 DEF OfType
  <2>3. sel[j] \in WalletCells BY <1>2
  <2> QED BY <2>1, <2>2, <2>3, WalletCellFacts DEF AmountOf
<1>5. numbers \in Seq(Nat) /\ Len(numbers) = Len(sel)
  <2>1. DOMAIN sel = 1 .. Len(sel) /\ Len(sel) \in Nat BY <1>2
  <2>2. numbers \in [1 .. Len(sel) -> Nat] BY <1>4, <2>1
  <2> HIDE DEF sel, numbers
  <2> QED BY <2>1, <2>2
<1>6. Total(numbers) \in Nat BY <1>5, TotalNat
<1>7. sum_amounts(CellsOfType(cells, type)) = Total(numbers)
  BY DEF sum_amounts, CellsOfType
<1>8. S = {} => numbers = <<>>
  <2>1. Cardinality({}) = 0 BY FS_EmptySet
  <2> HIDE DEF numbers
  <2> QED BY <1>2, <1>5, <2>1
<1> HIDE DEF numbers
<1>9. Total(numbers) > 0 => S # {} BY <1>5, <1>8, TotalNat
<1> QED BY <1>6, <1>7, <1>9 DEF OfType

\* What cells of the wallet hold in CKB.
LEMMA CapacityFacts ==
    ASSUME NEW cells \in Seq(WalletCells)
    PROVE  /\ capacities(cells) \in Nat
           /\ cells = <<>> => capacities(cells) = 0
<1> DEFINE numbers == [k \in DOMAIN cells |-> cells[k].capacity]
<1>1. DOMAIN cells = 1 .. Len(cells) /\ Len(cells) \in Nat OBVIOUS
<1>2. \A k \in DOMAIN cells : cells[k].capacity \in Nat BY WalletCellFacts
<1>3. numbers \in Seq(Nat) /\ (cells = <<>> => numbers = <<>>)
  <2>1. numbers \in [1 .. Len(cells) -> Nat] BY <1>1, <1>2
  <2>2. cells = <<>> => numbers = <<>> OBVIOUS
  <2> HIDE DEF numbers
  <2> QED BY <1>1, <2>1, <2>2
<1> HIDE DEF numbers
<1>4. Total(numbers) \in Nat /\ (numbers = <<>> => Total(numbers) = 0) BY <1>3, TotalNat
<1> QED BY <1>3, <1>4 DEF capacities, numbers

-----------------------------------------------------------------------------
\* The cells that the loop may take for a request, and what the wallet keeps of
\* them.
TakenCells ==
    {c \in WalletCells :
       \/ c.type = NoScript
       \/ c.type.code = "udt" /\ Wants(c.type.t1) # {}
       \/ request.kind = "remove" /\ c.type = liquidityUDT}

Wallet == request \in Requests /\ ret \in Seq(TakenCells)

\* The loop takes cells of the wallet.
LEMMA TakenFromWallet == Wallet => ret \in Seq(WalletCells)
BY DEF Wallet, TakenCells

\* The caps of a token cover all slots that share it: what is collected beyond the
\* cap of the token is, for its last slot, more than that slot reserves.
LEMMA EnoughCollected == Wallet => CollectsEnough
<1> SUFFICES ASSUME Wallet,
                    currentCKBAmount > ckbAmount,
                    \A s \in Slots : FromWallet(s) /\ TokenOf(s) # CKB =>
                       Held(UdtType(TokenOf(s))) > Cap(TokenOf(s)),
                    request.kind = "remove" => Held(liquidityUDT) > request.liquidity
             PROVE  Sufficient
  BY DEF CollectsEnough
<1>1. RequestKnown(request) BY RequestsKnown DEF Wallet
<1>2. \A t : Wants(t) \in SUBSET Slots BY DEF Wants
<1>3. currentCKBAmount > ckbActual
  <2>1. Cap(CKB) \in Nat BY <1>1, <1>2, ReservedAdds DEF Cap
  <2>2. currentCKBAmount \in Nat BY CapacityFacts, TakenFromWallet DEF currentCKBAmount
  <2> QED BY <2>1, <2>2, TxBuilderAssumption DEF ckbAmount
<1>4. ASSUME NEW s \in Slots, FromWallet(s) PROVE udtInput(s) > Actual(s)
  <2> DEFINE t == TokenOf(s)
             earlier == {u \in Wants(t) : Before(u, s)}
             isLast == \A u \in Wants(t) : ~Before(s, u)
  <2>1. Reserved(s) \in Nat /\ Actual(s) \in Nat /\ Reserved(s) > Actual(s)
    BY <1>1, SlotFacts
  <2>2. CASE t # CKB /\ isLast
    <3>1. udtInput(s) = Held(UdtType(t)) - ReservedFor(earlier) BY <2>2 DEF udtInput
    <3>2. s \in Wants(t) BY <1>4 DEF Wants
    <3>3. earlier = Wants(t) \ {s}
      <4>1. ASSUME NEW u \in Wants(t), u # s PROVE Before(u, s)
        <5>1. u \in Slots BY <1>2
        <5>2. /\ s[1] \in Nat /\ s[2] \in Nat /\ s = <<s[1], s[2]>>
              /\ u[1] \in Nat /\ u[2] \in Nat /\ u = <<u[1], u[2]>>
          BY <1>1, <5>1, SlotFacts
        <5>3. ~Before(s, u) BY <2>2, <4>1
        <5>4. s[1] # u[1] \/ s[2] # u[2] BY <4>1, <5>2, Zenon
        <5> QED BY <5>2, <5>3, <5>4 DEF Before
      <4>2. ~Before(s, s)
        <5>1. s[1] \in Nat /\ s[2] \in Nat BY <1>1, SlotFacts
        <5> QED BY <5>1 DEF Before
      <4> QED BY <4>1, <4>2
    <3>4. ReservedFor(Wants(t)) = ReservedFor(earlier) + Reserved(s)
      BY <1>1, <1>2, <3>2, <3>3, ReservedAdds
    <3>5. ReservedFor(earlier) \in Nat
      <4>1. earlier \in SUBSET Slots BY <1>2
      <4> HIDE DEF earlier
      <4> QED BY <1>1, <4>1, ReservedAdds
    <3>6. Held(UdtType(t)) > ReservedFor(Wants(t)) BY <1>4, <2>2 DEF Cap
    <3>7. Held(UdtType(t)) \in Nat
      <4>1. UdtType(t) # NoScript BY DEF UdtType, NoScript, Script
      <4> QED BY <4>1, HeldFacts, TakenFromWallet DEF Held
    <3> HIDE DEF t, earlier
    <3> QED BY <2>1, <3>1, <3>4, <3>5, <3>6, <3>7
  <2>3. CASE ~(t # CKB /\ isLast)
    <3>1. udtInput(s) = Reserved(s) BY <2>3 DEF udtInput
    <3> QED BY <2>1, <3>1
  <2> QED BY <2>2, <2>3
<1> QED BY <1>3, <1>4 DEF Sufficient

\* Two elements of a sequence that change places.
LEMMA Exchanged ==
    ASSUME NEW T, NEW s \in Seq(T), NEW i \in DOMAIN s, NEW j \in DOMAIN s
    PROVE  /\ Exchange(s, i, j) \in Seq(T) /\ Len(Exchange(s, i, j)) = Len(s)
           /\ DOMAIN Exchange(s, i, j) = DOMAIN s
           /\ Exchange(s, i, j)[j] = s[i]
           /\ i # j => Exchange(s, i, j)[i] = s[j]
           /\ \A k \in DOMAIN s : k # i /\ k # j => Exchange(s, i, j)[k] = s[k]
BY DEF Exchange

\* The greatest of a set of positions.
LEMMA GreatestElement ==
    ASSUME NEW n \in Nat, NEW S \in SUBSET (1 .. n), S # {}
    PROVE  \E m \in S : \A k \in S : m >= k
<1> DEFINE R == {n - k : k \in S}
<1>1. R \in SUBSET Nat /\ R # {}
  <2>1. \A k \in S : n - k \in Nat OBVIOUS
  <2> QED BY <2>1
<1>2. PICK r \in R : \A q \in R : r <= q BY <1>1, LeastElement
<1>3. PICK m \in S : r = n - m BY <1>2
<1>4. ASSUME NEW k \in S PROVE m >= k
  <2>1. n - k \in R OBVIOUS
  <2>2. n - m <= n - k BY <1>2, <1>3, <2>1
  <2> QED BY <2>2
<1> QED BY <1>4

\* A cell that is looked for is found where there is one.
LEMMA LastOfType ==
    ASSUME Wallet, \E k \in DOMAIN ret : ret[k].type = liquidityUDT
    PROVE  SelectLastInSeq(ret, LAMBDA c : c.type = liquidityUDT) \in DOMAIN ret
<1> DEFINE I == {k \in 1 .. Len(ret) : ret[k].type = liquidityUDT}
<1>1. I # {} /\ I \in SUBSET (1 .. Len(ret)) /\ Len(ret) \in Nat /\ DOMAIN ret = 1 .. Len(ret)
  BY DEF Wallet
<1>2. SelectLastInSeq(ret, LAMBDA c : c.type = liquidityUDT) = Max(I)
  BY <1>1 DEF SelectLastInSeq
<1>3. Max(I) \in I
  <2>1. \E m \in I : \A k \in I : m >= k BY <1>1, GreatestElement
  <2> HIDE DEF I
  <2> QED BY <2>1 DEF Max
<1> QED BY <1>1, <1>2, <1>3

\* The plain cell that a new pool is named by, if there is one.
LEMMA PlainIsFirst ==
    ASSUME Wallet
    PROVE  /\ PlainIndex \in 0 .. Len(ret)
           /\ PlainIndex > 0 => PlainIndex \in DOMAIN ret
<1> DEFINE I == {k \in 1 .. Len(ret) : ret[k].type = NoScript}
<1>1. I \in SUBSET Nat /\ Len(ret) \in Nat /\ DOMAIN ret = 1 .. Len(ret) BY DEF Wallet
<1>2. PlainIndex = IF I # {} THEN Min(I) ELSE 0
  BY DEF PlainIndex, SelectInSeq
<1>3. I # {} => Min(I) \in I
  <2>1. I # {} => \E m \in I : \A k \in I : m <= k BY <1>1, LeastElement
  <2> HIDE DEF I
  <2> QED BY <2>1 DEF Min
<1> QED BY <1>1, <1>2, <1>3

-----------------------------------------------------------------------------
\* What the wallet collects.
LEMMA WalletStart == BuilderInit => Wallet
<1>1. <<>> \in Seq(TakenCells) OBVIOUS
<1> QED BY <1>1 DEF BuilderInit, Wallet

\* What may be taken depends on the request alone.
LEMMA SameRequest == request' = request => TakenCells' = TakenCells
BY DEF TakenCells, Wants, Slots, poolCnt, legs, FromWallet, TokenOf, liquidityUDT

\* No step takes anything else; putting a liquidity token cell in front keeps all cells.
LEMMA WalletStep == Wallet /\ [BuilderNext]_builder_vars => Wallet'
<1> SUFFICES ASSUME Wallet, [BuilderNext]_builder_vars PROVE Wallet'
  OBVIOUS
<1> USE DEF Wallet
<1>1. request' = request
  BY DEF BuilderNext, CollectCell, GiveUp, EndCollect, GenerateRawTx, NoPlainCell, AddPool,
         SetTxFeeAndSign, builder_vars
<1>2. TakenCells' = TakenCells BY <1>1, SameRequest
<1>3. CASE CollectCell
  <2>1. PICK c \in WalletCells : Takes(c) /\ ret' = Append(ret, c) BY <1>3 DEF CollectCell
  <2>2. c \in TakenCells BY <2>1 DEF Takes, TakenCells
  <2> QED BY <1>1, <1>2, <2>1, <2>2
<1>4. CASE EndCollect
  <2>1. CASE request.kind = "remove"
    <3> DEFINE last == SelectLastInSeq(ret, LAMBDA c : c.type = liquidityUDT)
    <3>1. last \in DOMAIN ret
      <4>1. liquidityUDT # NoScript BY DEF liquidityUDT, LiquidityType, NoScript, Script
      <4>2. request.liquidity \in Nat BY RequestsKnown DEF RequestKnown
      <4>3. Held(liquidityUDT) > request.liquidity BY <1>4, <2>1 DEF EndCollect, Sufficient
      <4>4. Held(liquidityUDT) \in Nat /\ (Held(liquidityUDT) > 0 =>
                \E k \in DOMAIN ret : ret[k].type = liquidityUDT)
        BY <4>1, HeldFacts, TakenFromWallet DEF Held
      <4>5. \E k \in DOMAIN ret : ret[k].type = liquidityUDT BY <4>2, <4>3, <4>4
      <4> QED BY <4>5, LastOfType
    <3>2. ret' = Exchange(ret, 1, last) BY <1>4, <2>1 DEF EndCollect
    <3>3. 1 \in DOMAIN ret BY <3>1
    <3> HIDE DEF last
    <3>4. ret' \in Seq(TakenCells) BY <3>1, <3>2, <3>3, Exchanged
    <3> QED BY <1>1, <1>2, <3>4
  <2>2. CASE request.kind # "remove" BY <1>1, <1>2, <1>4, <2>2 DEF EndCollect
  <2> QED BY <2>1, <2>2
<1>5. CASE ~CollectCell /\ ~EndCollect
  <2>1. ret' = ret
    BY <1>5 DEF BuilderNext, GiveUp, GenerateRawTx, NoPlainCell, AddPool, SetTxFeeAndSign,
                builder_vars
  <2> QED BY <1>1, <1>2, <2>1
<1> QED BY <1>3, <1>4, <1>5

\* A wallet whose cells were passed over because there was enough of everything
\* is not refused (getLiveCells against getAmountsAfterLiveCell).
THEOREM WalletCollectsEnough == BuilderSpec => []CollectsEnough
BY WalletStart, WalletStep, EnoughCollected, PTL DEF BuilderSpec

-----------------------------------------------------------------------------
\* The code of the scripts that the node must find for a request, and cells
\* that have no other type scripts (Fit) or scripts at all (FitInput).
Needed ==
    {"none", "user", "udtswap", "udtswap_lock"}
      \union (IF request.kind \in {"add", "remove"} THEN {"liquidity"} ELSE {})
      \union {"udt" : s \in {u \in Slots : TokenOf(u) # CKB}}

Fit == {c \in AnyCell : c.type.code \in Needed}
FitInput == {c \in Fit : c.lock.code \in Needed}

\* The code that is needed, by where it is.
LEMMA NeededCodes ==
    /\ "none" \in Needed /\ "user" \in Needed /\ "udtswap" \in Needed /\ "udtswap_lock" \in Needed
    /\ request.kind \in {"add", "remove"} => "liquidity" \in Needed
    /\ \A s \in Slots : TokenOf(s) # CKB => "udt" \in Needed
BY DEF Needed

\* The parts of a cell.
LEMMA CellFields ==
    ASSUME NEW lock, NEW type, NEW capacity, NEW data
    PROVE  /\ Cell(lock, type, capacity, data).lock = lock
           /\ Cell(lock, type, capacity, data).type = type
           /\ Cell(lock, type, capacity, data).capacity = capacity
           /\ Cell(lock, type, capacity, data).data = data
BY DEF Cell

\* The code of each kind of script.
LEMMA ScriptCodes ==
    /\ NoScript.code = "none" /\ UserLock.code = "user" /\ FeeLock.code = "fee"
    /\ \A t1, t2 : PairLock(t1, t2).code = "udtswap_lock"
    /\ \A id : PoolType(id).code = "udtswap"
    /\ \A t : UdtType(t).code = "udt"
    /\ \A lock, id : LiquidityType(lock, id).code = "liquidity"
BY DEF NoScript, UserLock, FeeLock, PairLock, PoolType, UdtType, LiquidityType, Script

\* The slots of a pool's pair.
LEMMA PairOfPool ==
    ASSUME RequestKnown(request), NEW j \in 1 .. poolCnt
    PROVE  /\ LegKnown(legs[j]) /\ PoolKnown(legs[j].pool)
           /\ \A k \in 1 .. 2 : /\ SlotOf(j, k) \in Slots
                                /\ TokenOf(SlotOf(j, k)) = Pair(legs[j].pool)[k]
           /\ Pair(legs[j].pool)[1] = legs[j].pool.lock.t1
           /\ Pair(legs[j].pool)[2] = legs[j].pool.lock.t2
<1>1. LegKnown(legs[j]) BY DEF RequestKnown, legs, poolCnt
<1>2. PoolKnown(legs[j].pool) BY <1>1 DEF LegKnown
<1>3. /\ Pair(legs[j].pool)[1] = legs[j].pool.lock.t1
      /\ Pair(legs[j].pool)[2] = legs[j].pool.lock.t2
  BY DEF Pair
<1>4. ASSUME NEW k \in 1 .. 2
      PROVE  SlotOf(j, k) \in Slots /\ TokenOf(SlotOf(j, k)) = Pair(legs[j].pool)[k]
  <2> DEFINE m == IF legs[j].isRev THEN 3 - k ELSE k
  <2>1. m \in 1 .. 2 OBVIOUS
  <2>2. SlotOf(j, k) = <<j, m>> BY DEF SlotOf
  <2>3. <<j, m>> \in Slots
    <3> HIDE DEF m
    <3> QED BY <2>1 DEF Slots
  <2>4. TokenOf(<<j, m>>) = Pair(legs[j].pool)[IF legs[j].isRev THEN 3 - m ELSE m]
    BY DEF TokenOf
  <2>5. (IF legs[j].isRev THEN 3 - m ELSE m) = k OBVIOUS
  <2> QED BY <2>2, <2>3, <2>4, <2>5
<1> QED BY <1>1, <1>2, <1>3, <1>4

\* The capacity of a cell that holds an amount of a token for a pool.
LockCapacity(t, amount) == IF t = CKB THEN amount ELSE udtLockCKB

\* A cell for a token of the request, under a pair lock or of the wallet.
LEMMA TokenCells ==
    ASSUME NEW s \in Slots, NEW t \in Nat, t = TokenOf(s), NEW lock \in AnyScript, NEW amount \in Int
    PROVE  /\ LockCell(lock, t, amount) \in Fit
           /\ LockCell(lock, t, amount).lock = lock
           /\ LockCell(lock, t, amount).capacity = LockCapacity(t, amount)
           /\ LockCapacity(t, amount) \in Int
           /\ UserCell(t, amount) \in Fit
           /\ UserCell(t, amount).lock = UserLock
<1>1. /\ NoScript \in AnyScript /\ UdtType(t) \in AnyScript /\ UserLock \in AnyScript
      /\ udtLockCKB \in Int /\ udtCellCKB \in Int
      /\ <<>> \in Seq(Int) /\ <<amount>> \in Seq(Int)
  BY AnyScripts, AnyData, TxBuilderAssumption
<1>2. CASE t = CKB
  <2>1. LockCell(lock, t, amount) = Cell(lock, NoScript, amount, <<>>) BY <1>2 DEF LockCell
  <2>2. UserCell(t, amount) = Cell(UserLock, NoScript, amount, <<>>) BY <1>2 DEF UserCell
  <2>3. Cell(lock, NoScript, amount, <<>>) \in AnyCell /\ Cell(UserLock, NoScript, amount, <<>>) \in AnyCell
    BY <1>1, AnyCells
  <2> QED BY <1>2, <2>1, <2>2, <2>3, CellFields, ScriptCodes, NeededCodes DEF Fit, LockCapacity
<1>3. CASE t # CKB
  <2>1. LockCell(lock, t, amount) = Cell(lock, UdtType(t), udtLockCKB, <<amount>>)
    BY <1>3 DEF LockCell
  <2>2. UserCell(t, amount) = Cell(UserLock, UdtType(t), udtCellCKB, <<amount>>)
    BY <1>3 DEF UserCell
  <2>3. /\ Cell(lock, UdtType(t), udtLockCKB, <<amount>>) \in AnyCell
        /\ Cell(UserLock, UdtType(t), udtCellCKB, <<amount>>) \in AnyCell
    BY <1>1, AnyCells
  <2>4. "udt" \in Needed BY <1>3, NeededCodes
  <2> QED BY <1>1, <1>3, <2>1, <2>2, <2>3, <2>4, CellFields, ScriptCodes DEF Fit, LockCapacity
<1> QED BY <1>2, <1>3

\* The three cells of a pool.
LEMMA PoolTriple ==
    ASSUME RequestKnown(request), NEW j \in 1 .. poolCnt, NEW id \in Nat,
           NEW data, data[1] \in Int, data[2] \in Int, data \in Seq(Int)
    PROVE  LET cells == PoolCells(legs[j].pool, id, data)
               pair == Pair(legs[j].pool)
           IN  /\ cells \in Seq(FitInput) /\ Len(cells) = 3
               /\ \A k \in 1 .. 3 : cells[k].lock = legs[j].pool.lock
               /\ cells[1].capacity = poolCellCKB
               /\ cells[2].capacity = LockCapacity(pair[1], data[1])
               /\ cells[3].capacity = LockCapacity(pair[2], data[2])
<1> DEFINE p == legs[j].pool
           cells == PoolCells(p, id, data)
           a == Cell(p.lock, PoolType(id), poolCellCKB, data)
           b == LockCell(p.lock, p.lock.t1, data[1])
           c == LockCell(p.lock, p.lock.t2, data[2])
<1>1. /\ p.lock \in AnyScript /\ p.lock.code = "udtswap_lock"
      /\ p.lock.t1 \in Nat /\ p.lock.t2 \in Nat
  <2>1. PoolKnown(p) BY PairOfPool
  <2> HIDE DEF p
  <2>2. p.lock = PairLock(p.lock.t1, p.lock.t2) /\ p.lock.t1 \in Nat /\ p.lock.t2 \in Nat
    BY <2>1 DEF PoolKnown
  <2>3. PairLock(p.lock.t1, p.lock.t2) \in AnyScript BY <2>2, AnyScripts
  <2>4. PairLock(p.lock.t1, p.lock.t2).code = "udtswap_lock" BY ScriptCodes
  <2> QED BY <2>2, <2>3, <2>4
<1>2. a \in Fit /\ a.lock = p.lock /\ a.capacity = poolCellCKB
  <2>1. PoolType(id) \in AnyScript /\ poolCellCKB \in Int BY AnyScripts, TxBuilderAssumption
  <2>2. a \in AnyCell BY <1>1, <2>1, AnyCells
  <2>3. a.type.code = "udtswap" BY CellFields, ScriptCodes
  <2> QED BY <2>2, <2>3, CellFields, NeededCodes DEF Fit
<1>3. b \in Fit /\ b.lock = p.lock /\ b.capacity = LockCapacity(Pair(p)[1], data[1])
  <2> DEFINE t == p.lock.t1
             amount == data[1]
             lock == p.lock
  <2>1. PICK s \in Slots : t = TokenOf(s) /\ Pair(p)[1] = t BY PairOfPool
  <2>2. t \in Nat /\ lock \in AnyScript /\ amount \in Int BY <1>1
  <2>3. b = LockCell(lock, t, amount) OBVIOUS
  <2> HIDE DEF t, amount, lock, b
  <2>4. b \in Fit /\ b.lock = lock /\ b.capacity = LockCapacity(t, amount)
    BY <2>1, <2>2, <2>3, TokenCells
  <2> QED BY <2>1, <2>4 DEF t, amount, lock
<1>4. c \in Fit /\ c.lock = p.lock /\ c.capacity = LockCapacity(Pair(p)[2], data[2])
  <2> DEFINE t == p.lock.t2
             amount == data[2]
             lock == p.lock
  <2>1. PICK s \in Slots : t = TokenOf(s) /\ Pair(p)[2] = t BY PairOfPool
  <2>2. t \in Nat /\ lock \in AnyScript /\ amount \in Int BY <1>1
  <2>3. c = LockCell(lock, t, amount) OBVIOUS
  <2> HIDE DEF t, amount, lock, c
  <2>4. c \in Fit /\ c.lock = lock /\ c.capacity = LockCapacity(t, amount)
    BY <2>1, <2>2, <2>3, TokenCells
  <2> QED BY <2>1, <2>4 DEF t, amount, lock
<1>5. a \in FitInput /\ b \in FitInput /\ c \in FitInput
  BY <1>1, <1>2, <1>3, <1>4, NeededCodes DEF FitInput
<1>6. cells = <<a, b, c>> BY DEF PoolCells
<1> HIDE DEF a, b, c, cells, p
<1>7. cells \in Seq(FitInput) /\ Len(cells) = 3 /\ cells[1] = a /\ cells[2] = b /\ cells[3] = c
  BY <1>5, <1>6
<1>8. \A k \in 1 .. 3 : k = 1 \/ k = 2 \/ k = 3 OBVIOUS
<1>9. /\ cells \in Seq(FitInput) /\ Len(cells) = 3
      /\ \A k \in 1 .. 3 : cells[k].lock = p.lock
      /\ cells[1].capacity = poolCellCKB
      /\ cells[2].capacity = LockCapacity(Pair(p)[1], data[1])
      /\ cells[3].capacity = LockCapacity(Pair(p)[2], data[2])
  BY <1>2, <1>3, <1>4, <1>7, <1>8
<1> QED BY <1>9 DEF cells, p

\* What is known of a request throughout.
LEMMA RequestFacts ==
    ASSUME Wallet
    PROVE  /\ RequestKnown(request) /\ request.kind \in {"swap", "add", "remove", "create"}
           /\ poolCnt \in 1 .. 2 /\ 1 \in 1 .. poolCnt
           /\ request.kind # "swap" => poolCnt = 1
           /\ request.liquidity \in Nat
           /\ ret \in Seq(WalletCells)
<1>1. RequestKnown(request) BY RequestsKnown DEF Wallet
<1>2. poolCnt \in 1 .. 2 BY <1>1 DEF RequestKnown, poolCnt, legs
<1>3. 1 \in 1 .. poolCnt BY <1>2
<1> QED BY <1>1, <1>2, <1>3, TakenFromWallet DEF RequestKnown, poolCnt, legs

\* Everything that is computed from it is a number.
LEMMA NumberFacts ==
    ASSUME Wallet
    PROVE  /\ \A s \in Slots : udtInput(s) \in Int /\ Actual(s) \in Int
           /\ \A j \in 1 .. poolCnt, k \in 1 .. 2 : ReserveAfter(j, k) \in Int
           /\ \A j \in 1 .. poolCnt : LiquidityAfter(j) \in Int
           /\ Held(liquidityUDT) \in Nat /\ currentCKBAmount \in Nat
<1>1. RequestKnown(request) /\ ret \in Seq(WalletCells) BY RequestFacts
<1>2. ASSUME NEW s \in Slots PROVE udtInput(s) \in Int /\ Actual(s) \in Int
  <2> DEFINE earlier == {u \in Wants(TokenOf(s)) : Before(u, s)}
  <2>1. Reserved(s) \in Int /\ Actual(s) \in Int BY <1>1, SlotFacts
  <2>2. ReservedFor(earlier) \in Int
    <3>1. earlier \in SUBSET Slots BY DEF Wants
    <3> HIDE DEF earlier
    <3> QED BY <1>1, <3>1, ReservedAdds
  <2>3. Held(UdtType(TokenOf(s))) \in Int
    <3>1. UdtType(TokenOf(s)) # NoScript BY DEF UdtType, NoScript, Script
    <3> QED BY <1>1, <3>1, HeldFacts DEF Held
  <2>4. \/ udtInput(s) = Held(UdtType(TokenOf(s))) - ReservedFor(earlier)
        \/ udtInput(s) = Reserved(s)
    BY DEF udtInput
  <2> HIDE DEF earlier
  <2> QED BY <2>1, <2>2, <2>3, <2>4
<1>3. ASSUME NEW j \in 1 .. poolCnt, NEW k \in 1 .. 2 PROVE ReserveAfter(j, k) \in Int
  <2>1. legs[j].pool.data[k] \in Int /\ SlotOf(j, k) \in Slots
    BY <1>1, PairOfPool DEF PoolKnown
  <2> QED BY <1>2, <2>1 DEF ReserveAfter
<1>4. ASSUME NEW j \in 1 .. poolCnt PROVE LiquidityAfter(j) \in Int
  <2>1. legs[j].pool.data[3] \in Int /\ request.liquidity \in Int
    BY <1>1, PairOfPool, RequestFacts DEF PoolKnown
  <2> QED BY <2>1 DEF LiquidityAfter
<1>5. liquidityUDT # NoScript BY DEF liquidityUDT, LiquidityType, NoScript, Script
<1>6. Held(liquidityUDT) \in Nat BY <1>1, <1>5, HeldFacts DEF Held
<1>7. currentCKBAmount \in Nat BY <1>1, CapacityFacts DEF currentCKBAmount
<1> QED BY <1>2, <1>3, <1>4, <1>6, <1>7

\* What a pool takes part with, before and after.
PoolCapacity(j, k) ==
    LockCapacity(Pair(legs[j].pool)[k],
                 legs[j].pool.data[k])

NewCapacity(j, k) == LockCapacity(Pair(legs[j].pool)[k], ReserveAfter(j, k))

\* The cells of a pool, as they were and as they will be.
LEMMA PoolInputsAre ==
    ASSUME Wallet, NEW j \in 1 .. poolCnt
    PROVE  /\ PoolInputs(j) \in Seq(FitInput)
           /\ request.kind = "create" => PoolInputs(j) = <<>>
           /\ request.kind # "create" =>
                 /\ Len(PoolInputs(j)) = 3
                 /\ \A k \in 1 .. 3 : PoolInputs(j)[k].lock.code = "udtswap_lock"
                 /\ PoolInputs(j)[1].capacity = poolCellCKB
                 /\ PoolInputs(j)[2].capacity = PoolCapacity(j, 1)
                 /\ PoolInputs(j)[3].capacity = PoolCapacity(j, 2)
<1>1. RequestKnown(request) BY RequestFacts
<1>2. PoolKnown(legs[j].pool) BY <1>1, PairOfPool
<1> DEFINE id == legs[j].pool.type.id
           data == legs[j].pool.data
           cells == PoolCells(legs[j].pool, id, data)
<1>3. id \in Nat /\ data[1] \in Int /\ data[2] \in Int BY <1>2 DEF PoolKnown
<1>4. data \in Seq(Int)
  <2>1. data[3] \in Int /\ data = <<data[1], data[2], data[3]>> BY <1>2 DEF PoolKnown
  <2>2. <<data[1], data[2], data[3]>> \in Seq(Int)
    <3> HIDE DEF data
    <3> QED BY <1>3, <2>1, AnyData
  <2> HIDE DEF data
  <2> QED BY <2>1, <2>2
<1>5. legs[j].pool.lock.code = "udtswap_lock" BY <1>2, ScriptCodes DEF PoolKnown
<1>6. /\ cells \in Seq(FitInput) /\ Len(cells) = 3
      /\ \A k \in 1 .. 3 : cells[k].lock = legs[j].pool.lock
      /\ cells[1].capacity = poolCellCKB
      /\ cells[2].capacity = PoolCapacity(j, 1)
      /\ cells[3].capacity = PoolCapacity(j, 2)
  <2> HIDE DEF id, data
  <2>1. /\ cells \in Seq(FitInput) /\ Len(cells) = 3
        /\ \A k \in 1 .. 3 : cells[k].lock = legs[j].pool.lock
        /\ cells[1].capacity = poolCellCKB
        /\ cells[2].capacity = LockCapacity(Pair(legs[j].pool)[1], data[1])
        /\ cells[3].capacity = LockCapacity(Pair(legs[j].pool)[2], data[2])
    BY <1>1, <1>3, <1>4, PoolTriple
  <2> HIDE DEF cells
  <2> QED BY <2>1 DEF PoolCapacity, data
<1>7. request.kind # "create" => PoolInputs(j) = cells BY DEF PoolInputs
<1>8. request.kind = "create" => PoolInputs(j) = <<>> BY DEF PoolInputs
<1>9. <<>> \in Seq(FitInput) OBVIOUS
<1> HIDE DEF cells, id, data
<1> QED BY <1>5, <1>6, <1>7, <1>8, <1>9

\* The same for the outputs; a new pool is named by the first input.
LEMMA PoolOutputsAre ==
    ASSUME Wallet, raw.first \in Nat, NEW j \in 1 .. poolCnt
    PROVE  /\ PoolOutputs(j) \in Seq(Fit) /\ Len(PoolOutputs(j)) = 3
           /\ PoolOutputs(j)[1].capacity = poolCellCKB
           /\ PoolOutputs(j)[2].capacity = NewCapacity(j, 1)
           /\ PoolOutputs(j)[3].capacity = NewCapacity(j, 2)
<1>1. RequestKnown(request) BY RequestFacts
<1>2. PoolKnown(legs[j].pool) BY <1>1, PairOfPool
<1> DEFINE id == IF request.kind = "create" THEN raw.first ELSE legs[j].pool.type.id
           a == ReserveAfter(j, 1)
           b == ReserveAfter(j, 2)
           c == LiquidityAfter(j)
           data == <<a, b, c>>
           cells == PoolCells(legs[j].pool, id, data)
<1>3. id \in Nat /\ a \in Int /\ b \in Int /\ c \in Int BY <1>2, NumberFacts DEF PoolKnown
<1>4. PoolOutputs(j) = cells BY DEF PoolOutputs
<1> HIDE DEF id, a, b, c
<1>5. data \in Seq(Int) /\ data[1] = a /\ data[2] = b BY <1>3, AnyData
<1> HIDE DEF data
<1>6. /\ cells \in Seq(FitInput) /\ Len(cells) = 3
      /\ cells[1].capacity = poolCellCKB
      /\ cells[2].capacity = LockCapacity(Pair(legs[j].pool)[1], data[1])
      /\ cells[3].capacity = LockCapacity(Pair(legs[j].pool)[2], data[2])
  BY <1>1, <1>3, <1>5, PoolTriple
<1> HIDE DEF cells
<1>7. cells \in Seq(Fit) BY <1>6 DEF FitInput
<1> QED BY <1>4, <1>5, <1>6, <1>7 DEF NewCapacity, a, b

\* The change, or what the pool pays out, for each token.
LEMMA ResultsAre ==
    ASSUME Wallet, NEW j \in 1 .. poolCnt
    PROVE  Results(j) \in Seq(Fit) /\ Len(Results(j)) = 2
<1>1. RequestKnown(request) BY RequestFacts
<1>2. ASSUME NEW k \in 1 .. 2
      PROVE  UserCell(TokenOf(SlotOf(j, k)),
                IF FromWallet(SlotOf(j, k)) THEN udtInput(SlotOf(j, k)) - Actual(SlotOf(j, k))
                                            ELSE Actual(SlotOf(j, k))) \in Fit
  <2> DEFINE s == SlotOf(j, k)
             amount == IF FromWallet(s) THEN udtInput(s) - Actual(s) ELSE Actual(s)
             t == TokenOf(s)
  <2>1. s \in Slots BY <1>1, PairOfPool
  <2>2. UserLock \in AnyScript BY AnyScripts
  <2> HIDE DEF s
  <2>3. amount \in Int /\ t \in Nat
    <3>1. udtInput(s) \in Int /\ Actual(s) \in Int BY <2>1, NumberFacts
    <3> QED BY <1>1, <2>1, <3>1, SlotFacts
  <2> HIDE DEF amount
  <2>4. UserCell(t, amount) \in Fit BY <2>1, <2>2, <2>3, TokenCells
  <2> QED BY <2>4 DEF s, amount
<1>3. Results(j) \in [1 .. 2 -> Fit] BY <1>2 DEF Results
<1>4. \A n \in Nat : \A f \in [1 .. n -> Fit] : f \in Seq(Fit) /\ Len(f) = n OBVIOUS
<1>5. 2 \in Nat OBVIOUS
<1> QED BY <1>3, <1>4, <1>5

\* Liquidity tokens are made for a deposit and left over by a withdrawal.
LEMMA LiquidityResultIs ==
    ASSUME Wallet
    PROVE  /\ LiquidityResult \in Seq(Fit)
           /\ request.kind \in {"add", "remove"} => Len(LiquidityResult) = 1
           /\ request.kind \in {"swap", "create"} => LiquidityResult = <<>>
<1>1. RequestKnown(request) /\ PoolKnown(legs[1].pool) BY RequestFacts, PairOfPool
<1>2. liquidityUDT \in AnyScript /\ UserLock \in AnyScript /\ liquidityCKB \in Int
  <2>1. legs[1].pool.lock.t1 \in Nat /\ legs[1].pool.lock.t2 \in Nat /\ legs[1].pool.type.id \in Nat
    BY <1>1 DEF PoolKnown
  <2> QED BY <2>1, AnyScripts, TxBuilderAssumption DEF liquidityUDT, LiquidityType
<1>3. ASSUME NEW n \in Int, request.kind \in {"add", "remove"}
      PROVE  Cell(UserLock, liquidityUDT, liquidityCKB, <<n>>) \in Fit
  <2>1. <<n>> \in Seq(Int) BY AnyData
  <2>2. Cell(UserLock, liquidityUDT, liquidityCKB, <<n>>) \in AnyCell BY <1>2, <2>1, AnyCells
  <2>3. liquidityUDT.code = "liquidity" BY ScriptCodes DEF liquidityUDT
  <2> QED BY <1>3, <2>2, <2>3, CellFields, NeededCodes DEF Fit
<1>4. request.liquidity \in Int /\ Held(liquidityUDT) \in Int BY RequestFacts, NumberFacts
<1>5. CASE request.kind = "add"
  <2>1. Cell(UserLock, liquidityUDT, liquidityCKB, <<request.liquidity>>) \in Fit
    BY <1>3, <1>4, <1>5
  <2> QED BY <1>5, <2>1 DEF LiquidityResult
<1>6. CASE request.kind = "remove"
  <2>1. Held(liquidityUDT) - request.liquidity \in Int BY <1>4
  <2>2. Cell(UserLock, liquidityUDT, liquidityCKB,
             <<Held(liquidityUDT) - request.liquidity>>) \in Fit
    BY <1>3, <1>6, <2>1
  <2> QED BY <1>6, <2>2 DEF LiquidityResult
<1>7. CASE request.kind \in {"swap", "create"} BY <1>7 DEF LiquidityResult
<1> QED BY <1>5, <1>6, <1>7, RequestFacts

\* What the wallet puts in.
BaseInputs == IF request.kind = "create" THEN Exchange(ret, 1, PlainIndex) ELSE ret
BaseOutputs ==
    <<Cell(FeeLock, NoScript, STATE_USE_FEE * poolCnt, <<>>),
      UserCell(CKB, currentCKBAmount - STATE_USE_FEE * poolCnt - txFeeMax)>>

\* The fee cell and the change.
LEMMA BaseOutputsAre ==
    ASSUME Wallet
    PROVE  /\ BaseOutputs \in Seq(Fit) /\ Len(BaseOutputs) = 2
           /\ BaseOutputs[1].capacity = STATE_USE_FEE * poolCnt
           /\ BaseOutputs[2].capacity = currentCKBAmount - STATE_USE_FEE * poolCnt - txFeeMax
           /\ STATE_USE_FEE * poolCnt \in Nat
<1> DEFINE fee == STATE_USE_FEE * poolCnt
           rest == currentCKBAmount - fee - txFeeMax
           a == Cell(FeeLock, NoScript, fee, <<>>)
           b == UserCell(CKB, rest)
<1>1. fee \in Nat /\ rest \in Int
  <2>1. STATE_USE_FEE \in Nat /\ poolCnt \in Nat BY RequestFacts, TypeScriptAssumption
  <2>2. fee \in Nat BY <2>1, ProductNat
  <2> HIDE DEF fee
  <2> QED BY <2>2, NumberFacts, TxBuilderAssumption
<1>2. BaseOutputs = <<a, b>> BY DEF BaseOutputs
<1>3. b = Cell(UserLock, NoScript, rest, <<>>) BY DEF UserCell
<1> HIDE DEF fee, rest
<1>4. a \in AnyCell /\ b \in AnyCell
  <2>1. FeeLock \in AnyScript /\ UserLock \in AnyScript /\ NoScript \in AnyScript
        /\ <<>> \in Seq(Int) /\ fee \in Int /\ rest \in Int
    BY <1>1, AnyScripts, AnyData
  <2> QED BY <1>3, <2>1, AnyCells
<1>5. a \in Fit /\ b \in Fit BY <1>3, <1>4, CellFields, ScriptCodes, NeededCodes DEF Fit
<1>6. a.capacity = fee /\ b.capacity = rest BY <1>3, CellFields
<1> HIDE DEF a, b
<1>7. BaseOutputs \in Seq(Fit) /\ Len(BaseOutputs) = 2 /\ BaseOutputs[1] = a /\ BaseOutputs[2] = b
  BY <1>2, <1>5
<1> QED BY <1>1, <1>6, <1>7 DEF fee, rest

-----------------------------------------------------------------------------
\* Capacities, as numbers and in sum.
LEMMA Numbers ==
    ASSUME NEW T, NEW n \in Nat, NEW f \in [1 .. n -> T]
    PROVE  f \in Seq(T) /\ Len(f) = n /\ DOMAIN f = 1 .. n
OBVIOUS

Caps(cells) == [k \in DOMAIN cells |-> cells[k].capacity]

\* The capacities of cells and their sum.
LEMMA CapsAre ==
    ASSUME NEW cells \in Seq(AnyCell)
    PROVE  /\ Caps(cells) \in Seq(Int) /\ Len(Caps(cells)) = Len(cells)
           /\ DOMAIN Caps(cells) = DOMAIN cells
           /\ \A k \in DOMAIN cells : Caps(cells)[k] = cells[k].capacity /\ cells[k].capacity \in Int
           /\ capacities(cells) = Total(Caps(cells)) /\ capacities(cells) \in Int
<1>1. DOMAIN cells = 1 .. Len(cells) /\ Len(cells) \in Nat OBVIOUS
<1>2. \A k \in DOMAIN cells : cells[k].capacity \in Int
  <2>1. \A c \in AnyCell : c.capacity \in Int BY DEF AnyCell
  <2>2. \A k \in DOMAIN cells : cells[k] \in AnyCell OBVIOUS
  <2> QED BY <2>1, <2>2
<1>3. Caps(cells) \in [1 .. Len(cells) -> Int] BY <1>1, <1>2 DEF Caps
<1>4. Caps(cells) \in Seq(Int) /\ Len(Caps(cells)) = Len(cells) BY <1>1, <1>3, Numbers
<1>5. capacities(cells) = Total(Caps(cells)) BY DEF capacities, Caps
<1> QED BY <1>1, <1>2, <1>4, <1>5, TotalIsSum DEF Caps

\* A sequence of elements of a subset.
LEMMA SubsetSeq ==
    ASSUME NEW T, NEW U, T \subseteq U, NEW s \in Seq(T)
    PROVE  s \in Seq(U)
OBVIOUS

\* Cells of one of the sets are of the larger ones.
LEMMA FitSeqs ==
    /\ \A s \in Seq(FitInput) : s \in Seq(Fit) /\ s \in Seq(AnyCell)
    /\ \A s \in Seq(Fit) : s \in Seq(AnyCell)
    /\ FitInput \subseteq Fit /\ Fit \subseteq AnyCell
<1>1. FitInput \subseteq Fit /\ Fit \subseteq AnyCell BY DEF FitInput, Fit
<1> QED BY <1>1, SubsetSeq

\* A sequence behind another.
LEMMA Joined ==
    ASSUME NEW T, NEW s \in Seq(T), NEW t \in Seq(T)
    PROVE  /\ s \o t \in Seq(T) /\ Len(s \o t) = Len(s) + Len(t)
           /\ \A k \in 1 .. Len(s) : (s \o t)[k] = s[k]
           /\ \A k \in 1 .. Len(t) : (s \o t)[Len(s) + k] = t[k]
OBVIOUS

\* A triple in front.
LEMMA TripleJoined ==
    ASSUME NEW T, NEW s \in Seq(T), NEW t \in Seq(T)
    PROVE  Len(s) = 3 => /\ s \o t \in Seq(T) /\ Len(s \o t) = 3 + Len(t)
                         /\ \A k \in 1 .. 3 : (s \o t)[k] = s[k]
                         /\ \A k \in 1 .. Len(t) : (s \o t)[3 + k] = t[k]
<1>1. /\ s \o t \in Seq(T) /\ Len(s \o t) = Len(s) + Len(t)
      /\ \A k \in 1 .. Len(s) : (s \o t)[k] = s[k]
      /\ \A k \in 1 .. Len(t) : (s \o t)[Len(s) + k] = t[k]
  OBVIOUS
<1> QED BY <1>1, Zenon

\* The capacity of cells behind others.
LEMMA CapacitiesJoined ==
    ASSUME NEW s \in Seq(AnyCell), NEW t \in Seq(AnyCell)
    PROVE  capacities(s \o t) = capacities(s) + capacities(t)
<1> DEFINE u == s \o t
<1>1. /\ u \in Seq(AnyCell) /\ Len(u) = Len(s) + Len(t)
      /\ \A k \in 1 .. Len(s) : u[k] = s[k]
      /\ \A k \in 1 .. Len(t) : u[Len(s) + k] = t[k]
  BY Joined
<1> HIDE DEF u
<1>2. /\ Len(s) \in Nat /\ Len(t) \in Nat
      /\ DOMAIN s = 1 .. Len(s) /\ DOMAIN t = 1 .. Len(t) /\ DOMAIN u = 1 .. Len(u)
  BY <1>1
<1> DEFINE x == Caps(s)
           y == Caps(t)
           z == Caps(u)
<1>3. /\ x \in Seq(Int) /\ Len(x) = Len(s) /\ \A k \in 1 .. Len(s) : x[k] = s[k].capacity
      /\ capacities(s) = Total(x)
  BY <1>2, CapsAre
<1>4. /\ y \in Seq(Int) /\ Len(y) = Len(t) /\ \A k \in 1 .. Len(t) : y[k] = t[k].capacity
      /\ capacities(t) = Total(y)
  BY <1>2, CapsAre
<1>5. /\ z \in Seq(Int) /\ Len(z) = Len(u) /\ \A k \in 1 .. Len(u) : z[k] = u[k].capacity
      /\ capacities(u) = Total(z)
  BY <1>1, <1>2, CapsAre
<1> HIDE DEF x, y, z
<1>6. Len(z) = Len(x) + Len(y) BY <1>1, <1>3, <1>4, <1>5
<1>7. ASSUME NEW k \in 1 .. Len(x) PROVE z[k] = x[k]
  <2>1. k \in 1 .. Len(s) /\ k \in 1 .. Len(u) BY <1>1, <1>2, <1>3
  <2> QED BY <1>1, <1>3, <1>5, <2>1
<1>8. ASSUME NEW k \in 1 .. Len(y) PROVE z[Len(x) + k] = y[k]
  <2>1. k \in 1 .. Len(t) /\ Len(s) + k \in 1 .. Len(u) BY <1>1, <1>2, <1>4
  <2> QED BY <1>1, <1>3, <1>4, <1>5, <2>1
<1>9. Total(z) = Total(x) + Total(y) BY <1>3, <1>4, <1>5, <1>6, <1>7, <1>8, TotalOfJoined
<1> QED BY <1>3, <1>4, <1>5, <1>9 DEF u

\* Cells that change places have the same capacity together.
LEMMA CapacitiesExchanged ==
    ASSUME NEW s \in Seq(AnyCell), NEW i \in DOMAIN s, NEW j \in DOMAIN s
    PROVE  capacities(Exchange(s, i, j)) = capacities(s)
<1> DEFINE t == Exchange(s, i, j)
           x == Caps(s)
           z == Caps(t)
           y == [x EXCEPT ![j] = x[i]]
<1>1. /\ t \in Seq(AnyCell) /\ Len(t) = Len(s) /\ DOMAIN t = DOMAIN s
      /\ t[j] = s[i] /\ (i # j => t[i] = s[j])
      /\ \A k \in DOMAIN s : k # i /\ k # j => t[k] = s[k]
  BY Exchanged
<1> HIDE DEF t
<1>2. /\ x \in Seq(Int) /\ DOMAIN x = DOMAIN s /\ Len(x) = Len(s)
      /\ \A k \in DOMAIN s : x[k] = s[k].capacity
      /\ capacities(s) = Total(x)
  BY CapsAre
<1>3. /\ z \in Seq(Int) /\ DOMAIN z = DOMAIN s /\ Len(z) = Len(s)
      /\ \A k \in DOMAIN s : z[k] = t[k].capacity
      /\ capacities(t) = Total(z)
  BY <1>1, CapsAre
<1> HIDE DEF x, z
<1>4. /\ y \in Seq(Int) /\ DOMAIN y = DOMAIN s /\ Len(y) = Len(s)
      /\ y[j] = x[i]
      /\ \A k \in DOMAIN s : k # j => y[k] = x[k]
  BY <1>2
<1> HIDE DEF y
<1>5. x[i] \in Int /\ x[j] \in Int /\ Total(x) \in Int BY <1>2, TotalIsSum
<1>6. Total(y) = Total(x) + y[j] - x[j]
  <2>1. j \in DOMAIN x /\ Len(y) = Len(x) /\ \A k \in DOMAIN x : k # j => y[k] = x[k]
    BY <1>2, <1>4
  <2> QED BY <1>2, <1>4, <2>1, TotalOfChanged
<1>7. CASE i = j
  <2>1. \A k \in DOMAIN s : z[k] = x[k] BY <1>1, <1>2, <1>3, <1>7
  <2>2. Total(z) = Total(x) + z[j] - x[j]
    <3>1. j \in DOMAIN x /\ Len(z) = Len(x) /\ \A k \in DOMAIN x : k # j => z[k] = x[k]
      BY <1>2, <1>3, <2>1
    <3> QED BY <1>2, <1>3, <3>1, TotalOfChanged
  <2>3. z[j] = x[j] BY <2>1
  <2> QED BY <1>2, <1>3, <1>5, <2>2, <2>3 DEF t
<1>8. CASE i # j
  <2>1. \A k \in DOMAIN s : k # i => z[k] = y[k]
    <3> TAKE k \in DOMAIN s
    <3> HAVE k # i
    <3>1. CASE k = j BY <1>1, <1>2, <1>3, <1>4, <3>1
    <3>2. CASE k # j BY <1>1, <1>2, <1>3, <1>4, <3>2
    <3> QED BY <3>1, <3>2
  <2>2. Total(z) = Total(y) + z[i] - y[i]
    <3>1. i \in DOMAIN y /\ Len(z) = Len(y) /\ \A k \in DOMAIN y : k # i => z[k] = y[k]
      BY <1>3, <1>4, <2>1
    <3> QED BY <1>3, <1>4, <3>1, TotalOfChanged
  <2>3. z[i] = x[j] /\ y[i] = x[i] BY <1>1, <1>2, <1>3, <1>4, <1>8
  <2> QED BY <1>2, <1>3, <1>4, <1>5, <1>6, <2>2, <2>3 DEF t
<1> QED BY <1>7, <1>8

\* Sums of few numbers.
LEMMA ShortSums ==
    ASSUME NEW x \in Seq(Int)
    PROVE  /\ Len(x) = 3 => Total(x) = x[1] + x[2] + x[3]
           /\ Len(x) = 6 => Total(x) = x[1] + x[2] + x[3] + x[4] + x[5] + x[6]
           /\ Len(x) = 7 => Total(x) = x[1] + x[2] + x[3] + x[4] + x[5] + x[6] + x[7]
           /\ Len(x) = 8 =>
                Total(x) = x[1] + x[2] + x[3] + x[4] + x[5] + x[6] + x[7] + x[8]
           /\ Len(x) = 12 =>
                Total(x) = x[1] + x[2] + x[3] + x[4] + x[5] + x[6] + x[7] + x[8] + x[9]
                             + x[10] + x[11] + x[12]
<1> DEFINE n == Len(x)
           S(k) == SumTo(x, k)
<1>1. /\ Total(x) = S(n) /\ S(0) = 0
      /\ \A k \in 0 .. n - 1 : S(k) \in Int /\ S(k + 1) = S(k) + x[k + 1]
  BY TotalIsSum
<1>2. \A k \in 1 .. n : x[k] \in Int OBVIOUS
<1>3. n \in Nat OBVIOUS
<1> HIDE DEF n, S
<1>4. n >= 3 => S(3) = x[1] + x[2] + x[3]
  <2> SUFFICES ASSUME n >= 3 PROVE S(3) = x[1] + x[2] + x[3] OBVIOUS
  <2>1. S(0 + 1) = S(0) + x[0 + 1] /\ S(1 + 1) = S(1) + x[1 + 1] /\ S(2 + 1) = S(2) + x[2 + 1]
    BY <1>1, <1>3
  <2>2. x[1] \in Int /\ x[2] \in Int /\ x[3] \in Int BY <1>2, <1>3
  <2> QED BY <1>1, <2>1, <2>2
<1>5. n >= 6 => S(6) = x[1] + x[2] + x[3] + x[4] + x[5] + x[6]
  <2> SUFFICES ASSUME n >= 6 PROVE S(6) = x[1] + x[2] + x[3] + x[4] + x[5] + x[6] OBVIOUS
  <2>1. 3 \in 0 .. n - 1 /\ 4 \in 0 .. n - 1 /\ 5 \in 0 .. n - 1 BY <1>3
  <2>2. S(3 + 1) = S(3) + x[3 + 1] BY <1>1, <2>1
  <2>3. S(4 + 1) = S(4) + x[4 + 1] BY <1>1, <2>1
  <2>4. S(5 + 1) = S(5) + x[5 + 1] BY <1>1, <2>1
  <2> QED BY <1>3, <1>4, <2>2, <2>3, <2>4
<1>6. n >= 7 => S(7) = x[1] + x[2] + x[3] + x[4] + x[5] + x[6] + x[7]
  <2> SUFFICES ASSUME n >= 7 PROVE S(7) = x[1] + x[2] + x[3] + x[4] + x[5] + x[6] + x[7] OBVIOUS
  <2>1. S(6 + 1) = S(6) + x[6 + 1] BY <1>1, <1>3
  <2> QED BY <1>3, <1>5, <2>1
<1>7. n >= 8 => S(8) = x[1] + x[2] + x[3] + x[4] + x[5] + x[6] + x[7] + x[8]
  <2> SUFFICES ASSUME n >= 8
               PROVE  S(8) = x[1] + x[2] + x[3] + x[4] + x[5] + x[6] + x[7] + x[8]
    OBVIOUS
  <2>1. S(7 + 1) = S(7) + x[7 + 1] BY <1>1, <1>3
  <2> QED BY <1>3, <1>6, <2>1
<1>8. n >= 12 => S(12) = x[1] + x[2] + x[3] + x[4] + x[5] + x[6] + x[7] + x[8] + x[9]
                           + x[10] + x[11] + x[12]
  <2> SUFFICES ASSUME n >= 12
               PROVE  S(12) = x[1] + x[2] + x[3] + x[4] + x[5] + x[6] + x[7] + x[8] + x[9]
                               + x[10] + x[11] + x[12]
    OBVIOUS
  <2>1. 8 \in 0 .. n - 1 /\ 9 \in 0 .. n - 1 /\ 10 \in 0 .. n - 1 /\ 11 \in 0 .. n - 1
    BY <1>3
  <2>2. /\ S(8 + 1) = S(8) + x[8 + 1] /\ S(9 + 1) = S(9) + x[9 + 1]
        /\ S(10 + 1) = S(10) + x[10 + 1] /\ S(11 + 1) = S(11) + x[11 + 1]
    BY <1>1, <2>1, Zenon
  <2>3. 8 + 1 = 9 /\ 9 + 1 = 10 /\ 10 + 1 = 11 /\ 11 + 1 = 12 OBVIOUS
  <2>4. S(12) = S(8) + x[9] + x[10] + x[11] + x[12] BY <2>2, <2>3
  <2>5. S(8) = x[1] + x[2] + x[3] + x[4] + x[5] + x[6] + x[7] + x[8] BY <1>3, <1>7
  <2> QED BY <2>4, <2>5
<1>9. Total(x) = S(Len(x)) BY <1>1 DEF n
<1>10. n = Len(x) BY DEF n
<1> HIDE DEF n
<1>11. Len(x) = 3 => Total(x) = x[1] + x[2] + x[3] BY <1>4, <1>9, <1>10
<1>12. Len(x) = 6 => Total(x) = x[1] + x[2] + x[3] + x[4] + x[5] + x[6] BY <1>5, <1>9, <1>10
<1>13. Len(x) = 7 => Total(x) = x[1] + x[2] + x[3] + x[4] + x[5] + x[6] + x[7]
  BY <1>6, <1>9, <1>10
<1>14. Len(x) = 8 => Total(x) = x[1] + x[2] + x[3] + x[4] + x[5] + x[6] + x[7] + x[8]
  BY <1>7, <1>9, <1>10
<1>15. Len(x) = 12 =>
         Total(x) = x[1] + x[2] + x[3] + x[4] + x[5] + x[6] + x[7] + x[8] + x[9]
                      + x[10] + x[11] + x[12]
  BY <1>8, <1>9, <1>10
<1> QED BY <1>11, <1>12, <1>13, <1>14, <1>15

-----------------------------------------------------------------------------
(* The inputs of a transaction. *)

\* What is taken from the wallet is under its lock and needs no other code.
LEMMA TakenFit ==
    ASSUME Wallet
    PROVE  /\ TakenCells \subseteq FitInput
           /\ \A c \in TakenCells : c.lock = UserLock
<1> SUFFICES ASSUME NEW c \in TakenCells PROVE c \in FitInput /\ c.lock = UserLock
  OBVIOUS
<1>1. c \in AnyCell /\ c.lock = UserLock /\
      (c.type.code = "udt" => c.type.t1 # CKB)
  <2>1. c \in WalletCells BY DEF TakenCells
  <2> QED BY <2>1, WalletCellFacts
<1>2. CASE c.type = NoScript
  BY <1>1, <1>2, ScriptCodes, NeededCodes DEF Fit, FitInput
<1>3. CASE c.type.code = "udt" /\ Wants(c.type.t1) # {}
  <2>1. PICK s \in Slots : TokenOf(s) = c.type.t1 BY <1>3 DEF Wants
  <2>2. "udt" \in Needed BY <1>1, <1>3, <2>1, NeededCodes
  <2> QED BY <1>1, <1>3, <2>2, ScriptCodes, NeededCodes DEF Fit, FitInput
<1>4. CASE request.kind = "remove" /\ c.type = liquidityUDT
  <2>1. c.type.code = "liquidity" BY <1>4, ScriptCodes DEF liquidityUDT
  <2> QED BY <1>1, <1>4, <2>1, ScriptCodes, NeededCodes DEF Fit, FitInput
<1> QED BY <1>2, <1>3, <1>4 DEF TakenCells

\* What the wallet has when it starts to build.
Gathered ==
    /\ Wallet
    /\ ret # <<>>
    /\ request.kind = "create" => PlainIndex > 0

\* The wallet's inputs hold what was collected, whatever comes first.
LEMMA BaseInputsAre ==
    ASSUME Gathered
    PROVE  /\ BaseInputs \in Seq(FitInput) /\ Len(BaseInputs) >= 1
           /\ BaseInputs[1].lock = UserLock
           /\ capacities(BaseInputs) = currentCKBAmount
<1>1. Wallet /\ ret \in Seq(TakenCells) /\ 1 \in DOMAIN ret /\ Len(ret) \in Nat
  BY DEF Gathered, Wallet
<1>2. TakenCells \subseteq AnyCell BY <1>1, TakenFit, FitSeqs
<1>3. CASE request.kind = "create"
  <2>1. PlainIndex \in DOMAIN ret BY <1>1, <1>3, PlainIsFirst DEF Gathered
  <2>2. BaseInputs = Exchange(ret, 1, PlainIndex) BY <1>3 DEF BaseInputs
  <2>3. BaseInputs \in Seq(TakenCells) /\ Len(BaseInputs) = Len(ret)
    BY <1>1, <2>1, <2>2, Exchanged
  <2>4. ret \in Seq(AnyCell) BY <1>1, <1>2, SubsetSeq
  <2>5. capacities(BaseInputs) = capacities(ret)
    BY <1>1, <2>1, <2>2, <2>4, CapacitiesExchanged
  <2>6. BaseInputs[1] \in TakenCells BY <1>1, <2>3
  <2>7. BaseInputs \in Seq(FitInput) BY <1>1, <2>3, TakenFit, SubsetSeq
  <2> QED BY <1>1, <2>3, <2>5, <2>6, <2>7, TakenFit DEF currentCKBAmount
<1>4. CASE request.kind # "create"
  <2>1. BaseInputs = ret BY <1>4 DEF BaseInputs
  <2>2. ret \in Seq(FitInput) BY <1>1, TakenFit, SubsetSeq
  <2>3. ret[1] \in TakenCells BY <1>1
  <2> QED BY <1>1, <2>1, <2>2, <2>3, TakenFit DEF currentCKBAmount
<1> QED BY <1>3, <1>4

AllInputs(n) ==
    CASE n = 0 -> BaseInputs
      [] n = 1 -> PoolInputs(1) \o BaseInputs
      [] n = 2 -> PoolInputs(2) \o (PoolInputs(1) \o BaseInputs)

\* The capacity of the cells of a pool, before and after.
PoolHeld(j) == poolCellCKB + PoolCapacity(j, 1) + PoolCapacity(j, 2)
PoolHolds(j) == poolCellCKB + NewCapacity(j, 1) + NewCapacity(j, 2)

\* What a pool's cells hold is a number, before and after.
LEMMA PoolTotals ==
    ASSUME Wallet, NEW j \in 1 .. poolCnt
    PROVE  /\ PoolCapacity(j, 1) \in Int /\ PoolCapacity(j, 2) \in Int /\ PoolHeld(j) \in Int
           /\ NewCapacity(j, 1) \in Int /\ NewCapacity(j, 2) \in Int /\ PoolHolds(j) \in Int
           /\ request.kind # "create" => capacities(PoolInputs(j)) = PoolHeld(j)
<1>1. RequestKnown(request) BY RequestFacts
<1>2. PoolCapacity(j, 1) \in Int /\ PoolCapacity(j, 2) \in Int
  <2>1. legs[j].pool.data[1] \in Int /\ legs[j].pool.data[2] \in Int
    BY <1>1, PairOfPool DEF PoolKnown
  <2>2. udtLockCKB \in Int BY TxBuilderAssumption
  <2> QED BY <2>1, <2>2 DEF PoolCapacity, LockCapacity
<1>3. NewCapacity(j, 1) \in Int /\ NewCapacity(j, 2) \in Int
  <2>1. ReserveAfter(j, 1) \in Int /\ ReserveAfter(j, 2) \in Int BY NumberFacts
  <2>2. udtLockCKB \in Int BY TxBuilderAssumption
  <2> QED BY <2>1, <2>2 DEF NewCapacity, LockCapacity
<1>4. poolCellCKB \in Int BY TxBuilderAssumption
<1>5. ASSUME request.kind # "create" PROVE capacities(PoolInputs(j)) = PoolHeld(j)
  <2> DEFINE cells == PoolInputs(j)
             x == Caps(cells)
  <2>1. /\ cells \in Seq(AnyCell) /\ Len(cells) = 3
        /\ cells[1].capacity = poolCellCKB
        /\ cells[2].capacity = PoolCapacity(j, 1)
        /\ cells[3].capacity = PoolCapacity(j, 2)
    BY <1>5, PoolInputsAre, FitSeqs
  <2> HIDE DEF cells
  <2>2. 1 \in DOMAIN cells /\ 2 \in DOMAIN cells /\ 3 \in DOMAIN cells BY <2>1
  <2>3. /\ x \in Seq(Int) /\ Len(x) = 3 /\ capacities(cells) = Total(x)
        /\ x[1] = poolCellCKB /\ x[2] = PoolCapacity(j, 1) /\ x[3] = PoolCapacity(j, 2)
    BY <2>1, <2>2, CapsAre
  <2> HIDE DEF x
  <2>4. Total(x) = x[1] + x[2] + x[3] BY <2>3, ShortSums
  <2> QED BY <2>3, <2>4 DEF cells, PoolHeld
<1> QED BY <1>2, <1>3, <1>4, <1>5 DEF PoolHeld, PoolHolds

SignedAt == IF request.kind = "create" THEN 1 ELSE poolCnt * 3 + 1

\* The inputs: all are Fit, they have the capacity of the wallet's cells and of
\* the pools', and behind the pools' cells comes a cell of the wallet.
LEMMA InputsLaid ==
    ASSUME Gathered
    PROVE  LET inputs == AllInputs(poolCnt)
           IN  /\ inputs \in Seq(FitInput)
               /\ request.kind = "create" => capacities(inputs) = currentCKBAmount
               /\ request.kind # "create" /\ poolCnt = 1 =>
                    capacities(inputs) = PoolHeld(1) + currentCKBAmount
               /\ request.kind # "create" /\ poolCnt = 2 =>
                    capacities(inputs) = PoolHeld(2) + (PoolHeld(1) + currentCKBAmount)
               /\ SignedAt \in DOMAIN inputs /\ inputs[SignedAt].lock = UserLock
               /\ \A i \in 1 .. SignedAt - 1 : inputs[i].lock # UserLock
<1> DEFINE base == BaseInputs
           one == PoolInputs(1)
           two == PoolInputs(2)
<1>1. Wallet /\ poolCnt \in 1 .. 2 /\ 1 \in 1 .. poolCnt BY RequestFacts DEF Gathered
<1>2. /\ base \in Seq(FitInput) /\ base \in Seq(AnyCell) /\ Len(base) >= 1 /\ Len(base) \in Nat
      /\ base[1].lock = UserLock /\ capacities(base) = currentCKBAmount
  <2>1. base \in Seq(FitInput) BY BaseInputsAre
  <2> HIDE DEF base
  <2>2. Len(base) \in Nat /\ base \in Seq(AnyCell) BY <2>1, FitSeqs
  <2> QED BY <2>1, <2>2, BaseInputsAre DEF base
<1>3. CASE request.kind = "create"
  <2>1. poolCnt = 1 /\ one = <<>> /\ SignedAt = 1 BY <1>1, <1>3, RequestFacts, PoolInputsAre DEF SignedAt
  <2>2. one \o base = base
    <3> HIDE DEF one, base
    <3> QED BY <1>2, <2>1
  <2>3. AllInputs(poolCnt) = base BY <2>1, <2>2 DEF AllInputs
  <2>4. 1 \in DOMAIN base /\ 1 .. SignedAt - 1 = {}
    <3> HIDE DEF base
    <3> QED BY <1>2, <2>1
  <2> HIDE DEF base
  <2> QED BY <1>2, <1>3, <2>1, <2>3, <2>4
<1>4. ASSUME request.kind # "create", NEW j \in 1 .. poolCnt
      PROVE  LET cells == PoolInputs(j)
             IN  /\ cells \in Seq(FitInput) /\ cells \in Seq(AnyCell) /\ Len(cells) = 3
                 /\ \A k \in 1 .. 3 : cells[k].lock # UserLock
                 /\ capacities(cells) = PoolHeld(j)
  <2>1. \A k \in 1 .. 3 : PoolInputs(j)[k].lock.code = "udtswap_lock"
    BY <1>1, <1>4, PoolInputsAre
  <2>2. UserLock.code = "user" BY ScriptCodes
  <2>3. \A k \in 1 .. 3 : PoolInputs(j)[k].lock # UserLock BY <2>1, <2>2
  <2> QED BY <1>1, <1>4, <2>3, PoolInputsAre, PoolTotals, FitSeqs
<1>5. CASE request.kind # "create" /\ poolCnt = 1
  <2> DEFINE inputs == one \o base
  <2>1. AllInputs(poolCnt) = inputs /\ SignedAt = 4 BY <1>5 DEF AllInputs, SignedAt
  <2>2. /\ one \in Seq(FitInput) /\ one \in Seq(AnyCell) /\ Len(one) = 3
        /\ \A k \in 1 .. 3 : one[k].lock # UserLock
        /\ capacities(one) = PoolHeld(1)
    BY <1>1, <1>4, <1>5
  <2> HIDE DEF one, base
  <2>3. /\ inputs \in Seq(FitInput) /\ Len(inputs) = 3 + Len(base)
        /\ \A k \in 1 .. 3 : inputs[k] = one[k]
        /\ \A k \in 1 .. Len(base) : inputs[3 + k] = base[k]
    BY <1>2, <2>2, TripleJoined
  <2>4. capacities(inputs) = PoolHeld(1) + currentCKBAmount
    BY <1>2, <2>2, CapacitiesJoined
  <2> HIDE DEF inputs
  <2>5. 4 \in DOMAIN inputs /\ inputs[4].lock = UserLock
    <3>1. 1 \in 1 .. Len(base) BY <1>2
    <3>2. inputs[3 + 1] = base[1] BY <2>3, <3>1
    <3>3. inputs[4] = base[1] BY <3>2
    <3> QED BY <1>2, <2>3, <3>3
  <2>6. \A k \in 1 .. SignedAt - 1 : inputs[k].lock # UserLock
    <3>1. SignedAt - 1 = 3 BY <2>1
    <3> QED BY <2>2, <2>3, <3>1
  <2> QED BY <1>5, <2>1, <2>3, <2>4, <2>5, <2>6
<1>6. CASE request.kind # "create" /\ poolCnt = 2
  <2> DEFINE first == one \o base
             inputs == two \o first
  <2>1. AllInputs(poolCnt) = inputs /\ SignedAt = 7 BY <1>6 DEF AllInputs, SignedAt
  <2>2. /\ one \in Seq(FitInput) /\ one \in Seq(AnyCell) /\ Len(one) = 3
        /\ \A k \in 1 .. 3 : one[k].lock # UserLock
        /\ capacities(one) = PoolHeld(1)
    BY <1>1, <1>4, <1>6
  <2>3. /\ two \in Seq(FitInput) /\ two \in Seq(AnyCell) /\ Len(two) = 3
        /\ \A k \in 1 .. 3 : two[k].lock # UserLock
        /\ capacities(two) = PoolHeld(2)
    <3>1. 2 \in 1 .. poolCnt BY <1>6
    <3> QED BY <1>4, <1>6, <3>1
  <2> HIDE DEF one, two, base
  <2>4. /\ first \in Seq(FitInput) /\ Len(first) = 3 + Len(base)
        /\ \A k \in 1 .. 3 : first[k] = one[k]
        /\ \A k \in 1 .. Len(base) : first[3 + k] = base[k]
    BY <1>2, <2>2, TripleJoined
  <2>5. capacities(first) = PoolHeld(1) + currentCKBAmount /\ first \in Seq(AnyCell)
    BY <1>2, <2>2, <2>4, CapacitiesJoined, FitSeqs
  <2> HIDE DEF first
  <2>6. /\ inputs \in Seq(FitInput) /\ Len(inputs) = 3 + Len(first)
        /\ \A k \in 1 .. 3 : inputs[k] = two[k]
        /\ \A k \in 1 .. Len(first) : inputs[3 + k] = first[k]
    BY <2>3, <2>4, TripleJoined
  <2>7. capacities(inputs) = PoolHeld(2) + (PoolHeld(1) + currentCKBAmount)
    BY <2>3, <2>5, CapacitiesJoined
  <2> HIDE DEF inputs
  <2>8. \A k \in 1 .. 4 : inputs[3 + k] = first[k] BY <1>2, <2>4, <2>6
  <2>9. 7 \in DOMAIN inputs /\ inputs[7].lock = UserLock
    <3>1. 1 \in 1 .. Len(base) BY <1>2
    <3>2. first[3 + 1] = base[1] BY <2>4, <3>1
    <3>3. inputs[3 + 4] = first[4] BY <2>8
    <3>4. inputs[7] = base[1] BY <3>2, <3>3
    <3> QED BY <1>2, <2>4, <2>6, <3>4
  <2>10. \A k \in 1 .. SignedAt - 1 : inputs[k].lock # UserLock
    <3>1. SignedAt - 1 = 6 BY <2>1
    <3>2. ASSUME NEW k \in 1 .. 6 PROVE inputs[k].lock # UserLock
      <4>1. CASE k \in 1 .. 3 BY <2>3, <2>6, <4>1
      <4>2. CASE k \in 4 .. 6
        <5>1. k - 3 \in 1 .. 3 /\ k - 3 \in 1 .. 4 /\ 3 + (k - 3) = k BY <4>2
        <5>2. inputs[k] = first[k - 3] BY <2>8, <5>1
        <5> QED BY <2>2, <2>4, <5>1, <5>2
      <4> QED BY <4>1, <4>2
    <3> QED BY <3>1, <3>2
  <2> QED BY <1>6, <2>1, <2>6, <2>7, <2>9, <2>10
<1> QED BY <1>1, <1>3, <1>5, <1>6

-----------------------------------------------------------------------------
(* The outputs of a transaction. *)

WithPool(j, outputs) == Arranged(PoolOutputs(j) \o outputs \o Results(j) \o LiquidityResult)

AllOutputs(n) ==
    CASE n = 0 -> BaseOutputs
      [] n = 1 -> WithPool(1, BaseOutputs)
      [] n = 2 -> WithPool(2, WithPool(1, BaseOutputs))

\* Four sequences in a row: the first and the second keep their places.
LEMMA Surrounded ==
    ASSUME NEW T, NEW a \in Seq(T), NEW b \in Seq(T), NEW c \in Seq(T), NEW d \in Seq(T),
           NEW u, u = a \o b \o c \o d
    PROVE  /\ u \in Seq(T) /\ Len(u) = Len(a) + Len(b) + Len(c) + Len(d)
           /\ \A k \in 1 .. Len(a) : u[k] = a[k]
           /\ \A k \in 1 .. Len(b) : u[Len(a) + k] = b[k]
<1> DEFINE v == a \o b
           w == v \o c
<1>1. /\ v \in Seq(T) /\ Len(v) = Len(a) + Len(b)
      /\ \A k \in 1 .. Len(a) : v[k] = a[k]
      /\ \A k \in 1 .. Len(b) : v[Len(a) + k] = b[k]
  BY Joined
<1> HIDE DEF v
<1>2. /\ w \in Seq(T) /\ Len(w) = Len(v) + Len(c)
      /\ \A k \in 1 .. Len(v) : w[k] = v[k]
  <2>1. v \in Seq(T) BY <1>1
  <2> QED BY <2>1, Joined
<1> HIDE DEF w
<1>3. /\ w \o d \in Seq(T) /\ Len(w \o d) = Len(w) + Len(d)
      /\ \A k \in 1 .. Len(w) : (w \o d)[k] = w[k]
  <2>1. w \in Seq(T) BY <1>2
  <2> QED BY <2>1, Joined
<1>4. u = w \o d BY DEF v, w
<1>5. Len(a) \in Nat /\ Len(b) \in Nat /\ Len(c) \in Nat /\ Len(d) \in Nat OBVIOUS
<1>6. u \in Seq(T) /\ Len(u) = Len(a) + Len(b) + Len(c) + Len(d)
  BY <1>1, <1>2, <1>3, <1>4, <1>5
<1>7. \A k \in 1 .. Len(v) : u[k] = v[k]
  <2> TAKE k \in 1 .. Len(v)
  <2>1. k \in 1 .. Len(w) BY <1>1, <1>2, <1>5
  <2> QED BY <1>2, <1>3, <1>4, <2>1
<1>8. ASSUME NEW k \in 1 .. Len(a) PROVE u[k] = a[k]
  <2>1. k \in 1 .. Len(v) BY <1>1, <1>5
  <2> QED BY <1>1, <1>7, <2>1
<1>9. ASSUME NEW k \in 1 .. Len(b) PROVE u[Len(a) + k] = b[k]
  <2>1. Len(a) + k \in 1 .. Len(v) BY <1>1, <1>5
  <2> QED BY <1>1, <1>7, <2>1
<1> QED BY <1>6, <1>8, <1>9

\* A pool's cells in front, and its results behind, before anything is
\* exchanged.
LEMMA PoolAround ==
    ASSUME Wallet, raw.first \in Nat, NEW j \in 1 .. poolCnt, NEW outputs \in Seq(Fit)
    PROVE  LET u == PoolOutputs(j) \o outputs \o Results(j) \o LiquidityResult
           IN  /\ u \in Seq(Fit) /\ Len(u) = 5 + Len(outputs) + Len(LiquidityResult)
               /\ u[1].capacity = poolCellCKB
               /\ u[2].capacity = NewCapacity(j, 1) /\ u[3].capacity = NewCapacity(j, 2)
               /\ \A k \in 1 .. Len(outputs) : u[3 + k] = outputs[k]
<1> DEFINE a == PoolOutputs(j)
           c == Results(j)
           d == LiquidityResult
           u == a \o outputs \o c \o d
<1>1. /\ a \in Seq(Fit) /\ Len(a) = 3 /\ a[1].capacity = poolCellCKB
      /\ a[2].capacity = NewCapacity(j, 1) /\ a[3].capacity = NewCapacity(j, 2)
  BY PoolOutputsAre
<1>2. c \in Seq(Fit) /\ Len(c) = 2 BY ResultsAre
<1>3. d \in Seq(Fit) BY LiquidityResultIs
<1> HIDE DEF a, c, d
<1>4. Len(d) \in Nat /\ Len(outputs) \in Nat BY <1>3
<1>5. u = a \o outputs \o c \o d OBVIOUS
<1> HIDE DEF u
<1>6. /\ u \in Seq(Fit) /\ Len(u) = Len(a) + Len(outputs) + Len(c) + Len(d)
      /\ \A k \in 1 .. Len(a) : u[k] = a[k]
      /\ \A k \in 1 .. Len(outputs) : u[Len(a) + k] = outputs[k]
  <2>1. a \in Seq(Fit) /\ c \in Seq(Fit) /\ d \in Seq(Fit) BY <1>1, <1>2, <1>3
  <2> QED BY <1>5, <2>1, Surrounded
<1>7. Len(u) = 5 + Len(outputs) + Len(d) BY <1>1, <1>2, <1>4, <1>6
<1>8. u[1] = a[1] /\ u[2] = a[2] /\ u[3] = a[3] BY <1>1, <1>6
<1>9. \A k \in 1 .. Len(outputs) : u[3 + k] = outputs[k] BY <1>1, <1>6
<1>10. /\ u \in Seq(Fit) /\ Len(u) = 5 + Len(outputs) + Len(d)
       /\ u[1].capacity = poolCellCKB
       /\ u[2].capacity = NewCapacity(j, 1) /\ u[3].capacity = NewCapacity(j, 2)
       /\ \A k \in 1 .. Len(outputs) : u[3 + k] = outputs[k]
  BY <1>1, <1>6, <1>7, <1>8, <1>9
<1> QED BY <1>10 DEF a, c, d, u

fee == STATE_USE_FEE * poolCnt
rest == currentCKBAmount - fee - txFeeMax

\* Where the cells are that are not paid from the change, and the change.
Laid(o) ==
    /\ o \in Seq(Fit)
    /\ request.kind = "swap" /\ poolCnt = 1 =>
         /\ Len(o) = 7 /\ o[1].capacity = poolCellCKB
         /\ o[2].capacity = NewCapacity(1, 1) /\ o[3].capacity = NewCapacity(1, 2)
         /\ o[4].capacity = fee /\ o[5].capacity = rest
    /\ request.kind = "swap" /\ poolCnt = 2 =>
         /\ Len(o) = 12 /\ o[1].capacity = poolCellCKB
         /\ o[2].capacity = NewCapacity(2, 1) /\ o[3].capacity = NewCapacity(2, 2)
         /\ o[4].capacity = poolCellCKB
         /\ o[5].capacity = NewCapacity(1, 1) /\ o[6].capacity = NewCapacity(1, 2)
         /\ o[7].capacity = fee /\ o[8].capacity = rest
    /\ request.kind = "add" =>
         /\ Len(o) = 8 /\ o[1].capacity = poolCellCKB
         /\ o[2].capacity = NewCapacity(1, 1) /\ o[3].capacity = NewCapacity(1, 2)
         /\ o[4].capacity = fee /\ o[8].capacity = rest
    /\ request.kind = "remove" =>
         /\ Len(o) = 8 /\ o[1].capacity = poolCellCKB
         /\ o[2].capacity = NewCapacity(1, 1) /\ o[3].capacity = NewCapacity(1, 2)
         /\ o[4].capacity = fee /\ o[5].capacity = rest
    /\ request.kind = "create" => Len(o) = 6 /\ o[4].capacity = rest

\* A part of a sequence.
LEMMA PartOf ==
    ASSUME NEW T, NEW s \in Seq(T), NEW m \in 1 .. Len(s), NEW n \in 1 .. Len(s), m <= n
    PROVE  /\ SubSeq(s, m, n) \in Seq(T) /\ Len(SubSeq(s, m, n)) = n - m + 1
           /\ SubSeq(s, m, n)[1] = s[m]
OBVIOUS

\* The outputs of all kinds of transactions, pool by pool, are laid out like that.
LEMMA OutputsLaid ==
    ASSUME Wallet, raw.first \in Nat
    PROVE  Laid(WithoutFeeCell(AllOutputs(poolCnt)))
<1> DEFINE base == BaseOutputs
           u == PoolOutputs(1) \o base \o Results(1) \o LiquidityResult
           d == LiquidityResult
<1>1. /\ poolCnt \in 1 .. 2 /\ 1 \in 1 .. poolCnt
      /\ request.kind \in {"swap", "add", "remove", "create"}
      /\ request.kind # "swap" => poolCnt = 1
  BY RequestFacts
<1>2. /\ base \in Seq(Fit) /\ Len(base) = 2
      /\ base[1].capacity = fee /\ base[2].capacity = rest
  BY BaseOutputsAre DEF fee, rest
<1> HIDE DEF base
<1>3. /\ u \in Seq(Fit) /\ Len(u) = 5 + Len(base) + Len(d)
      /\ u[1].capacity = poolCellCKB
      /\ u[2].capacity = NewCapacity(1, 1) /\ u[3].capacity = NewCapacity(1, 2)
      /\ \A k \in 1 .. Len(base) : u[3 + k] = base[k]
  BY <1>1, <1>2, PoolAround
<1>4. /\ request.kind \in {"add", "remove"} => Len(d) = 1
      /\ request.kind \in {"swap", "create"} => Len(d) = 0
  BY LiquidityResultIs
<1>5. WithPool(1, base) = Arranged(u) BY DEF WithPool
<1> HIDE DEF u, d
<1>6. u[4].capacity = fee /\ u[5].capacity = rest
  <2>1. 1 \in 1 .. Len(base) /\ 2 \in 1 .. Len(base) BY <1>2
  <2>2. u[3 + 1] = base[1] /\ u[3 + 2] = base[2] BY <1>3, <2>1
  <2>3. u[4] = base[1] /\ u[5] = base[2] BY <2>2
  <2> QED BY <1>2, <2>3
<1>7. /\ request.kind \in {"add", "remove"} => Len(u) = 8
      /\ request.kind \in {"swap", "create"} => Len(u) = 7
  <2>1. Len(u) = 5 + 2 + Len(d) BY <1>2, <1>3
  <2>2. \A l, m : l = 5 + 2 + m => (m = 1 => l = 8) /\ (m = 0 => l = 7) OBVIOUS
  <2>3. (Len(d) = 1 => Len(u) = 8) /\ (Len(d) = 0 => Len(u) = 7) BY <2>1, <2>2, Zenon
  <2> QED BY <1>4, <2>3
<1> DEFINE o == WithoutFeeCell(AllOutputs(poolCnt))
<1>8. CASE request.kind = "swap" /\ poolCnt = 1
  <2>1. o = u BY <1>5, <1>8 DEF AllOutputs, WithoutFeeCell, Arranged, base
  <2> HIDE DEF o
  <2>20. Laid(o) BY <1>3, <1>6, <1>7, <1>8, <2>1 DEF Laid
  <2> QED BY <2>20 DEF o
<1>9. CASE request.kind = "swap" /\ poolCnt = 2
  <2> DEFINE v == PoolOutputs(2) \o u \o Results(2) \o LiquidityResult
  <2>1. o = v
    <3>1. AllOutputs(poolCnt) = WithPool(2, u) BY <1>5, <1>9 DEF AllOutputs, Arranged, base
    <3> QED BY <1>9, <3>1 DEF WithoutFeeCell, Arranged, WithPool
  <2> HIDE DEF o
  <2>2. 2 \in 1 .. poolCnt BY <1>9
  <2>3. /\ v \in Seq(Fit) /\ Len(v) = 5 + Len(u) + Len(d)
        /\ v[1].capacity = poolCellCKB
        /\ v[2].capacity = NewCapacity(2, 1) /\ v[3].capacity = NewCapacity(2, 2)
        /\ \A k \in 1 .. Len(u) : v[3 + k] = u[k]
    BY <1>3, <2>2, PoolAround DEF d
  <2> HIDE DEF v
  <2>4. Len(v) = 12 /\ Len(u) = 7
    <3>1. Len(u) = 7 /\ Len(d) = 0 BY <1>4, <1>7, <1>9
    <3>2. Len(v) = 5 + Len(u) + Len(d) BY <2>3
    <3> HIDE DEF v
    <3> QED BY <3>1, <3>2
  <2>5. /\ v[4] = u[1] /\ v[5] = u[2] /\ v[6] = u[3] /\ v[7] = u[4] /\ v[8] = u[5]
    <3>1. v[3 + 1] = u[1] /\ v[3 + 2] = u[2] /\ v[3 + 3] = u[3] /\ v[3 + 4] = u[4] /\ v[3 + 5] = u[5]
      BY <2>3, <2>4
    <3> QED BY <3>1
  <2>20. Laid(o) BY <1>3, <1>6, <1>9, <2>1, <2>3, <2>4, <2>5 DEF Laid
  <2> QED BY <2>20 DEF o
<1>10. CASE request.kind = "add"
  <2>1. poolCnt = 1 /\ o = Exchange(u, 5, 8)
    BY <1>1, <1>5, <1>10 DEF AllOutputs, WithoutFeeCell, Arranged, base
  <2>2. 5 \in DOMAIN u /\ 8 \in DOMAIN u BY <1>3, <1>7, <1>10
  <2>9. u \in Seq(Fit) BY <1>3
  <2> HIDE DEF o
  <2>3. o \in Seq(Fit) /\ Len(o) = 8 /\ o[8] = u[5]
        /\ \A k \in DOMAIN u : k # 5 /\ k # 8 => o[k] = u[k]
    <3>1. u \in Seq(Fit) /\ Len(u) = 8 BY <1>3, <1>7, <1>10
    <3>2. /\ Exchange(u, 5, 8) \in Seq(Fit) /\ Len(Exchange(u, 5, 8)) = Len(u)
          /\ Exchange(u, 5, 8)[8] = u[5]
          /\ \A k \in DOMAIN u : k # 5 /\ k # 8 => Exchange(u, 5, 8)[k] = u[k]
      BY <2>2, <2>9, Exchanged
    <3> QED BY <2>1, <3>1, <3>2
  <2>4. o[1] = u[1] /\ o[2] = u[2] /\ o[3] = u[3] /\ o[4] = u[4]
    <3>1. 1 \in DOMAIN u /\ 2 \in DOMAIN u /\ 3 \in DOMAIN u /\ 4 \in DOMAIN u
      BY <1>3, <1>7, <1>10
    <3> QED BY <2>3, <3>1
  <2>20. Laid(o) BY <1>3, <1>6, <1>10, <2>3, <2>4 DEF Laid
  <2> QED BY <2>20 DEF o
<1>11. CASE request.kind = "remove"
  <2>1. o = u BY <1>1, <1>5, <1>11 DEF AllOutputs, WithoutFeeCell, Arranged, base
  <2> HIDE DEF o
  <2>20. Laid(o) BY <1>3, <1>6, <1>7, <1>11, <2>1 DEF Laid
  <2> QED BY <2>20 DEF o
<1>12. CASE request.kind = "create"
  <2>1. o = RemoveAt(u, 4)
    BY <1>1, <1>5, <1>12 DEF AllOutputs, WithoutFeeCell, Arranged, base
  <2>2. Len(u) = 7 BY <1>7, <1>12
  <2>3. o = SubSeq(u, 1, 3) \o SubSeq(u, 5, 7) BY <2>1, <2>2 DEF RemoveAt
  <2> HIDE DEF o
  <2> DEFINE x == SubSeq(u, 1, 3)
             y == SubSeq(u, 5, 7)
  <2>10. u \in Seq(Fit) /\ 1 \in 1 .. Len(u) /\ 3 \in 1 .. Len(u) /\ 5 \in 1 .. Len(u)
         /\ 7 \in 1 .. Len(u)
    <3>1. u \in Seq(Fit) BY <1>3
    <3> QED BY <2>2, <3>1
  <2>4. x \in Seq(Fit) /\ Len(x) = 3
    <3>1. x \in Seq(Fit) /\ Len(x) = 3 - 1 + 1 BY <2>10, PartOf
    <3> QED BY <3>1
  <2>5. y \in Seq(Fit) /\ Len(y) = 3 /\ y[1] = u[5]
    <3>1. y \in Seq(Fit) /\ Len(y) = 7 - 5 + 1 /\ y[1] = u[5] BY <2>10, PartOf
    <3> QED BY <3>1
  <2> HIDE DEF x, y
  <2>6. o = x \o y BY <2>3 DEF x, y
  <2>7. o \in Seq(Fit) /\ Len(o) = 6 /\ o[3 + 1] = y[1]
    <3>1. x \o y \in Seq(Fit) /\ Len(x \o y) = 3 + Len(y)
          /\ \A k \in 1 .. Len(y) : (x \o y)[3 + k] = y[k]
      BY <2>4, <2>5, TripleJoined
    <3> QED BY <2>5, <2>6, <3>1
  <2>8. o[4] = u[5] BY <2>5, <2>7
  <2>20. Laid(o) BY <1>6, <1>12, <2>7, <2>8 DEF Laid
  <2> QED BY <2>20 DEF o
<1> QED BY <1>1, <1>8, <1>9, <1>10, <1>11, <1>12

-----------------------------------------------------------------------------
(* The balance of a transaction. *)

PaidCaps(o) == [i \in DOMAIN o |-> IF i \in PaidFromChange THEN o[i].capacity ELSE 0]

\* What is paid from the change, output by output.
LEMMA PaidAre ==
    ASSUME NEW o \in Seq(AnyCell)
    PROVE  /\ PaidCaps(o) \in Seq(Int) /\ Len(PaidCaps(o)) = Len(o)
           /\ \A i \in DOMAIN o :
                 PaidCaps(o)[i] = IF i \in PaidFromChange THEN Caps(o)[i] ELSE 0
           /\ Paid(o) = Total(PaidCaps(o)) /\ Paid(o) \in Int
<1>1. DOMAIN o = 1 .. Len(o) /\ Len(o) \in Nat OBVIOUS
<1>2. \A i \in DOMAIN o : o[i].capacity \in Int /\ Caps(o)[i] = o[i].capacity BY CapsAre
<1>3. PaidCaps(o) \in [1 .. Len(o) -> Int] BY <1>1, <1>2 DEF PaidCaps
<1>4. PaidCaps(o) \in Seq(Int) /\ Len(PaidCaps(o)) = Len(o) BY <1>1, <1>3, Numbers
<1>5. Paid(o) = Total(PaidCaps(o)) BY DEF Paid, PaidCaps
<1>6. \A i \in DOMAIN o : PaidCaps(o)[i] = IF i \in PaidFromChange THEN Caps(o)[i] ELSE 0
  BY <1>2 DEF PaidCaps
<1> QED BY <1>4, <1>5, <1>6, TotalIsSum

\* What is left of a sum when the numbers at some places are taken away.
LEMMA RestOfSum ==
    ASSUME NEW x, NEW y, NEW S, x \in Seq(Int), y \in Seq(Int), Len(y) = Len(x),
           \A i \in 1 .. Len(x) : y[i] = IF i \in S THEN x[i] ELSE 0
    PROVE  /\ Len(x) = 6 /\ S = {1, 2, 3, 5, 6} =>
                Total(x) - Total(y) = x[4]
           /\ Len(x) = 7 /\ S = 6 .. 7 =>
                Total(x) - Total(y) = x[1] + x[2] + x[3] + x[4] + x[5]
           /\ Len(x) = 8 /\ S = 5 .. 7 =>
                Total(x) - Total(y) = x[1] + x[2] + x[3] + x[4] + x[8]
           /\ Len(x) = 8 /\ S = 6 .. 8 =>
                Total(x) - Total(y) = x[1] + x[2] + x[3] + x[4] + x[5]
           /\ Len(x) = 12 /\ S = 9 .. 12 =>
                Total(x) - Total(y) = x[1] + x[2] + x[3] + x[4] + x[5] + x[6] + x[7]
                  + x[8]
<1>0. \A i \in 1 .. Len(x) : x[i] \in Int OBVIOUS
<1>1. ASSUME Len(x) = 6, S = {1, 2, 3, 5, 6}
      PROVE  Total(x) - Total(y) = x[4]
  <2>1. /\ Total(x) = x[1] + x[2] + x[3] + x[4] + x[5] + x[6]
        /\ Total(y) = y[1] + y[2] + y[3] + y[4] + y[5] + y[6]
    BY <1>1, ShortSums
  <2>2. y[1] = x[1] /\ y[2] = x[2] /\ y[3] = x[3] /\ y[4] = 0 /\ y[5] = x[5] /\ y[6] = x[6]
    BY <1>1
  <2>3. x[1] \in Int /\ x[2] \in Int /\ x[3] \in Int /\ x[4] \in Int /\ x[5] \in Int
        /\ x[6] \in Int
    BY <1>1, <1>0
  <2> QED BY ONLY <2>1, <2>2, <2>3
<1>2. ASSUME Len(x) = 7, S = 6 .. 7
      PROVE  Total(x) - Total(y) = x[1] + x[2] + x[3] + x[4] + x[5]
  <2>1. /\ Total(x) = x[1] + x[2] + x[3] + x[4] + x[5] + x[6] + x[7]
        /\ Total(y) = y[1] + y[2] + y[3] + y[4] + y[5] + y[6] + y[7]
    BY <1>2, ShortSums
  <2>2. y[1] = 0 /\ y[2] = 0 /\ y[3] = 0 /\ y[4] = 0 /\ y[5] = 0 /\ y[6] = x[6] /\ y[7] = x[7]
    BY <1>2
  <2>3. x[1] \in Int /\ x[2] \in Int /\ x[3] \in Int /\ x[4] \in Int /\ x[5] \in Int
        /\ x[6] \in Int /\ x[7] \in Int
    BY <1>2, <1>0
  <2> QED BY ONLY <2>1, <2>2, <2>3
<1>3. ASSUME Len(x) = 8, S = 5 .. 7
      PROVE  Total(x) - Total(y) = x[1] + x[2] + x[3] + x[4] + x[8]
  <2>1. /\ Total(x) = x[1] + x[2] + x[3] + x[4] + x[5] + x[6] + x[7] + x[8]
        /\ Total(y) = y[1] + y[2] + y[3] + y[4] + y[5] + y[6] + y[7] + y[8]
    BY <1>3, ShortSums
  <2>2. y[1] = 0 /\ y[2] = 0 /\ y[3] = 0 /\ y[4] = 0 /\ y[5] = x[5] /\ y[6] = x[6]
        /\ y[7] = x[7] /\ y[8] = 0
    BY <1>3
  <2>3. x[1] \in Int /\ x[2] \in Int /\ x[3] \in Int /\ x[4] \in Int /\ x[5] \in Int
        /\ x[6] \in Int /\ x[7] \in Int /\ x[8] \in Int
    BY <1>3, <1>0
  <2> QED BY ONLY <2>1, <2>2, <2>3
<1>4. ASSUME Len(x) = 8, S = 6 .. 8
      PROVE  Total(x) - Total(y) = x[1] + x[2] + x[3] + x[4] + x[5]
  <2>1. /\ Total(x) = x[1] + x[2] + x[3] + x[4] + x[5] + x[6] + x[7] + x[8]
        /\ Total(y) = y[1] + y[2] + y[3] + y[4] + y[5] + y[6] + y[7] + y[8]
    BY <1>4, ShortSums
  <2>2. y[1] = 0 /\ y[2] = 0 /\ y[3] = 0 /\ y[4] = 0 /\ y[5] = 0 /\ y[6] = x[6] /\ y[7] = x[7]
        /\ y[8] = x[8]
    BY <1>4
  <2>3. x[1] \in Int /\ x[2] \in Int /\ x[3] \in Int /\ x[4] \in Int /\ x[5] \in Int
        /\ x[6] \in Int /\ x[7] \in Int /\ x[8] \in Int
    BY <1>4, <1>0
  <2> QED BY ONLY <2>1, <2>2, <2>3
<1>5. ASSUME Len(x) = 12, S = 9 .. 12
      PROVE  Total(x) - Total(y) = x[1] + x[2] + x[3] + x[4] + x[5] + x[6] + x[7] + x[8]
  <2>1. /\ Total(x) = x[1] + x[2] + x[3] + x[4] + x[5] + x[6] + x[7] + x[8] + x[9] + x[10]
                    + x[11] + x[12]
        /\ Total(y) = y[1] + y[2] + y[3] + y[4] + y[5] + y[6] + y[7] + y[8] + y[9] + y[10]
                    + y[11] + y[12]
    BY <1>5, ShortSums
  <2>2. y[1] = 0 /\ y[2] = 0 /\ y[3] = 0 /\ y[4] = 0 /\ y[5] = 0 /\ y[6] = 0 /\ y[7] = 0
        /\ y[8] = 0 /\ y[9] = x[9] /\ y[10] = x[10] /\ y[11] = x[11] /\ y[12] = x[12]
    BY <1>5
  <2>3. x[1] \in Int /\ x[2] \in Int /\ x[3] \in Int /\ x[4] \in Int /\ x[5] \in Int
        /\ x[6] \in Int /\ x[7] \in Int /\ x[8] \in Int /\ x[9] \in Int /\ x[10] \in Int
        /\ x[11] \in Int /\ x[12] \in Int
    BY <1>5, <1>0
  <2> QED BY ONLY <2>1, <2>2, <2>3
<1> QED BY <1>1, <1>2, <1>3, <1>4, <1>5

\* What is not paid from the change is what it is set to leave.
LEMMA CapacityLeft ==
    ASSUME NEW o \in Seq(AnyCell), poolCnt \in 1 .. 2
    PROVE  /\ request.kind = "swap" /\ poolCnt = 1 /\ Len(o) = 7 =>
                capacities(o) - Paid(o)
                  = o[1].capacity + o[2].capacity + o[3].capacity + o[4].capacity
                      + o[5].capacity
           /\ request.kind = "swap" /\ poolCnt = 2 /\ Len(o) = 12 =>
                capacities(o) - Paid(o)
                  = o[1].capacity + o[2].capacity + o[3].capacity + o[4].capacity
                      + o[5].capacity + o[6].capacity + o[7].capacity + o[8].capacity
           /\ request.kind = "add" /\ Len(o) = 8 =>
                capacities(o) - Paid(o)
                  = o[1].capacity + o[2].capacity + o[3].capacity + o[4].capacity
                      + o[8].capacity
           /\ request.kind = "remove" /\ Len(o) = 8 =>
                capacities(o) - Paid(o)
                  = o[1].capacity + o[2].capacity + o[3].capacity + o[4].capacity
                      + o[5].capacity
           /\ request.kind = "create" /\ Len(o) = 6 =>
                capacities(o) - Paid(o) = o[4].capacity
<1>1. PICK x, y, S : x = Caps(o) /\ y = PaidCaps(o) /\ S = PaidFromChange OBVIOUS
<1>2. /\ x \in Seq(Int) /\ Len(x) = Len(o) /\ capacities(o) = Total(x)
      /\ DOMAIN o = 1 .. Len(o) /\ \A i \in 1 .. Len(o) : x[i] = o[i].capacity
  BY <1>1, CapsAre
<1>3. /\ y \in Seq(Int) /\ Len(y) = Len(o) /\ Paid(o) = Total(y)
      /\ \A i \in 1 .. Len(o) : y[i] = IF i \in S THEN x[i] ELSE 0
  BY <1>1, <1>2, PaidAre
<1>4. Len(y) = Len(x) /\ \A i \in 1 .. Len(x) : y[i] = IF i \in S THEN x[i] ELSE 0
  BY <1>2, <1>3
<1>5. ASSUME request.kind = "swap", poolCnt = 1, Len(o) = 7
      PROVE  capacities(o) - Paid(o) = o[1].capacity + o[2].capacity + o[3].capacity
               + o[4].capacity + o[5].capacity
  <2>1. S = 6 .. 7 BY <1>1, <1>5 DEF PaidFromChange
  <2>2. Total(x) - Total(y) = x[1] + x[2] + x[3] + x[4] + x[5]
    BY <1>2, <1>3, <1>4, <1>5, <2>1, RestOfSum
  <2> QED BY <1>2, <1>3, <1>5, <2>2
<1>6. ASSUME request.kind = "swap", poolCnt = 2, Len(o) = 12
      PROVE  capacities(o) - Paid(o) = o[1].capacity + o[2].capacity + o[3].capacity
               + o[4].capacity + o[5].capacity + o[6].capacity + o[7].capacity
               + o[8].capacity
  <2>1. S = 9 .. 12 BY <1>1, <1>6 DEF PaidFromChange
  <2>2. Total(x) - Total(y) = x[1] + x[2] + x[3] + x[4] + x[5] + x[6] + x[7] + x[8]
    BY <1>2, <1>3, <1>4, <1>6, <2>1, RestOfSum
  <2> QED BY <1>2, <1>3, <1>6, <2>2
<1>7. ASSUME request.kind = "add", Len(o) = 8
      PROVE  capacities(o) - Paid(o) = o[1].capacity + o[2].capacity + o[3].capacity
               + o[4].capacity + o[8].capacity
  <2>1. S = 5 .. 7 BY <1>1, <1>7 DEF PaidFromChange
  <2>2. Total(x) - Total(y) = x[1] + x[2] + x[3] + x[4] + x[8]
    BY <1>2, <1>3, <1>4, <1>7, <2>1, RestOfSum
  <2> QED BY <1>2, <1>3, <1>7, <2>2
<1>8. ASSUME request.kind = "remove", Len(o) = 8
      PROVE  capacities(o) - Paid(o) = o[1].capacity + o[2].capacity + o[3].capacity
               + o[4].capacity + o[5].capacity
  <2>1. S = 6 .. 8 BY <1>1, <1>8 DEF PaidFromChange
  <2>2. Total(x) - Total(y) = x[1] + x[2] + x[3] + x[4] + x[5]
    BY <1>2, <1>3, <1>4, <1>8, <2>1, RestOfSum
  <2> QED BY <1>2, <1>3, <1>8, <2>2
<1>9. ASSUME request.kind = "create", Len(o) = 6
      PROVE  capacities(o) - Paid(o) = o[4].capacity
  <2>1. S = {1, 2, 3, 5, 6} BY <1>1, <1>9 DEF PaidFromChange
  <2>2. Total(x) - Total(y) = x[4]
    BY <1>2, <1>3, <1>4, <1>9, <2>1, RestOfSum
  <2> QED BY <1>2, <1>3, <1>9, <2>2
<1> QED BY <1>5, <1>6, <1>7, <1>8, <1>9

\* The pools' cells are where the change is computed from.
LEMMA LaidPools ==
    ASSUME Wallet, NEW o, Laid(o), request.kind # "create"
    PROVE  \A j \in 1 .. poolCnt, k \in 1 .. 2 :
              o[(poolCnt - j) * 3 + 1 + k].capacity = NewCapacity(j, k)
<1>1. poolCnt \in 1 .. 2 /\ (request.kind # "swap" => poolCnt = 1) BY RequestFacts
<1>2. /\ poolCnt = 1 => o[2].capacity = NewCapacity(1, 1) /\ o[3].capacity = NewCapacity(1, 2)
      /\ poolCnt = 2 => /\ o[2].capacity = NewCapacity(2, 1) /\ o[3].capacity = NewCapacity(2, 2)
                        /\ o[5].capacity = NewCapacity(1, 1) /\ o[6].capacity = NewCapacity(1, 2)
  BY <1>1, RequestFacts DEF Laid
<1> SUFFICES ASSUME NEW j \in 1 .. poolCnt, NEW k \in 1 .. 2
             PROVE  o[(poolCnt - j) * 3 + 1 + k].capacity = NewCapacity(j, k)
  OBVIOUS
<1>3. CASE poolCnt = 1
  <2>1. j = 1 /\ (poolCnt - j) * 3 + 1 + k = 1 + k BY <1>3
  <2> QED BY <1>2, <1>3, <2>1
<1>4. CASE poolCnt = 2
  <2>1. \/ j = 1 /\ k = 1 /\ (poolCnt - j) * 3 + 1 + k = 5
        \/ j = 1 /\ k = 2 /\ (poolCnt - j) * 3 + 1 + k = 6
        \/ j = 2 /\ k = 1 /\ (poolCnt - j) * 3 + 1 + k = 2
        \/ j = 2 /\ k = 2 /\ (poolCnt - j) * 3 + 1 + k = 3
    BY <1>4
  <2> QED BY <1>2, <1>4, <2>1
<1> QED BY <1>1, <1>3, <1>4

\* What the wallet computes from the CKB of the pools is what all the pools'
\* cells hold less.
LEMMA Changed ==
    ASSUME Wallet, NEW o, Laid(o), request.kind # "create"
    PROVE  /\ poolCnt = 1 => ckbChanged(o) = PoolHeld(1) - PoolHolds(1)
           /\ poolCnt = 2 => ckbChanged(o) = (PoolHeld(1) - PoolHolds(1))
                                               + (PoolHeld(2) - PoolHolds(2))
<1> DEFINE g == [s \in Slots |->
                   IF Pair(legs[s[1]].pool)[s[2]] # CKB THEN 0
                   ELSE legs[s[1]].pool.data[s[2]]
                          - o[(poolCnt - s[1]) * 3 + 1 + s[2]].capacity]
<1>1. ckbChanged(o) = SumOver(g) BY DEF ckbChanged
<1>2. RequestKnown(request) /\ poolCnt \in 1 .. 2 BY RequestFacts
<1>3. \A j \in 1 .. poolCnt, k \in 1 .. 2 :
         g[<<j, k>>] = PoolCapacity(j, k) - NewCapacity(j, k)
  <2> SUFFICES ASSUME NEW j \in 1 .. poolCnt, NEW k \in 1 .. 2
               PROVE  g[<<j, k>>] = PoolCapacity(j, k) - NewCapacity(j, k)
    OBVIOUS
  <2> DEFINE t == Pair(legs[j].pool)[k]
  <2>1. <<j, k>> \in Slots /\ <<j, k>>[1] = j /\ <<j, k>>[2] = k BY DEF Slots
  <2>2. g[<<j, k>>] = IF t # CKB THEN 0
                      ELSE legs[j].pool.data[k] - o[(poolCnt - j) * 3 + 1 + k].capacity
    BY <2>1
  <2>3. o[(poolCnt - j) * 3 + 1 + k].capacity = NewCapacity(j, k) BY LaidPools
  <2>4. udtLockCKB \in Nat BY TxBuilderAssumption
  <2>5. CASE t # CKB
    <3>1. PoolCapacity(j, k) = udtLockCKB /\ NewCapacity(j, k) = udtLockCKB
      BY <2>5 DEF PoolCapacity, NewCapacity, LockCapacity
    <3> QED BY <2>2, <2>4, <2>5, <3>1
  <2>6. CASE t = CKB
    <3>1. PoolCapacity(j, k) = legs[j].pool.data[k]
      BY <2>6 DEF PoolCapacity, LockCapacity
    <3> QED BY <2>2, <2>3, <2>6, <3>1
  <2> QED BY <2>5, <2>6
<1>4. \A j \in 1 .. poolCnt :
         /\ PoolCapacity(j, 1) \in Int /\ PoolCapacity(j, 2) \in Int
         /\ NewCapacity(j, 1) \in Int /\ NewCapacity(j, 2) \in Int
  BY PoolTotals
<1>5. poolCellCKB \in Int BY TxBuilderAssumption
<1>6. \A s \in Slots : g[s] \in Int
  <2> SUFFICES ASSUME NEW s \in Slots PROVE g[s] \in Int OBVIOUS
  <2>1. s = <<s[1], s[2]>> /\ s[1] \in 1 .. poolCnt /\ s[2] \in 1 .. 2 BY <1>2, SlotFacts
  <2>2. g[<<s[1], s[2]>>] = PoolCapacity(s[1], s[2]) - NewCapacity(s[1], s[2]) BY <1>3, <2>1
  <2>3. PoolCapacity(s[1], s[2]) \in Int /\ NewCapacity(s[1], s[2]) \in Int BY <1>4, <2>1
  <2> HIDE DEF g
  <2> QED BY <2>1, <2>2, <2>3
<1> HIDE DEF g
<1>7. /\ poolCnt = 1 => SumOver(g) = g[<<1, 1>>] + g[<<1, 2>>]
      /\ poolCnt = 2 => SumOver(g) = g[<<1, 1>>] + g[<<1, 2>>] + g[<<2, 1>>] + g[<<2, 2>>]
  BY <1>2, <1>6, SumOfSlots
<1>8. \A j \in 1 .. poolCnt :
         /\ g[<<j, 1>>] + g[<<j, 2>>] = PoolHeld(j) - PoolHolds(j)
         /\ g[<<j, 1>>] \in Int /\ g[<<j, 2>>] \in Int
         /\ PoolHeld(j) - PoolHolds(j) \in Int
  <2> SUFFICES ASSUME NEW j \in 1 .. poolCnt
               PROVE  /\ g[<<j, 1>>] + g[<<j, 2>>] = PoolHeld(j) - PoolHolds(j)
                      /\ g[<<j, 1>>] \in Int /\ g[<<j, 2>>] \in Int
                      /\ PoolHeld(j) - PoolHolds(j) \in Int
    OBVIOUS
  <2>1. /\ g[<<j, 1>>] = PoolCapacity(j, 1) - NewCapacity(j, 1)
        /\ g[<<j, 2>>] = PoolCapacity(j, 2) - NewCapacity(j, 2)
    BY <1>3
  <2>2. /\ PoolCapacity(j, 1) \in Int /\ PoolCapacity(j, 2) \in Int
        /\ NewCapacity(j, 1) \in Int /\ NewCapacity(j, 2) \in Int
    BY <1>4
  <2>3. /\ PoolHeld(j) = poolCellCKB + PoolCapacity(j, 1) + PoolCapacity(j, 2)
        /\ PoolHolds(j) = poolCellCKB + NewCapacity(j, 1) + NewCapacity(j, 2)
    BY DEF PoolHeld, PoolHolds
  <2> QED BY <1>5, <2>1, <2>2, <2>3
<1>10. CASE poolCnt = 1 BY <1>1, <1>7, <1>8, <1>10
<1>11. CASE poolCnt = 2 BY <1>1, <1>7, <1>8, <1>11
<1> QED BY <1>2, <1>10, <1>11

\* Cells of which one gets another capacity.
LEMMA CapacityGiven ==
    ASSUME NEW o \in Seq(Fit), NEW i \in DOMAIN o, NEW d \in Int, NEW u,
           u = [o EXCEPT ![i].capacity = d]
    PROVE  u \in Seq(Fit) /\ capacities(u) = capacities(o) + d - o[i].capacity
<1>1. o \in Seq(AnyCell) /\ Fit \subseteq AnyCell BY FitSeqs
<1>2. /\ Caps(o) \in Seq(Int) /\ Len(Caps(o)) = Len(o) /\ DOMAIN Caps(o) = DOMAIN o
      /\ \A k \in DOMAIN o : Caps(o)[k] = o[k].capacity
      /\ capacities(o) = Total(Caps(o))
  BY <1>1, CapsAre
<1>3. \A k \in DOMAIN o : o[k] \in Fit OBVIOUS
<1>4. [o[i] EXCEPT !.capacity = d] \in Fit /\ [o[i] EXCEPT !.capacity = d].capacity = d
  <2>1. o[i] \in AnyCell /\ o[i].type.code \in Needed BY <1>3 DEF Fit
  <2>2. /\ [o[i] EXCEPT !.capacity = d] \in AnyCell
        /\ [o[i] EXCEPT !.capacity = d].type = o[i].type
        /\ [o[i] EXCEPT !.capacity = d].capacity = d
    BY <2>1 DEF AnyCell
  <2> QED BY <2>1, <2>2 DEF Fit
<1>5. /\ DOMAIN u = DOMAIN o /\ u[i] = [o[i] EXCEPT !.capacity = d]
      /\ \A k \in DOMAIN o : k # i => u[k] = o[k]
  OBVIOUS
<1>6. DOMAIN o = 1 .. Len(o) /\ Len(o) \in Nat OBVIOUS
<1>7. u \in [1 .. Len(o) -> Fit]
  <2>1. \A k \in DOMAIN o : u[k] \in Fit BY <1>3, <1>4, <1>5
  <2>2. u = [k \in 1 .. Len(o) |-> u[k]] BY <1>6
  <2> QED BY <1>6, <2>1, <2>2
<1>8. u \in Seq(Fit) /\ Len(u) = Len(o) BY <1>6, <1>7, Numbers
<1>9. u \in Seq(AnyCell) BY <1>8, FitSeqs
<1>10. /\ Caps(u) \in Seq(Int) /\ Len(Caps(u)) = Len(u)
       /\ \A k \in DOMAIN u : Caps(u)[k] = u[k].capacity
       /\ capacities(u) = Total(Caps(u))
  BY <1>9, CapsAre
<1>11. /\ \A k \in DOMAIN Caps(o) : k # i => Caps(u)[k] = Caps(o)[k]
       /\ Caps(u)[i] = d /\ Caps(o)[i] = o[i].capacity
  BY <1>2, <1>4, <1>5, <1>10
<1>12. Total(Caps(u)) = Total(Caps(o)) + Caps(u)[i] - Caps(o)[i]
  <2>1. PICK x, y : x = Caps(o) /\ y = Caps(u) OBVIOUS
  <2>2. x \in Seq(Int) /\ y \in Seq(Int) /\ i \in DOMAIN x BY <1>2, <1>10, <2>1
  <2>3. Len(y) = Len(x) BY <1>2, <1>8, <1>10, <2>1
  <2>4. \A k \in DOMAIN x : k # i => y[k] = x[k] BY <1>11, <2>1
  <2>5. Total(y) = Total(x) + y[i] - x[i] BY ONLY <2>2, <2>3, <2>4, TotalOfChanged
  <2> QED BY <2>1, <2>5
<1> QED BY <1>2, <1>8, <1>10, <1>11, <1>12

\* What the change cell gets besides: all that is left over.
Given(o) ==
    (IF request.kind = "create" THEN STATE_USE_FEE ELSE 0)
      + txFeeMax - TxFee + ckbChanged(o) - Paid(o)

\* Setting the change changes the capacity by what it is given.
LEMMA WithChangeIs ==
    ASSUME Wallet, NEW o, Laid(o)
    PROVE  /\ WithChange(o) \in Seq(Fit)
           /\ Given(o) \in Int
           /\ capacities(WithChange(o)) = capacities(o) + Given(o)
<1>1. o \in Seq(Fit) /\ o \in Seq(AnyCell) BY FitSeqs DEF Laid
<1>2. DOMAIN o = 1 .. Len(o) /\ \A k \in DOMAIN o : o[k].capacity \in Int BY <1>1, CapsAre
<1>3. ChangeIndex \in DOMAIN o
  <2>1. \/ request.kind = "swap" /\ poolCnt = 1 /\ ChangeIndex = 5 /\ Len(o) = 7
        \/ request.kind = "swap" /\ poolCnt = 2 /\ ChangeIndex = 8 /\ Len(o) = 12
        \/ request.kind = "add" /\ ChangeIndex = 8 /\ Len(o) = 8
        \/ request.kind = "remove" /\ ChangeIndex = 5 /\ Len(o) = 8
        \/ request.kind = "create" /\ ChangeIndex = 4 /\ Len(o) = 6
    BY RequestFacts DEF ChangeIndex, Laid
  <2> QED BY <1>2, <2>1
<1>4. /\ STATE_USE_FEE \in Int /\ txFeeMax \in Int /\ TxFee \in Int /\ Paid(o) \in Int
  BY <1>1, PaidAre, TxBuilderAssumption, TypeScriptAssumption
<1>5. ckbChanged(o) \in Int
  <2>1. CASE request.kind = "create" BY <2>1 DEF ckbChanged
  <2>2. CASE request.kind # "create"
    <3>1. poolCnt \in 1 .. 2 BY RequestFacts
    <3>2. \A j \in 1 .. poolCnt : PoolHeld(j) \in Int /\ PoolHolds(j) \in Int BY PoolTotals
    <3>3. CASE poolCnt = 1 BY <2>2, <3>2, <3>3, Changed
    <3>4. CASE poolCnt = 2 BY <2>2, <3>2, <3>4, Changed
    <3> QED BY <3>1, <3>3, <3>4
  <2> QED BY <2>1, <2>2
<1>6. Given(o) \in Int BY <1>4, <1>5 DEF Given
<1> DEFINE d == o[ChangeIndex].capacity
               + (IF request.kind = "create" THEN STATE_USE_FEE ELSE 0)
               + txFeeMax - TxFee + ckbChanged(o) - Paid(o)
<1>7. d = o[ChangeIndex].capacity + Given(o) /\ d \in Int
  BY <1>2, <1>3, <1>4, <1>5 DEF Given
<1>8. WithChange(o) = [o EXCEPT ![ChangeIndex].capacity = d] BY DEF WithChange
<1> HIDE DEF d
<1>9. /\ WithChange(o) \in Seq(Fit)
      /\ capacities(WithChange(o)) = capacities(o) + d - o[ChangeIndex].capacity
  <2>1. PICK i, u : i = ChangeIndex /\ u = WithChange(o) OBVIOUS
  <2>2. i \in DOMAIN o /\ d \in Int BY <1>3, <1>7, <2>1
  <2>3. u = [o EXCEPT ![i].capacity = d] BY <1>8, <2>1
  <2>4. u \in Seq(Fit) /\ capacities(u) = capacities(o) + d - o[i].capacity
    BY <1>1, <2>2, <2>3, CapacityGiven
  <2> QED BY <2>1, <2>4
<1>10. capacities(o) \in Int BY <1>1, CapsAre
<1> QED BY <1>2, <1>3, <1>6, <1>7, <1>9, <1>10

\* The transaction has in its outputs what it has in its inputs, but the fee.
LEMMA Balanced ==
    ASSUME Gathered, raw.first \in Nat
    PROVE  capacities(AllInputs(poolCnt))
             = capacities(WithChange(WithoutFeeCell(AllOutputs(poolCnt)))) + TxFee
<1>0. Wallet BY DEF Gathered
<1>1. PICK o : o = WithoutFeeCell(AllOutputs(poolCnt)) OBVIOUS
<1>2. Laid(o) BY <1>0, <1>1, OutputsLaid
<1>3. o \in Seq(AnyCell) BY <1>2, FitSeqs DEF Laid
<1>4. /\ capacities(WithChange(o)) = capacities(o) + Given(o) /\ Given(o) \in Int
      /\ capacities(o) \in Int /\ Paid(o) \in Int
  BY <1>0, <1>2, <1>3, WithChangeIs, CapsAre, PaidAre
<1>5. /\ request.kind \in {"swap", "add", "remove", "create"}
      /\ poolCnt \in 1 .. 2 /\ (request.kind # "swap" => poolCnt = 1)
  BY <1>0, RequestFacts
<1>6. /\ fee \in Int /\ poolCellCKB \in Int /\ txFeeMax \in Int /\ TxFee \in Int
      /\ STATE_USE_FEE \in Int /\ currentCKBAmount \in Int
  BY <1>0, BaseOutputsAre, NumberFacts, TxBuilderAssumption, TypeScriptAssumption DEF fee
<1>7. \A j \in 1 .. poolCnt :
         /\ NewCapacity(j, 1) \in Int /\ NewCapacity(j, 2) \in Int
         /\ PoolHeld(j) \in Int /\ PoolHolds(j) \in Int
         /\ PoolHolds(j) = poolCellCKB + NewCapacity(j, 1) + NewCapacity(j, 2)
  BY <1>0, PoolTotals DEF PoolHolds
<1> DEFINE left == capacities(o) - Paid(o)
           cur == currentCKBAmount
<1>8. \A p, f, c, m, a, b \in Int :
         /\ p + a + b + f + (c - f - m) = p + a + b + c - m
         /\ \A q, g, h \in Int : p + a + b + q + g + h + f + (c - f - m)
                                   = (p + a + b) + (q + g + h) + c - m
  OBVIOUS
<1>9. rest = cur - fee - txFeeMax BY DEF rest
<1>10. request.kind # "create" /\ poolCnt = 1 => left = PoolHolds(1) + cur - txFeeMax
  <2> SUFFICES ASSUME request.kind # "create", poolCnt = 1
               PROVE  left = PoolHolds(1) + cur - txFeeMax
    OBVIOUS
  <2>1. left = poolCellCKB + NewCapacity(1, 1) + NewCapacity(1, 2) + fee + rest
    <3>1. CASE request.kind = "swap" BY <1>2, <1>3, <3>1, CapacityLeft DEF Laid
    <3>2. CASE request.kind = "add" BY <1>2, <1>3, <1>5, <3>2, CapacityLeft DEF Laid
    <3>3. CASE request.kind = "remove" BY <1>2, <1>3, <1>5, <3>3, CapacityLeft DEF Laid
    <3> QED BY <1>5, <3>1, <3>2, <3>3
  <2>2. /\ NewCapacity(1, 1) \in Int /\ NewCapacity(1, 2) \in Int
        /\ PoolHolds(1) = poolCellCKB + NewCapacity(1, 1) + NewCapacity(1, 2)
    BY <1>7
  <2> HIDE DEF left
  <2> QED BY <1>6, <1>8, <1>9, <2>1, <2>2
<1>11. request.kind # "create" /\ poolCnt = 2 =>
          left = PoolHolds(2) + PoolHolds(1) + cur - txFeeMax
  <2> SUFFICES ASSUME request.kind # "create", poolCnt = 2
               PROVE  left = PoolHolds(2) + PoolHolds(1) + cur - txFeeMax
    OBVIOUS
  <2>1. left = poolCellCKB + NewCapacity(2, 1) + NewCapacity(2, 2)
                 + poolCellCKB + NewCapacity(1, 1) + NewCapacity(1, 2) + fee + rest
    BY <1>2, <1>3, <1>5, CapacityLeft DEF Laid
  <2>2. /\ NewCapacity(1, 1) \in Int /\ NewCapacity(1, 2) \in Int
        /\ NewCapacity(2, 1) \in Int /\ NewCapacity(2, 2) \in Int
        /\ PoolHolds(1) = poolCellCKB + NewCapacity(1, 1) + NewCapacity(1, 2)
        /\ PoolHolds(2) = poolCellCKB + NewCapacity(2, 1) + NewCapacity(2, 2)
    BY <1>7
  <2> HIDE DEF left
  <2> QED BY <1>6, <1>8, <1>9, <2>1, <2>2
<1>12. request.kind = "create" => left = cur - fee - txFeeMax /\ fee = STATE_USE_FEE
  <2>1. request.kind = "create" => left = rest BY <1>2, <1>3, <1>5, CapacityLeft DEF Laid
  <2>2. request.kind = "create" => fee = STATE_USE_FEE BY <1>5, <1>6 DEF fee
  <2> QED BY <1>9, <2>1, <2>2
<1>13. Given(o) = (IF request.kind = "create" THEN STATE_USE_FEE ELSE 0)
                    + txFeeMax - TxFee + ckbChanged(o) - Paid(o)
  BY DEF Given
<1>14. /\ request.kind = "create" => ckbChanged(o) = 0
       /\ request.kind # "create" /\ poolCnt = 1 => ckbChanged(o) = PoolHeld(1) - PoolHolds(1)
       /\ request.kind # "create" /\ poolCnt = 2 =>
            ckbChanged(o) = (PoolHeld(1) - PoolHolds(1)) + (PoolHeld(2) - PoolHolds(2))
  BY <1>0, <1>2, Changed DEF ckbChanged
<1>15. /\ request.kind = "create" => capacities(AllInputs(poolCnt)) = cur
       /\ request.kind # "create" /\ poolCnt = 1 =>
            capacities(AllInputs(poolCnt)) = PoolHeld(1) + cur
       /\ request.kind # "create" /\ poolCnt = 2 =>
            capacities(AllInputs(poolCnt)) = PoolHeld(2) + (PoolHeld(1) + cur)
  BY InputsLaid
<1>16. left = capacities(o) - Paid(o) OBVIOUS
<1>17. cur \in Int BY <1>6
<1> HIDE DEF left, cur
<1>18. capacities(AllInputs(poolCnt)) = capacities(WithChange(o)) + TxFee
  <2>1. CASE request.kind = "create" BY <1>4, <1>6, <1>12, <1>13, <1>14, <1>15, <1>16, <1>17, <2>1
  <2>2. CASE request.kind # "create" /\ poolCnt = 1
    <3>1. PoolHeld(1) \in Int /\ PoolHolds(1) \in Int BY <1>7, <2>2
    <3> QED BY <1>4, <1>6, <1>10, <1>13, <1>14, <1>15, <1>16, <1>17, <2>2, <3>1
  <2>3. CASE request.kind # "create" /\ poolCnt = 2
    <3>1. /\ PoolHeld(1) \in Int /\ PoolHolds(1) \in Int
          /\ PoolHeld(2) \in Int /\ PoolHolds(2) \in Int
      BY <1>7, <2>3
    <3> QED BY <1>4, <1>6, <1>11, <1>13, <1>14, <1>15, <1>16, <1>17, <2>3, <3>1
  <2> QED BY <1>5, <2>1, <2>2, <2>3
<1> QED BY <1>1, <1>18

-----------------------------------------------------------------------------
(* The transactions that are sent. *)

\* The code that setDeps() names for the first n pools.
AllDeps(n) == UNION {DepsOf(j) : j \in 1 .. n}

\* A step that keeps the request and the wallet's cells keeps what will be built of
\* them.
LEMMA SameCells ==
    ASSUME request' = request, ret' = ret
    PROVE  /\ legs' = legs /\ poolCnt' = poolCnt /\ Slots' = Slots /\ Needed' = Needed
           /\ BaseInputs' = BaseInputs /\ BaseOutputs' = BaseOutputs
           /\ PlainIndex' = PlainIndex
           /\ \A j \in 1 .. 2 : PoolInputs(j)' = PoolInputs(j) /\ DepsOf(j)' = DepsOf(j)
           /\ LiquidityResult' = LiquidityResult
<1>1. legs' = legs /\ poolCnt' = poolCnt /\ Slots' = Slots BY DEF legs, poolCnt, Slots
<1>2. Needed' = Needed BY <1>1 DEF Needed, TokenOf
<1>3. PlainIndex' = PlainIndex BY DEF PlainIndex, SelectInSeq
<1>4. BaseInputs' = BaseInputs BY <1>3 DEF BaseInputs
<1>5. BaseOutputs' = BaseOutputs BY <1>1 DEF BaseOutputs, currentCKBAmount
<1>6. \A j \in 1 .. 2 : PoolInputs(j)' = PoolInputs(j) BY <1>1 DEF PoolInputs
<1>7. \A j \in 1 .. 2 : DepsOf(j)' = DepsOf(j) BY <1>1 DEF DepsOf, TokenOf
<1>8. LiquidityResult' = LiquidityResult
  BY <1>1 DEF LiquidityResult, liquidityUDT, Held
<1> QED BY <1>1, <1>2, <1>3, <1>4, <1>5, <1>6, <1>7, <1>8

\* The same for what the pools pay out.
LEMMA SameResults ==
    ASSUME request' = request, ret' = ret
    PROVE  \A j \in 1 .. 2 : Results(j)' = Results(j)
<1>1. legs' = legs /\ poolCnt' = poolCnt /\ Slots' = Slots BY SameCells
<1> SUFFICES ASSUME NEW j \in 1 .. 2 PROVE Results(j)' = Results(j) OBVIOUS
<1> QED
  BY <1>1 DEF Results, SlotOf, TokenOf, FromWallet, Actual, udtInput, Wants, Before, Held,
     ReservedFor, Reserved, SumOver

\* The same for the outputs of the pools.
LEMMA SamePools ==
    ASSUME request' = request, ret' = ret, raw'.first = raw.first
    PROVE  \A j \in 1 .. 2 : PoolOutputs(j)' = PoolOutputs(j)
<1>1. legs' = legs /\ poolCnt' = poolCnt /\ Slots' = Slots BY SameCells
<1> SUFFICES ASSUME NEW j \in 1 .. 2 PROVE PoolOutputs(j)' = PoolOutputs(j) OBVIOUS
<1> QED
  BY <1>1 DEF PoolOutputs, ReserveAfter, LiquidityAfter, SlotOf, TokenOf, FromWallet, Actual

\* The same for all that has been built.
LEMMA SameBuild ==
    ASSUME request' = request, ret' = ret, raw'.first = raw.first
    PROVE  \A n \in 0 .. 2 : AllInputs(n)' = AllInputs(n) /\ AllOutputs(n)' = AllOutputs(n)
<1> SUFFICES ASSUME NEW n \in 0 .. 2
             PROVE  AllInputs(n)' = AllInputs(n) /\ AllOutputs(n)' = AllOutputs(n)
  OBVIOUS
<1>1. AllInputs(n)' = AllInputs(n) BY SameCells DEF AllInputs
<1>2. AllOutputs(n)' = AllOutputs(n)
  BY SameCells, SameResults, SamePools DEF AllOutputs, WithPool, Arranged
<1> QED BY <1>1, <1>2

\* What has been built of the first pools, and what has been sent.
Building ==
    /\ done \in 0 .. poolCnt
    /\ raw = [inputs |-> AllInputs(done), outputs |-> AllOutputs(done),
              first |-> IF request.kind = "create" THEN PlainIndex ELSE 0,
              deps |-> AllDeps(done), signed |-> 0]

BuilderInv ==
    /\ Wallet
    /\ pc = "collect" => done = 0
    /\ pc = "generate" => done = 0 /\ ret # <<>>
    /\ pc = "pools" => Gathered /\ Building
    /\ CapacityBalanced /\ NodeCanRun

\* What a new pool is named by is a place among the inputs.
LEMMA FirstNat ==
    ASSUME Wallet, Building
    PROVE  raw.first \in Nat
<1>1. PlainIndex \in Nat BY PlainIsFirst
<1> QED BY <1>1 DEF Building

\* The deps name all the code that is needed.
LEMMA DepsSuffice ==
    ASSUME Wallet
    PROVE  Needed \subseteq AllDeps(poolCnt) \union {"none", "user"}
<1>1. poolCnt \in 1 .. 2 /\ RequestKnown(request) BY RequestFacts
<1>2. DepsOf(1) \subseteq AllDeps(poolCnt) BY <1>1 DEF AllDeps
<1>3. "udtswap" \in DepsOf(1) /\ "udtswap_lock" \in DepsOf(1)
      /\ (request.kind \in {"add", "remove"} => "liquidity" \in DepsOf(1))
  BY DEF DepsOf
<1>4. \A s \in Slots : TokenOf(s) # CKB => "udt" \in AllDeps(poolCnt)
  <2> SUFFICES ASSUME NEW s \in Slots, TokenOf(s) # CKB PROVE "udt" \in AllDeps(poolCnt)
    OBVIOUS
  <2>1. s = <<s[1], s[2]>> /\ s[1] \in 1 .. poolCnt /\ s[2] \in 1 .. 2 BY <1>1, SlotFacts
  <2>2. TokenOf(<<s[1], s[2]>>) # CKB BY <2>1
  <2>3. "udt" \in DepsOf(s[1]) BY <2>1, <2>2 DEF DepsOf
  <2> QED BY <2>1, <2>3 DEF AllDeps
<1> QED BY <1>2, <1>3, <1>4 DEF Needed

\* Nothing has been built at the beginning.
LEMMA BuilderInvStart == BuilderInit => BuilderInv
BY WalletStart DEF BuilderInit, BuilderInv, CapacityBalanced, NodeCanRun

\* A wallet that has enough has a cell, and keeps it.
LEMMA EndCollectStep ==
    ASSUME Wallet, EndCollect
    PROVE  ret' # <<>>
<1>1. ret # <<>>
  <2>1. currentCKBAmount > ckbActual /\ ckbActual \in Nat
    BY TxBuilderAssumption DEF EndCollect, Sufficient
  <2>2. ret = <<>> => currentCKBAmount = 0
    BY CapacityFacts, TakenFromWallet DEF currentCKBAmount
  <2> QED BY <2>1, <2>2
<1>2. 1 \in DOMAIN ret BY <1>1 DEF Wallet
<1>3. DOMAIN ret' = DOMAIN ret
  BY DEF EndCollect, Exchange
<1> QED BY <1>2, <1>3

\* The wallet's cells, the fee cell and the change.
LEMMA GenerateStep ==
    ASSUME Wallet, ret # <<>>, done = 0, GenerateRawTx
    PROVE  Gathered' /\ Building'
<1>1. request' = request /\ ret' = ret /\ done' = done BY DEF GenerateRawTx
<1>2. /\ poolCnt' = poolCnt /\ PlainIndex' = PlainIndex /\ TakenCells' = TakenCells
      /\ BaseInputs' = BaseInputs /\ BaseOutputs' = BaseOutputs
  BY <1>1, SameCells, SameRequest
<1>3. Gathered' BY <1>1, <1>2 DEF Gathered, Wallet, GenerateRawTx
<1>4. raw' = [inputs |-> BaseInputs, outputs |-> BaseOutputs,
              first |-> IF request.kind = "create" THEN PlainIndex ELSE 0,
              deps |-> {}, signed |-> 0]
  BY DEF GenerateRawTx, NoTx, BaseInputs, BaseOutputs
<1>5. PICK n \in {0} : n = done OBVIOUS
<1>6. AllInputs(n)' = BaseInputs /\ AllOutputs(n)' = BaseOutputs /\ AllDeps(n)' = {}
  BY <1>2, <1>5 DEF AllInputs, AllOutputs, AllDeps
<1>7. /\ done' = n /\ n \in 0 .. poolCnt'
      /\ raw' = [inputs |-> AllInputs(n)', outputs |-> AllOutputs(n)',
                 first |-> IF request'.kind = "create" THEN PlainIndex' ELSE 0,
                 deps |-> AllDeps(n)', signed |-> 0]
  <2>1. poolCnt \in 1 .. 2 BY RequestFacts
  <2>2. done' = n /\ n \in 0 .. poolCnt' BY <1>1, <1>2, <1>5, <2>1
  <2>3. request'.kind = request.kind /\ PlainIndex' = PlainIndex BY <1>1, <1>2
  <2> QED BY <1>4, <1>6, <2>2, <2>3
<1>8. Building' BY <1>7 DEF Building
<1> QED BY <1>3, <1>8

\* One more pool in front of what has been built.
LEMMA AddPoolStep ==
    ASSUME Gathered, Building, AddPool
    PROVE  Gathered' /\ Building'
<1>0. Wallet BY DEF Gathered
<1>1. request' = request /\ ret' = ret /\ raw'.first = raw.first /\ done' = done + 1
  BY DEF AddPool, Building
<1>2. /\ poolCnt' = poolCnt /\ PlainIndex' = PlainIndex
      /\ \A j \in 1 .. 2 : DepsOf(j)' = DepsOf(j)
  BY <1>1, SameCells
<1>3. poolCnt \in 1 .. 2 /\ done \in 0 .. poolCnt - 1 /\ done \in 0 .. 1
  BY <1>0, RequestFacts DEF AddPool, Building
<1>4. Gathered'
  <2>1. TakenCells' = TakenCells BY <1>1, SameRequest
  <2> QED BY <1>1, <1>2, <2>1 DEF Gathered, Wallet
<1>5. /\ PoolInputs(done + 1) \o AllInputs(done) = AllInputs(done + 1)
      /\ WithPool(done + 1, AllOutputs(done)) = AllOutputs(done + 1)
      /\ AllDeps(done) \union DepsOf(done + 1) = AllDeps(done + 1)
  <2>1. CASE done = 0 BY <2>1 DEF AllInputs, AllOutputs, AllDeps
  <2>2. CASE done = 1 BY <2>2 DEF AllInputs, AllOutputs, AllDeps
  <2> QED BY <1>3, <2>1, <2>2
<1>6. raw' = [inputs |-> AllInputs(done + 1), outputs |-> AllOutputs(done + 1),
              first |-> raw.first, deps |-> AllDeps(done + 1), signed |-> 0]
  BY <1>1, <1>5 DEF AddPool, Building, WithPool
<1>7. PICK n \in 1 .. 2 : n = done + 1 BY <1>3
<1>8. AllInputs(n)' = AllInputs(n) /\ AllOutputs(n)' = AllOutputs(n) BY <1>1, SameBuild
<1>9. AllDeps(n)' = AllDeps(n) BY <1>2 DEF AllDeps
<1>10. /\ done' = n /\ n \in 0 .. poolCnt'
       /\ raw' = [inputs |-> AllInputs(n)', outputs |-> AllOutputs(n)',
                  first |-> raw.first, deps |-> AllDeps(n)', signed |-> 0]
       /\ raw.first = IF request'.kind = "create" THEN PlainIndex' ELSE 0
  BY <1>1, <1>2, <1>3, <1>6, <1>7, <1>8, <1>9 DEF Building
<1>11. Building' BY <1>10 DEF Building
<1> QED BY <1>4, <1>11

\* What is sent is balanced, and the node finds all the code and the signature.
LEMMA SendStep ==
    ASSUME Gathered, Building, SetTxFeeAndSign
    PROVE  CapacityBalanced' /\ NodeCanRun'
<1> DEFINE inputs == AllInputs(poolCnt)
           outputs == WithChange(WithoutFeeCell(AllOutputs(poolCnt)))
<1>1. Wallet /\ raw.first \in Nat BY FirstNat DEF Gathered
<1>2. /\ raw'.inputs = inputs /\ raw'.outputs = outputs
      /\ raw'.deps = AllDeps(poolCnt) /\ raw'.signed = SignedAt
  BY DEF SetTxFeeAndSign, Building, SignedAt
<1>3. capacities(inputs) = capacities(outputs) + TxFee BY <1>1, Balanced
<1>4. /\ inputs \in Seq(FitInput) /\ SignedAt \in DOMAIN inputs
      /\ inputs[SignedAt].lock = UserLock
      /\ \A i \in 1 .. SignedAt - 1 : inputs[i].lock # UserLock
  BY InputsLaid
<1>5. outputs \in Seq(Fit)
  <2>1. Laid(WithoutFeeCell(AllOutputs(poolCnt))) BY <1>1, OutputsLaid
  <2> QED BY <1>1, <2>1, WithChangeIs
<1> HIDE DEF inputs, outputs
<1>6. CapacityBalanced' BY <1>2, <1>3 DEF CapacityBalanced
<1>7. \A i \in DOMAIN inputs :
         inputs[i].type.code \in Needed /\ inputs[i].lock.code \in Needed
  <2>1. \A i \in DOMAIN inputs : inputs[i] \in FitInput BY <1>4
  <2> QED BY <2>1 DEF FitInput, Fit
<1>8. \A i \in DOMAIN outputs : outputs[i].type.code \in Needed
  <2>1. \A i \in DOMAIN outputs : outputs[i] \in Fit BY <1>5
  <2> QED BY <2>1 DEF Fit
<1>9. \A s \in TypeScripts(raw') \union LockScripts(raw') : s.code \in Needed
  BY <1>2, <1>7, <1>8 DEF TypeScripts, LockScripts
<1>10. Needed \subseteq raw'.deps \union {"none", "user"} BY <1>1, <1>2, DepsSuffice
<1>11. NodeCanRun' BY <1>2, <1>4, <1>9, <1>10 DEF NodeCanRun
<1> QED BY <1>6, <1>11

\* Each step of the builder.
LEMMA BuilderInvStep == BuilderInv /\ [BuilderNext]_builder_vars => BuilderInv'
<1> SUFFICES ASSUME BuilderInv, [BuilderNext]_builder_vars PROVE BuilderInv'
  OBVIOUS
<1>1. Wallet /\ Wallet' BY WalletStep DEF BuilderInv
<1>2. CASE CollectCell
  BY <1>1, <1>2 DEF BuilderInv, CollectCell, CapacityBalanced, NodeCanRun
<1>3. CASE GiveUp
  BY <1>1, <1>3 DEF BuilderInv, GiveUp, CapacityBalanced, NodeCanRun
<1>4. CASE EndCollect
  <2>1. ret' # <<>> BY <1>1, <1>4, EndCollectStep
  <2> QED BY <1>1, <1>4, <2>1 DEF BuilderInv, EndCollect, CapacityBalanced, NodeCanRun
<1>5. CASE GenerateRawTx
  <2>1. Gathered' /\ Building' BY <1>1, <1>5, GenerateStep DEF BuilderInv, GenerateRawTx
  <2> QED BY <1>1, <1>5, <2>1 DEF BuilderInv, GenerateRawTx, CapacityBalanced, NodeCanRun
<1>6. CASE NoPlainCell
  BY <1>1, <1>6 DEF BuilderInv, NoPlainCell, CapacityBalanced, NodeCanRun
<1>7. CASE AddPool
  <2>1. Gathered' /\ Building' BY <1>7, AddPoolStep DEF BuilderInv, AddPool
  <2>2. pc = "pools" /\ pc' = pc BY <1>7 DEF AddPool
  <2> QED BY <1>1, <2>1, <2>2 DEF BuilderInv, CapacityBalanced, NodeCanRun
<1>8. CASE SetTxFeeAndSign
  <2>1. CapacityBalanced' /\ NodeCanRun'
    BY <1>8, SendStep DEF BuilderInv, SetTxFeeAndSign
  <2>2. pc' = "sent" BY <1>8 DEF SetTxFeeAndSign
  <2> QED BY <1>1, <2>1, <2>2 DEF BuilderInv
<1>9. CASE UNCHANGED builder_vars
  <2>1. request' = request /\ ret' = ret /\ raw' = raw /\ done' = done /\ pc' = pc
    BY <1>9 DEF builder_vars
  <2>2. CapacityBalanced' /\ NodeCanRun'
    BY <2>1 DEF BuilderInv, CapacityBalanced, NodeCanRun
  <2>3. Gathered /\ Building => Gathered' /\ Building'
    <3> SUFFICES ASSUME Gathered, Building PROVE Gathered' /\ Building' OBVIOUS
    <3>1. /\ poolCnt' = poolCnt /\ PlainIndex' = PlainIndex
          /\ \A j \in 1 .. 2 : DepsOf(j)' = DepsOf(j)
      BY <2>1, SameCells
    <3>2. PICK n \in 0 .. 2 : n = done BY <1>1, RequestFacts DEF Building
    <3>3. AllInputs(n)' = AllInputs(n) /\ AllOutputs(n)' = AllOutputs(n) BY <2>1, SameBuild
    <3>4. AllDeps(n)' = AllDeps(n) BY <3>1, <3>2 DEF AllDeps
    <3>5. /\ done' = n /\ n \in 0 .. poolCnt'
          /\ raw' = [inputs |-> AllInputs(n)', outputs |-> AllOutputs(n)',
                     first |-> IF request'.kind = "create" THEN PlainIndex' ELSE 0,
                     deps |-> AllDeps(n)', signed |-> 0]
      BY <2>1, <3>1, <3>2, <3>3, <3>4 DEF Building
    <3>6. Building' BY <3>5 DEF Building
    <3> QED BY <1>1, <2>1, <3>1, <3>6 DEF Gathered
  <2> QED BY <1>1, <2>1, <2>2, <2>3 DEF BuilderInv
<1> QED BY <1>2, <1>3, <1>4, <1>5, <1>6, <1>7, <1>8, <1>9 DEF BuilderNext

\* All capacity of a transaction that is sent is accounted for, whatever pools
\* it goes through and whatever they take or pay in CKB (setTxFeeAndSign).
THEOREM TransactionsBalance == BuilderSpec => []CapacityBalanced
<1>1. BuilderInv => CapacityBalanced BY DEF BuilderInv
<1> QED BY <1>1, BuilderInvStart, BuilderInvStep, PTL DEF BuilderSpec

\* The node finds the code of every script of a transaction that is sent, and
\* the signature where the lock of the wallet looks for it (setDeps,
\* signWitnesses).
THEOREM TransactionsCanRun == BuilderSpec => []NodeCanRun
<1>1. BuilderInv => NodeCanRun BY DEF BuilderInv
<1> QED BY <1>1, BuilderInvStart, BuilderInvStep, PTL DEF BuilderSpec

=============================================================================
