------------------------------ MODULE QuoteMath ------------------------------
(***************************************************************************)
(* The off-chain side of the pool arithmetic, test/utils.js: what a wallet *)
(* computes from the reserves it has read, net of the defaults, before it  *)
(* builds a transaction.  BigInt division truncates, and no operand is     *)
(* negative.                                                               *)
(***************************************************************************)
EXTENDS SwapMath

\* The output amount an input amount buys.
calculateSwapOutputFromInput(inputReserve, outputReserve, inputAmount) ==
    LET inputAmountWithFee == inputAmount * ExceptFee
    IN  (inputAmountWithFee * outputReserve)
          \div (inputReserve * Thousand + inputAmountWithFee)

\* The second amount and the liquidity that go with a first amount.
calculateAddLiquidityUDT2Amount(r1, r2, liquidity, udt1Amount) ==
    [udt2Amount |-> (r2 * udt1Amount) \div r1 + 1,
     userLiquidity |-> (liquidity * udt1Amount) \div r1]

\* The two amounts that liquidity is worth.
calculateRemoveLiquidityAmount(r1, r2, liquidity, userLiquidity) ==
    [udt1Amount |-> (userLiquidity * r1) \div liquidity,
     udt2Amount |-> (userLiquidity * r2) \div liquidity]

=============================================================================
