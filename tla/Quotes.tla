------------------------------- MODULE Quotes -------------------------------
(***************************************************************************)
(* The quotes of the test wallet (module QuoteMath) against the rules of   *)
(* the pool: whether the type script accepts what the wallet computed from *)
(* the reserves it has read.                                               *)
(***************************************************************************)
EXTENDS Pool, QuoteMath

Funded == created /\ total_liquidity > 0

\* A swap quoted from the current reserves that pays out anything is accepted
\* by the type script, in either direction: test/utils.js and the on-chain
\* swap() round the same way.
SwapQuoteAccepted ==
    Funded =>
      /\ \A input \in 1 .. Limit1 - 1 - reserve1 :
           LET output == calculateSwapOutputFromInput(Net1, Net2, input)
           IN  output > 0 =>
                 /\ Above(reserve1 + input, reserve2 - output)
                 /\ swap_branch(Net1, Net2, total_liquidity,
                                Net1 + input, Net2 - output, total_liquidity)
      /\ \A input \in 1 .. Limit2 - 1 - reserve2 :
           LET output == calculateSwapOutputFromInput(Net2, Net1, input)
           IN  output > 0 =>
                 /\ Above(reserve1 - output, reserve2 + input)
                 /\ swap_branch(Net1, Net2, total_liquidity,
                                Net1 - output, Net2 + input, total_liquidity)

\* A deposit quoted from the current reserves is accepted whenever it reaches
\* the minimum and buys any liquidity at all.
AddQuoteAccepted ==
    Funded =>
      \A udt1Amount \in AddMinimum .. Limit1 - 1 - reserve1 :
        LET q == calculateAddLiquidityUDT2Amount(Net1, Net2, total_liquidity,
                                                 udt1Amount)
        IN  q.userLiquidity > 0 =>
              add_branch(Net1, Net2, total_liquidity, Net1 + udt1Amount,
                         Net2 + q.udt2Amount, total_liquidity + q.userLiquidity)

\* A holder of less than the whole liquidity can take out what the liquidity
\* is worth, unless one of the two amounts is rounded to nothing.
RemoveQuoteAccepted ==
    Funded =>
      \A userLiquidity \in 1 .. total_liquidity - 1 :
        LET q == calculateRemoveLiquidityAmount(Net1, Net2, total_liquidity,
                                                userLiquidity)
        IN  q.udt1Amount > 0 /\ q.udt2Amount > 0 =>
              /\ Above(reserve1 - q.udt1Amount, reserve2 - q.udt2Amount)
              /\ remove_branch(Net1, Net2, total_liquidity,
                               Net1 - q.udt1Amount, Net2 - q.udt2Amount,
                               total_liquidity - userLiquidity)

\* No accepted swap pays out more than the quote for what it pays in: the
\* second formula of swap(), from the output amount, is never the better deal.
NeverBeatsQuote ==
    [][ /\ created /\ total_liquidity' = total_liquidity
        => /\ Net1' > Net1 => Net2 - Net2'
                <= calculateSwapOutputFromInput(Net1, Net2, Net1' - Net1)
           /\ Net2' > Net2 => Net1 - Net1'
                <= calculateSwapOutputFromInput(Net2, Net1, Net2' - Net2)
      ]_vars

=============================================================================
