-------------------------------- MODULE Pool --------------------------------
(***************************************************************************)
(* One pool of UDTSwap, at the level of the numbers its cells carry.  A    *)
(* step is a transaction that every script of the pool accepts: the type   *)
(* script of the pool cell (PoolRules) and, where it moves liquidity       *)
(* tokens, their type script.  What the transaction looks like - cells,    *)
(* locks, other pools, the fee - is the business of module Ledger.         *)
(***************************************************************************)
EXTENDS PoolRules

CONSTANTS
    Default1, Default2,  \* what creation locks of the first and second token
    Limit1, Limit2,      \* the widths of the two reserves: 2^64 for CKB, a
                         \* cell's capacity; U128 for a UDT, a cell's data
    LiquidityLimit,      \* bound on the total liquidity the model explores
    LpOutputLimit        \* bound on the liquidity tokens one transaction
                         \* creates; U128 is what the code allows

ASSUME PoolAssumption ==
    /\ Default1 \in Nat /\ Default1 < Limit1
    /\ Default2 \in Nat /\ Default2 < Limit2
    /\ Limit1 \in Nat /\ Limit1 <= U128
    /\ Limit2 \in Nat /\ Limit2 <= U128
    /\ LiquidityLimit \in Nat \ {0} /\ LiquidityLimit <= U128
    /\ LpOutputLimit \in Nat /\ LpOutputLimit <= U128

VARIABLES
    created,          \* the pool cell is live
    reserve1,         \* the three numbers of its data
    reserve2,
    total_liquidity,
    lp_supply         \* the sum over the live cells of its liquidity token

vars == <<created, reserve1, reserve2, total_liquidity, lp_supply>>

Reserve1 == 0 .. Limit1 - 1
Reserve2 == 0 .. Limit2 - 1
Liquidity == 0 .. LiquidityLimit - 1

-----------------------------------------------------------------------------
\* The reserves net of the defaults, as main() passes them to its branches.
Net1 == reserve1 - Default1
Net2 == reserve2 - Default2

Init == /\ created = FALSE
        /\ reserve1 = 0 /\ reserve2 = 0
        /\ total_liquidity = 0
        /\ lp_supply = 0

\* Mutation: a pool starts with a reserve beyond the default.
Create_with_reserve == /\ ~created
                       /\ created' = TRUE
                       /\ reserve1' = Default1 + 1 /\ reserve2' = Default2
                       /\ total_liquidity' = 0
                       /\ UNCHANGED lp_supply

\* create_udtswap_check(): a pool starts with exactly the defaults.
Create == /\ ~created
          /\ created' = TRUE
          /\ reserve1' = Default1 /\ reserve2' = Default2
          /\ total_liquidity' = 0
          /\ UNCHANGED lp_supply

\* Mutation: inputs and outputs changed places.
MoveTokens_reversed(after, input, output) ==
    /\ input < U128
    /\ liquidity_moved(total_liquidity, after, input, output)
    /\ lp_supply' = lp_supply + input - output

\* The liquidity token script, run for a transaction whose first input is
\* this pool.  The inputs are live cells; the outputs are any amount.  A sum
\* that does not fit 128 bits is an OVERFLOW_ERROR.
MoveTokens(after, input, output) ==
    /\ input < U128
    /\ liquidity_moved(total_liquidity, after, input, output)
    /\ lp_supply' = lp_supply - input + output

\* What main() tests of every triple before it looks at the liquidity.
Above(r1, r2) == /\ created
                 /\ above_minimum(reserve1, r1, Default1)
                 /\ above_minimum(reserve2, r2, Default2)

Swap(r1, r2) ==
    /\ Above(r1, r2)
    /\ swap_branch(Net1, Net2, total_liquidity,
                   r1 - Default1, r2 - Default2, total_liquidity)
    /\ reserve1' = r1 /\ reserve2' = r2
    /\ UNCHANGED <<created, total_liquidity, lp_supply>>

\* Output 4 carries the pool's liquidity token, and no token cell is empty:
\* at least one token leaves the transaction.
AddLiquidity(r1, r2, liquidity) ==
    /\ Above(r1, r2)
    /\ add_branch(Net1, Net2, total_liquidity,
                  r1 - Default1, r2 - Default2, liquidity)
    /\ \E input \in 0 .. lp_supply, output \in 1 .. LpOutputLimit - 1 :
          MoveTokens(liquidity, input, output)
    /\ reserve1' = r1 /\ reserve2' = r2
    /\ total_liquidity' = liquidity
    /\ UNCHANGED created

\* Input 3 carries the pool's liquidity token: at least one token enters.
RemoveLiquidity(r1, r2, liquidity) ==
    /\ Above(r1, r2)
    /\ remove_branch(Net1, Net2, total_liquidity,
                     r1 - Default1, r2 - Default2, liquidity)
    /\ \E input \in 1 .. lp_supply, output \in 0 .. LpOutputLimit - 1 :
          MoveTokens(liquidity, input, output)
    /\ reserve1' = r1 /\ reserve2' = r2
    /\ total_liquidity' = liquidity
    /\ UNCHANGED created

\* Liquidity tokens moved by a transaction without the pool, or by one that
\* swaps: the token script wants as many out as in.
TransferTokens ==
    /\ \E input \in 1 .. lp_supply, output \in 1 .. LpOutputLimit - 1 :
          MoveTokens(total_liquidity, input, output)
    /\ UNCHANGED <<created, reserve1, reserve2, total_liquidity>>

Next == \/ Create
        \/ \E r1 \in Reserve1, r2 \in Reserve2 : Swap(r1, r2)
        \/ \E r1 \in Reserve1, r2 \in Reserve2, liquidity \in Liquidity :
              AddLiquidity(r1, r2, liquidity)
        \/ \E r1 \in Reserve1, r2 \in Reserve2, liquidity \in Liquidity :
              RemoveLiquidity(r1, r2, liquidity)
        \/ TransferTokens

Spec == Init /\ [][Next]_vars

-----------------------------------------------------------------------------
\* The numbers fit their cells; no transaction takes out more tokens than there
\* are.
TypeOK == /\ created \in BOOLEAN
          /\ reserve1 \in Reserve1 /\ reserve2 \in Reserve2
          /\ total_liquidity \in Liquidity
          /\ lp_supply \in Nat

\* The liquidity tokens in circulation are as many as the pool has recorded:
\* "with total liquidity, check mint, burn" (the liquidity token script) holds
\* over any sequence of deposits, withdrawals and transfers.
SupplyBacked == lp_supply = total_liquidity

\* A pool without liquidity holds its defaults and nothing else; a pool with
\* liquidity holds more than its defaults of both tokens, so every later
\* deposit has a price and no division is by zero.
FundedIffLiquidity ==
    created => \/ total_liquidity = 0 /\ Net1 = 0 /\ Net2 = 0
               \/ total_liquidity > 0 /\ Net1 > 0 /\ Net2 > 0

\* What PoolPromise sees of a pool.
Promise == INSTANCE PoolPromise
    WITH open <- created,
         x <- IF created THEN Net1 ELSE 0,
         y <- IF created THEN Net2 ELSE 0,
         shares <- total_liquidity

\* The scripts keep the promise of PoolPromise, step by step: whatever branch of
\* main() accepts a transaction (lines 999 to 1130), no share is diluted by it.
KeepsPromise == Promise!Spec

=============================================================================
