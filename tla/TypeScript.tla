----------------------------- MODULE TypeScript -----------------------------
(***************************************************************************)
(* The type script of pool cells, UDTswap_udt_based.c.  It runs once for   *)
(* each pool that a transaction touches; s is the pool's own script.       *)
(***************************************************************************)
EXTENDS Cells, PoolRules

CONSTANTS
    U64,                  \* 2^64, the width of a capacity
    CKB_RESERVE_DEFAULT,
    UDT_RESERVE_DEFAULT,
    STATE_USE_FEE

ASSUME TypeScriptAssumption ==
    /\ U64 \in Nat \ {0} /\ U128 % U64 = 0
    /\ CKB_RESERVE_DEFAULT \in Nat /\ UDT_RESERVE_DEFAULT \in Nat
    /\ STATE_USE_FEE \in Nat \ {0}

Default(t) == IF t = CKB THEN CKB_RESERVE_DEFAULT ELSE UDT_RESERVE_DEFAULT

\* The pair of a pool cell, from the arguments of its lock.
Pair(cell) == <<cell.lock.t1, cell.lock.t2>>

\* What a lock cell holds: the capacity if the token is CKB, the data if not.
AmountIn(cell, t) == IF t = CKB THEN cell.capacity ELSE cell.data[1]

\* The cell's type script is the token's; CKB is the absence of a type script.
HoldsToken(cell, t) == cell.type = IF t = CKB THEN NoScript ELSE UdtType(t)

-----------------------------------------------------------------------------
\* The parts of udtswap_default_check(): the six cells of the triple at index
\* are under the lock of its first input ("lock code hash, lock hash all same").
locks_same(tx, index) ==
    LET lock == Input(tx, index).lock
    IN  /\ lock.code = "udtswap_lock"
        /\ \A k \in 0 .. 2 : /\ Input(tx, index + k).lock = lock
                             /\ Output(tx, index + k).lock = lock

\* Mutation: what the outputs hold is not compared.
reserves_held_before(tx, index) ==
    /\ Len(Input(tx, index).data) = 3 /\ Len(Output(tx, index).data) = 3
    /\ \A k \in 1 .. 2 :
          LET t == Pair(Input(tx, index))[k]
          IN  /\ HoldsToken(Input(tx, index + k), t)
              /\ HoldsToken(Output(tx, index + k), t)
              /\ Input(tx, index).data[k] = AmountIn(Input(tx, index + k), t)

\* The lock cells hold the pair, and as much of it as the pool says.
reserves_held(tx, index) ==
    LET before == Input(tx, index)
        after == Output(tx, index)
    IN  /\ Len(before.data) = 3 /\ Len(after.data) = 3
        /\ \A k \in 1 .. 2 :
              LET t == Pair(before)[k]
              IN  /\ HoldsToken(Input(tx, index + k), t)
                  /\ HoldsToken(Output(tx, index + k), t)
                  /\ before.data[k] = AmountIn(Input(tx, index + k), t)
                  /\ after.data[k] = AmountIn(Output(tx, index + k), t)

\* udtswap_default_check() up to the comparison with the current script: the
\* triple at index is a pool, before and after, that holds what its data says.
pool_triple(tx, index) ==
    /\ \A k \in 0 .. 2 : HasInput(tx, index + k) /\ HasOutput(tx, index + k)
    /\ locks_same(tx, index)
    /\ reserves_held(tx, index)
    /\ Output(tx, index).type.code = "udtswap"
    /\ Input(tx, index).type = Output(tx, index).type

\* check_liquidity_udt_script(): the cell carries the token of the pool at
\* input 0.
check_liquidity_udt_script(tx, cell) ==
    cell.type = LiquidityType(Input(tx, 0).lock, Input(tx, 0).type.id)

\* Mutation: the reserves may fall to the defaults.
above_defaults_or_equal(tx, index) ==
    \A k \in 1 .. 2 : Output(tx, index).data[k] >= Default(Pair(Output(tx, index))[k])

\* Both reserves of the pool at index are above their defaults, as far as the
\* transaction has a say in it.
above_defaults(tx, index) ==
    \A k \in 1 .. 2 :
        above_minimum(Input(tx, index).data[k], Output(tx, index).data[k],
                      Default(Pair(Input(tx, index))[k]))

\* The numbers of a pool cell, as the branches of main() use them.
Net(pool, k) == pool.data[k] - Default(Pair(pool)[k])
TotalLiquidity(pool) == pool.data[3]

\* The numbers of the pool at index are those of a swap, a deposit, a withdrawal.
swapped(tx, index) ==
    LET p == Input(tx, index)
        q == Output(tx, index)
    IN  /\ above_defaults(tx, index)
        /\ swap_branch(Net(p, 1), Net(p, 2), TotalLiquidity(p),
                       Net(q, 1), Net(q, 2), TotalLiquidity(q))

added(tx, index) ==
    LET p == Input(tx, index)
        q == Output(tx, index)
    IN  /\ above_defaults(tx, index)
        /\ add_branch(Net(p, 1), Net(p, 2), TotalLiquidity(p),
                      Net(q, 1), Net(q, 2), TotalLiquidity(q))

removed(tx, index) ==
    LET p == Input(tx, index)
        q == Output(tx, index)
    IN  /\ above_defaults(tx, index)
        /\ remove_branch(Net(p, 1), Net(p, 2), TotalLiquidity(p),
                         Net(q, 1), Net(q, 2), TotalLiquidity(q))

\* The cell that must carry the pool's token: output 4 or input 3.
minted_to(tx) == HasOutput(tx, 4) /\ check_liquidity_udt_script(tx, Output(tx, 4))
burned_from(tx) == HasInput(tx, 3) /\ check_liquidity_udt_script(tx, Input(tx, 3))

\* Mutation: the fee of one pool is enough.
check_fee_of_one(tx, index, cnt) ==
    /\ HasOutput(tx, index)
    /\ Output(tx, index).lock = FeeLock
    /\ Output(tx, index).type = NoScript
    /\ Output(tx, index).capacity >= STATE_USE_FEE

\* check_fee(): the output at index pays the fee of cnt pools, exactly.
check_fee(tx, index, cnt) ==
    /\ HasOutput(tx, index)
    /\ Output(tx, index).lock = FeeLock
    /\ Output(tx, index).type = NoScript
    /\ Output(tx, index).capacity = STATE_USE_FEE * cnt

-----------------------------------------------------------------------------
\* The loop of main().  It skips triples of other pools and stops at the first
\* index that holds no pool; the pool of the current script must come before.
\* Only input 0 may be a pool whose liquidity changes, and then the loop does
\* not look further.  (Module TypeLoop has the loop itself.)
Pools(tx) == {k \in 0 .. Len(tx.inputs) \div 3 :
                 \A j \in 0 .. k : pool_triple(tx, 3 * j)}

\* Mutation: liquidity changes beside other pools, without the first-pool rule,
\* the token cell and the break.
update_udtswap_check_together(tx, s) ==
    /\ Cardinality(OfType(tx.inputs, s)) = 1
    /\ Cardinality(OfType(tx.outputs, s)) = 1
    /\ \E k \in Pools(tx) :
         /\ Input(tx, 3 * k).type = s
         /\ swapped(tx, 3 * k) \/ added(tx, 3 * k) \/ removed(tx, 3 * k)
    /\ check_fee(tx, 3 * Cardinality(Pools(tx)), Cardinality(Pools(tx)))

update_udtswap_check(tx, s) ==
    /\ Cardinality(OfType(tx.inputs, s)) = 1
    /\ Cardinality(OfType(tx.outputs, s)) = 1
    /\ \/ \E k \in Pools(tx) :
             /\ Input(tx, 3 * k).type = s
             /\ swapped(tx, 3 * k)
             /\ check_fee(tx, 3 * Cardinality(Pools(tx)), Cardinality(Pools(tx)))
       \/ /\ 0 \in Pools(tx)
          /\ Input(tx, 0).type = s
          /\ \/ added(tx, 0) /\ minted_to(tx)
             \/ removed(tx, 0) /\ burned_from(tx)
          /\ check_fee(tx, 3, 1)

-----------------------------------------------------------------------------
\* What create_udtswap_check() reads of a lock cell.  In a pool of CKB and a
\* UDT the length given to the load of the second amount is still the 8 of the
\* capacity (line 818), so the upper half of the 16 bytes is what the stack
\* happens to hold: stale.
CreatedAmount1(cell, t) == AmountIn(cell, t)
CreatedAmount2(cell, pair, stale) ==
    IF pair[1] = CKB THEN (AmountIn(cell, pair[2]) % U64) + stale * U64
                     ELSE AmountIn(cell, pair[2])

\* The numbers of a new pool are those of its lock cells, and the defaults.
created_empty(tx, stale) ==
    LET pool == Output(tx, 0)
        pair == Pair(pool)
    IN  /\ Len(pool.data) = 3
        /\ pool.data[1] = CreatedAmount1(Output(tx, 1), pair[1])
        /\ pool.data[2] = CreatedAmount2(Output(tx, 2), pair, stale)
        /\ pool.data[1] = Default(pair[1])
        /\ pool.data[2] = Default(pair[2])
        /\ pool.data[3] = 0

\* Mutation: only a pair of one token is refused.
in_any_order(pair) == pair[1] # pair[2]

\* SAME_UDT_OR_ORDER_ERROR: the pair has two tokens, the lesser hash first.
in_order(pair) == pair[1] < pair[2]

\* Mutation: a pool may be named after any input, also one of another creation.
create_udtswap_check_any_input(tx, s, stale) ==
    /\ OfType(tx.inputs, s) = {}
    /\ Cardinality(OfType(tx.outputs, s)) = 1
    /\ \A k \in 0 .. 2 : HasOutput(tx, k)
    /\ LET pool == Output(tx, 0)
           pair == Pair(pool)
       IN  /\ pool.type = s
           /\ pool.lock.code = "udtswap_lock"
           /\ in_order(pair)
           /\ \A k \in 1 .. 2 : /\ Output(tx, k).lock = pool.lock
                                /\ HoldsToken(Output(tx, k), pair[k])
           /\ created_empty(tx, stale)

\* create_udtswap_check(): the script names the transaction's own first input,
\* its only cell is output 0, and the outputs are an empty pool of a sorted
\* pair.
create_udtswap_check(tx, s, stale) ==
    /\ s.id = tx.first
    /\ OfType(tx.inputs, s) = {}
    /\ Cardinality(OfType(tx.outputs, s)) = 1
    /\ \A k \in 0 .. 2 : HasOutput(tx, k)
    /\ LET pool == Output(tx, 0)
           pair == Pair(pool)
       IN  /\ pool.type = s
           /\ pool.lock.code = "udtswap_lock"
           /\ in_order(pair)
           /\ \A k \in 1 .. 2 : /\ Output(tx, k).lock = pool.lock
                                /\ HoldsToken(Output(tx, k), pair[k])
           /\ created_empty(tx, stale)

\* main().
udtswap_main(tx, s, stale) ==
    create_udtswap_check(tx, s, stale) \/ update_udtswap_check(tx, s)

=============================================================================
