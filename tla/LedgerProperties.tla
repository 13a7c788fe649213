--------------------------- MODULE LedgerProperties ---------------------------
(***************************************************************************)
(* What the three scripts achieve together, for any sequence of            *)
(* transactions that they accept.  No script alone can promise any of it:  *)
(* each sees one transaction, and each relies on what the others refuse.   *)
(***************************************************************************)
EXTENDS Ledger

-----------------------------------------------------------------------------
Token(lock, k) == <<lock.t1, lock.t2>>[k]

\* The live cells under a lock that hold the k-th token of its pair.
HoldersOf(lock, k) == {c \in PairCells : /\ c.lock = lock
                                         /\ HoldsToken(c, Token(lock, k))}

PoolsUnder(lock) == {p \in LivePools : p.lock = lock}

\* The cells under the lock of a pair can be shared out to the pools of that
\* pair, one cell of each token with exactly the recorded reserve to each: no
\* pool is ever left without the cells its next transaction must consume
\* ("udtswap udts reserve and udts locked amount same checked", and for a new
\* pool "udtswap udts reserve, udts amount same checked").
EveryPoolSpendable ==
    \A p \in LivePools, k \in 1 .. 2 :
        CountLive({q \in PoolsUnder(p.lock) : q.data[k] = p.data[k]})
          <= CountLive({c \in HoldersOf(p.lock, k) :
                           AmountIn(c, Token(p.lock, k)) = p.data[k]})

\* The liquidity tokens of each pool are as many as the pool has recorded, and
\* there are none of a pool that does not exist.  Two scripts that run apart
\* (the pool's and the token's) keep it.
LpSupplyBacked ==
    /\ \A p \in LivePools : SumLive(LpCells(p), AmountOf) = p.data[3]
    /\ \A c \in LiveCells :
          c.type.code = "liquidity" => \E p \in LivePools : c \in LpCells(p)

\* A pool has one live cell, whatever later creations try, and its pair is
\* sorted: the same tokens cannot make two pairs (check_tx_input and
\* create_udtswap_check, the comparison of the group).
OneCellPerPool ==
    \A p \in LivePools : /\ live[p] = 1
                         /\ \A q \in LivePools : q.type = p.type => q = p
                         /\ p.lock.t1 < p.lock.t2

-----------------------------------------------------------------------------
\* The pools that a step consumes.
Touched == {p \in LivePools : p \notin LivePools'}

\* Every pool that a transaction moves is paid for: each script of the
\* transaction looks for the fee cell by itself and counts the pools by itself
\* (check_fee).
FeePaid == [][paid' >= STATE_USE_FEE * Cardinality(Touched)]_ledger_vars

\* A transaction that deposits to or withdraws from a pool moves no other pool
\* ("only first udtswap can add or remove liquidity", and its fee cell stands
\* where the next pool would be).
LiquidityMovesAlone ==
    [][\A p \in Touched :
          (\E q \in LivePools' : q.type = p.type /\ q.data[3] # p.data[3])
            => Touched = {p}]_ledger_vars

\* What lies under a pair lock beyond the reserves of its pools.
Surplus(lock, k) ==
    SumLive(HoldersOf(lock, k), LAMBDA c : AmountIn(c, Token(lock, k)))
      - SumLive(PoolsUnder(lock), LAMBDA p : p.data[k])

\* Tokens under a pair lock that belong to no pool stay there: a transaction
\* may exchange the cells of a pool for others with the same amounts, but takes
\* nothing out that the numbers of a pool do not account for.
SurplusStays ==
    [][\A lock \in PairLocks, k \in 1 .. 2 : Surplus(lock, k)' >= Surplus(lock, k)
      ]_ledger_vars

-----------------------------------------------------------------------------
\* The numbers of the pool with an identity and a pair.
NumbersOf(id, lock) == {p \in LivePools : p.type = PoolType(id) /\ p.lock = lock}
Number(id, lock, k) == SumLive(NumbersOf(id, lock), LAMBDA p : p.data[k])
TokensOf(id, lock) ==
    SumLive({c \in LiveCells : c.type = LiquidityType(lock, id)}, AmountOf)

Numbers(id, t1, t2) == INSTANCE Pool
    WITH Default1 <- Default(t1), Default2 <- Default(t2),
         Limit1 <- IF t1 = CKB THEN U64 ELSE U128,
         Limit2 <- IF t2 = CKB THEN U64 ELSE U128,
         LiquidityLimit <- U128, LpOutputLimit <- U128,
         created <- NumbersOf(id, PairLock(t1, t2)) # {},
         reserve1 <- Number(id, PairLock(t1, t2), 1),
         reserve2 <- Number(id, PairLock(t1, t2), 2),
         total_liquidity <- Number(id, PairLock(t1, t2), 3),
         lp_supply <- TokensOf(id, PairLock(t1, t2))

\* Cells, locks, forged cells, fees and other pools make no difference: seen
\* from the numbers of any one pool, every accepted transaction is a step of
\* module Pool or none at all.  (This is Numbers(...)!Spec of every pool, with
\* the quantifier inside the temporal operator.)
ImplementsPool ==
    /\ \A id \in 1 .. MaxPools, pair \in Pairs : Numbers(id, pair[1], pair[2])!Init
    /\ [][\A id \in 1 .. MaxPools, pair \in Pairs :
             \/ UNCHANGED Numbers(id, pair[1], pair[2])!vars
             \/ Numbers(id, pair[1], pair[2])!Next]_ledger_vars

=============================================================================
