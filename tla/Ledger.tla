------------------------------- MODULE Ledger -------------------------------
(***************************************************************************)
(* The chain as the scripts of UDTSwap see it: the live cells, and users   *)
(* who publish transactions that consume and create them.  A transaction   *)
(* takes effect when every script accepts it: the lock script of each      *)
(* input and the type script of each input and output.                     *)
(*                                                                         *)
(* Kept in the state are the cells the system is about: pool cells, cells  *)
(* under a pair lock and liquidity tokens.  CKB and UDT in users' wallets  *)
(* are not: a wallet always has a cell that fits (Complete).               *)
(*                                                                         *)
(* Which transactions are tried is a bound of the model: the shapes that   *)
(* test/tx/txBuilder.js builds, with any numbers, transfers of liquidity   *)
(* tokens and of tokens to a pair lock, and every one of these that would  *)
(* be accepted again with one part changed (Variants).                     *)
(***************************************************************************)
EXTENDS Scripts, Bags, SequencesExt

CONSTANTS
    Tokens,         \* the tokens in use
    Pairs,          \* bound: the pairs <<t1, t2>> users try to open pools of
    PairsOf,        \* bound: those tried for each pool, in the order of creation
    MaxPools,       \* bound: pools ever created
    MaxReserves,    \* bound: both reserves of a pool net of their defaults
    MaxHeld,        \* bound: the same of all pools together
    MaxLiquidity,   \* bound: the total liquidity of a pool
    MaxStray,       \* bound: cells under pair locks that belong to no pool
    MaxLpCells,     \* bound: live cells of liquidity tokens
    UdtAmounts      \* bound: the amounts of a UDT tried for a new pool

ASSUME LedgerAssumption == /\ Tokens \subseteq Nat
                           /\ Pairs \subseteq Tokens \X Tokens
                           /\ PairsOf \in [1 .. MaxPools -> SUBSET Pairs]
                           /\ {MaxPools, MaxReserves, MaxHeld, MaxLiquidity,
                               MaxStray, MaxLpCells} \subseteq Nat
                           /\ UdtAmounts \subseteq 1 .. U128 - 1

VARIABLES
    live,      \* the bag of live cells
    next_id,   \* the out-point of the next pool creation's first input
    paid       \* what the latest transaction sent to the fee lock

ledger_vars == <<live, next_id, paid>>

-----------------------------------------------------------------------------
\* The parts of the state.
LiveCells == BagToSet(live)
LivePools == {c \in LiveCells : c.type.code = "udtswap"}
PairCells == {c \in LiveCells : /\ c.lock.code = "udtswap_lock"
                                /\ c.type.code # "udtswap"}
LpCells(pool) == {c \in LiveCells :
                     c.type = LiquidityType(pool.lock, pool.type.id)}

IsSystemCell(c) == \/ c.lock.code = "udtswap_lock"
                   \/ c.type.code \in {"udtswap", "liquidity"}

SystemBag(cells) ==
    LET system == {k \in DOMAIN cells : IsSystemCell(cells[k])}
    IN  [c \in {cells[k] : k \in system} |-> Cardinality({k \in system : cells[k] = c})]

\* The sum of value(c) over the live cells in a set.
SumLive(cells, value(_)) ==
    TotalOver([c \in cells |-> live[c] * value(c)])

\* How many live cells there are in a set.
CountLive(cells) == SumLive(cells, LAMBDA c : 1)

Bounded == /\ SumLive(LivePools, LAMBDA p : Net(p, 1) + Net(p, 2)) <= MaxHeld
           /\ CountLive(PairCells) <= 2 * CountLive(LivePools) + MaxStray
           /\ CountLive(UNION {LpCells(p) : p \in LivePools}) <= MaxLpCells
           /\ \A p \in LivePools : p.data[3] <= MaxLiquidity

-----------------------------------------------------------------------------
\* The wallet balances every UDT behind the cells that matter.
AmountOfUdt(cells, t) == sum_amounts(CellsOfType(cells, UdtType(t)))

Complete(tx) ==
    LET need == [t \in Tokens \ {CKB} |-> AmountOfUdt(tx.outputs, t)
                                            - AmountOfUdt(tx.inputs, t)]
        cells(ts, sign) == [k \in DOMAIN ts |->
                              TokenCell(UserLock, ts[k], sign * need[ts[k]])]
    IN  [tx EXCEPT
           !.inputs = @ \o cells(SetToSeq({t \in DOMAIN need : need[t] > 0}), 1),
           !.outputs = @ \o cells(SetToSeq({t \in DOMAIN need : need[t] < 0}), -1)]

\* What can be written as a transaction: it has an input, numbers are as wide
\* as their bytes, and a script has the arguments of its kind.
IsScript(s) == /\ s = Script(s.code, s.t1, s.t2, s.id)
               /\ s.t1 \in Nat /\ s.t2 \in Nat
               /\ s.code = "udtswap_lock" => s.id = 0
               /\ s.code = "udtswap" => s.t1 = 0 /\ s.t2 = 0

WellFormed(tx) ==
    /\ IsTransaction(tx, 0 .. U128 - 1)
    /\ tx.inputs # <<>>
    /\ \A cells \in {tx.inputs, tx.outputs} : \A k \in DOMAIN cells :
          /\ IsScript(cells[k].lock) /\ IsScript(cells[k].type)
          /\ cells[k].capacity \in 0 .. U64 - 1

\* A transaction enters the chain: its inputs are live, and no other
\* transaction had its first input.
Publish(tx, stale) ==
    /\ tx.first = next_id
    /\ SystemBag(tx.inputs) \sqsubseteq live
    /\ WellFormed(tx)
    /\ ScriptsAccept(tx, stale)
    /\ live' = (live (-) SystemBag(tx.inputs)) (+) SystemBag(tx.outputs)
    /\ next_id' = next_id + Cardinality(OfType(tx.outputs, PoolType(next_id)))
    /\ LET fees == Selected(tx.outputs, OfLock(tx.outputs, FeeLock))
       IN  paid' = Total([k \in DOMAIN fees |-> fees[k].capacity])
    /\ Bounded'

-----------------------------------------------------------------------------
\* One part of a transaction that a wallet could get wrong, or get right in
\* another way: an input is another cell, or there is one input more; an
\* output is locked otherwise, holds one less or one more, is dropped,
\* changes places or is joined by another.
InputCells == LiveCells \union {TokenCell(UserLock, t, 1) : t \in Tokens}

PairLocks == {PairLock(p[1], p[2]) : p \in Pairs}

ChangedCells(c) ==
    {[c EXCEPT !.lock = l] : l \in PairLocks \union {UserLock}}
      \union {[c EXCEPT !.capacity = @ + n] : n \in IF c.type = NoScript THEN {-1, 1} ELSE {}}
      \union {[c EXCEPT !.data[k] = @ + n] : k \in DOMAIN c.data, n \in {-1, 1}}

ExtraOutputs ==
    {LiquidityCell(PairLock(pair[1], pair[2]), id, 1) : pair \in Pairs, id \in 1 .. next_id}
      \union {TokenCell(PairLock(pair[1], pair[2]), t, 1) : pair \in Pairs, t \in Tokens}
      \union LivePools

Edits(tx) ==
    {[tx EXCEPT !.inputs[i] = c] : i \in DOMAIN tx.inputs, c \in InputCells}
      \union {[tx EXCEPT !.inputs = Append(@, c)] : c \in InputCells}
      \union UNION {{[tx EXCEPT !.outputs[i] = c] : c \in ChangedCells(tx.outputs[i])}
                      : i \in DOMAIN tx.outputs}
      \union {[tx EXCEPT !.outputs = RemoveAt(@, i)] : i \in DOMAIN tx.outputs}
      \union {[tx EXCEPT !.outputs[i] = tx.outputs[i + 1], !.outputs[i + 1] = tx.outputs[i]]
                : i \in 1 .. Len(tx.outputs) - 1}
      \union {[tx EXCEPT !.outputs = Append(@, c)] : c \in ExtraOutputs}

\* What creation may read as the upper half of an amount.
Stale == 0 .. (U128 \div U64) - 1

\* What users publish: a transaction as it should be, and if it would be
\* accepted, the same with one part changed.
Variants(tx) ==
    {tx} \union (IF \E stale \in Stale : ScriptsAccept(Complete(tx), stale)
                   THEN Edits(tx) ELSE {})

PublishVariant(tx) ==
    \E v \in Variants(tx), stale \in Stale : Publish(Complete(v), stale)

-----------------------------------------------------------------------------
\* The shapes.  The triple of a pool with given numbers, the fee cell, and the
\* cell of a wallet that pays for a transaction without a pool.
Triple(p, r1, r2, liquidity) ==
    <<[p EXCEPT !.data = <<r1, r2, liquidity>>],
      TokenCell(p.lock, p.lock.t1, r1), TokenCell(p.lock, p.lock.t2, r2)>>

Consumed(p) == Triple(p, p.data[1], p.data[2], p.data[3])

FeeCell(cnt) == TokenCell(FeeLock, CKB, STATE_USE_FEE * cnt)

WalletCell == TokenCell(UserLock, CKB, STATE_USE_FEE)

Tx(inputs, outputs) == [inputs |-> inputs, outputs |-> outputs, first |-> next_id]

\* The reserves of a pool that holds n1 and n2 beyond its defaults.
Held1(p, n1) == n1 + Default(p.lock.t1)
Held2(p, n2) == n2 + Default(p.lock.t2)

AmountsTried(t) == IF t = CKB THEN {CKB_RESERVE_DEFAULT} ELSE UdtAmounts

Nets == {n \in (0 .. MaxReserves) \X (0 .. MaxReserves) : n[1] + n[2] <= MaxReserves}
AfterNets(p, n, liquidity) == Triple(p, Held1(p, n[1]), Held2(p, n[2]), liquidity)

\* The numbers of a pool behind a transaction that its rules accept.
Follow(rule(_, _, _, _, _, _), p, n, liquidity) ==
    rule(p.data[1] - Held1(p, 0), p.data[2] - Held2(p, 0), p.data[3],
         n[1], n[2], liquidity)

SwapsOf(p) == {n \in Nets : Follow(swap_branch, p, n, p.data[3])}

ChangesOf(p) ==
    {m \in Nets \X (1 .. MaxLiquidity) :
        \/ Follow(swap_branch, p, m[1], m[2])
        \/ Follow(add_branch, p, m[1], m[2])
        \/ Follow(remove_branch, p, m[1], m[2])}

-----------------------------------------------------------------------------
Init == /\ live = EmptyBag
        /\ next_id = 1
        /\ paid = 0

\* A new pool is named after the first input, or after that of an older one.
CreatePool ==
    \E id \in 1 .. MaxPools : \E pair \in PairsOf[id] :
    \E a1 \in AmountsTried(pair[1]), a2, r2 \in AmountsTried(pair[2]) :
       LET lock == PairLock(pair[1], pair[2])
       IN  /\ id <= next_id
           /\ PublishVariant(Tx(<<WalletCell>>,
                <<PoolCell(lock, id, a1, r2, 0),
                  TokenCell(lock, pair[1], a1), TokenCell(lock, pair[2], a2),
                  FeeCell(1)>>))

SwapOne ==
    \E p \in LivePools, n \in Nets :
       PublishVariant(Tx(Consumed(p), AfterNets(p, n, p.data[3]) \o <<FeeCell(1)>>))

\* Two pools in one transaction: users swap through both, and may try to mint
\* or burn liquidity of the first on the way.
TouchTwo ==
    \E p, q \in LivePools :
    \E m \in ChangesOf(p), n \in SwapsOf(q) :
       LET minted == m[2] - p.data[3]
           tokens(k) == IF k > 0 THEN <<LiquidityCell(p.lock, p.type.id, k)>> ELSE <<>>
       IN  /\ p # q
           /\ PublishVariant(Tx(Consumed(p) \o Consumed(q) \o tokens(-minted),
                                AfterNets(p, m[1], m[2]) \o AfterNets(q, n, q.data[3])
                                  \o <<FeeCell(2)>> \o tokens(minted)))

AddLiquidity ==
    \E p \in LivePools, n \in Nets, liquidity \in 1 .. MaxLiquidity :
       /\ liquidity > p.data[3]
       /\ PublishVariant(
            Tx(Consumed(p),
               AfterNets(p, n, liquidity)
                 \o <<FeeCell(1),
                      LiquidityCell(p.lock, p.type.id, liquidity - p.data[3])>>))

\* The wallet burns part of a token cell, or all of it.
RemoveLiquidity ==
    \E p \in LivePools, n \in Nets, liquidity \in 0 .. MaxLiquidity :
    \E c \in LpCells(p) :
       LET left == AmountOf(c) - (p.data[3] - liquidity)
       IN  /\ liquidity < p.data[3]
           /\ left >= 0
           /\ PublishVariant(
                Tx(Consumed(p) \o <<c>>,
                   AfterNets(p, n, liquidity) \o <<FeeCell(1)>>
                     \o IF left = 0 THEN <<>>
                        ELSE <<LiquidityCell(p.lock, p.type.id, left)>>))

\* Liquidity tokens are split and merged without the pool.
TransferTokens ==
    \E p \in LivePools :
    \E c \in LpCells(p), a \in 0 .. MaxLiquidity :
       LET token(n) == LiquidityCell(p.lock, p.type.id, n)
       IN  \/ \E b \in 0 .. MaxLiquidity :
                PublishVariant(Tx(<<c>>, <<token(a), token(b)>>))
           \/ \E d \in LpCells(p) : PublishVariant(Tx(<<c, d>>, <<token(a)>>))

\* Anyone can send tokens to a pair lock.
Donate ==
    \E lock \in PairLocks, t \in Tokens :
       PublishVariant(Tx(<<WalletCell>>, <<TokenCell(lock, t, 1)>>))

Next == \/ CreatePool
        \/ SwapOne
        \/ TouchTwo
        \/ AddLiquidity
        \/ RemoveLiquidity
        \/ TransferTokens
        \/ Donate

Spec == Init /\ [][Next]_ledger_vars

=============================================================================
