------------------------------ MODULE TxBuilder ------------------------------
(***************************************************************************)
(* How the test wallet builds a transaction of the pool: test/tx/          *)
(* txBuilder.js and cellBuilder.js.  A request names the kind of           *)
(* transaction and, for each pool it goes through, the pool as the wallet  *)
(* knows it and the amounts.  The wallet collects live cells, checks that  *)
(* they suffice, lays out inputs and outputs pool by pool, and sets the    *)
(* capacity of its change cell last.                                       *)
(*                                                                         *)
(* The cells arrive one by one from the node, in any order, and end at any *)
(* time.  Those that are passed over leave no trace and are not kept, and  *)
(* what the code counts while it collects is computed from those it took.  *)
(* The wallet is the receiver of all results: every caller passes null for *)
(* toAddr.  Capacities are in CKB; the bytes of a cell are constants.      *)
(***************************************************************************)
EXTENDS Scripts, QuoteMath, SequencesExt

CONSTANTS
    ckbMinimum,     \* the capacity of a plain cell (consts.js)
    udtMinimum,     \* what a change cell of a UDT must hold
    txFeeMax,       \* what is put aside for the fee of the transaction
    TxFee,          \* the fee computed from its size
    ckbActual,      \* the CKB a wallet must have for any transaction
    poolCellCKB,    \* capacities: of a pool cell,
    udtLockCKB,     \*   of a UDT cell under a pair lock,
    udtCellCKB,     \*   of a UDT cell of a wallet,
    liquidityCKB,   \*   of a liquidity token cell of a wallet
    WalletCells,    \* bound: the cells a wallet may have
    MaxCells,       \* bound: cells taken for one transaction
    KnownPools,     \* bound: the pools requests are about
    Amounts         \* bound: the amounts asked for

\* A cell of the wallet: plain, or with an amount of a UDT or of the liquidity
\* tokens of some pool.
IsWalletCell(c) ==
    /\ c = Cell(UserLock, c.type, c.capacity, c.data) /\ c.capacity \in Nat
    /\ \/ c.type = NoScript /\ c.data = <<>>
       \/ /\ c.type \in {UdtType(c.type.t1), LiquidityType(c.type, c.type.id)}
          /\ {c.type.t1, c.type.t2, c.type.id} \subseteq Nat
          /\ c.type.code = "udt" => c.type.t1 # CKB
          /\ c.data = <<c.data[1]>> /\ c.data[1] \in Nat \ {0}

\* A pool as creation and every later transaction leave it: with reserves above
\* the defaults where there is liquidity (Pool's FundedIffLiquidity).
IsPool(p) ==
    /\ p.lock = PairLock(p.lock.t1, p.lock.t2) /\ {p.lock.t1, p.lock.t2} \subseteq Nat
    /\ p.type = PoolType(p.type.id) /\ p.type.id \in Nat
    /\ p.data = <<p.data[1], p.data[2], p.data[3]>>
    /\ {p.data[1], p.data[2], p.data[3]} \subseteq Nat
    /\ p.data[3] > 0 => Net(p, 1) > 0 /\ Net(p, 2) > 0

ASSUME TxBuilderAssumption ==
    /\ {txFeeMax, TxFee, ckbActual, poolCellCKB,
        udtLockCKB, udtCellCKB, liquidityCKB, MaxCells} \subseteq Nat
    /\ {ckbMinimum, udtMinimum} \union Amounts \subseteq Nat \ {0}
    /\ \A c \in WalletCells : IsWalletCell(c)
    /\ \A p \in KnownPools : IsPool(p)

VARIABLES
    request,   \* what sendTransaction() was called with
    ret,       \* the cells taken so far
    raw,       \* rawTransaction
    done,      \* pools that are in raw
    pc         \* "collect", "generate", "pools", "sent", or how it ended otherwise

builder_vars == <<request, ret, raw, done, pc>>

-----------------------------------------------------------------------------
\* A leg of a request: a pool and two amounts, in the order of the request.
\* isRev says that this is not the order of the pool's pair.
Leg(pool, isRev, a1, a2) == [pool |-> pool, isRev |-> isRev, amounts |-> <<a1, a2>>]
Ask(kind, legs, liquidity) == [kind |-> kind, legs |-> legs, liquidity |-> liquidity]

FundedPools == {p \in KnownPools : p.data[3] > 0}
Deposits == {n \in Amounts : n >= AddMinimum}

\* SwapOutput(): the leg that sells n to a pool, priced from its reserves.
SwapLeg(pool, isRev, n) ==
    LET from == IF isRev THEN 2 ELSE 1
    IN  Leg(pool, isRev, n, calculateSwapOutputFromInput(
                              Net(pool, from), Net(pool, 3 - from), n))

SwapLegs == {leg \in {SwapLeg(p, isRev, n) : p \in FundedPools,
                                             isRev \in BOOLEAN, n \in Amounts} :
                leg.amounts[2] > 0}

\* The requests of test.js: a swap through one pool or two, the first deposit
\* and later ones, a withdrawal, and a new pool (0 is no identity yet).
Swaps == {Ask("swap", <<leg>>, 0) : leg \in SwapLegs}
           \union {Ask("swap", legs, 0) :
                     legs \in {l \in SwapLegs \X SwapLegs : l[1].pool # l[2].pool}}

FirstAddOf(p, n, m) == Ask("add", <<Leg(p, FALSE, n, m)>>, n)

AddOf(p, n) ==
    LET q == calculateAddLiquidityUDT2Amount(Net(p, 1), Net(p, 2), p.data[3], n)
    IN  Ask("add", <<Leg(p, FALSE, n, q.udt2Amount)>>, q.userLiquidity)

RemoveOf(p, n) ==
    LET q == calculateRemoveLiquidityAmount(Net(p, 1), Net(p, 2), p.data[3], n)
    IN  Ask("remove", <<Leg(p, FALSE, q.udt1Amount, q.udt2Amount)>>, n)

FirstAdds == {FirstAddOf(p, n, m) :
                p \in KnownPools \ FundedPools, n \in Deposits, m \in Amounts}

LaterAdds == {a \in {AddOf(p, n) : p \in FundedPools, n \in Deposits} : a.liquidity > 0}

Removes == {RemoveOf(p, n) : p \in FundedPools, n \in Amounts}

Creates == {Ask("create", <<Leg([p EXCEPT !.data = <<0, 0, 0>>], FALSE, 0, 0)>>, 0) :
              p \in KnownPools}

Requests ==
    Swaps \union FirstAdds \union LaterAdds \union Creates
      \union {r \in Removes : /\ r.liquidity < r.legs[1].pool.data[3]
                              /\ \A k \in 1 .. 2 : r.legs[1].amounts[k] > 0}

-----------------------------------------------------------------------------
\* getAmountsBeforeLiveCell().  A slot is a leg and one of its tokens; some
\* tokens must come out of the wallet, and so must liquidity tokens that are
\* withdrawn.  A new pool takes the defaults.
legs == request.legs
poolCnt == Len(legs)
Slots == (1 .. poolCnt) \X (1 .. 2)

TokenOf(s) == Pair(legs[s[1]].pool)[IF legs[s[1]].isRev THEN 3 - s[2] ELSE s[2]]

Actual(s) == IF request.kind = "create" THEN Default(TokenOf(s))
                                        ELSE legs[s[1]].amounts[s[2]]

FromWallet(s) == \/ request.kind \in {"add", "create"}
                 \/ request.kind = "swap" /\ s[2] = 1

liquidityUDT == LiquidityType(legs[1].pool.lock, legs[1].pool.type.id)

-----------------------------------------------------------------------------
\* getLiveCells().  For each token the wallet wants the amounts of all its
\* slots and something to put into the change cell of each.
Minimum(t) == IF t = CKB THEN ckbMinimum ELSE udtMinimum
Reserved(s) == Actual(s) + Minimum(TokenOf(s))
Wants(t) == {s \in Slots : FromWallet(s) /\ TokenOf(s) = t}

\* The sum of the numbers f gives the slots, leg by leg.
SlotAt(k) == <<(k + 1) \div 2, IF k % 2 = 1 THEN 1 ELSE 2>>
SumOver(f) == Total([k \in 1 .. 2 * poolCnt |-> f[SlotAt(k)]])

ReservedFor(S) == SumOver([s \in Slots |-> IF s \in S THEN Reserved(s) ELSE 0])

\* Mutation: nothing for the change cells.
Cap_amounts_only(t) ==
    SumOver([s \in Slots |-> IF s \in Wants(t) THEN Actual(s) ELSE 0])

Cap(t) == ReservedFor(Wants(t))

capacities(cells) == Total([k \in DOMAIN cells |-> cells[k].capacity])
currentCKBAmount == capacities(ret)
Held(type) == sum_amounts(CellsOfType(ret, type))

ckbAmount == ckbActual + Cap(CKB)

\* Whether the loop takes a cell.
Takes(c) ==
    \/ c.type = NoScript /\ currentCKBAmount <= ckbAmount
    \/ c.type.code = "udt" /\ Wants(c.type.t1) # {} /\ Held(c.type) <= Cap(c.type.t1)
    \/ /\ request.kind = "remove" /\ c.type = liquidityUDT
       /\ Held(c.type) <= request.liquidity

\* udt1Input and udt2Input: of a UDT the last slot that wants it gets all that
\* was collected and is left, the slots before it what they need.  Of CKB each
\* gets what it needs, whatever was collected.
Before(s, u) == s[1] < u[1] \/ (s[1] = u[1] /\ s[2] < u[2])

udtInput(s) ==
    LET t == TokenOf(s)
        earlier == {u \in Wants(t) : Before(u, s)}
        isLast == \A u \in Wants(t) : ~Before(s, u)
    IN  IF t # CKB /\ isLast
          THEN Held(UdtType(t)) - ReservedFor(earlier)
          ELSE Reserved(s)

\* Mutation: a change cell may be left with nothing.
Sufficient_or_equal ==
    /\ currentCKBAmount > ckbActual
    /\ \A s \in Slots : FromWallet(s) => udtInput(s) >= Actual(s)
    /\ request.kind = "remove" => Held(liquidityUDT) > request.liquidity

\* getAmountsAfterLiveCell() finds no error in any leg.
Sufficient ==
    /\ currentCKBAmount > ckbActual
    /\ \A s \in Slots : FromWallet(s) => udtInput(s) > Actual(s)
    /\ request.kind = "remove" => Held(liquidityUDT) > request.liquidity

-----------------------------------------------------------------------------
\* The outputs.  setPoolCellsOutput() and the parts of
\* setResultDataAndCapacity() that fill the cells it makes.
UserCell(t, amount) ==
    IF t = CKB THEN Cell(UserLock, NoScript, amount, <<>>)
               ELSE Cell(UserLock, UdtType(t), udtCellCKB, <<amount>>)

LockCell(lock, t, amount) ==
    IF t = CKB THEN Cell(lock, NoScript, amount, <<>>)
               ELSE Cell(lock, UdtType(t), udtLockCKB, <<amount>>)

PoolCells(pool, id, data) ==
    <<Cell(pool.lock, PoolType(id), poolCellCKB, data),
      LockCell(pool.lock, pool.lock.t1, data[1]),
      LockCell(pool.lock, pool.lock.t2, data[2])>>

\* The slot of leg j that is token k of the pair.
SlotOf(j, k) == <<j, IF legs[j].isRev THEN 3 - k ELSE k>>

ReserveAfter(j, k) ==
    legs[j].pool.data[k]
      + (IF FromWallet(SlotOf(j, k)) THEN Actual(SlotOf(j, k)) ELSE -Actual(SlotOf(j, k)))

LiquidityAfter(j) ==
    legs[j].pool.data[3] + CASE request.kind = "add" -> request.liquidity
                             [] request.kind = "remove" -> -request.liquidity
                             [] OTHER -> 0

PoolOutputs(j) ==
    PoolCells(legs[j].pool,
              IF request.kind = "create" THEN raw.first ELSE legs[j].pool.type.id,
              <<ReserveAfter(j, 1), ReserveAfter(j, 2), LiquidityAfter(j)>>)

\* setPoolCellsInput(): the three cells at the out-point of the snapshot.
PoolInputs(j) ==
    IF request.kind = "create" THEN <<>>
    ELSE PoolCells(legs[j].pool, legs[j].pool.type.id, legs[j].pool.data)

\* setResultOutputCells() and the rest of setResultDataAndCapacity(): for each
\* token of the pair the change, or what the pool pays out; then the
\* liquidity tokens, new ones or the rest of those that were collected.
Results(j) ==
    [k \in 1 .. 2 |-> LET s == SlotOf(j, k) IN UserCell(TokenOf(s),
        IF FromWallet(s) THEN udtInput(s) - Actual(s) ELSE Actual(s))]

LiquidityResult ==
    CASE request.kind = "add" ->
           <<Cell(UserLock, liquidityUDT, liquidityCKB, <<request.liquidity>>)>>
      [] request.kind = "remove" ->
           <<Cell(UserLock, liquidityUDT, liquidityCKB,
                  <<Held(liquidityUDT) - request.liquidity>>)>>
      [] OTHER -> <<>>

Exchange(seq, i, j) == [seq EXCEPT ![i] = seq[j], ![j] = seq[i]]

\* "when adding liquidity, liquidity UDT cell should be right after pool cells,
\* protection fee cell"
Arranged(outputs) == IF request.kind = "add" THEN Exchange(outputs, 5, 8) ELSE outputs

\* Mutation: the code of the liquidity token is named by deposits only.
DepsOf_adding(j) == {"udtswap", "udtswap_lock"}
               \union (IF request.kind = "add" THEN {"liquidity"} ELSE {})
               \union {"udt" : k \in {m \in 1 .. 2 : TokenOf(<<j, m>>) # CKB}}

\* setDeps(): the code of the scripts, as far as the builder names it.
DepsOf(j) == {"udtswap", "udtswap_lock"}
               \union (IF request.kind \in {"add", "remove"} THEN {"liquidity"} ELSE {})
               \union {"udt" : k \in {m \in 1 .. 2 : TokenOf(<<j, m>>) # CKB}}

-----------------------------------------------------------------------------
\* setTxFeeAndSign().  The output that is the wallet's change, and the outputs
\* that are paid from it; a new pool has no fee cell.
ChangeIndex ==
    CASE request.kind = "swap" -> poolCnt * 3 + 2
      [] request.kind = "add" -> 8
      [] request.kind = "remove" -> 5
      [] request.kind = "create" -> 4

PaidFromChange ==
    CASE request.kind = "swap" -> poolCnt * 3 + 3 .. poolCnt * 5 + 2
      [] request.kind = "add" -> 5 .. 7
      [] request.kind = "remove" -> 6 .. 8
      [] request.kind = "create" -> {1, 2, 3, 5, 6}

WithoutFeeCell(outputs) ==
    IF request.kind = "create" THEN RemoveAt(outputs, 4) ELSE outputs

\* Mutation: the pools are taken in the order of the request.
ckbChanged_in_order(outputs) ==
    IF request.kind = "create" THEN 0
    ELSE SumOver([s \in Slots |->
           IF Pair(legs[s[1]].pool)[s[2]] # CKB THEN 0
           ELSE legs[s[1]].pool.data[s[2]] - outputs[(s[1] - 1) * 3 + 1 + s[2]].capacity])

\* What the pools give back in CKB, or take; the triple of a leg stands before
\* those of the legs before it.
ckbChanged(outputs) ==
    IF request.kind = "create" THEN 0
    ELSE SumOver([s \in Slots |->
           IF Pair(legs[s[1]].pool)[s[2]] # CKB THEN 0
           ELSE legs[s[1]].pool.data[s[2]]
                  - outputs[(poolCnt - s[1]) * 3 + 1 + s[2]].capacity])

Paid(outputs) ==
    Total([i \in DOMAIN outputs |-> IF i \in PaidFromChange THEN outputs[i].capacity ELSE 0])

WithChange(outputs) ==
    [outputs EXCEPT ![ChangeIndex].capacity =
        @ + (IF request.kind = "create" THEN STATE_USE_FEE ELSE 0)
          + txFeeMax - TxFee + ckbChanged(outputs) - Paid(outputs)]

-----------------------------------------------------------------------------
NoTx == [inputs |-> <<>>, outputs |-> <<>>, first |-> 0, deps |-> {}, signed |-> 0]

BuilderInit ==
    /\ request \in Requests
    /\ ret = <<>>
    /\ raw = NoTx
    /\ done = 0
    /\ pc = "collect"

\* getLiveCells(): the next live cell that the loop takes.
CollectCell ==
    /\ pc = "collect"
    /\ Len(ret) < MaxCells
    /\ \E c \in WalletCells : Takes(c) /\ ret' = Append(ret, c)
    /\ UNCHANGED <<request, raw, done, pc>>

\* There are no more live cells and they do not suffice: TxHash is null.
GiveUp ==
    /\ pc = "collect"
    /\ ~Sufficient
    /\ pc' = "refused"
    /\ UNCHANGED <<request, ret, raw, done>>

\* There are no more live cells and they suffice.  The last liquidity token
\* cell becomes the first of the wallet's inputs.
EndCollect ==
    /\ pc = "collect"
    /\ Sufficient
    /\ pc' = "generate"
    /\ ret' = IF request.kind = "remove"
                THEN Exchange(ret, 1, SelectLastInSeq(ret, LAMBDA c : c.type = liquidityUDT))
                ELSE ret
    /\ UNCHANGED <<request, raw, done>>

\* generateRawTx(), setFeeCell() and, for a new pool, getSerializedFirstInput():
\* the fee cell and the change, and the first plain cell in front.  The
\* out-point of a cell of the wallet is its place in ret.
PlainIndex == SelectInSeq(ret, LAMBDA c : c.type = NoScript)

GenerateRawTx ==
    /\ pc = "generate"
    /\ request.kind = "create" => PlainIndex > 0
    /\ raw' = [NoTx EXCEPT
                 !.inputs = IF request.kind = "create" THEN Exchange(ret, 1, PlainIndex)
                                                       ELSE ret,
                 !.first = IF request.kind = "create" THEN PlainIndex ELSE 0,
                 !.outputs =
                    <<Cell(FeeLock, NoScript, STATE_USE_FEE * poolCnt, <<>>),
                      UserCell(CKB, currentCKBAmount - STATE_USE_FEE * poolCnt - txFeeMax)>>]
    /\ pc' = "pools"
    /\ UNCHANGED <<request, ret, done>>

\* inputs[-1] is undefined.
NoPlainCell ==
    /\ pc = "generate"
    /\ request.kind = "create" /\ PlainIndex = 0
    /\ pc' = "threw"
    /\ UNCHANGED <<request, ret, raw, done>>

\* The body of the last loop of sendTransaction(): the cells of a pool go in
\* front of the inputs and outputs, the results behind the outputs.
AddPool ==
    /\ pc = "pools" /\ done < poolCnt
    /\ done' = done + 1
    /\ raw' = [raw EXCEPT
                 !.inputs = PoolInputs(done') \o @,
                 !.outputs = Arranged(PoolOutputs(done') \o @ \o Results(done')
                                        \o LiquidityResult),
                 !.deps = @ \union DepsOf(done')]
    /\ UNCHANGED <<request, ret, pc>>

\* setTxFeeAndSign() and signWitnesses(): one witness carries the signature
\* for all inputs of the wallet.
SetTxFeeAndSign ==
    /\ pc = "pools" /\ done = poolCnt
    /\ raw' = [raw EXCEPT
                 !.outputs = WithChange(WithoutFeeCell(@)),
                 !.signed = IF request.kind = "create" THEN 1 ELSE poolCnt * 3 + 1]
    /\ pc' = "sent"
    /\ UNCHANGED <<request, ret, done>>

BuilderNext ==
    \/ CollectCell
    \/ GiveUp
    \/ EndCollect
    \/ GenerateRawTx
    \/ NoPlainCell
    \/ AddPool
    \/ SetTxFeeAndSign

BuilderSpec == BuilderInit /\ [][BuilderNext]_builder_vars

-----------------------------------------------------------------------------
\* Every transaction that the wallet sends is accepted by every script it runs:
\* the pools' type scripts find their triples, the fee cell and the liquidity
\* cell where they look for them, and no token is lost or left in an empty
\* change cell (setPoolCellsOutput to setResultDataAndCapacity against main()
\* of the scripts).
ScriptsPass == pc = "sent" => ScriptsAccept(raw, 0)

\* All capacity is accounted for: what the change cell gets is exactly what
\* the inputs leave over, up to the fee of the transaction, whatever pools the
\* CKB went to or came from (setTxFeeAndSign).
CapacityBalanced ==
    pc = "sent" => capacities(raw.inputs) = capacities(raw.outputs) + TxFee

\* A wallet whose cells were passed over because there was enough of everything
\* is not refused: the caps of the loop, shared by the slots of a token, cover
\* what the check then asks of each slot (lines 57-102 and 180-211 against
\* getAmountsAfterLiveCell).
CollectsEnough ==
    (/\ currentCKBAmount > ckbAmount
     /\ \A s \in Slots : FromWallet(s) /\ TokenOf(s) # CKB =>
           Held(UdtType(TokenOf(s))) > Cap(TokenOf(s))
     /\ request.kind = "remove" => Held(liquidityUDT) > request.liquidity)
      => Sufficient

\* The node can run what is sent: the code of every script is among the cell
\* deps, and the signature is with the first input of the wallet, where the
\* default lock looks for it (setDeps, signWitnesses).
NodeCanRun ==
    pc = "sent" =>
      /\ \A s \in TypeScripts(raw) \union LockScripts(raw) :
            s.code \in raw.deps \union {"none", "user"}
      /\ raw.inputs[raw.signed].lock = UserLock
      /\ \A i \in 1 .. raw.signed - 1 : raw.inputs[i].lock # UserLock

==============================================================================
