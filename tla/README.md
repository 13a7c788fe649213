# A TLA+ model of UDTSwap

UDTSwap is an automated market maker on the CKB chain. There is no server and
no contract account: a pool is three live cells, and three scripts, written in
C and run by every node, decide whether a transaction may consume and replace
them. A wallet, written in JavaScript, builds the transactions. This directory
models the scripts, the arithmetic below them, the chain they run on, the pool
they guard, the wallet and the clients that use it; it checks the models with
TLC and proves the main properties with TLAPS.

Paths below are relative to `src/`; *type* is
`UDTswap_scripts/UDTswap_udt_based.c`, *lock* is
`UDTswap_scripts/UDTswap_lock_udt_based.c`, *LP* is
`UDTswap_scripts/UDTswap_liquidity_UDT_udt_based.c`.

## Inventory

| Component | State it keeps | Operations | What makes it correct |
|---|---|---|---|
| **type script** (*type*, `udtswap_common.h`) | none of its own; it reads the pool cell's data: two reserves and the total liquidity | create a pool, swap, add liquidity, remove liquidity, check the fee; one run per pool of a transaction | shares are never diluted, trades grow the product, a funded pool never empties, the lock cells hold what the data says |
| **pool arithmetic** (*type* 41-247, on `bn.c`) | none | `add_liquidity`, `remove_liquidity`, `swap` | every rounding goes to the pool |
| **lock script** (*lock*) | none; counts its group of inputs | unlock triples of cells | cells under a pair lock are spent only behind a pool cell |
| **liquidity UDT** (*LP*) | none; sums its group | transfer, mint, burn | tokens in circulation = recorded total liquidity, pool by pool |
| **test UDT** (`test_udt.c`) | none; sums its group | transfer, issue | amounts are conserved |
| **big numbers** (`bn.c`, `bn.h`) | arrays of words | `bignum_mul`, `_div`, `_add`, `_sub`, `_cmp`, shifts, conversions | they are the numbers they stand for; division is right and ends |
| **script reader** (`protocol.h`, `molecule_reader.h`) | the bytes of a script in a buffer | verify a table, give its fields | it accepts exactly scripts, reads nothing else, and its offsets are the fixed ones the scripts use elsewhere |
| **syscalls and chain** (`ckb_syscalls.h`) | the transaction being verified; live cells | load a field of a cell, script groups | external |
| **quotes** (`test/utils.js`) | none | three calculations | what they compute is what the scripts accept, and the best they accept |
| **transaction builder** (`test/tx/*.js`) | the transaction under construction | collect live cells, lay out inputs and outputs, pay, sign | the layout the scripts expect; amounts in = amounts out |
| **test client** (`test/test.js`) | its snapshot of each pool: out-point and numbers | build on the snapshot, send, advance it, poll | loses no update although others use the pool; ends |
| **deployment** (`test/deploy`, `hash.sh`) | published code cells and their hashes | compile, publish | the hashes in the C files are those of the published code |

How they interact. A transaction names the cells it consumes and the cells it
creates. The node runs the lock script of every input and the type script of
every input and output, each by itself, on the whole transaction; if all accept
it, and its inputs are still live, it takes effect at once. So the scripts
never call each other. They are bound together only by what each of them
demands of the same transaction:

- the lock script lets a cell go if it stands in a triple behind a pool cell,
  and leaves the amounts to the type script;
- the type script compares pool data, lock cells and fee, and asks for a cell
  of the liquidity UDT when liquidity changes, but not how much it holds;
- the liquidity UDT compares its own sums with the pool data of the first
  input, and trusts that the type script has checked that data;
- the wallet must meet all three with one layout, and clients are bound
  together by the one live cell of a pool.

What is hard here: an error is never local (a script that accepts too much
breaks what another one promises); pools of the same pair have the *same* lock,
so their cells can be exchanged; several pools can be in one transaction, and
each of their scripts walks over all of them; every operation rounds; widths
differ (8 bytes of capacity, 16 of an amount, 128 of a big number); a
transaction built on old cells simply never takes effect; and a client never
reads a pool again. `PROJECT.json` lists the hazards one by one, at their
lines, with the properties that would catch them.

## Modules

```
Width
  │     SwapMath ┬─ QuoteMath ──────────────┐
  │              └─ PoolRules ─┬─ Pool ─┬───┴ Quotes ──────┐
  │                            │        ├ PoolHistory ─────┼─ PoolProofs
  │                            │        └ (instance) PoolPromise
  │   ┌ LockScript ── LockLoop ┼──────────────────── LockLoopProofs
Cells ┼ TokenScripts ──────────┤ TokenLoop ── Molecule ─ TokenLoopProofs
  │   └ TypeScript ── TypeLoop ┼──────────────────── TypeLoopProofs
  │          Scripts ──────────┤
  │             ├── Ledger ── LedgerProperties ── (instance) Pool
  │             │                     └──────────── LedgerProofs
  │             └── TxBuilder ── QuoteMath, PoolProofs
  │
  ├─ Division
  └─ BigNumDiv ── BigNum, (instance) Division
         └── BigNumProofs ── (instance) CellFacts

Cells ── CellFacts ── TokenLoopProofs, LockLoopProofs, LedgerProofs, PoolProofs
Clients ── ClientsProofs
```

Modules `MC_*` give the constants their values for TLC. The same code is
modelled at several levels, and each is shown to fit the next.

**Words and numbers.** `BigNum` has the functions of `bn.c` on arrays of words:
carries, borrows, rows of a multiplication, shifts across words, conversions.
`BigNumDiv` is `bignum_div()` with one step per turn of its two loops.
`Division` is the same algorithm on numbers, and `KeepsDivision` the refinement
between the two: the arrays of `BigNumDiv` stand for the numbers of `Division`
at every step, so what is proved of `Division` for any width is true of the
code. (The code's extra turn that only sets `overflow` stutters there.) `Width`
holds the one constant that both share. A word is a number of `WordBits` bits;
powers of two, weights, rows, carries and borrows are recursive functions, and
the one bitwise operator of the code, `|`, is the sum of the bits that either
word has, so that all of it can be reasoned about.

**The numbers of one pool.**
`SwapMath` has the three formulas, true exactly when the C function returns
`CKB_SUCCESS`; the big numbers are natural numbers there, by `IntermediatesFit`
and the level below. `PoolRules` has the branches of `main()` (*type* 999-1130)
and the comparison of the liquidity UDT, where 128-bit sums wrap. `Pool` is the
state machine over them: the pool's data (`reserve1`, `reserve2`,
`total_liquidity`), whether it exists, and the tokens in circulation
(`lp_supply`); its actions are the transactions that all scripts accept, with
any amounts, and any liquidity tokens passing through. `Quotes` adds the
wallet's calculations (`QuoteMath`). `PoolHistory` adds one moment of the past,
a history variable that no step depends on. `PoolPromise` is the abstract
specification: reserves and shares, and what may happen to them.

**Transactions and scripts.**
`Cells` is what the syscalls show of a transaction. `TypeScript`,
`LockScript`, `TokenScripts` are the scripts as predicates on a transaction,
one operator per C function where the function has a meaning of its own;
`Scripts` runs those that a transaction calls for. The cells of a script's
group are given by their positions (`OfType`, `OfLock`) and, in their order, by
`Selected`; sums are `Total` of a sequence and `TotalOver` of a function, the
first a recursive function, the second a count, so that all of it can be
reasoned about. `Ledger` is the chain: the bag of live cells the system is
about, and users who publish what is `WellFormed`: at least one input, numbers
as wide as their bytes, and scripts with the arguments of their kind. Its actions are
the layouts of `test/tx/cellBuilder.js` (pool triples first, then the fee cell,
then the liquidity cell), for all numbers, plus transfers of liquidity tokens
and of tokens to a pair lock. To look for what the scripts let pass beside
that, every transaction that would be accepted is also tried with one part
changed: an input exchanged for another live cell, an input more, an output
locked otherwise, holding one more or less, dropped, moved, or joined by
another. Nobody's honesty is assumed: only the scripts stand between a
transaction and the state.

**The loops.**
The operators of the script modules say what the `main()` functions come to.
`TypeLoop`, `LockLoop` and `TokenLoop` have the functions themselves, one step
per iteration with their locals, indices, flags and return codes, and
`ReturnsVerdict` of each says that the verdicts are those of the operators.
`TokenLoop` starts where the script starts: `Molecule` has `ckb_load_script()`
into a buffer on the stack, the verification of the table and the accessors,
byte by byte, over items that no node would produce as well.

**Off the chain.**
`TxBuilder` is the wallet: a request (a swap through one pool or two, deposits,
a withdrawal, a creation), cells that arrive from the node in any order and end
at any time, the caps of the collecting loop, the check of the balance, the
layout pool by pool, the change cells, the fee. What it sends is given to the
operators of `Scripts`. `Clients` is above: several runs of `test.js` against
one node that accepts, commits and drops transactions. The numbers of a pool
are only a count of updates there; what a client *does* with its snapshot, when
it advances it and what it takes for done is the code's.

Some choices worth knowing:

- A hash of a script is the script, a token is a number (CKB is 0, the least of
  all hashes), the identity of a pool is the number of the transaction that
  created it. That no two transactions have the same first input is what the
  chain guarantees; the scripts rely on it.
- `Ledger` does not model the capacity that a cell occupies, transaction fees
  and wallets' change: `Complete` gives each transaction the UDT it needs to
  balance. `TxBuilder` has all of them.
- `CreatedAmount2` has what is read when only the lower half of a buffer has
  been written: the rest is any value (`stale`).
- `Init` of `Division` and `BigNumDiv` leaves the result with what the caller
  last computed in it: the loops must not depend on it.
- Of a client's transaction the model has the pool cells; the two lock cells
  behind each share their fate. Each client has cells of its own to pay with.
- Operators named after a definition with a suffix and marked `Mutation` are
  wrong versions of it. Each property of a passing run is violated when one of
  them takes its definition's place, so no property is idle.

## Runs

| Run | Instance | Properties |
|---|---|---|
| `pool` (`MC_Pool.cfg`) | one pool of CKB and a UDT next to any moment of its past, reserves below 10 and 11, liquidity below 6, fee 1/10; 38 700 states | `TypeOK`, `SupplyBacked`, `FundedIffLiquidity`, `SwapQuoteAccepted`, `AddQuoteAccepted`, `RemoveQuoteAccepted`, `ValueKept`, `KeepsPromise`, `NeverBeatsQuote` |
| `ledger` (`MC_Ledger.cfg`) | two pools, of one pair or of two pairs that share a token; 980 states, each with every accepted transaction out of it | `EveryPoolSpendable`, `LpSupplyBacked`, `ImplementsPool`, `FeePaid`, `LiquidityMovesAlone` |
| `ledger_udt` (`MC_LedgerUdt.cfg`) | a pool of two UDTs, its pair tried in every order and its identity tried again, a foreign cell under a lock, tokens in two cells; 960 states | `OneCellPerPool`, `SurplusStays` |
| `lock_loop` (`MC_LockLoop.cfg`) | all sequences of up to seven inputs of four kinds; 94 000 states | `ReturnsVerdict`, `SpentWithPool`, `EventuallyUnlocks` |
| `type_loop` (`MC_TypeLoop.cfg`) | up to three triples of two pools, eight kinds of triple, what may stand behind them; 20 600 states | `ReturnsVerdict`, `FeeBehindLastPool`, `EventuallyReturns` |
| `token_main` (`MC_TokenLoop.cfg`) | scripts of bytes with three values and all that differs from them in two bytes, cut off, too long or of another table; then token cells of amounts up to a width of two bits; 204 000 states | `ExactlyScripts`, `ReadsInside`, `FixedOffsets`, `ReturnsVerdict`, `Conserved` |
| `big_num` (`MC_BigNumDiv.cfg`) | numbers of four words of two bits; 10 700 states | `WordsAreNumbers`, `AmountsSurvive`, `KeepsDivision`, `Returns` |
| `tx_builder` (`MC_TxBuilder.cfg`) | six pools, funded and empty, of both kinds; up to five cells of a wallet in any order, capacities and fee of the code; 238 000 states | `ScriptsPass`, `CapacityBalanced`, `CollectsEnough`, `NodeCanRun` |
| `clients` (`MC_Clients.cfg`) | three clients on two pools, or one with the whole suite; 42 000 states | `NoLostUpdate`, `SnapshotRightOrDead`, `NeverRefused`, `EventuallyEnds`, `EverythingCommits` |
| `pool_wrap`, `lock_loop_ends`, `ledger_create` | see *Disagreements* | one each, violated |

What they show.

- *Shares.* `KeepsPromise` is refinement: `Pool` implements `PoolPromise` with
  the net reserves as `x` and `y`. `ValueKept` follows it through time: from any
  moment to any later one the product of the reserves per square of the shares
  has not fallen, whatever users did between, so no round trip is free.
  `FundedIffLiquidity` is why no division is by zero and why a pool, once
  funded, stays so: withdrawing the last liquidity would need both reserves to
  fall to the defaults, which line 1003 refuses.
- *Quotes.* A wallet that computes from current reserves gets its transaction
  accepted, with the exceptions that the properties name: amounts rounded to
  nothing, deposits under the minimum, the whole liquidity. `NeverBeatsQuote`:
  the second formula of `swap()`, from output to input, is no better deal.
- *The scripts together.* `ImplementsPool` is refinement as well, of `Ledger`
  to an instance of `Pool` for every pool: whatever cells, locks, foreign
  inputs and other pools a transaction has, the numbers of each pool make a step
  of `Pool` or none. `EveryPoolSpendable` counts, per lock, token and amount,
  that there are as many cells as records: no pool is stranded.
  `LpSupplyBacked` says the same of the tokens, for pools that share a lock.
- *Cells at a lock.* `SpentWithPool` and `SurplusStays`: neither script sees
  everything that is spent, together they let nothing go that no pool accounts
  for. (Foreign cells may be exchanged for a pool's own of the same amount.)
- *Fee.* Every script finds the fee cell by its own walk; `FeePaid` compares
  what was paid with the pools that moved.
- *Token scripts.* The running sums of 128 bits are checked at every addition;
  `ReturnsVerdict` and `Conserved` show that this check misses nothing and
  refuses nothing that fits. `ExactlyScripts`: of all items the reader accepts
  those, and only those, that are a serialized script. `FixedOffsets`: what it
  accepts has its code hash at 16 and its arguments at 53, where
  `udtswap_common.h` looks without reading any table.
- *Big numbers.* Carries through all words, the cut-off rows of a product,
  borrows below zero: numbers modulo the width. Division with and without the
  top bit set, with a dirty result, by zero (which never returns: the callers
  exclude it).
- *The wallet.* What it sends, from whichever cells in whichever order, passes
  every script, balances, and names the code and the signature's place
  (`ScriptsPass`, `CapacityBalanced`, `NodeCanRun`). `CollectsEnough`: the caps
  that stop the collecting are high enough for the checks behind them, also when
  two legs of a swap want the same token.
- *Clients.* A client computes on numbers it has not read since it started, on
  top of transactions that may be dropped, and goes on after a timeout as if
  all was well. Still no update is lost, and no accepted transaction was built
  on other numbers than the pool's. The price is that its snapshots die: once
  another client has used the pool, or a transaction was dropped, all its later
  tests are refused. Without that (`Undisturbed`) none is, and all commit.

Bounds. Constants are small so that limits are met: the fee is 1/10 rather than
3/1000, so one unit is worth rounding; defaults are 1 to 3 instead of 300 CKB;
the minimum of a deposit is 1 or 2 instead of 1000. In `ledger` and
`ledger_udt` `MaxReserves` is 5 (what both reserves of a pool hold above their defaults,
together), `MaxLiquidity` 2 and `MaxLpCells` 2: as little as allows a first
deposit, a proportional one that rounds, a swap in both directions and a partial
withdrawal, in any order. In `ledger` the two pools share `MaxHeld` 8, the least
with which one transaction swaps through both, and `MaxLpCells`, so that a
proportional deposit happens in one pool while nobody has tokens of the other;
beyond that are the theorems, which have no such bounds. The first pool is
one of CKB, for which came first makes no difference. `CreatePool` also tries
the identity of an older pool for a new one, in a transaction of another first
input (`OneCellPerPool` has a wrong version of the code for this and one for the
order of the pair). Two pools are the fewest that can be confused, and nothing in the scripts depends on there
being three (the loops, where a count matters, run over three triples and seven
inputs). `LpOutputLimit` in `pool` and the amounts in the ledger runs stay
where no sum wraps, and in the ledger runs an amount has the width of a
capacity (`U64 = U128 = 16`, above all that the pools of the instance can
hold): what lies beyond is the subject of the violated runs.
In `big_num` there are four words, as many as an amount fills in the code, so
that carries go in and out of words in the middle; dividends and divisors lie
around the powers of two where a word, and the number, ends. In `token_main`
any two bytes of a script take every other value; a hash of one byte and an
input of three keep a script shorter than its buffer of 26, and arguments of
five do not fit. Two amounts of two bits exceed the width in one
addition, three in the second one. In `tx_builder` a wallet's cells suffice
alone or only together, `TxFee` is below what is put aside for it, and every
kind of request comes to be sent from five cells; two legs are what `test.js`
uses, with one token in both. In `clients` two clients are the
fewest that disturb each other, three the fewest of which two can be refused
by one; two drops can hit a transaction and what its sender built on it since;
the whole suite has the kinds of tests of `test.js` in its order, often enough
to build on a snapshot that was itself advanced. Deadlock is not checked, because nobody
has to send a transaction, and a script, a function or a suite that has come to
its end is done.

Fairness. `Pool`, `Ledger` and `TxBuilder` have none: no user is obliged to do
anything, and all their properties are safety. `LockLoop`, `TypeLoop` and
`BigNumDiv` have weak fairness of their whole next-state relation: a script that
can take a step takes it, since it is a sequential program that nothing waits
for or interrupts. `Clients` has weak fairness of each client's steps (its event
loop runs, and the timers of the poll and of mocha fire) and of the node's
commits: what stays in its pool and can be committed is, one day. Nothing makes
the node drop a transaction, and nothing hinders it, `MaxDrops` times.

## Disagreements between the code and what it says

- `pool_wrap`. LP:90 compares `input_amount` with `output_amount +
  total_liquidity_before - total_liquidity_after` in 128 bits. The two sums
  before it are checked for overflow, this one is not, and amounts near the
  width of the type are accepted that do not differ by the liquidity burnt
  ("with total liquidity, check mint, burn", LP:94). Where no such amount
  occurs `SupplyBacked` holds: run `pool` and theorem `SupplyBackedHolds`.
- `lock_loop_ends`. The search of the lock script is left on
  `INDEX_OUT_OF_BOUND_ERROR`, which `check_udtswap_type()` never returns: it
  folds the syscall's code into one of its own (lock:20). `return
  CANNOT_UNLOCK_ERROR` (lock:106) is out of reach, and a transaction that is to
  be refused is refused by the cycle limit of the machine. Nothing is accepted
  that should not be: `ReturnsVerdict`, `SpentWithPool`. In the model `i` stays
  where it is behind the last input; that is the run without end.
- `ledger_create`. In a pool of CKB and a UDT the second amount is loaded with
  the length 8 that was meant for the capacity (type:818, 841), so only the
  lower half of the amount is compared with the record ("udtswap udts reserve,
  udts amount same checked", type:857). The upper half that enters the
  comparison is whatever the stack holds; for a stack with zeros there, a lock
  cell with 1 + k·2^64 passes. No transaction can consume the pool with the
  cells of its creation; it would take a donation under the pair lock of
  exactly the amount that the record claims.

Two more that no run states, since nothing said of the program is violated by
them within the model:

- The check that a wallet has enough CKB (`txBuilder.js:114`) compares with the
  fixed 1500, and for a slot of CKB the amount found is always the amount wanted
  and a change cell more (`cellBuilder.js:183`). A wallet with less CKB than a
  deposit needs is not stopped there; its change cell would be too small, which
  only the node finds. `CapacityBalanced` holds, in numbers that can be
  negative, and the instance has no such wallet.
- After a swap through two pools the first pool's cell is at output 3 of the
  transaction, as the poll behind it knows, but `liveTxIndex` is not assigned
  (`test.js:680`). `Clients`
  leaves it where it is, as the code does. The test is the last of the suite, so
  nothing reads it; in the shared instance such a pool is lost to its client.

## Theorems

Checked by TLAPS for every fee, minimum, default and width, for any number of
clients, pools, cells and bytes. The assumptions are those of the modules
(`FeeAssumption`, `WidthAssumption`, `TypeScriptAssumption`, `PoolAssumption`,
`LedgerAssumption`, `TypeLoopAssumption`, `LockLoopAssumption`,
`TokenLoopAssumption`, `MoleculeAssumption`, `WordAssumption`,
`ArgumentAssumption`, `TopAssumption`, `TxBuilderAssumption`,
`ClientsAssumption`), which TLC evaluates on the instances.

*The pool and its arithmetic.*

- `SwapGrowsProduct`, `AddKeepsShares`, `RemoveKeepsShares` (`PoolProofs`):
  the formulas. The argument turns a truncated quotient into the two
  inequalities that define it (`DivBounds`), multiplies out, and cancels.
  `IntermediatesFit`: no product or sum of the three functions reaches twice
  `Thousand` times the square of an amount's width, which is below 2^267, and a
  big number has 1024 bits. So `SwapMath` may compute in `Nat`.
- `TypeCorrect`, `FundedIffLiquidityHolds` (`PoolProofs`): from the inductive
  invariant `IInv`, the types, `FundedIffLiquidity` and "a pool that is not
  created has no liquidity". Each needs the others: a withdrawal keeps
  `FundedIffLiquidity` because it cannot be of all liquidity
  (`RemoveLeavesLiquidity`), which needs the types.
- `SupplyBackedHolds`, under `NoWrap`: the bound on liquidity and the bound on
  created tokens are together within the width. The violated run shows that some
  such assumption is needed.
- `PoolKeepsPromise`: every step of `Pool` is a step of `PoolPromise` or leaves
  its variables alone, one lemma per action, from the three formulas and `IInv`.
- `ValueIsKept`, `RoundTripsAreNotFree` (`PoolProofs`): every step keeps
  the value of a share (a swap by the product, a deposit and a withdrawal by
  both reserves per share), and a chain of such comparisons holds end to end
  because the products between can be cancelled (`ValueChain`). The second one
  is not a run's property: it is the case of equal liquidity.
- `SwapQuotesAccepted`, `AddQuotesAccepted`, `RemoveQuotesAccepted`,
  `NothingBeatsQuote` (`PoolProofs`): the wallet's quotients against the
  inequalities of the scripts. The first three are about rounding in the same
  direction; the last one bounds each of the two formulas of `swap()` by the
  other (`QuotientIsLargest`).

*The big numbers* (`BigNumProofs`), for every width of a word, every number of
words from four on, and all arguments.

- `ArithmeticOnWords`: `bignum_add`, `_sub`, `_cmp`, `_mul` and the shifts by a
  bit are the operations on numbers modulo the width. The value of an array is
  the sum of its words times the weights of their places. An operation that
  works from word to word and carries 0 or 1 keeps that sum up to the last
  carry (`Ripple`), from which addition, subtraction and the left shift follow;
  comparison decides at the top word that differs (`TopDecides`). A row of the
  long multiplication is cut off at the end of the array: it is right modulo
  the width (`RowValue`), and so is the sum of the rows (`MulValue`).
- `AmountsKept`: an amount of 128 bits goes into an array and comes back.
  The words that are ORed together have no bit in common (`OrAdds`).
- `WordsKeepDivision`: `BigNumDiv` implements `Division`, step by step. What the
  steps on words need beside the lemmas above is the invariant `WordInv`:
  `current` is zero or has one bit, and the result none at or below it, so that
  the OR of the two is their sum (`OrBit`), and `overflow` is set only where the
  divisor's top bit is and it is not above the dividend.
- `QuotientCorrect`: what `Division` returns is the quotient, for every even
  width. The invariant keeps `denom = b * current` with `current` a power of
  two, and `a = b * c + tmp` with `tmp < 2 * denom`; halving both never loses a
  bit until `current` is 1. A power of two is a member of every set that holds 1
  and is closed under doubling, which takes no induction.
- `DivisionOnWords` puts the two together: the array that `bignum_div()` leaves
  in the result has the value of the quotient.

*The scripts.*

- `OffsetsFixed`, `ReadsAreInside`, `ReadsExactlyScripts` (`TokenLoopProofs`):
  the invariant keeps what each check of the reader has established, and that a
  script passes every check. One check computes `4 + count` in
  32 bits, which can wrap; a size that has wrapped is smaller than the header it
  must contain, so nothing is accepted by it (the bytes of `token_main` do not
  get that far, and no script that a node serialized does). For a hash of 32 bytes the offsets
  are 16 = 4·4 and 53 = 5·4 + 32 + 1. An item that passes is put together again
  from its fields (`GotScript`); that a number of four bytes is those bytes
  again (`Bytes`) is where the digits are needed.
- `LockVerdict`, `TypeVerdict`, `TokenVerdict`: the loops return what the
  script modules state, for any transaction. Each invariant says what the
  iterations behind mean for the whole transaction: for the lock script that
  `group_cnt` is a third of the group less the pools found before `i`, so that
  it is 0 when as many are found as the group needs; for the type script that
  there is a pool's triple at every index behind, and that its own was among
  them exactly if `is_success`; for the token scripts that the running amounts
  are the sum of the group so far, and that no partial sum reached the width,
  since each addition is checked.
- `LockedCellsGoWithPools`, `FeeForEveryPool`, `TokensConserved`: what follows
  for those who rely on a script.

*The ledger* (`LedgerProofs`). All of it is proved of *any* well-formed
transaction that the scripts accept: `NextPublishes` says that a step publishes
one, and no proof looks at the shapes the actions give it.

- `PoolsAreUnique`. The invariant `LInv` adds that the identity of a live pool
  is an earlier transaction's, so that a pool that is created is not there yet.
  A transaction that has cells of a pool's type is then a creation (`Created`)
  or has one of them on each side, at the same place (`Updated`).
- `EveryPoolIsPaidFor`, `LiquidityAlone`: every script of a transaction counts
  the same pools: where one expects the fee the other cannot find a triple
  (`FeeEndsPools`), so that the walks of two scripts end at the same place.
- `TokensBackPools`. The invariant `TInv`: a liquidity cell holds one amount
  that is not 0 and belongs to a live pool. With it the tokens of a pool change
  in a transaction by its outputs less its inputs (`SupplyFlow`), and the
  token script compares that with the total liquidity in the first input and
  output, of which the type script has seen to it that they are this pool's. The theorem needs `SupplyFits`
  (a pool's tokens are below the width of 128 bits) in every state: without it
  it is wrong, see `pool_wrap`. That tokens belong to live pools
  (`TokenInvariance`) needs no such thing.
- `LedgerImplementsPool`, without any such hypothesis: `Pool` wraps where the
  token script wraps. The invariant `DInv` adds that the data of a live pool
  are three numbers within their width. A pool that is
  consumed makes the step of the branch its script took; a pool that is not may
  still have its tokens moved, which is `TransferTokens` of `Pool`; a pool that
  is created makes `CreatePool`.

- `PoolsStaySpendable`. The lock script lets go only whole triples of a pool
  of its pair: as many triples as there are threes in its group leave no cell of
  the group over (`TriplesFillGroup`, `LockedTriples`), and the type script of
  each pool has compared what it records with the two cells behind it. So in a
  transaction the cells that are taken from under a lock are matched, one to one,
  with consumed pools that record their amounts (`InputsMatched`), and the pools
  behind it with cells that are put there (`OutputsMatched`). Summed over the
  bag of live cells with a measure of amounts (`SystemFlow`, `PublishCovers`)
  this gives the invariant `Covered`: of every amount there are at least as many
  cells as records. The hypothesis `CreatesTruly` is about creation alone: no
  pool is created while a UDT amount under the lock of a CKB pair is another
  than the default but has its lower half. That is the case in which
  Type:818 and what it reads beside make a pool record less than its cell
  holds, and `ledger_create` finds it.
- `SurplusIsSafe`: the same argument with the amounts themselves as the measure.
  It needs no such hypothesis: a misread amount is at most the real one, because
  `UDT_RESERVE_DEFAULT < U64` (it is 1, `udtswap_common.h:18`) leaves nothing
  for the upper half. The invariant `HInv` adds that what lies under a lock is a
  number.

`CellFacts` has what these proofs need of sequences of cells: how `Selected`,
`Total` and `TotalOver` behave when a cell is appended, exchanged, summed in
another order or matched with another (`SumOfMatched`). The induction rules of
the library take a predicate, which the provers cannot supply; here induction is
over *sets* of numbers (`NatSet`), from the least element of such a set
(`LeastElement`), and `Recursion` has what a function defined step by step is.

*The clients.*

- `NothingLost`, `NeverBuiltOnWrongNumbers` (`ClientsProofs`): `NoLostUpdate` is
  not inductive. The invariant adds that hashes and output indices tell cells
  apart (the index of a pool in a transaction counts the legs behind it), that
  nothing consumes what is younger than itself, that what the node holds back
  has for each cell it consumes an output with one count more
  (`MempoolRight`), and that a pool is created once, before it is used, by a
  test that does not come again (`CreatedOnce`). A snapshot is then never
  wrong about a cell that exists, so what the node accepts counts on from the
  live cell, and at the commit that cell is still the one.
- `UndisturbedNeverRefused`: `NeverRefused`, of suites that keep to the order of
  `test.js` (`InOrder`: a pool is created before it is used, and one that was
  not the last leg of a transaction is not used again; TLC evaluates it on the
  suites of the run, as `SuitesInOrder`). The invariant `NInv`: every pool that
  an undisturbed client knows is where its snapshot points, unless the index of
  the snapshot was not assigned (`Mislaid`), and nothing that the client or the
  node has under way consumes it.

*The wallet's transactions* (`PoolProofs`), for all wallets, pools, amounts,
capacities and fees. `TxBuilderAssumption` says what a wallet's cells and a
pool's cell look like: plain, or with a positive amount of one token; reserves
above the defaults where there is liquidity.

- `WalletCollectsEnough`: the cap of a token is the sum over all slots that want
  it, and of a UDT the last slot gets what the slots before it leave, so what is
  held beyond the cap is beyond what the last slot reserves (`EnoughCollected`;
  the slots have an order, and the sum over a set of them loses exactly a slot's
  reserve with it, `ReservedAdds`). The invariant `Wallet` keeps only cells of
  tokens that some slot wants.
- `TransactionsBalance`, `TransactionsCanRun`: `BuilderInv` has all that has been
  built as a term over the request, the wallet's cells and the number of pools
  added (`AllInputs`, `AllOutputs`, `AllDeps`); a step keeps the request and the
  cells, and so the terms (`SameBuild`). What is left is about these terms.
  `Laid` says, for each of the five layouts, at which outputs the pools' cells,
  the fee cell and the change are; `Changed`, that `ckbChanged` finds the pools'
  cells where it looks and comes to what they hold less than before, a UDT
  pool's capacities cancelling; `CapacityLeft`, that what is not paid from the
  change is those cells; `Balanced` adds up, with numbers that may be negative.
  For the node: every cell that is laid out is in `Fit`, has code that the
  request needs, and `DepsSuffice` finds that code among the deps; `InputsLaid`
  finds the first cell under the wallet's lock.

Model-checked only: `ScriptsPass`, which is the layouts of the builder against
all the scripts and all the quotes at once. Liveness (`EventuallyUnlocks`,
`EventuallyReturns`, `Returns`, `EventuallyEnds`, `EverythingCommits`) is out of
this prover's reach.

## Not modelled

- Deployment: it compiles and publishes code and keeps no state that the
  protocol uses; the models take a code hash for the code.
- What the CKB SDK does within a call: signatures are a place in the list of
  witnesses, `generateRawTransaction()` is assumed to use the cells it is given.
  Every caller of the wallet passes no other receiver (`toAddr`), and the models
  have none.
- The node's rule on the capacity that a cell occupies. Requests of amounts too
  small for a cell are refused by it alone (`cellBuilder.js:626`).
- The transactions that issue tokens to a wallet before the tests, and two
  clients with one wallet.
- A poll that goes on behind a timeout: it reads the chain and assigns nothing
  that another test uses.
- The readers of other molecule types, the builder of `molecule_builder.h` and
  the syscalls that no script calls: generated or vendored code that is out of
  reach of the program. Most of `protocol.h` is of this kind.
- Data longer than an amount. Type:825 loads up to 48 bytes into a buffer of 16:
  what that overwrites is a question of the stack's layout.

## Plan

Done: all components but deployment; the proofs of the pool, its history, the
quotes, the words and their division, the reader, the loops, the ledger, the
clients and the wallet's transactions. What is left is `ScriptsPass`: that the
scripts accept what is sent, from `Laid` and the theorems about the quotes.
