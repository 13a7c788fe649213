---------------------------- MODULE TypeLoopProofs ----------------------------
(***************************************************************************)
(* main() of the type script comes to update_udtswap_check, and who        *)
(* succeeds has paid for every pool up to the fee cell, for every number   *)
(* of triples and every transaction.                                       *)
(***************************************************************************)
EXTENDS TypeLoop, FiniteSetTheorems, TLAPS

Own(k) == Input(tx, 3 * k).type = Current

OneCell ==
    /\ Cardinality(OfType(tx.inputs, Current)) = 1
    /\ Cardinality(OfType(tx.outputs, Current)) = 1

\* The first n triples are pools.
PoolsTo(n) == \A j \in 0 .. n - 1 : pool_triple(tx, 3 * j)

\* The liquidity of the pool at input 0 moves the way main() lets it.
Moved == \/ added(tx, 0) /\ minted_to(tx)
         \/ removed(tx, 0) /\ burned_from(tx)

\* The two ways to the fee: behind the last pool, or behind the first one.
BehindSwap == /\ ~pool_triple(tx, i)
              /\ \E k \in 0 .. (i \div 3) - 1 : Own(k) /\ swapped(tx, 3 * k)

BehindLiquidity == i = 3 /\ Own(0) /\ Moved

IInv ==
    /\ tx \in Transactions
    /\ i \in Nat /\ i % 3 = 0
    /\ is_success \in BOOLEAN
    /\ pc \in {"group", "loop", "fee", "done"}
    /\ pc = "group" => i = 0 /\ ~is_success
    /\ pc \in {"loop", "fee"} => OneCell /\ PoolsTo(i \div 3)
    /\ pc = "loop" =>
          /\ \A k \in 0 .. (i \div 3) - 1 : Own(k) => is_success
          /\ is_success => \E k \in 0 .. (i \div 3) - 1 : Own(k) /\ swapped(tx, 3 * k)
    /\ pc = "fee" => BehindSwap \/ BehindLiquidity
    /\ pc = "done" => ReturnsVerdict /\ FeeBehindLastPool

-----------------------------------------------------------------------------
\* A triple that begins in the inputs is one of the first ones.
LEMMA Third == ASSUME NEW m \in Nat, NEW k \in Nat, 3 * k < m PROVE k \in 0 .. m \div 3
OBVIOUS

\* Inputs and outputs are sequences.
LEMMA Sides ==
    ASSUME tx \in Transactions
    PROVE  \A cells \in {tx.inputs, tx.outputs} :
              /\ Len(cells) \in Nat /\ DOMAIN cells = 1 .. Len(cells)
              /\ \A k \in DOMAIN cells : cells[k].data \in Seq(Nat)
<1> SUFFICES ASSUME NEW cells \in {tx.inputs, tx.outputs}
             PROVE  /\ Len(cells) \in Nat /\ DOMAIN cells = 1 .. Len(cells)
                    /\ \A k \in DOMAIN cells : cells[k].data \in Seq(Nat)
  OBVIOUS
<1>1. /\ cells \in Seq({cells[k] : k \in DOMAIN cells})
      /\ \A k \in DOMAIN cells : cells[k].data \in Seq(0 .. U128 - 1)
  BY TypeLoopAssumption DEF IsTransaction
<1>2. \A s \in Seq(0 .. U128 - 1) : s \in Seq(Nat)
  BY WidthAssumption
<1> QED BY <1>1, <1>2

\* What stands at the indices of a triple.
LEMMA CellsAt ==
    ASSUME tx \in Transactions, NEW n \in Nat
    PROVE  /\ Len(tx.inputs) \in Nat /\ Len(tx.outputs) \in Nat
           /\ HasInput(tx, n) => n + 1 \in DOMAIN tx.inputs /\ Input(tx, n).data \in Seq(Nat)
           /\ HasOutput(tx, n) => n + 1 \in DOMAIN tx.outputs /\ Output(tx, n).data \in Seq(Nat)
<1>1. /\ Len(tx.inputs) \in Nat /\ DOMAIN tx.inputs = 1 .. Len(tx.inputs)
      /\ \A k \in DOMAIN tx.inputs : tx.inputs[k].data \in Seq(Nat)
  BY Sides
<1>2. /\ Len(tx.outputs) \in Nat /\ DOMAIN tx.outputs = 1 .. Len(tx.outputs)
      /\ \A k \in DOMAIN tx.outputs : tx.outputs[k].data \in Seq(Nat)
  BY Sides
<1>3. HasInput(tx, n) => n + 1 \in DOMAIN tx.inputs BY <1>1 DEF HasInput
<1>4. HasOutput(tx, n) => n + 1 \in DOMAIN tx.outputs BY <1>2 DEF HasOutput
<1> QED BY <1>1, <1>2, <1>3, <1>4 DEF Input, Output

\* A swap leaves the total liquidity of a pool alone, the other branches do not.
LEMMA Branches ==
    ASSUME tx \in Transactions, NEW n \in Nat, pool_triple(tx, n)
    PROVE  LET kept == Input(tx, n).data[3] = Output(tx, n).data[3]
           IN  /\ swapped(tx, n) => kept
               /\ added(tx, n) => ~kept
               /\ removed(tx, n) => ~kept
<1> DEFINE before == Input(tx, n).data[3]
           after == Output(tx, n).data[3]
<1>1. HasInput(tx, n) /\ HasOutput(tx, n)
  <2>1. HasInput(tx, n + 0) /\ HasOutput(tx, n + 0) BY DEF pool_triple
  <2>2. n + 0 = n OBVIOUS
  <2> QED BY <2>1, <2>2
<1>2. Input(tx, n).data \in Seq(Nat) /\ Output(tx, n).data \in Seq(Nat)
  BY <1>1, CellsAt
<1>3. Len(Input(tx, n).data) = 3 /\ Len(Output(tx, n).data) = 3
  BY DEF pool_triple, reserves_held
<1>4. before \in Nat /\ after \in Nat
  BY <1>2, <1>3
<1>5. swapped(tx, n) => before = after
  BY DEF swapped, swap_branch, TotalLiquidity
<1>6. added(tx, n) => before < after
  BY DEF added, add_branch, TotalLiquidity
<1>7. removed(tx, n) => before > after
  BY DEF removed, remove_branch, TotalLiquidity
<1> HIDE DEF before, after
<1>8. /\ swapped(tx, n) => before = after
      /\ added(tx, n) => before # after
      /\ removed(tx, n) => before # after
  BY <1>4, <1>5, <1>6, <1>7
<1> QED BY <1>8 DEF before, after

\* The pool of the script has one cell in the inputs, and that is where the
\* loop meets it.
LEMMA OneOwn ==
    ASSUME tx \in Transactions, OneCell,
           NEW a \in Nat, pool_triple(tx, 3 * a), Own(a),
           NEW b \in Nat, pool_triple(tx, 3 * b), Own(b)
    PROVE  a = b
<1>1. ASSUME NEW n \in Nat, pool_triple(tx, 3 * n), Own(n)
      PROVE  3 * n + 1 \in OfType(tx.inputs, Current)
  <2>1. HasInput(tx, 3 * n + 0) BY <1>1 DEF pool_triple
  <2>2. 3 * n + 0 = 3 * n /\ 3 * n \in Nat OBVIOUS
  <2>3. 3 * n + 1 \in DOMAIN tx.inputs BY <2>1, <2>2, CellsAt
  <2> QED BY <1>1, <2>3 DEF OfType, Own, Input
<1>2. OfType(tx.inputs, Current) \in SUBSET (1 .. Len(tx.inputs))
  BY Sides DEF OfType
<1>3. IsFiniteSet(OfType(tx.inputs, Current))
  <2>1. Len(tx.inputs) \in Nat BY Sides
  <2>2. IsFiniteSet(1 .. Len(tx.inputs))
    <3>1. \A m \in Nat : IsFiniteSet(1 .. m) BY FS_Interval
    <3> QED BY <2>1, <3>1
  <2> QED BY <1>2, <2>2, FS_Subset
<1>4. PICK x : OfType(tx.inputs, Current) = {x} BY <1>3, FS_Singleton DEF OneCell
<1>5. 3 * a + 1 = x /\ 3 * b + 1 = x BY <1>1, <1>4
<1> QED BY <1>5

\* Where the first n triples are pools and the next is none, there are n pools.
LEMMA CountedPools ==
    ASSUME tx \in Transactions, NEW n \in Nat, PoolsTo(n), ~pool_triple(tx, 3 * n)
    PROVE  Pools(tx) = 0 .. n - 1 /\ Cardinality(Pools(tx)) = n
<1>1. Len(tx.inputs) \in Nat BY Sides
<1>2. ASSUME NEW k \in 0 .. n - 1 PROVE k \in Pools(tx)
  <2>1. k \in Nat /\ pool_triple(tx, 3 * k) BY DEF PoolsTo
  <2>2. HasInput(tx, 3 * k + 0) BY <2>1 DEF pool_triple
  <2>3. 3 * k < Len(tx.inputs) BY <2>1, <2>2 DEF HasInput
  <2>4. k \in 0 .. Len(tx.inputs) \div 3 BY <1>1, <2>1, <2>3, Third
  <2>5. \A j \in 0 .. k : pool_triple(tx, 3 * j) BY DEF PoolsTo
  <2> QED BY <2>4, <2>5 DEF Pools
<1>3. ASSUME NEW k \in Pools(tx) PROVE k \in 0 .. n - 1
  <2>1. k \in Nat /\ \A j \in 0 .. k : pool_triple(tx, 3 * j) BY <1>1 DEF Pools
  <2>2. ~(n <= k) BY <2>1
  <2> QED BY <2>1, <2>2
<1>4. Pools(tx) = 0 .. n - 1 BY <1>2, <1>3
<1>5. Cardinality(0 .. n - 1) = n
  <2>1. \A a, b \in Int : Cardinality(a .. b) = IF a > b THEN 0 ELSE b - a + 1
    BY FS_Interval
  <2>2. Cardinality(0 .. n - 1) = IF 0 > n - 1 THEN 0 ELSE (n - 1) - 0 + 1
    <3>1. 0 \in Int /\ n - 1 \in Int OBVIOUS
    <3> QED BY <2>1, <3>1, Zenon
  <2> QED BY <2>2
<1> QED BY <1>4, <1>5

\* In front of the fee cell there is a pool at every third index, and no other.
LEMMA PoolAtEveryThird ==
    ASSUME NEW n \in Nat, PoolsTo(n), NEW k \in 0 .. 3 * n - 1
    PROVE  Input(tx, k).type.code = "udtswap" <=> k % 3 = 0
<1> DEFINE j == k \div 3
           r == k % 3
<1>1. /\ k \in Nat /\ j \in 0 .. n - 1 /\ r \in 0 .. 2 /\ k = 3 * j + r OBVIOUS
<1>2. pool_triple(tx, 3 * j) BY <1>1 DEF PoolsTo
<1> HIDE DEF j, r
<1>3. CASE r = 0
  <2>1. k = 3 * j BY <1>1, <1>3
  <2>2. Input(tx, 3 * j).type.code = "udtswap" BY <1>2 DEF pool_triple
  <2> QED BY <1>3, <2>1, <2>2 DEF r
<1>4. CASE r # 0
  <2>1. r \in 1 .. 2 BY <1>1, <1>4
  <2>2. PICK t : HoldsToken(Input(tx, 3 * j + r), t)
    BY <1>2, <2>1 DEF pool_triple, reserves_held
  <2>3. Input(tx, k).type = NoScript \/ Input(tx, k).type = UdtType(t)
    BY <1>1, <2>2 DEF HoldsToken
  <2>4. Input(tx, k).type.code \in {"none", "udt"}
    BY <2>3 DEF NoScript, UdtType, Script
  <2> QED BY <1>4, <2>4 DEF r
<1> QED BY <1>3, <1>4

-----------------------------------------------------------------------------
\* No triple is behind main() when it starts.
LEMMA InitIInv == Init => IInv
<1>1. 0 \in Nat /\ 0 % 3 = 0 OBVIOUS
<1> QED BY <1>1 DEF Init, IInv

\* What a script that goes to the fee has behind it decides with the fee.
LEMMA FeeDecides ==
    ASSUME IInv, pc = "fee"
    PROVE  update_udtswap_check(tx, Current) <=> check_fee(tx, i, i \div 3)
<1> DEFINE n == i \div 3
<1>1. n \in Nat /\ i = 3 * n BY DEF IInv
<1>2. tx \in Transactions /\ OneCell /\ PoolsTo(n) BY DEF IInv
<1>3. Len(tx.inputs) \in Nat BY <1>2, Sides
<1>4. \A k \in Pools(tx) : k \in Nat /\ pool_triple(tx, 3 * k)
  BY <1>3 DEF Pools
<1> HIDE DEF n
<1>5. CASE BehindSwap
  <2>1. Pools(tx) = 0 .. n - 1 /\ Cardinality(Pools(tx)) = n
    BY <1>1, <1>2, <1>5, CountedPools DEF BehindSwap
  <2>2. PICK k \in 0 .. n - 1 : Own(k) /\ swapped(tx, 3 * k)
    BY <1>5 DEF BehindSwap, n
  <2>3. k \in Nat /\ pool_triple(tx, 3 * k) BY <1>1, <1>2, <2>2 DEF PoolsTo
  <2>4. ASSUME 0 \in Pools(tx), Own(0), added(tx, 0) \/ removed(tx, 0) PROVE FALSE
    <3>1. pool_triple(tx, 3 * 0) /\ 0 \in Nat BY <1>4, <2>4
    <3>2. k = 0 BY <1>2, <2>2, <2>3, <2>4, <3>1, OneOwn
    <3>3. swapped(tx, 0) /\ pool_triple(tx, 0) BY <2>2, <3>1, <3>2
    <3> QED BY <1>2, <2>4, <3>3, Branches
  <2>5. Input(tx, 0).type = Current => Own(0) BY DEF Own
  <2>6. Input(tx, 3 * k).type = Current BY <2>2 DEF Own
  <2>7. k \in Pools(tx) BY <2>1, <2>2
  <2>8. check_fee(tx, 3 * Cardinality(Pools(tx)), Cardinality(Pools(tx)))
          <=> check_fee(tx, i, n)
    BY <1>1, <2>1
  <2> QED BY <1>2, <2>2, <2>4, <2>5, <2>6, <2>7, <2>8 DEF update_udtswap_check, OneCell, n
<1>6. CASE BehindLiquidity
  <2>1. i = 3 /\ Own(0) /\ Moved BY <1>6 DEF BehindLiquidity
  <2>2. n = 1 BY <1>1, <2>1
  <2>3. pool_triple(tx, 3 * 0) /\ pool_triple(tx, 0) BY <1>2, <2>2 DEF PoolsTo
  <2>4. 0 \in Pools(tx)
    <3>1. 0 \in 0 .. Len(tx.inputs) \div 3
      <4>1. \A m \in Nat : 0 \in 0 .. m \div 3 OBVIOUS
      <4> QED BY <1>3, <4>1
    <3>2. \A j \in 0 .. 0 : pool_triple(tx, 3 * j) BY <2>3
    <3> QED BY <3>1, <3>2 DEF Pools
  <2>5. Input(tx, 0).type = Current BY <2>1 DEF Own
  <2>6. ASSUME NEW k \in Pools(tx), Input(tx, 3 * k).type = Current, swapped(tx, 3 * k)
        PROVE  FALSE
    <3>1. k \in Nat /\ pool_triple(tx, 3 * k) /\ Own(k) BY <1>4, <2>6 DEF Own
    <3>2. k = 0 BY <1>2, <2>1, <2>3, <3>1, OneOwn
    <3>3. swapped(tx, 0) BY <2>6, <3>2
    <3> QED BY <1>2, <2>1, <2>3, <3>3, Branches DEF Moved
  <2>7. check_fee(tx, i, n) <=> check_fee(tx, 3, 1) BY <2>1, <2>2
  <2> QED BY <1>2, <2>1, <2>4, <2>5, <2>6, <2>7 DEF update_udtswap_check, OneCell, Moved, n
<1> QED BY <1>5, <1>6 DEF IInv

\* A loop that returns an error has not met the pool as the rule asks for it.
LEMMA LoopRefuses ==
    ASSUME IInv, pc = "loop",
           \/ ~pool_triple(tx, i) /\ ~is_success
           \/ OfThisPool /\ LiquidityKept /\ ~swapped(tx, i)
           \/ OfThisPool /\ ~LiquidityKept /\ ~(i = 0 /\ Moved)
    PROVE  ~update_udtswap_check(tx, Current)
<1> DEFINE n == i \div 3
<1>1. n \in Nat /\ i = 3 * n BY DEF IInv
<1>2. tx \in Transactions /\ OneCell /\ PoolsTo(n) BY DEF IInv
<1>3. Len(tx.inputs) \in Nat BY <1>2, Sides
<1>4. \A k \in Pools(tx) : k \in Nat /\ pool_triple(tx, 3 * k)
  BY <1>3 DEF Pools
<1>5. SUFFICES ASSUME update_udtswap_check(tx, Current) PROVE FALSE
  OBVIOUS
<1>6. PICK k \in Pools(tx) : /\ Own(k)
                             /\ swapped(tx, 3 * k) \/ (k = 0 /\ Moved)
  <2>1. CASE \E k \in Pools(tx) : Input(tx, 3 * k).type = Current /\ swapped(tx, 3 * k)
    <3>1. PICK l \in Pools(tx) : Input(tx, 3 * l).type = Current /\ swapped(tx, 3 * l)
      BY <2>1
    <3>2. Own(l) BY <3>1 DEF Own
    <3> QED BY <3>1, <3>2
  <2>2. CASE 0 \in Pools(tx) /\ Input(tx, 0).type = Current /\ Moved
    BY <2>2 DEF Own
  <2> QED BY <1>5, <2>1, <2>2 DEF update_udtswap_check, Moved
<1>7. k \in Nat /\ pool_triple(tx, 3 * k) BY <1>4
<1> HIDE DEF n
<1>8. CASE ~pool_triple(tx, i) /\ ~is_success
  <2>1. k \in 0 .. n - 1 BY <1>1, <1>2, <1>8, CountedPools
  <2> QED BY <1>6, <1>8, <2>1 DEF IInv, n
<1>9. CASE OfThisPool
  <2>1. pool_triple(tx, 3 * n) /\ Own(n) BY <1>1, <1>9 DEF OfThisPool, Own
  <2>2. k = n BY <1>1, <1>2, <1>6, <1>7, <2>1, OneOwn
  <2>3. swapped(tx, i) \/ (i = 0 /\ Moved) BY <1>1, <1>6, <2>2
  <2>4. swapped(tx, i) => LiquidityKept
    BY <1>1, <1>2, <2>1, Branches DEF LiquidityKept
  <2>5. i = 0 /\ Moved => ~LiquidityKept
    BY <1>1, <1>2, <2>1, Branches DEF LiquidityKept, Moved
  <2> QED BY <1>9, <2>3, <2>4, <2>5 DEF OfThisPool
<1> QED BY <1>8, <1>9

\* The lemmas are about tx, which no step changes: the loop moves on by a pool.
LEMMA NextIInv == IInv /\ [Next]_vars => IInv'
<1> SUFFICES ASSUME IInv, [Next]_vars PROVE IInv' OBVIOUS
<1>a. tx' = tx
  BY DEF Next, vars, CheckGroup, SkipOther, LeaveLoop, CheckSwap, CheckLiquidity, CheckFee, Return
<1>b. /\ OneCell' = OneCell /\ \A n : PoolsTo(n)' = PoolsTo(n) /\ Own(n)' = Own(n)
      /\ Moved' = Moved
  BY <1>a DEF OneCell, PoolsTo, Own, Moved
<1>c. i \in Nat /\ i % 3 = 0 /\ i + 3 \in Nat /\ (i + 3) % 3 = 0
      /\ (i + 3) \div 3 = (i \div 3) + 1 /\ i = 3 * (i \div 3) /\ i \div 3 \in Nat
  BY DEF IInv
<1>d. CKB_SUCCESS # Error BY DEF CKB_SUCCESS, Error
<1>e. ASSUME Return(Error), ~update_udtswap_check(tx, Current) PROVE IInv'
  BY <1>a, <1>c, <1>d, <1>e DEF Return, IInv, ReturnsVerdict, FeeBehindLastPool
<1>f. ASSUME pool_triple(tx, i), PoolsTo(i \div 3) PROVE PoolsTo((i + 3) \div 3)
  BY <1>c, <1>f DEF PoolsTo
<1>1. CASE CheckGroup
  <2>1. CASE OneCell
    BY <1>1, <1>a, <1>b, <1>c, <2>1 DEF CheckGroup, OneCell, IInv, PoolsTo
  <2>2. CASE ~OneCell
    BY <1>1, <1>e, <2>2 DEF CheckGroup, OneCell, update_udtswap_check
  <2> QED BY <2>1, <2>2
<1>2. CASE SkipOther
  <2>1. /\ pc = "loop" /\ pc' = "loop" /\ i' = i + 3 /\ UNCHANGED is_success
        /\ pool_triple(tx, i) /\ ~Own(i \div 3)
    BY <1>2, <1>c DEF SkipOther, OnlyTypeScriptDiffers, Own
  <2>2. PoolsTo((i + 3) \div 3) BY <1>f, <2>1 DEF IInv
  <2>3. \A k \in 0 .. ((i + 3) \div 3) - 1 : Own(k) => k \in 0 .. (i \div 3) - 1
    BY <1>c, <2>1
  <2>4. \A k \in 0 .. ((i + 3) \div 3) - 1 : Own(k) => is_success
    BY <2>1, <2>3 DEF IInv
  <2>5. is_success => \E k \in 0 .. ((i + 3) \div 3) - 1 : Own(k) /\ swapped(tx, 3 * k)
    BY <1>c, <2>1 DEF IInv
  <2> QED BY <1>a, <1>b, <1>c, <2>1, <2>2, <2>4, <2>5 DEF IInv
<1>3. CASE LeaveLoop
  <2>1. CASE is_success
    <3>1. pc = "loop" /\ pc' = "fee" /\ UNCHANGED <<i, is_success>> /\ ~pool_triple(tx, i)
      BY <1>3, <2>1 DEF LeaveLoop
    <3>2. BehindSwap' BY <1>a, <1>b, <2>1, <3>1 DEF BehindSwap, IInv
    <3> QED BY <1>a, <1>b, <1>c, <3>1, <3>2 DEF IInv
  <2>2. CASE ~is_success
    BY <1>3, <1>e, <2>2, LoopRefuses DEF LeaveLoop
  <2> QED BY <2>1, <2>2
<1>4. CASE CheckSwap
  <2>1. CASE swapped(tx, i)
    <3>1. /\ pc = "loop" /\ pc' = "loop" /\ i' = i + 3 /\ is_success' = TRUE
          /\ pool_triple(tx, i) /\ Own(i \div 3)
      BY <1>4, <1>c, <2>1 DEF CheckSwap, OfThisPool, Own
    <3>2. PoolsTo((i + 3) \div 3) BY <1>f, <3>1 DEF IInv
    <3>3. i \div 3 \in 0 .. ((i + 3) \div 3) - 1 /\ swapped(tx, 3 * (i \div 3))
      BY <1>c, <2>1
    <3> QED BY <1>a, <1>b, <1>c, <3>1, <3>2, <3>3 DEF IInv
  <2>2. CASE ~swapped(tx, i)
    BY <1>4, <1>e, <2>2, LoopRefuses DEF CheckSwap
  <2> QED BY <2>1, <2>2
<1>5. CASE CheckLiquidity
  <2>1. CASE i = 0 /\ Moved
    <3>1. /\ pc = "loop" /\ pc' = "fee" /\ i' = 3 /\ UNCHANGED is_success
          /\ pool_triple(tx, i) /\ Own(0)
      BY <1>5, <2>1 DEF CheckLiquidity, OfThisPool, Own, Moved
    <3>2. PoolsTo((i + 3) \div 3) BY <1>f, <3>1 DEF IInv
    <3>3. BehindLiquidity' BY <1>b, <2>1, <3>1 DEF BehindLiquidity
    <3>4. PoolsTo(i' \div 3) /\ i' % 3 = 0 /\ i' \in Nat BY <1>c, <2>1, <3>1, <3>2
    <3>5. OneCell BY <3>1 DEF IInv
    <3> QED BY <1>a, <1>b, <3>1, <3>3, <3>4, <3>5 DEF IInv
  <2>2. CASE ~(i = 0 /\ Moved)
    BY <1>5, <1>e, <2>2, LoopRefuses DEF CheckLiquidity, Moved
  <2> QED BY <2>1, <2>2
<1>6. CASE CheckFee
  <2>1. pc = "fee" /\ pc' = "done" /\ UNCHANGED <<i, is_success>> BY <1>6 DEF CheckFee, Return
  <2>2. update_udtswap_check(tx, Current) <=> check_fee(tx, i, i \div 3)
    BY <2>1, FeeDecides
  <2>3. exit' = CKB_SUCCESS <=> check_fee(tx, i, i \div 3)
    BY <1>6, <1>d DEF CheckFee, Return
  <2>4. ReturnsVerdict' BY <1>a, <2>2, <2>3 DEF ReturnsVerdict
  <2>5. FeeBehindLastPool'
    <3> SUFFICES ASSUME check_fee(tx, i, i \div 3)
                 PROVE  /\ \A k \in 0 .. i - 1 : Input(tx, k).type.code = "udtswap" <=> k % 3 = 0
                        /\ HasOutput(tx, i) /\ Output(tx, i).capacity = STATE_USE_FEE * (i \div 3)
                        /\ \E k \in 0 .. i - 1 : Input(tx, k).type = Current
      BY <1>a, <2>1, <2>3 DEF FeeBehindLastPool
    <3>1. \A k \in 0 .. i - 1 : Input(tx, k).type.code = "udtswap" <=> k % 3 = 0
      BY <1>c, <2>1, PoolAtEveryThird DEF IInv
    <3>2. PICK k \in 0 .. (i \div 3) - 1 : Own(k)
      <4>1. CASE BehindSwap BY <4>1 DEF BehindSwap
      <4>2. CASE BehindLiquidity BY <1>c, <4>2 DEF BehindLiquidity
      <4> QED BY <2>1, <4>1, <4>2 DEF IInv
    <3>3. 3 * k \in 0 .. i - 1 BY <1>c
    <3> QED BY <3>1, <3>2, <3>3 DEF check_fee, Own
  <2> QED BY <1>a, <1>c, <2>1, <2>4, <2>5 DEF IInv
<1>7. CASE UNCHANGED vars
  <2>1. BehindSwap' = BehindSwap /\ BehindLiquidity' = BehindLiquidity
    BY <1>7, <1>b DEF vars, BehindSwap, BehindLiquidity, Own
  <2>2. ReturnsVerdict' = ReturnsVerdict /\ FeeBehindLastPool' = FeeBehindLastPool
    BY <1>7 DEF vars, ReturnsVerdict, FeeBehindLastPool
  <2> QED BY <1>7, <1>b, <2>1, <2>2 DEF vars, IInv
<1> QED BY <1>1, <1>2, <1>3, <1>4, <1>5, <1>6, <1>7 DEF Next

\* The invariant of the loop.
LEMMA Invariance == Spec => []IInv
BY InitIInv, NextIInv, PTL DEF Spec

\* main() returns success exactly where the rule holds of the whole transaction:
\* the flag, the two ways out of the loop and the index lose nothing.
THEOREM TypeVerdict == Spec => []ReturnsVerdict
<1>1. IInv => ReturnsVerdict BY DEF IInv, ReturnsVerdict
<1> QED BY <1>1, Invariance, PTL

\* Who succeeds has paid for every pool in front of the fee cell, and its own
\* pool is one of them.
THEOREM FeeForEveryPool == Spec => []FeeBehindLastPool
<1>1. IInv => FeeBehindLastPool BY DEF IInv, FeeBehindLastPool
<1> QED BY <1>1, Invariance, PTL

=============================================================================
