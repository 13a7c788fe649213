---------------------------- MODULE ClientsProofs ----------------------------
(***************************************************************************)
(* Clients that share pools and never reread them lose no update, however  *)
(* many they are, whatever their tests create and use, and whatever the    *)
(* node drops.                                                             *)
(***************************************************************************)
EXTENDS Clients, FiniteSetTheorems, TLAPS

All == chain \union mempool
CellSet == [pool : Pools, tx : Nat, index : Nat, count : Nat]
Updates(p) == {t \in chain : \E cell \in t.outputs : cell.pool = p}

-----------------------------------------------------------------------------
\* The inductive invariant.

TypeOK ==
    /\ suite \in Suites
    /\ next_tx \in Nat /\ next_tx > Cardinality(Pools)
    /\ snapshot \in [Client -> [Pools -> CellSet]]
    /\ \A c \in Client, p \in Pools : snapshot[c][p].pool = p
    /\ results \in [Client -> Seq({"refused", "null", "passed", "timeout"})]
    /\ \A c \in Client : Len(results[c]) <= Len(suite[c])
    /\ polls \in [Client -> Nat]
    /\ \A c \in Client : polls[c] # NoTx => ~Ended(c)

\* A transaction's hash is its own, and its outputs differ in pool and index.
OutputsDistinct ==
    /\ \A t \in All : t.id \in 1 .. next_tx - 1
    /\ \A t, u \in All : t.id = u.id => t = u
    /\ \A t \in All : \A cell \in t.outputs : cell \in CellSet /\ cell.tx = t.id
    /\ \A t \in All : \A a, b \in t.outputs :
          a.pool = b.pool \/ a.index = b.index => a = b

\* Nothing is consumed that is not there yet.
InputsKnown ==
    /\ \A t \in All : \A i \in t.inputs : i[1] \in 0 .. next_tx - 1
    /\ \A t \in chain : t.inputs \subseteq {OutPoint(cell) : cell \in CellsMade(chain)}
    /\ \A c \in Client, p \in Pools : snapshot[c][p].tx < next_tx

\* What the node holds back was computed from the cells that it consumes.
Pending(t) ==
    /\ \A cell \in CellsMade(All) : OutPoint(cell) \in t.inputs =>
          \E out \in t.outputs : out.pool = cell.pool /\ out.count = cell.count + 1
    /\ \A out \in t.outputs :
          IF t.inputs = {} THEN out.count = 0
          ELSE \E cell \in CellsMade(All) :
                  OutPoint(cell) \in t.inputs /\ cell.pool = out.pool

MempoolRight == \A t \in mempool : Pending(t)

\* A pool is created once, before it is used: all its transactions come after
\* the one without inputs, and no test to create it is left.
Creates(t, p) == t.inputs = {} /\ \E out \in t.outputs : out.pool = p
Begun(c) == Len(results[c]) + (IF polls[c] = NoTx THEN 0 ELSE 1)

CreatedOnce ==
    /\ \A t, u \in All, p \in Pools : Creates(t, p) /\ Creates(u, p) => t = u
    /\ \A t \in mempool, p \in Pools : Creates(t, p) => Updates(p) = {}
    /\ \A c \in Client : \A k \in DOMAIN suite[c] : suite[c][k].create =>
          \A cell \in CellsMade(All) : cell.pool \in Range(suite[c][k].pools) => k <= Begun(c)

\* NoLostUpdate, one pool at a time.
Counted(p) ==
    /\ IsFiniteSet(Updates(p))
    /\ Updates(p) # {} =>
         \E cell \in CellsOf(p, chain) :
            /\ cell.count = Cardinality(Updates(p)) - 1
            /\ CellsOf(p, chain) = {cell}

IInv == /\ TypeOK
        /\ OutputsDistinct
        /\ InputsKnown
        /\ SnapshotRightOrDead
        /\ MempoolRight
        /\ CreatedOnce
        /\ \A p \in Pools : Counted(p)

-----------------------------------------------------------------------------
\* The fields of a cell.
LEMMA Fields ==
    ASSUME NEW p, NEW tx, NEW index, NEW count
    PROVE  /\ PoolCell(p, tx, index, count).pool = p
           /\ PoolCell(p, tx, index, count).tx = tx
           /\ PoolCell(p, tx, index, count).index = index
           /\ PoolCell(p, tx, index, count).count = count
BY DEF PoolCell

\* The cells that transactions make.
LEMMA Made ==
    ASSUME NEW txs, NEW cell
    PROVE  cell \in CellsMade(txs) <=> \E t \in txs : cell \in t.outputs
BY DEF CellsMade

\* The out-points that they consume.
LEMMA Spent ==
    ASSUME NEW txs, NEW i
    PROVE  i \in OutPointsSpent(txs) <=> \E t \in txs : i \in t.inputs
BY DEF OutPointsSpent

\* A cell is where its out-point says.
LEMMA CellAt ==
    ASSUME OutputsDistinct,
           NEW a \in CellsMade(All), NEW b \in CellsMade(All), OutPoint(a) = OutPoint(b)
    PROVE  a = b
<1>1. PICK t \in All : a \in t.outputs BY Made
<1>2. PICK u \in All : b \in u.outputs BY Made
<1>3. a.tx = b.tx /\ a.index = b.index BY DEF OutPoint
<1>4. t = u BY <1>1, <1>2, <1>3 DEF OutputsDistinct
<1> QED BY <1>1, <1>2, <1>3, <1>4 DEF OutputsDistinct

\* A test that goes on uses pools.
LEMMA Uses ==
    ASSUME TypeOK, NEW c \in Client, ~Ended(c)
    PROVE  /\ test(c).pools \in Seq(Pools) /\ IsInjective(test(c).pools)
           /\ Using(c) \subseteq Pools
           /\ test(c).create \in BOOLEAN
           /\ Len(results[c]) + 1 \in DOMAIN suite[c]
           /\ test(c) = suite[c][Len(results[c]) + 1]
<1> DEFINE k == Len(results[c]) + 1
<1>1. /\ suite \in Suites /\ suite[c] \in Seq(TestSet)
      /\ \A n \in DOMAIN suite[c] : IsInjective(suite[c][n].pools)
  BY ClientsAssumption DEF TypeOK
<1>2. k \in 1 .. Len(suite[c])
  <2>1. Len(results[c]) \in Nat /\ Len(results[c]) <= Len(suite[c]) /\ Len(suite[c]) \in Nat
    BY <1>1 DEF TypeOK
  <2> QED BY <2>1 DEF Ended
<1>3. k \in DOMAIN suite[c] /\ suite[c][k] \in TestSet
  <2> HIDE DEF k
  <2> QED BY <1>1, <1>2
<1>4. test(c) = suite[c][k] BY DEF test
<1> HIDE DEF k
<1>5. test(c).pools \in Seq(Pools) /\ test(c).create \in BOOLEAN
  BY <1>3, <1>4 DEF TestSet
<1>6. Using(c) \subseteq Pools BY <1>5 DEF Using, Range
<1> QED BY <1>1, <1>3, <1>4, <1>5, <1>6 DEF k

\* One test creates a pool, and it is of the only client that uses the pool.
LEMMA OneCreation ==
    ASSUME TypeOK, NEW p \in Pools,
           NEW c \in Client, NEW k \in DOMAIN suite[c], suite[c][k].create,
           NEW d \in Client, NEW j \in DOMAIN suite[d], suite[d][j].create,
           p \in Range(suite[c][k].pools), p \in Range(suite[d][j].pools)
    PROVE  c = d /\ k = j
<1>1. suite \in Suites /\ suite[c] \in Seq(TestSet) BY ClientsAssumption DEF TypeOK
<1>2. p \in CreatedBy(suite, c) /\ p \in UsedBy(suite, d) BY DEF CreatedBy, UsedBy
<1>3. c = d BY <1>1, <1>2, ClientsAssumption
<1>4. ASSUME k # j PROVE FALSE
  <2>1. /\ Len(suite[c][k].pools) = 1 /\ Len(suite[c][j].pools) = 1
        /\ suite[c][j].pools # suite[c][k].pools
    BY <1>1, <1>3, <1>4, ClientsAssumption
  <2>2. suite[c][k].pools \in Seq(Pools) /\ suite[c][j].pools \in Seq(Pools)
    <3>1. suite[c][k] \in TestSet /\ suite[c][j] \in TestSet
      BY <1>1, <1>3
    <3> QED BY <3>1 DEF TestSet
  <2>3. suite[c][k].pools = <<p>>
    BY <2>1, <2>2 DEF Range
  <2>4. suite[c][j].pools = <<p>>
    BY <1>3, <2>1, <2>2 DEF Range
  <2> QED BY <2>1, <2>3, <2>4
<1> QED BY <1>3, <1>4

\* The output's index tells the pool.
LEMMA IndexOfPool ==
    ASSUME TypeOK, NEW c \in Client, ~Ended(c),
           NEW p \in Using(c), NEW q \in Using(c)
    PROVE  /\ CellIndex(c, p) \in Nat
           /\ CellIndex(c, p) = CellIndex(c, q) => p = q
<1> DEFINE pools == test(c).pools
           After(r) == {k \in DOMAIN pools : \E j \in 1 .. k - 1 : pools[j] = r}
<1>1. pools \in Seq(Pools) /\ IsInjective(pools) BY Uses
<1>2. ASSUME NEW m \in DOMAIN pools
      PROVE  /\ After(pools[m]) = m + 1 .. Len(pools)
             /\ CellIndex(c, pools[m]) = 3 * (Len(pools) - m)
  <2> HIDE DEF pools
  <2>0. Len(pools) \in Nat /\ DOMAIN pools = 1 .. Len(pools) /\ m \in 1 .. Len(pools)
    BY <1>1, <1>2
  <2>1. After(pools[m]) = m + 1 .. Len(pools)
    <3>1. ASSUME NEW k \in After(pools[m]) PROVE k \in m + 1 .. Len(pools)
      <4>1. PICK j \in 1 .. k - 1 : pools[j] = pools[m] BY <3>1
      <4>2. j = m BY <1>1, <2>0, <3>1, <4>1 DEF IsInjective
      <4> QED BY <2>0, <3>1, <4>1, <4>2
    <3>2. ASSUME NEW k \in m + 1 .. Len(pools) PROVE k \in After(pools[m])
      <4>1. m \in 1 .. k - 1 BY <2>0, <3>2
      <4> QED BY <2>0, <3>2, <4>1
    <3> QED BY <3>1, <3>2
  <2>2. Cardinality(m + 1 .. Len(pools)) = Len(pools) - m
    BY <2>0, FS_Interval
  <2>3. CellIndex(c, pools[m]) = 3 * Cardinality(After(pools[m]))
    BY DEF CellIndex, pools
  <2> QED BY <2>1, <2>2, <2>3
<1>3. PICK m \in DOMAIN pools : p = pools[m] BY DEF Using, Range
<1>4. PICK n \in DOMAIN pools : q = pools[n] BY DEF Using, Range
<1>5. CellIndex(c, p) = 3 * (Len(pools) - m) /\ CellIndex(c, q) = 3 * (Len(pools) - n)
  BY <1>2, <1>3, <1>4
<1> HIDE DEF pools
<1>6. Len(pools) \in Nat /\ m \in 1 .. Len(pools) /\ n \in 1 .. Len(pools)
  BY <1>1, <1>3, <1>4
<1> QED BY <1>3, <1>4, <1>5, <1>6

-----------------------------------------------------------------------------
\* At the start there are only the pools that no test creates.
LEMMA InitIInv == Init => IInv
<1> SUFFICES ASSUME Init PROVE IInv
  OBVIOUS
<1>1. /\ Cardinality(Pools) \in Nat /\ Existing \subseteq Pools
      /\ \A p \in Pools : p \in Nat /\ p > 0 /\ p <= Cardinality(Pools)
  BY ClientsAssumption, FS_CardinalityType DEF Existing
<1>2. \A t \in chain : \E p \in Existing :
         t = [id |-> p, inputs |-> {}, outputs |-> {PoolCell(p, p, 0, 0)}]
  BY DEF Init, Genesis
<1>3. mempool = {} /\ All = chain /\ next_tx = Cardinality(Pools) + 1
  BY DEF Init, All
<1>4. TypeOK
  <2>1. snapshot \in [Client -> [Pools -> CellSet]]
    BY <1>1 DEF Init, CellSet, PoolCell, NoTx
  <2>2. \A c \in Client : suite[c] \in Seq(TestSet) /\ Len(suite[c]) \in Nat
    BY ClientsAssumption DEF Init
  <2>3. results \in [Client -> Seq({"refused", "null", "passed", "timeout"})]
    BY DEF Init
  <2> QED BY <1>1, <2>1, <2>2, <2>3 DEF Init, TypeOK, PoolCell, NoTx
<1>5. OutputsDistinct
  <2>1. \A t \in All : t.id \in 1 .. next_tx - 1
    BY <1>1, <1>2, <1>3
  <2>2. \A t, u \in All : t.id = u.id => t = u
    BY <1>2, <1>3
  <2>3. \A t \in All : \A cell \in t.outputs : cell \in CellSet /\ cell.tx = t.id
    BY <1>1, <1>2, <1>3 DEF CellSet, PoolCell
  <2>4. \A t \in All : \A a, b \in t.outputs : a = b
    BY <1>2, <1>3
  <2> QED BY <2>1, <2>2, <2>3, <2>4 DEF OutputsDistinct
<1>6. InputsKnown
  <2>1. \A t \in All : t.inputs = {} BY <1>2, <1>3
  <2>2. ASSUME NEW c \in Client, NEW p \in Pools PROVE snapshot[c][p].tx < next_tx
    <3>1. snapshot[c][p].tx = IF p \in Existing THEN p ELSE NoTx
      BY DEF Init, PoolCell
    <3> QED BY <1>1, <1>3, <3>1 DEF NoTx
  <2> QED BY <1>3, <2>1, <2>2 DEF InputsKnown
<1>7. SnapshotRightOrDead
  <2> SUFFICES ASSUME NEW c \in Client, NEW p \in Pools,
                      NEW cell \in CellsMade(chain \union mempool)
               PROVE  cell.count = snapshot[c][p].count
    BY DEF SnapshotRightOrDead
  <2>1. PICK t \in chain : cell \in t.outputs BY <1>3, Made
  <2>2. cell.count = 0 BY <1>2, <2>1 DEF PoolCell
  <2> QED BY <2>2 DEF Init, PoolCell
<1>8. MempoolRight BY <1>3 DEF MempoolRight
<1>9. CreatedOnce
  <2>1. \A t, u \in All, p \in Pools : Creates(t, p) /\ Creates(u, p) => t = u
    <3>1. ASSUME NEW t \in All, NEW p \in Pools, Creates(t, p) PROVE t = Genesis(p)
      <4>1. PICK q \in Existing : t = Genesis(q) BY <1>2, <1>3 DEF Genesis
      <4>2. q = p BY <3>1, <4>1, Fields DEF Creates, Genesis
      <4> QED BY <4>1, <4>2
    <3> QED BY <3>1
  <2>2. ASSUME NEW c \in Client, NEW k \in DOMAIN suite[c], suite[c][k].create,
               NEW cell \in CellsMade(All), cell.pool \in Range(suite[c][k].pools)
        PROVE  FALSE
    <3>1. cell.pool \in Existing BY <1>2, <1>3, Made, Fields
    <3>2. cell.pool \in CreatedBy(suite, c) BY <2>2 DEF CreatedBy
    <3> QED BY <3>1, <3>2 DEF Existing
  <2> QED BY <1>3, <2>1, <2>2 DEF CreatedOnce
<1>10. ASSUME NEW p \in Pools PROVE Counted(p)
  <2>1. CASE Updates(p) = {} BY <2>1, FS_EmptySet DEF Counted
  <2>2. CASE Updates(p) # {}
    <3>1. Updates(p) = {Genesis(p)} /\ Genesis(p) \in chain
      <4>1. ASSUME NEW t \in Updates(p) PROVE t = Genesis(p)
        <5>1. PICK q \in Existing : t = Genesis(q) BY <1>2 DEF Updates, Genesis
        <5>2. q = p BY <5>1 DEF Updates, Genesis, PoolCell
        <5> QED BY <5>1, <5>2
      <4> QED BY <2>2, <4>1 DEF Updates
    <3>2. IsFiniteSet(Updates(p)) /\ Cardinality(Updates(p)) = 1
      BY <3>1, FS_Singleton
    <3>3. CellsOf(p, chain) = {PoolCell(p, p, 0, 0)}
      <4>1. OutPointsSpent(chain) = {} BY <1>2 DEF OutPointsSpent
      <4>2. \A cell \in CellsMade(chain) :
               \E q \in Existing : cell = PoolCell(q, q, 0, 0)
        BY <1>2, Made
      <4>3. PoolCell(p, p, 0, 0) \in CellsMade(chain)
        BY <3>1, Made DEF Genesis
      <4> QED BY <4>1, <4>2, <4>3 DEF CellsOf, Unspent, PoolCell
    <3> QED BY <3>2, <3>3 DEF Counted, PoolCell
  <2> QED BY <2>1, <2>2
<1> QED BY <1>4, <1>5, <1>6, <1>7, <1>8, <1>9, <1>10 DEF IInv

\* The number of tests that a client has begun.
LEMMA BegunType ==
    ASSUME TypeOK, NEW c \in Client
    PROVE  Begun(c) \in Nat
BY DEF TypeOK, Begun

\* A test that was begun stays so.
LEMMA StillCreatedOnce ==
    ASSUME TypeOK, TypeOK', CreatedOnce, UNCHANGED <<suite, chain, mempool>>,
           \A c \in Client : Begun(c) <= Begun(c)'
    PROVE  CreatedOnce'
<1>1. ASSUME NEW c \in Client, NEW k \in DOMAIN suite[c], k <= Begun(c)
      PROVE  k <= Begun(c)'
  <2>1. suite[c] \in Seq(TestSet) BY ClientsAssumption DEF TypeOK
  <2>2. k \in Nat BY <2>1
  <2>3. Begun(c) \in Nat /\ Begun(c)' \in Nat BY BegunType DEF TypeOK, Begun
  <2> QED BY <1>1, <2>2, <2>3
<1>2. CellsMade(All)' = CellsMade(All) /\ All' = All BY DEF CellsMade, All
<1>3. \A t, p : Creates(t, p)' <=> Creates(t, p) BY DEF Creates
<1>4. \A p : Updates(p)' = Updates(p) BY DEF Updates
<1> QED BY <1>1, <1>2, <1>3, <1>4 DEF CreatedOnce

\* Steps that leave the node and the snapshots alone.
LEMMA QuietStep ==
    ASSUME IInv, TypeOK', UNCHANGED <<suite, chain, mempool, next_tx, snapshot>>,
           \A c \in Client : Begun(c) <= Begun(c)'
    PROVE  IInv'
<1>1. OutputsDistinct' BY DEF IInv, OutputsDistinct, All
<1>2. InputsKnown' BY DEF IInv, InputsKnown, All, CellsMade
<1>3. SnapshotRightOrDead' BY DEF IInv, SnapshotRightOrDead, CellsMade
<1>4. MempoolRight' BY DEF IInv, MempoolRight, Pending, All, CellsMade
<1>5. \A p \in Pools : Counted(p)'
  BY DEF IInv, Counted, Updates, CellsOf, Unspent, CellsMade, OutPointsSpent
<1>6. CreatedOnce' BY StillCreatedOnce DEF IInv
<1> QED BY <1>1, <1>2, <1>3, <1>4, <1>5, <1>6 DEF IInv

\* A test ends.
LEMMA EndsType ==
    ASSUME TypeOK, NEW c \in Client, ~Ended(c), UNCHANGED <<suite, next_tx>>,
           NEW result \in {"refused", "null", "passed", "timeout"}, Ends(c, result),
           snapshot' \in [Client -> [Pools -> CellSet]],
           \A d \in Client, p \in Pools : snapshot'[d][p].pool = p,
           polls' = [polls EXCEPT ![c] = NoTx]
    PROVE  TypeOK' /\ \A d \in Client : Begun(d) <= Begun(d)'
<1>1. \A d \in Client : suite[d] \in Seq(TestSet) /\ Len(suite[d]) \in Nat
  BY ClientsAssumption DEF TypeOK
<1>2. /\ results' \in [Client -> Seq({"refused", "null", "passed", "timeout"})]
      /\ \A d \in Client \ {c} : results'[d] = results[d]
      /\ Len(results[c]) \in Nat /\ Len(results'[c]) = Len(results[c]) + 1
  BY DEF Ends, TypeOK
<1>3. \A d \in Client : Len(results'[d]) <= Len(suite'[d])
  <2> SUFFICES ASSUME NEW d \in Client PROVE Len(results'[d]) <= Len(suite'[d])
    OBVIOUS
  <2>1. Len(results[c]) <= Len(suite[c]) /\ Len(results[d]) <= Len(suite[d]) /\ suite' = suite
    BY DEF TypeOK
  <2>2. Len(suite[c]) \in Nat /\ Len(suite[d]) \in Nat BY <1>1
  <2>3. CASE d = c BY <1>2, <2>1, <2>2, <2>3 DEF Ended
  <2>4. CASE d # c
    <3>1. results'[d] = results[d] BY <1>2, <2>4
    <3> QED BY <3>1, <2>1
  <2> QED BY <2>3, <2>4
<1>4. /\ polls' \in [Client -> Nat] /\ polls'[c] = NoTx
      /\ \A d \in Client \ {c} : polls'[d] = polls[d]
  BY DEF TypeOK, NoTx
<1>5. \A d \in Client : polls'[d] # NoTx => ~Ended(d)'
  BY <1>2, <1>4 DEF TypeOK, Ended
<1>6. TypeOK' BY <1>2, <1>3, <1>4, <1>5 DEF TypeOK
<1>7. ASSUME NEW d \in Client PROVE Begun(d) <= Begun(d)'
  <2>1. Len(results[d]) \in Nat BY DEF TypeOK
  <2>2. CASE d = c
    <3>1. Begun(c)' = Len(results[c]) + 1
      BY <1>2, <1>4, <2>1, <2>2 DEF Begun
    <3>2. Begun(c) = Len(results[c]) \/ Begun(c) = Len(results[c]) + 1
      <4>1. CASE polls[c] = NoTx BY <2>1, <2>2, <4>1 DEF Begun
      <4>2. CASE polls[c] # NoTx BY <4>2 DEF Begun
      <4> QED BY <4>1, <4>2
    <3> QED BY <2>1, <2>2, <3>1, <3>2
  <2>3. CASE d # c
    <3>1. results'[d] = results[d] /\ polls'[d] = polls[d] BY <1>2, <1>4, <2>3
    <3>2. Begun(d)' = Begun(d) BY <3>1 DEF Begun
    <3> QED BY <3>2, BegunType
  <2> QED BY <2>2, <2>3
<1> QED BY <1>6, <1>7

\* A cell that is not spent, in words.
LEMMA Live ==
    ASSUME NEW txs, NEW p, NEW cell
    PROVE  cell \in CellsOf(p, txs) <=>
             /\ cell \in CellsMade(txs) /\ cell.pool = p
             /\ OutPoint(cell) \notin OutPointsSpent(txs)
BY DEF CellsOf, Unspent

-----------------------------------------------------------------------------
\* What a client knows behind sendTransaction(): the count that it gives to the
\* pools it used, at the hash that it was given.
NewCount(c, p) == IF test(c).create THEN 0 ELSE snapshot[c][p].count + 1

Knows(c, tx) ==
    /\ snapshot' \in [Client -> [Pools -> CellSet]]
    /\ \A d \in Client, p \in Pools :
         /\ snapshot'[d][p].pool = p
         /\ \/ snapshot'[d][p] = snapshot[d][p]
            \/ /\ d = c /\ p \in Using(c)
               /\ snapshot'[d][p] =
                    PoolCell(p, tx, snapshot[d][p].index, NewCount(c, p))

\* The assignments of a test leave just that.
LEMMA AdvancedSnapshot ==
    ASSUME TypeOK, NEW c \in Client, ~Ended(c), NEW tx \in Nat,
           snapshot' = [snapshot EXCEPT ![c] = Advanced(c, tx)]
    PROVE  Knows(c, tx)
<1>1. Using(c) \subseteq Pools /\ test(c).create \in BOOLEAN BY Uses
<1>2. snapshot \in [Client -> [Pools -> CellSet]] /\ snapshot'[c] = Advanced(c, tx)
  BY DEF TypeOK
<1>3. ASSUME NEW d \in Client, NEW p \in Pools
      PROVE  /\ snapshot'[d][p] \in CellSet /\ snapshot'[d][p].pool = p
             /\ \/ snapshot'[d][p] = snapshot[d][p]
                \/ /\ d = c /\ p \in Using(c)
                   /\ snapshot'[d][p] =
                        PoolCell(p, tx, snapshot[d][p].index, NewCount(c, p))
  <2> DEFINE s == snapshot[d][p]
  <2>1. s \in CellSet /\ s.pool = p BY <1>2 DEF TypeOK
  <2>2. CASE d = c /\ p \in Using(c)
    <3>1. snapshot'[d][p] =
            [s EXCEPT !.tx = tx, !.count = IF test(c).create THEN 0 ELSE @ + 1]
      BY <1>1, <1>2, <2>2 DEF Advanced
    <3>2. [s EXCEPT !.tx = tx, !.count = IF test(c).create THEN 0 ELSE @ + 1]
            = [s EXCEPT !.tx = tx, !.count = NewCount(c, p)]
      BY <2>1, <2>2 DEF NewCount, CellSet
    <3> HIDE DEF s
    <3>3. snapshot'[d][p] = PoolCell(p, tx, s.index, NewCount(c, p))
      BY <2>1, <3>1, <3>2 DEF CellSet, PoolCell
    <3>4. s.index \in Nat /\ NewCount(c, p) \in Nat
      BY <1>1, <2>1, <2>2 DEF CellSet, NewCount, s
    <3>5. PoolCell(p, tx, s.index, NewCount(c, p)) \in CellSet BY <3>4 DEF CellSet, PoolCell
    <3> QED BY <2>2, <3>3, <3>5, Fields DEF s
  <2>3. CASE ~(d = c /\ p \in Using(c))
    <3>1. snapshot'[d][p] = s BY <1>1, <1>2, <2>3 DEF Advanced
    <3> QED BY <2>1, <3>1
  <2> QED BY <2>2, <2>3
<1>4. snapshot' \in [Client -> [Pools -> CellSet]]
  <2>1. Advanced(c, tx) \in [Pools -> CellSet]
    <3>1. \A p \in Pools : Advanced(c, tx)[p] \in CellSet BY <1>2, <1>3
    <3>2. Advanced(c, tx) = [p \in Pools |-> Advanced(c, tx)[p]] BY DEF Advanced
    <3> QED BY <3>1, <3>2
  <2> QED BY <1>2, <2>1
<1> QED BY <1>3, <1>4 DEF Knows

\* The pools in the chain do not change.
LEMMA SameChain ==
    ASSUME chain' = chain, NEW p, Counted(p)
    PROVE  Counted(p)'
<1>1. CellsOf(p, chain)' = CellsOf(p, chain)
  BY DEF CellsOf, Unspent, CellsMade, OutPointsSpent
<1>2. Updates(p)' = Updates(p) BY DEF Updates
<1> QED BY <1>1, <1>2 DEF Counted

\* A client that sends nothing has a snapshot that leads nowhere.
LEMMA SendNothingStep ==
    ASSUME IInv, NEW c \in Client, SendNothing(c)
    PROVE  IInv'
<1>1. /\ TypeOK /\ ~Ended(c) /\ next_tx \in Nat /\ next_tx > 0
      /\ UNCHANGED <<suite, chain, mempool, next_tx>>
  <2>1. Cardinality(Pools) \in Nat BY ClientsAssumption, FS_CardinalityType
  <2> QED BY <2>1 DEF IInv, SendNothing, TypeOK, node_vars
<1>2. /\ snapshot' \in [Client -> [Pools -> CellSet]]
      /\ \A d \in Client, p \in Pools :
            /\ snapshot'[d][p].pool = p
            /\ snapshot'[d][p] = snapshot[d][p] \/ snapshot'[d][p].tx = NoTx
  <2>1. NoTx \in Nat /\ snapshot' = [snapshot EXCEPT ![c] = Advanced(c, NoTx)]
    BY DEF SendNothing, NoTx
  <2>2. Knows(c, NoTx)
    BY <1>1, <2>1, AdvancedSnapshot
  <2> QED BY <2>2, Fields DEF Knows
<1>3. TypeOK' /\ \A d \in Client : Begun(d) <= Begun(d)'
  <2>1. polls' = [polls EXCEPT ![c] = NoTx] BY <1>1 DEF SendNothing, TypeOK
  <2> QED BY <1>1, <1>2, <2>1, EndsType DEF SendNothing
<1>4. OutputsDistinct' BY <1>1 DEF IInv, OutputsDistinct, All
<1>5. InputsKnown'
  <2>1. \A d \in Client, p \in Pools : snapshot'[d][p].tx < next_tx
    BY <1>1, <1>2 DEF IInv, InputsKnown, NoTx
  <2> QED BY <1>1, <2>1 DEF IInv, InputsKnown, All, CellsMade
<1>6. SnapshotRightOrDead'
  <2>1. CellsMade(chain \union mempool)' = CellsMade(All) BY <1>1 DEF CellsMade, All
  <2>2. \A cell \in CellsMade(All) : cell.tx # NoTx
    BY Made DEF IInv, OutputsDistinct, NoTx
  <2> SUFFICES ASSUME NEW d \in Client, NEW p \in Pools, NEW cell \in CellsMade(All),
                      cell.pool = p, OutPoint(cell) = OutPoint(snapshot'[d][p])
               PROVE  cell.count = snapshot'[d][p].count
    BY <2>1 DEF SnapshotRightOrDead, OutPoint
  <2>3. snapshot'[d][p] = snapshot[d][p]
    <3>1. cell.tx = snapshot'[d][p].tx BY DEF OutPoint
    <3> QED BY <1>2, <2>2, <3>1
  <2> QED BY <2>3 DEF IInv, SnapshotRightOrDead, All
<1>7. MempoolRight' BY <1>1 DEF IInv, MempoolRight, Pending, All, CellsMade
<1>8. \A p \in Pools : Counted(p)' BY <1>1, SameChain DEF IInv
<1>9. CreatedOnce' BY <1>1, <1>3, StillCreatedOnce DEF IInv
<1> QED BY <1>3, <1>4, <1>5, <1>6, <1>7, <1>8, <1>9 DEF IInv

-----------------------------------------------------------------------------
\* A test ends without a transaction.
LEMMA QuietSteps ==
    ASSUME IInv, NEW c \in Client, SendRefused(c) \/ Confirm(c) \/ Timeout(c)
    PROVE  IInv'
<1>1. /\ TypeOK /\ ~Ended(c)
      /\ UNCHANGED <<suite, chain, mempool, next_tx, snapshot>>
  BY DEF IInv, TypeOK, SendRefused, Confirm, Timeout, node_vars
<1>2. polls' = [polls EXCEPT ![c] = NoTx]
  BY <1>1 DEF TypeOK, SendRefused, Confirm, Timeout
<1>3. \E result \in {"refused", "null", "passed", "timeout"} : Ends(c, result)
  BY DEF SendRefused, Confirm, Timeout
<1>4. TypeOK' /\ \A d \in Client : Begun(d) <= Begun(d)'
  BY <1>1, <1>2, <1>3, EndsType DEF TypeOK
<1> QED BY <1>1, <1>4, QuietStep

-----------------------------------------------------------------------------
\* What the node accepts was computed from the cells that it consumes.
LEMMA SentTransaction ==
    ASSUME IInv, NEW c \in Client, ~Ended(c), Accepted(c)
    PROVE  LET t == Transaction(c) IN
           /\ t.id = next_tx
           /\ \A out \in t.outputs :
            /\ out \in CellSet /\ out.tx = next_tx
            /\ out.count = NewCount(c, out.pool)
           /\ \A a, b \in t.outputs : a.pool = b.pool \/ a.index = b.index => a = b
           /\ \A i \in t.inputs : i[1] \in 0 .. next_tx - 1
           /\ Pending(t)
           /\ ~test(c).create => \A out \in t.outputs :
                 \E cell \in CellsMade(All) : cell.pool = out.pool
           /\ \A out \in t.outputs : out.pool \in Using(c)
<1> DEFINE t == Transaction(c)
           Out(p) == PoolCell(p, next_tx, CellIndex(c, p), NewCount(c, p))
<1>1. /\ TypeOK /\ OutputsDistinct /\ InputsKnown /\ next_tx \in Nat
      /\ Using(c) \subseteq Pools /\ test(c).create \in BOOLEAN
  BY Uses DEF IInv, TypeOK
<1>2. /\ t.id = next_tx
      /\ t.inputs = IF test(c).create THEN {} ELSE {OutPoint(snapshot[c][p]) : p \in Using(c)}
      /\ t.outputs = {Out(p) : p \in Using(c)}
  BY <1>1 DEF Transaction, NewCount
<1>3. ASSUME NEW p \in Using(c) PROVE Out(p) \in CellSet
  <2>1. snapshot[c][p] \in CellSet BY <1>1 DEF TypeOK
  <2>2. NewCount(c, p) \in Nat BY <1>1, <2>1 DEF CellSet, NewCount
  <2>3. CellIndex(c, p) \in Nat BY <1>1, IndexOfPool
  <2> QED BY <1>1, <2>2, <2>3 DEF CellSet, PoolCell
<1>4. \A p : Out(p).pool = p /\ Out(p).tx = next_tx /\ Out(p).index = CellIndex(c, p)
             /\ Out(p).count = NewCount(c, p)
  BY DEF PoolCell
<1>5. ASSUME NEW p \in Using(c), ~test(c).create
      PROVE  \E cell \in CellsMade(All) :
                /\ OutPoint(cell) = OutPoint(snapshot[c][p]) /\ cell.pool = p
                /\ cell.count = snapshot[c][p].count
  <2>1. PICK cell \in CellsOf(p, All) : OutPoint(cell) = OutPoint(snapshot[c][p])
    BY <1>1, <1>5 DEF Accepted, All
  <2>2. cell \in CellsMade(All) /\ cell.pool = p BY Live
  <2> QED BY <1>1, <2>1, <2>2 DEF IInv, SnapshotRightOrDead, All
<1> HIDE DEF t, Out
<1>6. \A out \in t.outputs :
         /\ out \in CellSet /\ out.tx = next_tx
         /\ out.count = NewCount(c, out.pool)
  BY <1>2, <1>3, <1>4
<1>7. \A a, b \in t.outputs : a.pool = b.pool \/ a.index = b.index => a = b
  <2> SUFFICES ASSUME NEW p \in Using(c), NEW q \in Using(c),
                      p = q \/ CellIndex(c, p) = CellIndex(c, q)
               PROVE  p = q
    BY <1>2, <1>4
  <2> QED BY <1>1, IndexOfPool
<1>8. \A i \in t.inputs : i[1] \in 0 .. next_tx - 1
  <2> SUFFICES ASSUME NEW p \in Using(c) PROVE OutPoint(snapshot[c][p])[1] \in 0 .. next_tx - 1
    BY <1>2
  <2>1. snapshot[c][p].tx \in Nat BY <1>1 DEF TypeOK, CellSet
  <2> QED BY <1>1, <2>1 DEF InputsKnown, OutPoint
<1>9. Pending(t)
  <2>1. ASSUME NEW cell \in CellsMade(All), OutPoint(cell) \in t.inputs
        PROVE  \E out \in t.outputs : out.pool = cell.pool /\ out.count = cell.count + 1
    <3>1. ~test(c).create BY <1>2, <2>1
    <3>2. PICK p \in Using(c) : OutPoint(cell) = OutPoint(snapshot[c][p])
      BY <1>2, <2>1, <3>1
    <3>3. PICK right \in CellsMade(All) :
             /\ OutPoint(right) = OutPoint(snapshot[c][p]) /\ right.pool = p
             /\ right.count = snapshot[c][p].count
      BY <1>5, <3>1
    <3>4. cell = right BY <1>1, <3>2, <3>3, CellAt
    <3>5. Out(p) \in t.outputs /\ NewCount(c, p) = snapshot[c][p].count + 1
      BY <1>2, <3>1 DEF NewCount
    <3> QED BY <1>4, <3>3, <3>4, <3>5
  <2>2. CASE test(c).create
    <3>1. t.inputs = {} /\ \A p : NewCount(c, p) = 0 BY <1>2, <2>2 DEF NewCount
    <3> QED BY <1>6, <2>1, <3>1 DEF Pending
  <2>3. CASE ~test(c).create
    <3>1. ASSUME NEW out \in t.outputs
          PROVE  \E cell \in CellsMade(All) : OutPoint(cell) \in t.inputs /\ cell.pool = out.pool
      <4>1. PICK p \in Using(c) : out = Out(p) BY <1>2
      <4>2. OutPoint(snapshot[c][p]) \in t.inputs BY <1>2, <2>3
      <4> QED BY <1>4, <1>5, <2>3, <4>1, <4>2
    <3> QED BY <2>1, <3>1 DEF Pending
  <2> QED BY <1>1, <2>2, <2>3
<1>10. \A out \in t.outputs : out.pool \in Using(c) BY <1>2, <1>4
<1>11. ~test(c).create => \A out \in t.outputs :
          \E cell \in CellsMade(All) : cell.pool = out.pool
  BY <1>5, <1>10
<1> QED BY <1>2, <1>6, <1>7, <1>8, <1>9, <1>10, <1>11 DEF t

\* A transaction more, whose inputs are older than it, changes nothing for the
\* others.
LEMMA SendStep ==
    ASSUME IInv, NEW c \in Client, Send(c)
    PROVE  IInv'
<1> DEFINE t == Transaction(c)
<1>1. /\ TypeOK /\ ~Ended(c) /\ Accepted(c) /\ OutputsDistinct /\ InputsKnown
      /\ next_tx \in Nat /\ next_tx > 0 /\ next_tx' = next_tx + 1
      /\ chain' = chain /\ suite' = suite /\ results' = results
      /\ mempool' = mempool \union {t} /\ All' = All \union {t}
      /\ snapshot' = [snapshot EXCEPT ![c] = Advanced(c, next_tx)]
  <2>1. Cardinality(Pools) \in Nat BY ClientsAssumption, FS_CardinalityType
  <2> QED BY <2>1 DEF IInv, Send, TypeOK, All
<1>2. /\ t.id = next_tx
      /\ \A out \in t.outputs :
            /\ out \in CellSet /\ out.tx = next_tx
            /\ out.count = NewCount(c, out.pool)
      /\ \A a, b \in t.outputs : a.pool = b.pool \/ a.index = b.index => a = b
      /\ \A i \in t.inputs : i[1] \in 0 .. next_tx - 1
      /\ Pending(t)
      /\ ~test(c).create => \A out \in t.outputs :
            \E cell \in CellsMade(All) : cell.pool = out.pool
      /\ \A out \in t.outputs : out.pool \in Using(c)
  BY <1>1, SentTransaction
<1> HIDE DEF t
<1>3. Knows(c, next_tx)
  BY <1>1, AdvancedSnapshot
<1>4. \A cell \in CellsMade(All) : cell.tx < next_tx
  BY <1>1, Made DEF OutputsDistinct
<1>5. \A cell : cell \in CellsMade(All)' <=> cell \in CellsMade(All) \/ cell \in t.outputs
  BY <1>1, Made DEF CellsMade
<1>6. TypeOK'
  <2>1. \A d \in Client, p \in Pools : snapshot'[d][p].pool = p
    BY <1>3 DEF Knows
  <2>2. polls' = [polls EXCEPT ![c] = next_tx] BY DEF Send
  <2>3. /\ polls' \in [Client -> Nat]
        /\ \A d \in Client : polls'[d] # NoTx => ~Ended(d)'
    BY <1>1, <2>2 DEF TypeOK, Ended
  <2>4. Cardinality(Pools) \in Nat BY ClientsAssumption, FS_CardinalityType
  <2>5. snapshot' \in [Client -> [Pools -> CellSet]] BY <1>3 DEF Knows
  <2> QED BY <1>1, <2>1, <2>3, <2>4, <2>5 DEF TypeOK
<1>7. OutputsDistinct'
  <2>1. \A u \in All : u.id \in 1 .. next_tx - 1 BY <1>1 DEF OutputsDistinct
  <2>2. \A u \in All' : u.id \in 1 .. next_tx' - 1 BY <1>1, <1>2, <2>1
  <2>3. \A u, v \in All' : u.id = v.id => u = v
    BY <1>1, <1>2, <2>1 DEF OutputsDistinct
  <2>4. \A u \in All' : \A cell \in u.outputs : cell \in CellSet /\ cell.tx = u.id
    BY <1>1, <1>2 DEF OutputsDistinct
  <2>5. \A u \in All' : \A a, b \in u.outputs :
           a.pool = b.pool \/ a.index = b.index => a = b
    BY <1>1, <1>2 DEF OutputsDistinct
  <2> QED BY <2>2, <2>3, <2>4, <2>5 DEF OutputsDistinct
<1>8. InputsKnown'
  <2>1. ASSUME NEW u \in All', NEW i \in u.inputs PROVE i[1] \in 0 .. next_tx' - 1
    <3>1. \A v \in All : \A j \in v.inputs : j[1] \in 0 .. next_tx - 1
      BY <1>1 DEF InputsKnown
    <3>2. i[1] \in 0 .. next_tx - 1 BY <1>1, <1>2, <2>1, <3>1
    <3> QED BY <1>1, <3>2
  <2>2. ASSUME NEW d \in Client, NEW p \in Pools PROVE snapshot'[d][p].tx < next_tx'
    <3>1. snapshot[d][p].tx < next_tx /\ snapshot[d][p].tx \in Nat
      BY <1>1 DEF InputsKnown, TypeOK, CellSet
    <3>2. \/ snapshot'[d][p] = snapshot[d][p]
          \/ snapshot'[d][p] =
               PoolCell(p, next_tx, snapshot[d][p].index, NewCount(c, p))
      BY <1>3 DEF Knows
    <3>3. snapshot'[d][p] = snapshot[d][p] \/ snapshot'[d][p].tx = next_tx
      BY <3>2 DEF PoolCell
    <3> QED BY <1>1, <3>1, <3>3
  <2> QED BY <1>1, <2>1, <2>2 DEF InputsKnown, CellsMade
<1>9. SnapshotRightOrDead'
  <2> SUFFICES ASSUME NEW d \in Client, NEW p \in Pools, NEW cell \in CellsMade(All)',
                      cell.pool = p, OutPoint(cell) = OutPoint(snapshot'[d][p])
               PROVE  cell.count = snapshot'[d][p].count
    BY DEF SnapshotRightOrDead, OutPoint, All, CellsMade
  <2>1. cell.tx = snapshot'[d][p].tx /\ cell.index = snapshot'[d][p].index
    BY DEF OutPoint
  <2>2. CASE snapshot'[d][p] = snapshot[d][p]
    <3>1. snapshot[d][p].tx \in Nat /\ snapshot[d][p].tx < next_tx
      BY <1>1 DEF InputsKnown, TypeOK, CellSet
    <3>2. cell.tx # next_tx BY <2>1, <2>2, <3>1, <1>1
    <3>3. cell \in CellsMade(All) BY <1>2, <1>5, <3>2
    <3> QED BY <2>2, <3>3 DEF IInv, SnapshotRightOrDead, All, OutPoint
  <2>3. CASE /\ d = c /\ p \in Using(c)
             /\ snapshot'[d][p] =
                  PoolCell(p, next_tx, snapshot[d][p].index, NewCount(c, p))
    <3>1. cell.tx = next_tx /\ snapshot'[d][p].count = NewCount(c, p)
      BY <2>1, <2>3, Fields
    <3>2. cell \notin CellsMade(All) BY <1>1, <1>4, <3>1
    <3>3. cell \in t.outputs BY <1>5, <3>2
    <3> QED BY <1>2, <2>3, <3>1, <3>3
  <2> QED BY <1>3, <2>2, <2>3 DEF Knows
<1>10. MempoolRight'
  <2> SUFFICES ASSUME NEW u \in mempool' PROVE Pending(u)'
    BY DEF MempoolRight
  <2>1. Pending(u) /\ \A i \in u.inputs : i[1] \in 0 .. next_tx - 1
    BY <1>1, <1>2 DEF IInv, MempoolRight, InputsKnown, All
  <2>2. ASSUME NEW cell \in CellsMade(All)', OutPoint(cell) \in u.inputs
        PROVE  cell \in CellsMade(All)
    <3>1. cell.tx \in 0 .. next_tx - 1 BY <2>1, <2>2 DEF OutPoint
    <3>2. cell.tx # next_tx BY <1>1, <3>1
    <3> QED BY <1>2, <1>5, <2>2, <3>2
  <2>3. \A cell \in CellsMade(All) : cell \in CellsMade(All)' BY <1>5
  <2> QED BY <2>1, <2>2, <2>3 DEF Pending, OutPoint
<1>11. \A p \in Pools : Counted(p)' BY <1>1, SameChain DEF IInv
<1>12. CreatedOnce'
  <2> DEFINE k == Len(results[c]) + 1
  <2>1. /\ CreatedOnce /\ k \in DOMAIN suite[c] /\ test(c) = suite[c][k]
        /\ k \in Nat /\ Begun(c) = k - 1 /\ Begun(c)' = k
        /\ Using(c) = Range(suite[c][k].pools) /\ Using(c) \subseteq Pools
    <3>1. polls[c] = NoTx /\ polls'[c] = next_tx BY <1>1 DEF Send, TypeOK
    <3>2. Len(results[c]) \in Nat BY <1>1 DEF TypeOK
    <3>3. Begun(c) = k - 1 BY <3>1, <3>2 DEF Begun
    <3>4. Begun(c)' = k
      <4>1. next_tx # NoTx /\ results'[c] = results[c] BY <1>1 DEF NoTx
      <4> QED BY <3>1, <3>2, <4>1 DEF Begun
    <3>5. /\ k \in DOMAIN suite[c] /\ test(c) = suite[c][k]
          /\ Using(c) \subseteq Pools
      BY <1>1, Uses
    <3> QED BY <3>2, <3>3, <3>4, <3>5 DEF IInv, Using
  <2> HIDE DEF k
  \* The pool that it creates has no cell yet.
  <2>2. ASSUME test(c).create, NEW p \in Using(c), NEW cell \in CellsMade(All)
        PROVE  cell.pool # p
    BY <2>1, <2>2 DEF CreatedOnce
  <2>3. ASSUME NEW p \in Pools, Creates(t, p)
        PROVE  /\ \A u \in All : \A out \in u.outputs : out.pool # p
               /\ Updates(p)' = {}
    <3>1. p \in Using(c) BY <1>2, <2>3 DEF Creates
    <3>2. test(c).create
      <4>1. PICK out \in t.outputs : out.pool = p BY <2>3 DEF Creates
      <4> SUFFICES ASSUME ~test(c).create PROVE FALSE
        OBVIOUS
      <4>2. OutPoint(snapshot[c][p]) \in t.inputs
        BY <3>1, Uses, <1>1 DEF t, Transaction
      <4> QED BY <2>3, <4>2 DEF Creates
    <3>3. \A u \in All : \A out \in u.outputs : out.pool # p BY <2>2, <3>1, <3>2, Made
    <3> QED BY <1>1, <3>3 DEF Updates, All
  <2>4. ASSUME NEW u \in All', NEW v \in All', NEW p \in Pools,
               Creates(u, p), Creates(v, p)
        PROVE  u = v
    BY <1>1, <2>1, <2>3, <2>4 DEF CreatedOnce, Creates
  <2>5. ASSUME NEW u \in mempool', NEW p \in Pools, Creates(u, p)
        PROVE  Updates(p)' = {}
    <3>1. CASE u = t BY <2>3, <2>5, <3>1
    <3>2. CASE u \in mempool
      BY <1>1, <2>1, <2>5, <3>2 DEF CreatedOnce, Updates
    <3> QED BY <1>1, <3>1, <3>2
  <2>6. ASSUME NEW d \in Client, NEW j \in DOMAIN suite[d], suite[d][j].create,
               NEW cell \in CellsMade(All)', cell.pool \in Range(suite[d][j].pools)
        PROVE  j <= Begun(d)'
    <3>1. j \in Nat /\ Begun(d) \in Nat
      <4>1. suite[d] \in Seq(TestSet) BY <1>1, ClientsAssumption DEF TypeOK
      <4> QED BY <1>1, <4>1, BegunType
    <3>2. Begun(d)' = Begun(d) \/ (d = c /\ Begun(d)' = Begun(d) + 1)
      <4>1. CASE d = c BY <2>1, <4>1
      <4>2. CASE d # c
        <5>1. polls'[d] = polls[d] BY <1>1, <4>2 DEF Send, TypeOK
        <5> QED BY <1>1, <5>1 DEF Begun
      <4> QED BY <4>1, <4>2
    <3>3. CASE \E old \in CellsMade(All) : old.pool = cell.pool
      <4>1. j <= Begun(d) BY <2>1, <2>6, <3>3 DEF CreatedOnce
      <4> QED BY <3>1, <3>2, <4>1
    <3>4. CASE \A old \in CellsMade(All) : old.pool # cell.pool
      <4>1. cell \in t.outputs BY <1>5, <3>4
      <4>2. test(c).create /\ cell.pool \in Using(c) BY <1>2, <3>4, <4>1
      <4>3. d = c /\ j = k BY <1>1, <2>1, <2>6, <4>2, OneCreation
      <4> QED BY <2>1, <4>3
    <3> QED BY <3>3, <3>4
  <2>7. \A u, p : Creates(u, p)' <=> Creates(u, p) BY DEF Creates
  <2> QED BY <1>1, <2>4, <2>5, <2>6, <2>7 DEF CreatedOnce
<1> QED BY <1>6, <1>7, <1>8, <1>9, <1>10, <1>11, <1>12 DEF IInv

-----------------------------------------------------------------------------
\* What goes from the node's pool into the chain.
LEMMA CommitStep ==
    ASSUME IInv, Commit
    PROVE  IInv'
<1>1. PICK t \in mempool :
         /\ t.inputs \subseteq LiveOutPoints(chain)
         /\ chain' = chain \union {t} /\ mempool' = mempool \ {t}
         /\ UNCHANGED <<suite, next_tx, drops, snapshot, polls, results>>
  BY DEF Commit
<1>2. /\ TypeOK /\ OutputsDistinct /\ InputsKnown /\ Pending(t)
      /\ t \in All /\ chain \subseteq All
  BY DEF IInv, MempoolRight, All
<1>3. All' = All /\ CellsMade(All)' = CellsMade(All) BY <1>1 DEF All, CellsMade
<1>4. \A i : i \in LiveOutPoints(chain) =>
         /\ i \notin OutPointsSpent(chain)
         /\ \E cell \in CellsMade(chain) : OutPoint(cell) = i
  BY DEF LiveOutPoints, Unspent
<1>5. TypeOK' BY <1>1, <1>2 DEF TypeOK, Ended
<1>6. OutputsDistinct' BY <1>1, <1>2, <1>3 DEF OutputsDistinct
<1>7. InputsKnown'
  <2>1. \A cell \in CellsMade(chain) : cell \in CellsMade(chain)'
    BY <1>1 DEF CellsMade
  <2>2. \A u \in chain' : u.inputs \subseteq {OutPoint(cell) : cell \in CellsMade(chain)}
    BY <1>1, <1>2, <1>4 DEF InputsKnown
  <2>3. \A u \in chain' : u.inputs \subseteq {OutPoint(cell) : cell \in CellsMade(chain)}'
    BY <2>1, <2>2 DEF OutPoint
  <2>4. \A u \in All' : \A i \in u.inputs : i[1] \in 0 .. next_tx' - 1
    BY <1>1, <1>2, <1>3 DEF InputsKnown
  <2>5. \A c \in Client, p \in Pools : snapshot'[c][p].tx < next_tx'
    BY <1>1, <1>2 DEF InputsKnown
  <2> QED BY <2>3, <2>4, <2>5 DEF InputsKnown
<1>8. SnapshotRightOrDead'
  BY <1>1, <1>3 DEF IInv, SnapshotRightOrDead, All, OutPoint
<1>9. MempoolRight'
  <2>1. \A u : Pending(u)' <=> Pending(u) BY <1>3 DEF Pending, OutPoint
  <2> QED BY <1>1, <2>1 DEF IInv, MempoolRight
<1>10. ASSUME NEW p \in Pools PROVE Counted(p)'
  <2>1. \A cell : cell \in CellsMade(chain)' <=>
           cell \in CellsMade(chain) \/ cell \in t.outputs
    BY <1>1 DEF CellsMade
  <2>2. \A i : i \in OutPointsSpent(chain)' <=> i \in OutPointsSpent(chain) \/ i \in t.inputs
    BY <1>1 DEF OutPointsSpent
  <2>3. \A cell : cell \in CellsOf(p, chain)' <=>
           /\ cell \in CellsMade(chain) \/ cell \in t.outputs
           /\ cell.pool = p
           /\ OutPoint(cell) \notin OutPointsSpent(chain) /\ OutPoint(cell) \notin t.inputs
    BY <2>1, <2>2 DEF CellsOf, Unspent, OutPoint
  <2>4. CASE \A out \in t.outputs : out.pool # p
    <3>1. Updates(p)' = Updates(p) BY <1>1, <2>4 DEF Updates
    <3>2. ASSUME NEW cell \in CellsMade(chain), cell.pool = p PROVE OutPoint(cell) \notin t.inputs
      BY <1>2, <2>4, <3>2 DEF Pending, CellsMade
    <3>3. \A cell : cell \in CellsOf(p, chain)' <=> cell \in CellsOf(p, chain)
      BY <2>3, <2>4, <3>2, Live
    <3>4. CellsOf(p, chain)' = CellsOf(p, chain)
      BY <3>3 DEF CellsOf
    <3> QED BY <3>1, <3>4 DEF IInv, Counted
  <2>5. ASSUME NEW out \in t.outputs, out.pool = p, t.inputs = {} PROVE Counted(p)'
    \* It creates the pool.
    <3>1. Updates(p) = {} BY <1>2, <2>5 DEF IInv, CreatedOnce, Creates
    <3>2. Updates(p)' = {t} BY <1>1, <2>5, <3>1 DEF Updates
    <3>3. \A cell \in CellsMade(chain) : cell.pool # p BY <3>1, Made DEF Updates
    <3>4. out \in CellsOf(p, chain)'
      <4>1. OutPoint(out) \notin OutPointsSpent(chain)
        <5> SUFFICES ASSUME OutPoint(out) \in OutPointsSpent(chain) PROVE FALSE
          OBVIOUS
        <5>1. PICK u \in chain : OutPoint(out) \in u.inputs BY Spent
        <5>2. PICK cell \in CellsMade(chain) : OutPoint(cell) = OutPoint(out)
          BY <1>2, <5>1 DEF InputsKnown
        <5>3. cell \in CellsMade(All) /\ out \in CellsMade(All)
          BY <1>2, <2>5, <5>2, Made
        <5>4. cell = out BY <1>2, <5>2, <5>3, CellAt
        <5> QED BY <2>5, <3>3, <5>4
      <4> QED BY <2>3, <2>5, <4>1
    <3>5. ASSUME NEW cell \in CellsOf(p, chain)' PROVE cell = out
      BY <1>2, <2>3, <2>5, <3>3, <3>5 DEF OutputsDistinct
    <3>6. CellsOf(p, chain)' = {out} BY <3>4, <3>5
    <3>7. out.count = 0 BY <1>2, <2>5 DEF Pending
    <3>8. IsFiniteSet(Updates(p)') /\ Cardinality(Updates(p)') = 1
      BY <3>2, FS_Singleton
    <3> QED BY <3>6, <3>7, <3>8 DEF Counted
  <2>6. ASSUME NEW out \in t.outputs, out.pool = p, t.inputs # {} PROVE Counted(p)'
    \* The cell that the transaction consumes is the pool's only one.
    <3>1. PICK old \in CellsMade(All) : OutPoint(old) \in t.inputs /\ old.pool = p
      BY <1>2, <2>6 DEF Pending
    <3>2. PICK made \in CellsMade(chain) : OutPoint(made) = OutPoint(old)
      BY <1>1, <1>4, <3>1
    <3>3. old \in CellsOf(p, chain)
      <4>1. made \in CellsMade(All) BY <1>2, <3>2, Made
      <4>2. made = old BY <1>2, <3>1, <3>2, <4>1, CellAt
      <4> QED BY <1>1, <1>4, <3>1, <3>2, <4>2, Live
    <3>4. PICK u \in chain : old \in u.outputs BY <3>3, Live, Made
    <3>5. u \in Updates(p) BY <3>1, <3>4 DEF Updates
    <3>6. /\ CellsOf(p, chain) = {old} /\ old.count = Cardinality(Updates(p)) - 1
          /\ IsFiniteSet(Updates(p))
      BY <3>3, <3>5 DEF IInv, Counted
    <3>7. out.count = old.count + 1
      BY <1>2, <2>6, <3>1 DEF Pending, OutputsDistinct
    \* It is new, for what it consumes was not spent.
    <3>8. t \notin chain BY <1>1, <1>4, <3>1, Spent
    <3>9. /\ Updates(p)' = Updates(p) \union {t} /\ t \notin Updates(p)
      BY <1>1, <2>6, <3>8 DEF Updates
    <3>10. /\ IsFiniteSet(Updates(p)') /\ Cardinality(Updates(p)) \in Nat
           /\ Cardinality(Updates(p)') = Cardinality(Updates(p)) + 1
      BY <3>6, <3>9, FS_AddElement, FS_CardinalityType
    <3>11. \A cell \in CellsMade(chain) : OutPoint(cell) # OutPoint(out)
      <4> SUFFICES ASSUME NEW cell \in CellsMade(chain), OutPoint(cell) = OutPoint(out)
                   PROVE  FALSE
        OBVIOUS
      <4>1. PICK v \in chain : cell \in v.outputs BY Made
      <4>2. v.id = t.id
        BY <1>2, <2>6, <4>1 DEF OutputsDistinct, OutPoint
      <4> QED BY <1>2, <3>8, <4>1, <4>2 DEF OutputsDistinct
    <3>12. /\ OutPoint(out) \notin OutPointsSpent(chain)
           /\ OutPoint(out) \notin t.inputs
      BY <1>1, <1>2, <1>4, <3>11, Spent DEF InputsKnown
    <3>13. ASSUME NEW cell \in CellsOf(p, chain)' PROVE cell = out
      <4>1. CASE cell \in CellsMade(chain)
        <5>1. cell = old BY <2>3, <3>6, <3>13, <4>1, Live
        <5> QED BY <2>3, <3>1, <3>13, <5>1
      <4>2. CASE cell \in t.outputs
        BY <1>2, <2>3, <2>6, <3>13, <4>2 DEF OutputsDistinct
      <4> QED BY <2>3, <3>13, <4>1, <4>2
    <3>14. out \in CellsOf(p, chain)' BY <2>3, <2>6, <3>12
    <3>15. CellsOf(p, chain)' = {out} BY <3>13, <3>14
    <3>16. out.count = Cardinality(Updates(p)') - 1 BY <3>6, <3>7, <3>10
    <3> QED BY <3>10, <3>15, <3>16 DEF Counted
  <2> QED BY <2>4, <2>5, <2>6
<1>11. CreatedOnce'
  <2>1. CreatedOnce /\ \A u, p : Creates(u, p)' <=> Creates(u, p)
    BY DEF IInv, Creates
  <2>2. ASSUME NEW u \in mempool', NEW p \in Pools, Creates(u, p)
        PROVE  Updates(p)' = {}
    <3>1. Updates(p) = {} /\ u \in All /\ u # t BY <1>1, <2>1, <2>2 DEF CreatedOnce, All
    <3>2. ASSUME NEW out \in t.outputs, out.pool = p PROVE FALSE
      <4>1. CASE t.inputs = {}
        <5>1. Creates(t, p) BY <3>2, <4>1 DEF Creates
        <5> QED BY <1>2, <2>1, <2>2, <3>1, <5>1 DEF CreatedOnce
      <4>2. CASE t.inputs # {}
        <5>1. PICK old \in CellsMade(All) : OutPoint(old) \in t.inputs /\ old.pool = p
          BY <1>2, <3>2, <4>2 DEF Pending
        <5>2. PICK made \in CellsMade(chain) : OutPoint(made) = OutPoint(old)
          BY <1>1, <1>4, <5>1
        <5>3. made \in CellsMade(All) BY <1>2, <5>2, Made
        <5>4. made = old BY <1>2, <5>1, <5>2, <5>3, CellAt
        <5> QED BY <3>1, <5>1, <5>2, <5>4, Made DEF Updates
      <4> QED BY <4>1, <4>2
    <3> QED BY <1>1, <3>1, <3>2 DEF Updates
  <2>3. \A d \in Client : Begun(d)' = Begun(d) BY <1>1 DEF Begun
  <2> QED BY <1>1, <1>3, <2>1, <2>2, <2>3 DEF CreatedOnce
<1> QED BY <1>5, <1>6, <1>7, <1>8, <1>9, <1>10, <1>11 DEF IInv

-----------------------------------------------------------------------------
\* What the node drops takes along all that was computed from it.
LEMMA DropStep ==
    ASSUME IInv, Drop
    PROVE  IInv'
<1>1. PICK dropped \in SUBSET mempool :
         /\ \A t \in mempool \ dropped :
              t.inputs \intersect {OutPoint(cell) : cell \in CellsMade(dropped)} = {}
         /\ mempool' = mempool \ dropped
  BY DEF Drop
<1>2. /\ TypeOK /\ OutputsDistinct /\ InputsKnown /\ All' \subseteq All
      /\ UNCHANGED <<suite, chain, next_tx, snapshot, polls, results>>
  BY <1>1 DEF IInv, Drop, All
<1>3. \A cell : cell \in CellsMade(All)' => cell \in CellsMade(All)
  BY <1>2 DEF CellsMade
<1>4. TypeOK' BY <1>2 DEF TypeOK, Ended
<1>5. OutputsDistinct' BY <1>2 DEF OutputsDistinct
<1>6. InputsKnown' BY <1>2 DEF InputsKnown, CellsMade
<1>7. SnapshotRightOrDead'
  BY <1>2, <1>3 DEF IInv, SnapshotRightOrDead, All, OutPoint
<1>8. MempoolRight'
  <2> SUFFICES ASSUME NEW t \in mempool' PROVE Pending(t)'
    BY DEF MempoolRight
  <2>1. Pending(t) /\ t \in mempool \ dropped BY <1>1 DEF IInv, MempoolRight
  <2>2. ASSUME NEW cell \in CellsMade(All), OutPoint(cell) \in t.inputs
        PROVE  cell \in CellsMade(All)'
    <3>1. cell \notin CellsMade(dropped) BY <1>1, <2>1, <2>2
    <3>2. PICK u \in All : cell \in u.outputs BY Made
    <3>3. u \in All' BY <1>1, <1>2, <3>1, <3>2, Made DEF All
    <3> QED BY <3>2, <3>3 DEF CellsMade
  <2> QED BY <1>3, <2>1, <2>2 DEF Pending, OutPoint
<1>9. \A p \in Pools : Counted(p)' BY <1>2, SameChain DEF IInv
<1>10. CreatedOnce'
  <2>1. /\ CreatedOnce /\ \A u, p : Creates(u, p)' <=> Creates(u, p)
        /\ mempool' \subseteq mempool
    BY <1>1 DEF IInv, Creates
  <2>2. \A p : Updates(p)' = Updates(p) BY <1>2 DEF Updates
  <2>3. \A d \in Client : Begun(d)' = Begun(d) BY <1>2 DEF Begun
  <2> QED BY <1>2, <1>3, <2>1, <2>2, <2>3 DEF CreatedOnce
<1> QED BY <1>4, <1>5, <1>6, <1>7, <1>8, <1>9, <1>10 DEF IInv

\* The invariant.
THEOREM Inductive == Spec => []IInv
<1>1. ASSUME IInv, [Next]_vars PROVE IInv'
  <2>1. ASSUME NEW c \in Client, Step(c) PROVE IInv'
    BY <1>1, <2>1, SendStep, SendNothingStep, QuietSteps DEF Step
  <2>2. CASE Commit BY <1>1, <2>2, CommitStep
  <2>3. CASE Drop BY <1>1, <2>3, DropStep
  <2>4. CASE UNCHANGED vars
    <3>1. TypeOK' /\ \A c \in Client : Begun(c)' = Begun(c) /\ Begun(c) \in Nat
      BY <1>1, <2>4, BegunType DEF IInv, TypeOK, vars, Ended, Begun
    <3> QED BY <1>1, <2>4, <3>1, QuietStep DEF vars
  <2> QED BY <1>1, <2>1, <2>2, <2>3, <2>4 DEF Next
<1> QED BY <1>1, InitIInv, PTL DEF Spec

-----------------------------------------------------------------------------
\* However many clients use whichever pools, and whatever the node drops of
\* what they sent: the live cell of a pool counts every transaction that went
\* through it (NoLostUpdate).  No client reads a pool again; it is the
\* out-point alone that keeps an update off other numbers than its own.
THEOREM NothingLost == Spec => []NoLostUpdate
<1>1. IInv => NoLostUpdate
  <2> SUFFICES ASSUME IInv, NEW p \in Pools, Updates(p) # {}
               PROVE  \E cell \in CellsOf(p, chain) :
                         /\ cell.count = Cardinality(Updates(p)) - 1
                         /\ CellsOf(p, chain) = {cell}
    BY DEF NoLostUpdate, Updates
  <2> QED BY DEF IInv, Counted
<1> QED BY <1>1, Inductive, PTL

\* And no client ever holds wrong numbers for a cell that exists
\* (SnapshotRightOrDead), so none computes an update from them.
THEOREM NeverBuiltOnWrongNumbers == Spec => []SnapshotRightOrDead
<1>1. IInv => SnapshotRightOrDead BY DEF IInv
<1> QED BY <1>1, Inductive, PTL

-----------------------------------------------------------------------------
\* A client that nothing disturbs: where its snapshots point, its pools are.

Reached(c, p) == \E cell \in CellsOf(p, All) : OutPoint(cell) = OutPoint(snapshot[c][p])

\* The pools that exist for a client, and those whose cell its last
\* transaction with them left at another index than the snapshot says.
Known(c, p) ==
    \/ p \notin CreatedBy(suite, c)
    \/ \E k \in 1 .. Begun(c) : suite[c][k].create /\ p \in Range(suite[c][k].pools)
Mislaid(c, p) ==
    \E k \in 1 .. Begun(c) : /\ p \in Range(suite[c][k].pools)
                            /\ suite[c][k].pools[Len(suite[c][k].pools)] # p

Follows(c) ==
    /\ "refused" \notin Range(results[c])
    /\ \A p \in UsedBy(suite, c) : Known(c, p) /\ ~Mislaid(c, p) => Reached(c, p)

NInv == /\ drops \in Nat
        /\ \A c \in Client, p \in Pools : snapshot[c][p].index = 0
        /\ \A c \in Client : Undisturbed(c) => Follows(c)

\* It does not depend on what others do, as long as its cells are there.
LEMMA GoesOn ==
    ASSUME NEW c \in Client, Follows(c), suite' = suite, Begun(c)' = Begun(c),
           snapshot'[c] = snapshot[c], "refused" \notin Range(results'[c]),
           \A p \in UsedBy(suite, c) : CellsOf(p, All) \subseteq CellsOf(p, All)'
    PROVE  Follows(c)'
<1>1. ASSUME NEW p \in UsedBy(suite, c), Known(c, p)', ~Mislaid(c, p)'
      PROVE  Reached(c, p)'
  <2>1. Known(c, p) /\ ~Mislaid(c, p)
    BY <1>1 DEF Known, Mislaid, CreatedBy
  <2>2. PICK cell \in CellsOf(p, All) : OutPoint(cell) = OutPoint(snapshot[c][p])
    BY <1>1, <2>1 DEF Follows, Reached
  <2>3. cell \in CellsOf(p, All)' /\ OutPoint(cell) = OutPoint(snapshot'[c][p])
    BY <1>1, <2>2
  <2> QED BY <2>3 DEF Reached, OutPoint
<1> QED BY <1>1 DEF Follows, UsedBy

\* Who is undisturbed, was.
LEMMA WasUndisturbed ==
    ASSUME NEW c \in Client, suite' = suite, drops' = 0 => drops = 0,
           Range(results[c]) \subseteq Range(results'[c]), Undisturbed(c)'
    PROVE  Undisturbed(c)
BY DEF Undisturbed, UsedBy

\* What a client uses is a pool.
LEMMA UsedPools ==
    ASSUME TypeOK, NEW c \in Client, NEW p \in UsedBy(suite, c)
    PROVE  p \in Pools
<1>1. \A j \in DOMAIN suite[c] : suite[c][j] \in TestSet
  <2>1. suite[c] \in Seq(TestSet) BY ClientsAssumption DEF TypeOK
  <2> QED BY <2>1
<1>2. PICK j \in DOMAIN suite[c] : p \in Range(suite[c][j].pools)
  BY DEF UsedBy
<1>3. suite[c][j].pools \in Seq(Pools)
  BY <1>1, <1>2 DEF TestSet
<1> QED BY <1>2, <1>3 DEF Range

\* The tests of a client that go on use pools that it uses.
LEMMA UsingUsed ==
    ASSUME TypeOK, NEW c \in Client, ~Ended(c)
    PROVE  Using(c) \subseteq UsedBy(suite, c)
<1>1. Len(results[c]) + 1 \in DOMAIN suite[c] /\ test(c) = suite[c][Len(results[c]) + 1]
  BY Uses
<1> QED BY <1>1 DEF UsedBy, Using

\* A test consumes the cells of its own pools.
LEMMA SpendsOwn ==
    ASSUME IInv, NEW c \in Client, ~Ended(c), Accepted(c),
           NEW cell \in CellsMade(All), OutPoint(cell) \in Transaction(c).inputs
    PROVE  cell.pool \in Using(c)
<1>1. ~test(c).create
  BY DEF Transaction
<1>2. PICK p \in Using(c) : OutPoint(cell) = OutPoint(snapshot[c][p])
  BY <1>1 DEF Transaction
<1>3. PICK right \in CellsOf(p, All) : OutPoint(right) = OutPoint(snapshot[c][p])
  BY <1>1, <1>2 DEF Accepted, All
<1>4. right \in CellsMade(All) /\ right.pool = p
  BY Live
<1>5. OutputsDistinct
  BY DEF IInv
<1>6. cell = right
  BY <1>2, <1>3, <1>4, <1>5, CellAt
<1> QED BY <1>2, <1>4, <1>6

\* The last leg of a transaction is its first output.
LEMMA LastIsFirst ==
    ASSUME TypeOK, NEW c \in Client, ~Ended(c),
           NEW p \in Using(c), test(c).pools[Len(test(c).pools)] = p
    PROVE  CellIndex(c, p) = 0
<1> DEFINE pools == test(c).pools
           After == {k \in DOMAIN pools : \E j \in 1 .. k - 1 : pools[j] = p}
<1>1. pools \in Seq(Pools) /\ IsInjective(pools)
  BY Uses
<1>2. After = {}
  <2> SUFFICES ASSUME NEW k \in DOMAIN pools, NEW j \in 1 .. k - 1, pools[j] = p
               PROVE  FALSE
    OBVIOUS
  <2>0. pools[Len(pools)] = p
    OBVIOUS
  <2> HIDE DEF pools
  <2>1. /\ Len(pools) \in Nat /\ DOMAIN pools = 1 .. Len(pools)
        /\ j \in 1 .. Len(pools) /\ j < Len(pools)
    BY <1>1
  <2>2. Len(pools) \in DOMAIN pools /\ j \in DOMAIN pools
    BY <2>1
  <2>3. j = Len(pools)
    BY <1>1, <2>0, <2>2 DEF IsInjective
  <2> QED BY <2>1, <2>3
<1>3. CellIndex(c, p) = 3 * Cardinality(After)
  BY DEF CellIndex
<1>4. Cardinality(After) = 0
  BY <1>2, FS_EmptySet, Zenon
<1> HIDE DEF After
<1> QED BY <1>3, <1>4

\* An undisturbed client finds its test accepted.
LEMMA AcceptsNext ==
    ASSUME IInv, NEW c \in Client, ~Ended(c), polls[c] = NoTx, Follows(c), InOrder(suite)
    PROVE  Accepted(c)
<1> DEFINE k == Len(results[c]) + 1
<1>1. /\ TypeOK /\ k \in DOMAIN suite[c] /\ test(c) = suite[c][k]
      /\ Using(c) = Range(suite[c][k].pools)
  BY Uses DEF IInv, Using
<1>2. k \in Nat /\ Begun(c) = k - 1
  BY <1>1 DEF TypeOK, Begun
<1> HIDE DEF k
<1> SUFFICES ASSUME ~test(c).create, NEW p \in Using(c) PROVE Reached(c, p)
  BY DEF Accepted, Reached, All
<1>3. Known(c, p)
  <2>1. CASE p \in CreatedBy(suite, c)
    <3>1. PICK j \in 1 .. k : suite[c][j].create /\ p \in Range(suite[c][j].pools)
      BY <1>1, <2>1 DEF InOrder
    <3>2. j # k
      BY <1>1, <3>1
    <3>3. j \in 1 .. Begun(c)
      BY <1>2, <3>1, <3>2
    <3> QED BY <3>1, <3>3 DEF Known
  <2> QED BY <2>1 DEF Known
<1>4. ~Mislaid(c, p)
  <2>1. \A j \in 1 .. k - 1 : p \in Range(suite[c][j].pools) =>
           suite[c][j].pools[Len(suite[c][j].pools)] = p
    <3>1. k \in DOMAIN suite[c] /\ p \in Range(suite[c][k].pools)
      BY <1>1
    <3> QED BY <3>1 DEF InOrder
  <2>2. 1 .. Begun(c) = 1 .. k - 1
    BY <1>2
  <2> QED BY <2>1, <2>2, Zenon DEF Mislaid
<1>5. p \in UsedBy(suite, c)
  BY <1>1, UsingUsed
<1> QED BY <1>3, <1>4, <1>5 DEF Follows

\* Its own transaction takes its pools to where the snapshot will say.
LEMMA SendsOn ==
    ASSUME IInv, NEW c \in Client, Send(c), Follows(c),
           \A p \in Pools : snapshot[c][p].index = 0
    PROVE  Follows(c)'
<1> DEFINE t == Transaction(c)
           k == Len(results[c]) + 1
<1>1. /\ TypeOK /\ OutputsDistinct /\ InputsKnown /\ ~Ended(c) /\ Accepted(c)
      /\ next_tx \in Nat /\ next_tx > 0 /\ polls[c] = NoTx /\ polls'[c] = next_tx
      /\ chain' = chain /\ suite' = suite /\ results' = results
      /\ All' = All \union {t} /\ snapshot'[c] = Advanced(c, next_tx)
  <2>1. Cardinality(Pools) \in Nat BY ClientsAssumption, FS_CardinalityType
  <2> QED BY <2>1 DEF IInv, Send, TypeOK, All
<1>2. /\ k \in DOMAIN suite[c] /\ test(c) = suite[c][k]
      /\ Using(c) = Range(suite[c][k].pools)
      /\ Using(c) \subseteq Pools /\ test(c).create \in BOOLEAN
  BY <1>1, Uses DEF Using
<1>3. k \in Nat /\ Begun(c) = k - 1 /\ Begun(c)' = k
  BY <1>1 DEF TypeOK, Begun, NoTx
<1>4. /\ \A i \in t.inputs : i[1] \in 0 .. next_tx - 1
      /\ t.outputs = {PoolCell(p, next_tx, CellIndex(c, p), NewCount(c, p)) : p \in Using(c)}
  BY <1>1, SentTransaction DEF Transaction, NewCount
<1>5. \A cell \in CellsMade(All) : OutPoint(cell) \in t.inputs => cell.pool \in Using(c)
  BY <1>1, SpendsOwn
<1> HIDE DEF t, k
<1>6. \A cell : cell \in CellsMade(All)' <=> cell \in CellsMade(All) \/ cell \in t.outputs
  BY <1>1, Made DEF CellsMade
<1>7. \A i : i \in OutPointsSpent(All)' <=> i \in OutPointsSpent(All) \/ i \in t.inputs
  BY <1>1, Spent DEF OutPointsSpent
<1>8. \A i \in OutPointsSpent(All) : i[1] \in 0 .. next_tx - 1
  BY <1>1, Spent DEF InputsKnown
<1>9. ASSUME NEW p \in UsedBy(suite, c), Known(c, p)', ~Mislaid(c, p)'
      PROVE  Reached(c, p)'
  <2>1. CASE p \in Using(c)
    <3>1. suite[c][k].pools[Len(suite[c][k].pools)] = p
      <4>1. k \in 1 .. Begun(c)'
        BY <1>3, <1>2, Uses, <1>1 DEF k, TypeOK
      <4> QED BY <1>1, <1>2, <1>9, <2>1, <4>1 DEF Mislaid
    <3>2. CellIndex(c, p) = 0
      BY <1>1, <1>2, <2>1, <3>1, LastIsFirst
    <3> DEFINE out == PoolCell(p, next_tx, 0, NewCount(c, p))
    <3>3. out \in t.outputs
      BY <1>4, <2>1, <3>2
    <3>4. snapshot'[c][p] = [snapshot[c][p] EXCEPT !.tx = next_tx,
                               !.count = IF test(c).create THEN 0 ELSE @ + 1]
      BY <1>1, <1>2, <2>1 DEF Advanced
    <3>5. snapshot[c][p] \in CellSet /\ snapshot[c][p].index = 0
      BY <1>1, <1>2, <2>1 DEF TypeOK
    <3>6. snapshot'[c][p].tx = next_tx /\ snapshot'[c][p].index = 0
      BY <3>4, <3>5 DEF CellSet
    <3>7. OutPoint(out) = OutPoint(snapshot'[c][p]) /\ OutPoint(out)[1] = next_tx
      BY <3>6, Fields DEF OutPoint
    <3>8. OutPoint(out) \notin OutPointsSpent(All)'
      <4>1. ~(next_tx \in 0 .. next_tx - 1)
        BY <1>1
      <4>2. OutPoint(out) \notin OutPointsSpent(All) /\ OutPoint(out) \notin t.inputs
        BY <1>4, <1>8, <3>7, <4>1
      <4> QED BY <1>7, <4>2
    <3>9. out \in CellsMade(All)' /\ out.pool = p
      BY <1>6, <3>3, Fields
    <3> HIDE DEF out
    <3>10. out \in CellsOf(p, All)'
      BY <3>8, <3>9 DEF CellsOf, Unspent, OutPoint
    <3> QED BY <3>7, <3>10 DEF Reached, OutPoint
  <2>2. CASE p \notin Using(c)
    <3>1. Known(c, p) /\ ~Mislaid(c, p)
      <4>1. \A j : j \in 1 .. Begun(c)' <=> j \in 1 .. Begun(c) \/ (j = k /\ k >= 1)
        BY <1>3
      <4> QED BY <1>1, <1>2, <1>9, <2>2, <4>1 DEF Known, Mislaid, CreatedBy
    <3>2. PICK cell \in CellsOf(p, All) : OutPoint(cell) = OutPoint(snapshot[c][p])
      BY <1>9, <3>1 DEF Follows, Reached
    <3>3. /\ cell \in CellsMade(All) /\ cell.pool = p
          /\ OutPoint(cell) \notin OutPointsSpent(All)
      BY <3>2, Live
    <3>4. cell \in CellsMade(All)' /\ OutPoint(cell) \notin OutPointsSpent(All)'
      BY <1>5, <1>6, <1>7, <2>2, <3>3
    <3>5. cell \in CellsOf(p, All)'
      BY <3>3, <3>4 DEF CellsOf, Unspent, OutPoint
    <3>6. snapshot'[c][p] = snapshot[c][p]
      <4>1. p \in Pools
        BY <1>1, <1>9, UsedPools
      <4> QED BY <1>1, <2>2, <4>1 DEF Advanced
    <3> QED BY <3>2, <3>5, <3>6 DEF Reached, OutPoint
  <2> QED BY <2>1, <2>2
<1>10. "refused" \notin Range(results'[c])
  BY <1>1 DEF Follows
<1>11. UsedBy(suite, c)' = UsedBy(suite, c)
  BY <1>1 DEF UsedBy
<1> QED BY <1>9, <1>10, <1>11 DEF Follows

\* The cells of a pool are the same when the transactions are.
LEMMA SameCells ==
    ASSUME All' = All, NEW p
    PROVE  CellsOf(p, All)' = CellsOf(p, All)
BY DEF CellsOf, Unspent, CellsMade, OutPointsSpent, OutPoint

\* Nothing happens to it.
LEMMA Unmoved ==
    ASSUME NEW c \in Client, Follows(c), suite' = suite, All' = All,
           results'[c] = results[c], polls'[c] = polls[c], snapshot'[c] = snapshot[c]
    PROVE  Follows(c)'
<1>1. Begun(c)' = Begun(c)
  BY DEF Begun
<1>2. "refused" \notin Range(results'[c])
  BY DEF Follows
<1> QED BY <1>1, <1>2, SameCells, GoesOn

\* Each step of a client, the node or another client.
LEMMA StepFollows ==
    ASSUME IInv, IInv', NInv, InOrder(suite), [Next]_vars, NEW c \in Client,
           Undisturbed(c)'
    PROVE  Follows(c)'
<1>1. TypeOK /\ suite' = suite /\ drops \in Nat /\ \A p \in Pools : snapshot[c][p].index = 0
  BY DEF IInv, NInv, Next, vars, Step, Send, SendRefused, SendNothing, Confirm, Timeout,
         Commit, Drop, node_vars
<1>2. results[c] \in Seq({"refused", "null", "passed", "timeout"})
  BY <1>1 DEF TypeOK
<1>3. ASSUME NEW result, results'[c] = Append(results[c], result)
      PROVE  Range(results'[c]) = Range(results[c]) \union {result}
  <2>1. \A T : \A s \in Seq(T) : Range(Append(s, result)) = Range(s) \union {result}
    <3> TAKE T
    <3> TAKE s \in Seq(T)
    <3> DEFINE more == Append(s, result)
    <3>1. /\ \A j \in 1 .. Len(s) : more[j] = s[j]
          /\ more[Len(s) + 1] = result
          /\ DOMAIN s = 1 .. Len(s) /\ Len(s) \in Nat
          /\ DOMAIN more = 1 .. Len(s) + 1
      OBVIOUS
    <3>2. \A j : j \in 1 .. Len(s) + 1 <=> j \in 1 .. Len(s) \/ j = Len(s) + 1
      BY <3>1
    <3> HIDE DEF more
    <3>3. ASSUME NEW x PROVE x \in Range(more) <=> x \in Range(s) \union {result}
      BY <3>1, <3>2 DEF Range
    <3>4. Range(more) = Range(s) \union {result}
      BY <3>3
    <3> QED BY <3>4 DEF more
  <2> QED BY <1>2, <1>3, <2>1
<1>4. ASSUME results'[c] = results[c], drops' = drops PROVE Undisturbed(c) /\ Follows(c)
  <2>1. Undisturbed(c)
    BY <1>1, <1>4, WasUndisturbed
  <2> QED BY <2>1 DEF NInv
<1>5. ASSUME NEW d \in Client, Step(d) PROVE Follows(c)'
  <2>1. ~Ended(d) /\ drops' = drops
    BY <1>1, <1>5 DEF Step, Send, SendRefused, SendNothing, Confirm, Timeout, TypeOK, node_vars
  <2>2. CASE Send(d)
    <3>1. results'[c] = results[c]
      BY <2>2 DEF Send
    <3>2. CASE d = c
      BY <1>1, <1>4, <2>1, <2>2, <3>1, <3>2, SendsOn
    <3>3. CASE d # c
      <4> DEFINE t == Transaction(d)
      <4>1. /\ Undisturbed(c) /\ Accepted(d) /\ All' = All \union {t}
            /\ snapshot'[c] = snapshot[c] /\ Begun(c)' = Begun(c)
        BY <1>1, <1>4, <2>1, <2>2, <3>1, <3>3 DEF Send, TypeOK, All, Begun
      <4>2. \A p \in UsedBy(suite, c) : p \notin Using(d)
        BY <1>1, <2>1, <3>3, <4>1, UsingUsed DEF Undisturbed
      <4>3. ASSUME NEW p \in UsedBy(suite, c), NEW cell \in CellsOf(p, All)
            PROVE  cell \in CellsOf(p, All)'
        <5>1. /\ cell \in CellsMade(All) /\ cell.pool = p
              /\ OutPoint(cell) \notin OutPointsSpent(All)
          BY <4>3, Live
        <5>2. OutPoint(cell) \notin t.inputs
          BY <2>1, <4>1, <4>2, <5>1, SpendsOwn
        <5> HIDE DEF t
        <5>3. cell \in CellsMade(All)'
          BY <4>1, <5>1, Made DEF CellsMade
        <5>4. OutPoint(cell) \notin OutPointsSpent(All)'
          BY <4>1, <5>1, <5>2, Spent DEF OutPointsSpent
        <5> QED BY <5>1, <5>3, <5>4 DEF CellsOf, Unspent, OutPoint
      <4> QED BY <1>1, <1>4, <2>1, <3>1, <4>1, <4>3, GoesOn DEF Follows
    <3> QED BY <3>2, <3>3
  <2>3. CASE SendNothing(d)
    <3>1. d # c
      <4> SUFFICES ASSUME d = c PROVE FALSE
        OBVIOUS
      <4>1. results'[c] = Append(results[c], "null")
        BY <1>1, <2>3 DEF SendNothing, Ends, TypeOK
      <4>2. "null" \in Range(results'[c])
        BY <1>3, <4>1
      <4> QED BY <4>2 DEF Undisturbed
    <3>2. /\ results'[c] = results[c] /\ snapshot'[c] = snapshot[c]
          /\ polls'[c] = polls[c] /\ All' = All
      BY <1>1, <2>3, <3>1 DEF SendNothing, Ends, TypeOK, node_vars, All
    <3> QED BY <1>1, <1>4, <2>1, <3>2, Unmoved
  <2>4. CASE SendRefused(d) \/ Confirm(d) \/ Timeout(d)
    <3>1. All' = All /\ snapshot'[c] = snapshot[c]
      BY <2>4 DEF SendRefused, Confirm, Timeout, node_vars, All
    <3>2. CASE d # c
      <4>1. results'[c] = results[c] /\ polls'[c] = polls[c]
        BY <1>1, <2>4, <3>2 DEF SendRefused, Confirm, Timeout, Ends, TypeOK
      <4> QED BY <1>1, <1>4, <2>1, <3>1, <4>1, Unmoved
    <3>3. CASE d = c
      <4>1. PICK result \in {"refused", "passed", "timeout"} :
               /\ results'[c] = Append(results[c], result)
               /\ result = "refused" => SendRefused(c)
        BY <1>1, <2>4, <3>3 DEF SendRefused, Confirm, Timeout, Ends, TypeOK
      <4>2. Range(results'[c]) = Range(results[c]) \union {result}
        BY <1>3, <4>1
      <4>3. Undisturbed(c) /\ Follows(c)
        <5>1. Undisturbed(c)
          BY <1>1, <2>1, <4>2, WasUndisturbed
        <5> QED BY <5>1 DEF NInv
      <4>4. ~SendRefused(c)
        BY <4>3, AcceptsNext DEF SendRefused
      <4>5. polls[c] # NoTx /\ polls'[c] = NoTx
        BY <1>1, <2>4, <3>3, <4>4 DEF Confirm, Timeout, TypeOK
      <4>6. Len(results'[c]) = Len(results[c]) + 1 /\ Len(results[c]) \in Nat
        BY <1>2, <4>1
      <4>7. Begun(c)' = Begun(c)
        BY <4>5, <4>6 DEF Begun
      <4>8. "refused" \notin Range(results'[c])
        BY <4>1, <4>2, <4>3, <4>4 DEF Follows
      <4> QED BY <1>1, <3>1, <4>3, <4>7, <4>8, SameCells, GoesOn
    <3> QED BY <3>2, <3>3
  <2> QED BY <1>5, <2>2, <2>3, <2>4 DEF Step
<1>6. CASE Commit
  <2>1. PICK t \in mempool : chain' = chain \union {t} /\ mempool' = mempool \ {t}
                             /\ UNCHANGED <<suite, next_tx, drops, snapshot, polls, results>>
    BY <1>6 DEF Commit
  <2>2. All' = All
    BY <2>1 DEF All
  <2> QED BY <1>1, <1>4, <2>1, <2>2, Unmoved
<1>7. CASE Drop
  <2>1. drops' = 0 /\ drops' = drops + 1
    BY <1>7 DEF Drop, Undisturbed
  <2> QED BY <1>1, <2>1
<1>8. CASE UNCHANGED vars
  <2>1. All' = All
    BY <1>8 DEF vars, All
  <2> QED BY <1>1, <1>4, <1>8, <2>1, Unmoved DEF vars
<1> QED BY <1>5, <1>6, <1>7, <1>8 DEF Next

\* The second invariant of suites that are in order.
LEMMA NextNInv ==
    ASSUME IInv, IInv', NInv, InOrder(suite), [Next]_vars
    PROVE  NInv'
<1>1. \A c \in Client : Undisturbed(c)' => Follows(c)'
  BY StepFollows
<1>2. drops' \in Nat
  <2>1. drops' = drops \/ drops' = drops + 1
    BY DEF Next, vars, Step, Send, SendRefused, SendNothing, Confirm, Timeout,
           Commit, Drop, node_vars
  <2> QED BY <2>1 DEF NInv
<1>3. ASSUME NEW c \in Client, NEW p \in Pools PROVE snapshot'[c][p].index = 0
  <2>1. TypeOK /\ snapshot[c][p].index = 0 /\ snapshot[c][p] \in CellSet
    BY DEF IInv, NInv, TypeOK
  <2>2. snapshot'[c][p] = snapshot[c][p] \/ snapshot'[c][p].index = snapshot[c][p].index
    <3>1. ASSUME NEW d \in Client, ~Ended(d), NEW tx,
                 snapshot' = [snapshot EXCEPT ![d] = Advanced(d, tx)]
          PROVE  snapshot'[c][p].index = snapshot[c][p].index
      <4>1. CASE c = d /\ p \in Using(d)
        <5>1. snapshot'[c][p] = [snapshot[c][p] EXCEPT !.tx = tx,
                                   !.count = IF test(d).create THEN 0 ELSE @ + 1]
          BY <2>1, <3>1, <4>1 DEF Advanced, TypeOK
        <5> QED BY <2>1, <5>1 DEF CellSet
      <4>2. CASE ~(c = d /\ p \in Using(d))
        <5>1. snapshot'[c][p] = snapshot[c][p]
          BY <2>1, <3>1, <4>2 DEF Advanced, TypeOK
        <5> QED BY <5>1
      <4> QED BY <4>1, <4>2
    <3>2. \/ UNCHANGED snapshot
          \/ \E d \in Client : \E tx : ~Ended(d) /\ snapshot' = [snapshot EXCEPT ![d] = Advanced(d, tx)]
      BY DEF Next, vars, Step, Send, SendRefused, SendNothing, Confirm, Timeout,
             Commit, Drop, node_vars
    <3> QED BY <3>1, <3>2
  <2> QED BY <2>1, <2>2
<1> QED BY <1>1, <1>2, <1>3 DEF NInv

\* At the start the pools that a client knows are where they were made.
LEMMA InitNInv ==
    ASSUME Init
    PROVE  NInv
<1>1. /\ TypeOK /\ mempool = {} /\ All = chain
      /\ \A c \in Client : results[c] = <<>> /\ Begun(c) = 0
  <2>1. \A c \in Client : results[c] = <<>> /\ polls[c] = NoTx
    <3>1. results = [c \in Client |-> <<>>] /\ polls = [c \in Client |-> NoTx]
      BY Zenon DEF Init
    <3>2. \A c \in Client : results[c] = <<>>
      BY <3>1, Zenon
    <3>3. \A c \in Client : polls[c] = NoTx
      BY <3>1, Zenon
    <3> QED BY <3>2, <3>3, Zenon
  <2>2. \A c \in Client : Begun(c) = 0
    <3> TAKE c \in Client
    <3>1. Len(results[c]) = 0
      <4>1. \A s : s = <<>> => Len(s) = 0
        OBVIOUS
      <4> QED BY <2>1, <4>1, Zenon
    <3>2. polls[c] = NoTx
      BY <2>1, Zenon
    <3> QED BY <3>1, <3>2 DEF Begun
  <2>3. mempool = {} /\ TypeOK
    BY InitIInv DEF IInv, Init
  <2>4. All = chain
    BY <2>3 DEF All
  <2> QED BY <2>1, <2>2, <2>3, <2>4, Zenon
<1>2. /\ OutPointsSpent(chain) = {}
      /\ \A p \in Existing : PoolCell(p, p, 0, 0) \in CellsMade(chain)
  <2>1. \A t \in chain : t.inputs = {}
    BY DEF Init, Genesis
  <2>2. \A i : i \notin OutPointsSpent(chain)
    BY <2>1, Spent
  <2>3. \A p \in Existing : Genesis(p) \in chain /\ PoolCell(p, p, 0, 0) \in Genesis(p).outputs
    BY DEF Init, Genesis
  <2> QED BY <2>2, <2>3, Made
<1>3. \A c \in Client, p \in Pools :
         snapshot[c][p] = PoolCell(p, IF p \in Existing THEN p ELSE NoTx, 0, 0)
  BY DEF Init
<1>4. ASSUME NEW c \in Client, Undisturbed(c), NEW p \in UsedBy(suite, c), Known(c, p)
      PROVE  Reached(c, p)
  <2>1. p \notin CreatedBy(suite, c)
    <3>1. 1 .. Begun(c) = {}
      BY <1>1
    <3> QED BY <1>4, <3>1 DEF Known
  <2>2. p \in Pools
    BY <1>1, <1>4, UsedPools
  <2>3. p \in Existing
    <3> SUFFICES ASSUME NEW d \in Client, p \in CreatedBy(suite, d) PROVE FALSE
      BY <2>2 DEF Existing
    <3>1. d # c /\ suite \in Suites
      BY <1>1, <2>1 DEF TypeOK
    <3> QED BY <1>4, <3>1, ClientsAssumption
  <2> DEFINE cell == PoolCell(p, p, 0, 0)
  <2>4. cell \in CellsMade(All) /\ cell.pool = p /\ OutPoint(cell) \notin OutPointsSpent(All)
    BY <1>1, <1>2, <2>3, Fields
  <2>5. snapshot[c][p] = cell
    BY <1>3, <2>2, <2>3
  <2> HIDE DEF cell
  <2> QED BY <2>4, <2>5, Live DEF Reached
<1>5. \A c \in Client : Range(results[c]) = {}
  BY <1>1 DEF Range
<1>6. \A c \in Client, p \in Pools : snapshot[c][p].index = 0
  BY <1>3, Fields
<1>7. drops = 0
  BY DEF Init
<1> QED BY <1>4, <1>5, <1>6, <1>7 DEF NInv, Follows

\* A client that nobody disturbs is never refused, although it goes on after a
\* timeout as if its transaction had been committed: what it sends next waits
\* with it (NeverRefused; InOrder is what test.js keeps to).
THEOREM UndisturbedNeverRefused ==
    ASSUME \A run \in Suites : InOrder(run)
    PROVE  Spec => []NeverRefused
<1>1. NInv => NeverRefused
  BY DEF NInv, Follows, NeverRefused
<1>2. IInv => InOrder(suite)
  BY DEF IInv, TypeOK
<1>3. IInv /\ IInv' /\ NInv /\ [Next]_vars => NInv'
  BY <1>2, NextNInv
<1> QED BY <1>1, <1>3, InitNInv, Inductive, PTL DEF Spec

=============================================================================
