---------------------------- MODULE LedgerProofs ----------------------------
(***************************************************************************)
(* What the scripts achieve together, for every number of pools and users, *)
(* every pair, fee and width, and for every well-formed transaction: a     *)
(* pool has one live cell, every pool that moves is paid for, liquidity    *)
(* moves alone, the tokens of a pool are as many as it has recorded, each  *)
(* pool takes steps of module Pool, and what lies under a pair lock is     *)
(* never less than what its pools have recorded there and can be shared    *)
(* out to them.                                                            *)
(*                                                                         *)
(* LInv is the invariant of the pools: identities are used up in order, so *)
(* a new one is free, and a type script that sees one cell of its type on  *)
(* each side keeps it at one.  TInv adds the tokens: each belongs to a     *)
(* live pool.  DInv and HInv add the numbers in the pools and in the cells *)
(* under locks, Covered the cells under locks: of every amount there are   *)
(* as many as records.  What a transaction does to the bag of live cells   *)
(* is said in Effect, cell by cell; what it does to a sum of tokens is     *)
(* said in SupplyFlow, to the cells under a lock in PublishCovers.         *)
(***************************************************************************)
EXTENDS LedgerProperties, CellFacts

\* The only position of a cell of a type.
OnlyAt(cells, s, k) == /\ k \in DOMAIN cells /\ cells[k].type = s
                       /\ \A j \in DOMAIN cells : cells[j].type = s => j = k

-----------------------------------------------------------------------------
\* Positions of a sequence can be counted.
LEMMA PositionsFinite ==
    ASSUME NEW T, NEW cells \in Seq(T), NEW S \in SUBSET DOMAIN cells
    PROVE  IsFiniteSet(S) /\ Cardinality(S) \in Nat
<1>1. Len(cells) \in Nat /\ DOMAIN cells = 1 .. Len(cells)
  OBVIOUS
<1>2. \A n \in Nat : IsFiniteSet(1 .. n)
  BY FS_Interval
<1>3. IsFiniteSet(DOMAIN cells)
  BY <1>1, <1>2
<1>4. IsFiniteSet(S)
  BY <1>3, FS_Subset, Zenon
<1> QED
  BY <1>4, FS_CardinalityType, Zenon

\* A group of one cell is one position.
LEMMA GroupOfOne ==
    ASSUME NEW T, NEW cells \in Seq(T), NEW s, Cardinality(OfType(cells, s)) = 1
    PROVE  \E k : OnlyAt(cells, s, k)
<1>1. OfType(cells, s) \in SUBSET DOMAIN cells
  BY DEF OfType
<1>2. IsFiniteSet(OfType(cells, s))
  BY <1>1, PositionsFinite, Zenon
<1>3. PICK k : OfType(cells, s) = {k}
  BY <1>2, FS_Singleton, Zenon
<1>4. k \in OfType(cells, s) /\ \A j \in OfType(cells, s) : j = k
  BY <1>3
<1> QED
  BY <1>4 DEF OfType, OnlyAt

\* Counting a cell in a sequence that has it nowhere, or once.
LEMMA Counts ==
    ASSUME NEW T, NEW cells \in Seq(T), NEW c
    PROVE  /\ CountIn(cells, c) \in Nat
           /\ CountIn(cells, c) = 0 <=> \A k \in DOMAIN cells : cells[k] # c
           /\ \A k : OnlyAt(cells, c.type, k) =>
                 CountIn(cells, c) = IF cells[k] = c THEN 1 ELSE 0
<1> DEFINE S == {k \in DOMAIN cells : cells[k] = c}
<1>1. IsFiniteSet(S) /\ Cardinality(S) \in Nat
  <2>1. S \in SUBSET DOMAIN cells
    OBVIOUS
  <2> QED
    BY <2>1, PositionsFinite, Zenon
<1>2. Cardinality(S) = 0 <=> S = {}
  BY <1>1, FS_EmptySet, Zenon
<1>3. ASSUME NEW k, OnlyAt(cells, c.type, k), cells[k] = c
      PROVE  Cardinality(S) = 1
  <2>1. S = {k}
    BY <1>3, Zenon DEF OnlyAt
  <2> QED
    BY <2>1, FS_Singleton, Zenon
<1>4. ASSUME NEW k, OnlyAt(cells, c.type, k), cells[k] # c
      PROVE  S = {}
  BY <1>4, Zenon DEF OnlyAt
<1> QED
  BY <1>1, <1>2, <1>3, <1>4 DEF CountIn

-----------------------------------------------------------------------------
CellsOf(cells) == {cells[k] : k \in DOMAIN cells}

\* The copies of a cell that are live.
Live(c) == IF c \in DOMAIN live THEN live[c] ELSE 0

\* The inputs and outputs of a transaction are sequences.
LEMMA BothSequences ==
    ASSUME NEW tx, WellFormed(tx)
    PROVE  tx.inputs \in Seq(CellsOf(tx.inputs)) /\ tx.outputs \in Seq(CellsOf(tx.outputs))
BY Zenon DEF WellFormed, IsTransaction, CellsOf

\* The bag of the cells that count.
LEMMA SystemBagCounts ==
    ASSUME NEW T, NEW cells \in Seq(T)
    PROVE  /\ IsABag(SystemBag(cells))
           /\ \A c : IsSystemCell(c) =>
                 CountIn(cells, c)
                   = IF c \in DOMAIN SystemBag(cells) THEN SystemBag(cells)[c] ELSE 0
           /\ \A c \in DOMAIN SystemBag(cells) : IsSystemCell(c)
<1> DEFINE system == {k \in DOMAIN cells : IsSystemCell(cells[k])}
           at(c) == {k \in system : cells[k] = c}
           D == {cells[k] : k \in system}
<1>1. SystemBag(cells) = [c \in D |-> Cardinality(at(c))]
  BY DEF SystemBag
<1>2. ASSUME NEW c, IsSystemCell(c)
      PROVE  CountIn(cells, c) = Cardinality(at(c))
  <2>1. at(c) = {k \in DOMAIN cells : cells[k] = c}
    BY <1>2
  <2> QED
    BY <2>1, Zenon DEF CountIn
<1>3. ASSUME NEW c, c \notin D, IsSystemCell(c)
      PROVE  CountIn(cells, c) = 0
  <2>1. \A k \in DOMAIN cells : cells[k] # c
    BY <1>3
  <2> QED
    BY <2>1, Counts, Zenon
<1>4. ASSUME NEW c \in D PROVE IsSystemCell(c)
  BY <1>4
<1>5. ASSUME NEW c \in D PROVE Cardinality(at(c)) \in Nat \ {0}
  <2>1. CountIn(cells, c) \in Nat /\ CountIn(cells, c) # 0
    <3>1. ~ \A k \in DOMAIN cells : cells[k] # c
      BY <1>5
    <3> QED
      BY <3>1, Counts, Zenon
  <2> QED
    BY <1>2, <1>4, <2>1
<1> HIDE DEF at, D
<1> QED
  BY <1>1, <1>2, <1>3, <1>4, <1>5 DEF IsABag

\* What a transaction does to the live cells.
LEMMA Effect ==
    ASSUME IsABag(live), NEW tx, NEW stale, Publish(tx, stale)
    PROVE  /\ IsABag(live')
           /\ \A c : IsSystemCell(c) =>
                 /\ CountIn(tx.inputs, c) <= Live(c)
                 /\ Live(c)' = Live(c) - CountIn(tx.inputs, c) + CountIn(tx.outputs, c)
           /\ \A c \in LiveCells' : c \in LiveCells \/ IsSystemCell(c)
<1> DEFINE In == SystemBag(tx.inputs)
           Out == SystemBag(tx.outputs)
<1>1. /\ tx.inputs \in Seq(CellsOf(tx.inputs)) /\ tx.outputs \in Seq(CellsOf(tx.outputs))
      /\ In \sqsubseteq live /\ live' = (live (-) In) (+) Out
  BY BothSequences, Zenon DEF Publish
<1>2. /\ IsABag(In) /\ IsABag(Out)
      /\ \A c : IsSystemCell(c) =>
            /\ CountIn(tx.inputs, c) = IF c \in DOMAIN In THEN In[c] ELSE 0
            /\ CountIn(tx.outputs, c) = IF c \in DOMAIN Out THEN Out[c] ELSE 0
      /\ \A c \in DOMAIN Out : IsSystemCell(c)
  BY <1>1, SystemBagCounts, Zenon
<1> HIDE DEF In, Out
<1> DEFINE Left == {d \in DOMAIN live :
                      (IF d \in DOMAIN In THEN live[d] - In[d] ELSE live[d]) > 0}
           left == [e \in Left |-> IF e \in DOMAIN In THEN live[e] - In[e] ELSE live[e]]
<1>3. live (-) In = left
  BY DEF (-)
<1>4. live' = [e \in Left \cup DOMAIN Out |->
                 (IF e \in Left THEN left[e] ELSE 0)
                   + (IF e \in DOMAIN Out THEN Out[e] ELSE 0)]
  BY <1>1, <1>3 DEF (+)
<1>5. DOMAIN In \subseteq DOMAIN live /\ \A e \in DOMAIN In : In[e] <= live[e]
  BY <1>1 DEF \sqsubseteq
<1>6. /\ \A e \in DOMAIN live : live[e] \in Nat /\ live[e] > 0
      /\ \A e \in DOMAIN In : In[e] \in Nat /\ In[e] > 0
      /\ \A e \in DOMAIN Out : Out[e] \in Nat /\ Out[e] > 0
  BY <1>2 DEF IsABag
<1>7. DOMAIN live' = Left \cup DOMAIN Out
  BY <1>4
<1>8. ASSUME NEW e \in DOMAIN live' PROVE live'[e] \in Nat /\ live'[e] > 0
  BY <1>4, <1>6, <1>7, <1>8
<1>9. IsABag(live')
  BY <1>4, <1>7, <1>8 DEF IsABag
<1>10. ASSUME NEW c, IsSystemCell(c)
       PROVE  /\ CountIn(tx.inputs, c) <= Live(c)
              /\ Live(c)' = Live(c) - CountIn(tx.inputs, c) + CountIn(tx.outputs, c)
  <2>1. CountIn(tx.inputs, c) <= Live(c)
    BY <1>2, <1>5, <1>6, <1>10 DEF Live
  <2>2. Live(c)' = IF c \in DOMAIN live' THEN live'[c] ELSE 0
    BY DEF Live
  <2>3. CASE c \in DOMAIN Out
    BY <1>2, <1>4, <1>5, <1>6, <1>7, <1>10, <2>2, <2>3 DEF Live
  <2>4. CASE c \notin DOMAIN Out
    BY <1>2, <1>4, <1>5, <1>6, <1>7, <1>10, <2>2, <2>4 DEF Live
  <2> QED
    BY <2>1, <2>3, <2>4
<1>11. ASSUME NEW c \in LiveCells' PROVE c \in LiveCells \/ IsSystemCell(c)
  BY <1>2, <1>7, <1>11 DEF LiveCells, BagToSet
<1> QED
  BY <1>9, <1>10, <1>11

-----------------------------------------------------------------------------
\* Where the cells of a pool triple stand.
LEMMA TripleCells ==
    ASSUME NEW tx, WellFormed(tx), NEW k \in Nat, pool_triple(tx, 3 * k)
    PROVE  /\ 3 * k + 1 \in DOMAIN tx.inputs /\ 3 * k + 1 \in DOMAIN tx.outputs
           /\ tx.inputs[3 * k + 1] = Input(tx, 3 * k)
           /\ tx.outputs[3 * k + 1] = Output(tx, 3 * k)
           /\ Input(tx, 3 * k).type.code = "udtswap"
           /\ Output(tx, 3 * k).type = Input(tx, 3 * k).type
           /\ Input(tx, 3 * k).lock.code = "udtswap_lock"
           /\ Output(tx, 3 * k).lock = Input(tx, 3 * k).lock
<1>1. /\ Len(tx.inputs) \in Nat /\ DOMAIN tx.inputs = 1 .. Len(tx.inputs)
      /\ Len(tx.outputs) \in Nat /\ DOMAIN tx.outputs = 1 .. Len(tx.outputs)
  BY BothSequences
<1>2. 3 * k + 0 = 3 * k /\ 0 \in 0 .. 2
  OBVIOUS
<1>3. /\ 3 * k < Len(tx.inputs) /\ 3 * k < Len(tx.outputs)
      /\ Output(tx, 3 * k).type.code = "udtswap"
      /\ Input(tx, 3 * k).type = Output(tx, 3 * k).type
      /\ Input(tx, 3 * k).lock.code = "udtswap_lock"
      /\ Output(tx, 3 * k).lock = Input(tx, 3 * k).lock
  BY <1>2, Zenon DEF pool_triple, locks_same, HasInput, HasOutput
<1> QED
  BY <1>1, <1>3 DEF Input, Output

\* A pool that is updated is at the head of one of the triples, and nowhere
\* else.
Updated(tx, s, k) ==
    /\ k \in Pools(tx) /\ k \in Nat
    /\ pool_triple(tx, 3 * k)
    /\ OnlyAt(tx.inputs, s, 3 * k + 1) /\ OnlyAt(tx.outputs, s, 3 * k + 1)
    /\ tx.inputs[3 * k + 1] = Input(tx, 3 * k)
    /\ tx.outputs[3 * k + 1] = Output(tx, 3 * k)
    /\ Output(tx, 3 * k).lock = Input(tx, 3 * k).lock

\* What the type script has seen of a pool that it lets pass as updated.
LEMMA UpdateFacts ==
    ASSUME NEW tx, WellFormed(tx), NEW s, update_udtswap_check(tx, s)
    PROVE  \E k : /\ Updated(tx, s, k)
                  /\ \/ /\ swapped(tx, 3 * k)
                        /\ check_fee(tx, 3 * Cardinality(Pools(tx)), Cardinality(Pools(tx)))
                     \/ /\ k = 0
                        /\ \/ added(tx, 0) /\ minted_to(tx)
                           \/ removed(tx, 0) /\ burned_from(tx)
                        /\ check_fee(tx, 3, 1)
<1>1. /\ tx.inputs \in Seq(CellsOf(tx.inputs)) /\ tx.outputs \in Seq(CellsOf(tx.outputs))
  BY BothSequences
<1>2. ASSUME NEW k \in Pools(tx), Input(tx, 3 * k).type = s
      PROVE  Updated(tx, s, k)
  <2>1. k \in Nat /\ pool_triple(tx, 3 * k)
    <3>1. k \in 0 .. Len(tx.inputs) \div 3 /\ \A j \in 0 .. k : pool_triple(tx, 3 * j)
      BY Zenon DEF Pools
    <3>2. k \in Nat
      BY <3>1
    <3> QED
      BY <3>1, <3>2
  <2>2. /\ 3 * k + 1 \in DOMAIN tx.inputs /\ 3 * k + 1 \in DOMAIN tx.outputs
        /\ tx.inputs[3 * k + 1] = Input(tx, 3 * k)
        /\ tx.outputs[3 * k + 1] = Output(tx, 3 * k)
        /\ Output(tx, 3 * k).type = Input(tx, 3 * k).type
        /\ Output(tx, 3 * k).lock = Input(tx, 3 * k).lock
    BY <2>1, TripleCells, Zenon
  <2>3. /\ Cardinality(OfType(tx.inputs, s)) = 1
        /\ Cardinality(OfType(tx.outputs, s)) = 1
    BY DEF update_udtswap_check
  <2>4. PICK a : OnlyAt(tx.inputs, s, a)
    BY <1>1, <2>3, GroupOfOne, Zenon
  <2>5. PICK b : OnlyAt(tx.outputs, s, b)
    BY <1>1, <2>3, GroupOfOne, Zenon
  <2>6. a = 3 * k + 1 /\ b = 3 * k + 1
    BY <1>2, <2>2, <2>4, <2>5, Zenon DEF OnlyAt
  <2> QED
    BY <2>1, <2>2, <2>4, <2>5, <2>6 DEF Updated
<1>3. CASE \E k \in Pools(tx) :
             /\ Input(tx, 3 * k).type = s
             /\ swapped(tx, 3 * k)
             /\ check_fee(tx, 3 * Cardinality(Pools(tx)), Cardinality(Pools(tx)))
  BY <1>2, <1>3, Zenon
<1>4. CASE /\ 0 \in Pools(tx)
           /\ Input(tx, 0).type = s
           /\ \/ added(tx, 0) /\ minted_to(tx)
              \/ removed(tx, 0) /\ burned_from(tx)
           /\ check_fee(tx, 3, 1)
  <2>1. 3 * 0 = 0
    OBVIOUS
  <2>2. Updated(tx, s, 0)
    BY <1>2, <1>4, <2>1
  <2> QED
    BY <1>4, <2>2, Zenon
<1> QED
  BY <1>3, <1>4, Zenon DEF update_udtswap_check

\* A pool that is created is output 0 and nothing else.
LEMMA CreateFacts ==
    ASSUME NEW tx, WellFormed(tx), NEW s, NEW stale, create_udtswap_check(tx, s, stale)
    PROVE  /\ s.id = tx.first
           /\ \A j \in DOMAIN tx.inputs : tx.inputs[j].type # s
           /\ OnlyAt(tx.outputs, s, 1)
           /\ tx.outputs[1].lock.t1 < tx.outputs[1].lock.t2
<1>1. tx.outputs \in Seq(CellsOf(tx.outputs))
  BY BothSequences
<1>2. /\ s.id = tx.first
      /\ OfType(tx.inputs, s) = {}
      /\ Cardinality(OfType(tx.outputs, s)) = 1
      /\ HasOutput(tx, 0)
      /\ Output(tx, 0).type = s
      /\ in_order(Pair(Output(tx, 0)))
  <2>1. 0 \in 0 .. 2
    OBVIOUS
  <2> QED
    BY <2>1, Zenon DEF create_udtswap_check
<1>3. PICK a : OnlyAt(tx.outputs, s, a)
  BY <1>1, <1>2, GroupOfOne, Zenon
<1>4. 1 \in DOMAIN tx.outputs /\ Output(tx, 0) = tx.outputs[1]
  BY <1>1, <1>2 DEF HasOutput, Output
<1>5. a = 1
  BY <1>2, <1>3, <1>4, Zenon DEF OnlyAt
<1>6. tx.outputs[1].lock.t1 < tx.outputs[1].lock.t2
  BY <1>2, <1>4 DEF in_order, Pair
<1>7. \A j \in DOMAIN tx.inputs : tx.inputs[j].type # s
  BY <1>2 DEF OfType
<1> QED
  BY <1>2, <1>3, <1>5, <1>6, <1>7

-----------------------------------------------------------------------------
\* The inductive invariant: identities of pools are used up in order.
LInv == /\ IsABag(live)
        /\ next_id \in Nat
        /\ \A p \in LivePools : p.type.id \in Nat /\ p.type.id < next_id
        /\ OneCellPerPool

\* Live cells are those with a copy that is live.
LEMMA LiveMeans ==
    /\ IsABag(live) => \A c : Live(c) \in Nat /\ (c \in LiveCells <=> Live(c) > 0)
    /\ IsABag(live') => \A c : Live(c)' \in Nat /\ (c \in LiveCells' <=> Live(c)' > 0)
BY DEF IsABag, Live, LiveCells, BagToSet

\* A type script that does not run leaves the cells of its type alone.
LEMMA NotInvolved ==
    ASSUME LInv, NEW tx, NEW stale, Publish(tx, stale), NEW s, s.code = "udtswap",
           s \notin TypeScripts(tx), NEW c, c.type = s
    PROVE  Live(c)' = Live(c)
<1>1. tx.inputs \in Seq(CellsOf(tx.inputs)) /\ tx.outputs \in Seq(CellsOf(tx.outputs))
  BY BothSequences DEF Publish
<1>2. /\ \A k \in DOMAIN tx.inputs : tx.inputs[k] # c
      /\ \A k \in DOMAIN tx.outputs : tx.outputs[k] # c
  BY DEF TypeScripts
<1>3. CountIn(tx.inputs, c) = 0 /\ CountIn(tx.outputs, c) = 0
  BY <1>1, <1>2, Counts, Zenon
<1>4. IsSystemCell(c)
  BY DEF IsSystemCell
<1>5. Live(c) \in Nat
  BY LiveMeans, Zenon DEF LInv
<1> QED
  BY <1>3, <1>4, <1>5, Effect DEF LInv

\* Behind its creation a pool has one cell, output 0.
LEMMA Created ==
    ASSUME LInv, NEW tx, NEW stale, Publish(tx, stale), NEW s, s.code = "udtswap",
           create_udtswap_check(tx, s, stale)
    PROVE  /\ \A d : d.type = s => Live(d)' = IF d = tx.outputs[1] THEN 1 ELSE 0
           /\ \A d \in LiveCells : d.type # s
           /\ OnlyAt(tx.outputs, s, 1)
           /\ tx.outputs[1].lock.t1 < tx.outputs[1].lock.t2
           /\ s.id = next_id
<1>1. tx.inputs \in Seq(CellsOf(tx.inputs)) /\ tx.outputs \in Seq(CellsOf(tx.outputs))
  BY BothSequences DEF Publish
<1>2. /\ s.id = tx.first
      /\ \A j \in DOMAIN tx.inputs : tx.inputs[j].type # s
      /\ OnlyAt(tx.outputs, s, 1)
      /\ tx.outputs[1].lock.t1 < tx.outputs[1].lock.t2
  BY CreateFacts, Zenon DEF Publish
<1>3. s.id = next_id
  BY <1>2 DEF Publish
<1>4. ASSUME NEW d \in LiveCells PROVE d.type # s
  BY <1>3 DEF LInv, LivePools
<1>5. ASSUME NEW d, d.type = s
      PROVE  Live(d)' = IF d = tx.outputs[1] THEN 1 ELSE 0
  <2>1. Live(d) = 0
    BY <1>4, <1>5, LiveMeans DEF LInv
  <2>2. CountIn(tx.inputs, d) = 0
    BY <1>1, <1>2, <1>5, Counts, Zenon
  <2>3. CountIn(tx.outputs, d) = IF d = tx.outputs[1] THEN 1 ELSE 0
    <3>1. CountIn(tx.outputs, d) = IF tx.outputs[1] = d THEN 1 ELSE 0
      BY <1>1, <1>2, <1>5, Counts, Zenon
    <3> QED
      BY <3>1
  <2>4. IsSystemCell(d)
    BY <1>5 DEF IsSystemCell
  <2> QED
    BY <2>1, <2>2, <2>3, <2>4, Effect DEF LInv
<1> QED
  BY <1>2, <1>3, <1>4, <1>5

\* An update exchanges the one cell of the pool for another.
LEMMA Exchanged ==
    ASSUME LInv, NEW tx, NEW stale, Publish(tx, stale), NEW s, s.code = "udtswap",
           NEW k, Updated(tx, s, k)
    PROVE  /\ \A d : d.type = s => Live(d)' = IF d = Output(tx, 3 * k) THEN 1 ELSE 0
           /\ Input(tx, 3 * k) \in LivePools
           /\ Input(tx, 3 * k).type = s
           /\ Output(tx, 3 * k).type = s
           /\ \A d \in LiveCells : d.type = s => d = Input(tx, 3 * k)
<1>1. tx.inputs \in Seq(CellsOf(tx.inputs)) /\ tx.outputs \in Seq(CellsOf(tx.outputs))
  BY BothSequences DEF Publish
<1> DEFINE p == Input(tx, 3 * k)
           q == Output(tx, 3 * k)
<1>2. p.type = s /\ q.type = s
  BY Zenon DEF Updated, OnlyAt
<1>3. ASSUME NEW d, d.type = s
      PROVE  /\ CountIn(tx.inputs, d) = IF d = p THEN 1 ELSE 0
             /\ CountIn(tx.outputs, d) = IF d = q THEN 1 ELSE 0
             /\ IsSystemCell(d)
  <2>1. /\ CountIn(tx.inputs, d) = IF tx.inputs[3 * k + 1] = d THEN 1 ELSE 0
        /\ CountIn(tx.outputs, d) = IF tx.outputs[3 * k + 1] = d THEN 1 ELSE 0
    BY <1>1, <1>3, Counts, Zenon DEF Updated
  <2>2. IsSystemCell(d)
    BY <1>3 DEF IsSystemCell
  <2> QED
    BY <2>1, <2>2 DEF Updated
<1>4. /\ \A c : IsSystemCell(c) =>
            /\ CountIn(tx.inputs, c) <= Live(c)
            /\ Live(c)' = Live(c) - CountIn(tx.inputs, c) + CountIn(tx.outputs, c)
      /\ \A c : Live(c) \in Nat /\ (c \in LiveCells <=> Live(c) > 0)
  BY Effect, LiveMeans, Zenon DEF LInv
<1>5. p \in LivePools
  <2>1. Live(p) >= 1
    BY <1>2, <1>3, <1>4
  <2> QED
    BY <1>2, <1>4, <2>1 DEF LivePools
<1>6. live[p] = 1 /\ \A d \in LivePools : d.type = p.type => d = p
  BY <1>5, Zenon DEF LInv, OneCellPerPool
<1>7. Live(p) = 1
  BY <1>5, <1>6 DEF Live, LivePools, LiveCells, BagToSet
<1>8. ASSUME NEW d \in LiveCells, d.type = s PROVE d = p
  BY <1>2, <1>6, <1>8 DEF LivePools
<1>9. ASSUME NEW d, d.type = s
      PROVE  Live(d)' = IF d = q THEN 1 ELSE 0
  <2>1. Live(d) = IF d = p THEN 1 ELSE 0
    BY <1>4, <1>7, <1>8, <1>9
  <2> QED
    BY <1>3, <1>4, <1>9, <2>1
<1> QED
  BY <1>2, <1>5, <1>8, <1>9

\* Whatever happens to a pool, it is one of these.
LEMMA ThreeWays ==
    ASSUME NEW tx, NEW stale, Publish(tx, stale), NEW s, s.code = "udtswap"
    PROVE  \/ s \notin TypeScripts(tx)
           \/ create_udtswap_check(tx, s, stale)
           \/ update_udtswap_check(tx, s) /\ \E k : Updated(tx, s, k)
<1>1. s \in TypeScripts(tx) => udtswap_main(tx, s, stale)
  BY Zenon DEF Publish, ScriptsAccept
<1>2. update_udtswap_check(tx, s) => \E k : Updated(tx, s, k)
  BY UpdateFacts, Zenon DEF Publish
<1> QED
  BY <1>1, <1>2, Zenon DEF udtswap_main

\* Identities are used up by creations.
LEMMA NextIdentity ==
    ASSUME LInv, NEW tx, NEW stale, Publish(tx, stale)
    PROVE  /\ next_id' \in Nat /\ next_id' >= next_id
           /\ \A k : OnlyAt(tx.outputs, PoolType(next_id), k) => next_id' = next_id + 1
<1>1. tx.outputs \in Seq(CellsOf(tx.outputs))
  BY BothSequences DEF Publish
<1> DEFINE S == OfType(tx.outputs, PoolType(next_id))
<1>2. S \in SUBSET DOMAIN tx.outputs
  BY DEF OfType
<1>3. Cardinality(S) \in Nat
  BY <1>1, <1>2, PositionsFinite, Zenon
<1>4. next_id' = next_id + Cardinality(S)
  BY DEF Publish
<1>5. ASSUME NEW k, OnlyAt(tx.outputs, PoolType(next_id), k) PROVE Cardinality(S) = 1
  <2>1. S = {k}
    BY <1>5, Zenon DEF OnlyAt, OfType
  <2> QED
    BY <2>1, FS_Singleton, Zenon
<1> HIDE DEF S
<1> QED
  BY <1>3, <1>4, <1>5 DEF LInv

\* A transaction leaves every pool with one cell.
LEMMA PublishLInv ==
    ASSUME LInv, NEW tx, NEW stale, Publish(tx, stale)
    PROVE  LInv'
<1>1. IsABag(live')
  BY Effect DEF LInv
<1>2. next_id' \in Nat /\ next_id' >= next_id
  BY NextIdentity
<1>3. ASSUME NEW p \in LivePools'
      PROVE  /\ p.type.id \in Nat /\ p.type.id < next_id'
             /\ live'[p] = 1
             /\ \A q \in LivePools' : q.type = p.type => q = p
             /\ p.lock.t1 < p.lock.t2
  <2> DEFINE s == p.type
  <2>1. /\ p \in LiveCells' /\ p.type = s /\ s.code = "udtswap"
        /\ live'[p] = Live(p)'
    BY DEF LivePools, LiveCells, BagToSet, Live
  <2>2. /\ \A c : Live(c) \in Nat /\ (c \in LiveCells <=> Live(c) > 0)
        /\ \A c : Live(c)' \in Nat /\ (c \in LiveCells' <=> Live(c)' > 0)
    BY <1>1, LiveMeans, Zenon DEF LInv
  <2>3. \A q \in LivePools' : q \in LiveCells'
    BY DEF LivePools
  <2> HIDE DEF s
  <2>4. CASE s \notin TypeScripts(tx)
    <3>1. \A c : c.type = s => Live(c)' = Live(c)
      BY <2>1, <2>4, NotInvolved, Zenon
    <3>2. p \in LivePools /\ \A q \in LivePools' : q.type = s => q \in LivePools
      BY <2>1, <2>2, <2>3, <3>1 DEF LivePools
    <3>3. /\ p.type.id \in Nat /\ p.type.id < next_id /\ next_id \in Nat
          /\ live[p] = 1 /\ \A q \in LivePools : q.type = p.type => q = p
          /\ p.lock.t1 < p.lock.t2
      BY <3>2, Zenon DEF LInv, OneCellPerPool
    <3>4. live'[p] = 1
      BY <2>1, <3>1, <3>2, <3>3 DEF Live, LivePools, LiveCells, BagToSet
    <3>5. \A q \in LivePools' : q.type = p.type => q = p
      BY <2>1, <3>2, <3>3, Zenon
    <3> QED
      BY <1>2, <3>3, <3>4, <3>5
  <2>5. CASE create_udtswap_check(tx, s, stale)
    <3>1. /\ \A d : d.type = s => Live(d)' = IF d = tx.outputs[1] THEN 1 ELSE 0
          /\ \A d \in LiveCells : d.type # s
          /\ OnlyAt(tx.outputs, s, 1)
          /\ tx.outputs[1].lock.t1 < tx.outputs[1].lock.t2
          /\ s.id = next_id
      <4>1. s.code = "udtswap"
        BY <2>1
      <4> QED
        BY <2>5, <4>1, Created, Zenon
    <3>2. Live(p)' > 0 /\ \A q \in LivePools' : Live(q)' > 0
      BY <2>1, <2>2, <2>3
    <3>3. p = tx.outputs[1] /\ \A q \in LivePools' : q.type = s => q = tx.outputs[1]
      BY <2>1, <3>1, <3>2
    <3>4. live'[p] = 1
      BY <2>1, <3>1, <3>3
    <3>5. s = PoolType(next_id)
      <4>1. IsScript(s)
        BY <3>1, Zenon DEF Publish, WellFormed, OnlyAt
      <4> QED
        BY <2>1, <3>1, <4>1 DEF IsScript, PoolType, Script
    <3>6. next_id' = next_id + 1
      BY <3>1, <3>5, NextIdentity, Zenon
    <3> QED
      BY <2>1, <3>1, <3>3, <3>4, <3>6 DEF LInv
  <2>6. CASE \E k : Updated(tx, s, k)
    <3>1. PICK k : Updated(tx, s, k)
      BY <2>6
    <3> DEFINE a == Input(tx, 3 * k)
               b == Output(tx, 3 * k)
    <3>2. /\ \A d : d.type = s => Live(d)' = IF d = b THEN 1 ELSE 0
          /\ a \in LivePools /\ a.type = s /\ b.type = s
      BY <2>1, <3>1, Exchanged
    <3>3. b.lock = a.lock
      BY <3>1 DEF Updated
    <3> HIDE DEF a, b
    <3>4. Live(p)' > 0 /\ \A q \in LivePools' : Live(q)' > 0
      BY <2>1, <2>2, <2>3
    <3>5. p = b /\ \A q \in LivePools' : q.type = s => q = b
      BY <2>1, <3>2, <3>4
    <3>6. live'[p] = 1
      BY <2>1, <3>2, <3>5
    <3>7. /\ a.type.id \in Nat /\ a.type.id < next_id /\ next_id \in Nat
          /\ a.lock.t1 < a.lock.t2
      BY <3>2, Zenon DEF LInv, OneCellPerPool
    <3> QED
      BY <1>2, <2>1, <3>2, <3>3, <3>5, <3>6, <3>7
  <2> QED
    BY <2>1, <2>4, <2>5, <2>6, ThreeWays, Zenon
<1> QED
  BY <1>1, <1>2, <1>3, Zenon DEF LInv, OneCellPerPool

\* Before the first transaction there is no cell.
LEMMA InitLInv == Init => LInv
<1> SUFFICES ASSUME Init PROVE LInv
  OBVIOUS
<1>1. live = [e \in {} |-> 1]
  BY DEF Init, EmptyBag, SetToBag
<1>2. LivePools = {}
  BY <1>1 DEF LivePools, LiveCells, BagToSet
<1> QED
  BY <1>1, <1>2 DEF Init, LInv, OneCellPerPool, IsABag

\* Every action publishes a transaction.
LEMMA NextPublishes ==
    ASSUME Next
    PROVE  \E tx : \E stale \in Stale : Publish(tx, stale)
<1>1. ASSUME NEW tx, PublishVariant(tx) PROVE \E t : \E stale \in Stale : Publish(t, stale)
  BY <1>1, Zenon DEF PublishVariant
<1>2. ASSUME CreatePool PROVE \E tx : PublishVariant(tx)
  BY <1>2, Zenon DEF CreatePool
<1>3. ASSUME SwapOne PROVE \E tx : PublishVariant(tx)
  BY <1>3, Zenon DEF SwapOne
<1>4. ASSUME TouchTwo PROVE \E tx : PublishVariant(tx)
  BY <1>4, Zenon DEF TouchTwo
<1>5. ASSUME AddLiquidity PROVE \E tx : PublishVariant(tx)
  BY <1>5, Zenon DEF AddLiquidity
<1>6. ASSUME RemoveLiquidity PROVE \E tx : PublishVariant(tx)
  BY <1>6, Zenon DEF RemoveLiquidity
<1>7. ASSUME TransferTokens PROVE \E tx : PublishVariant(tx)
  BY <1>7, Zenon DEF TransferTokens
<1>8. ASSUME Donate PROVE \E tx : PublishVariant(tx)
  BY <1>8, Zenon DEF Donate
<1> QED
  BY <1>1, <1>2, <1>3, <1>4, <1>5, <1>6, <1>7, <1>8, Zenon DEF Next

\* So does every step.
LEMMA NextLInv == LInv /\ [Next]_ledger_vars => LInv'
<1> SUFFICES ASSUME LInv, [Next]_ledger_vars PROVE LInv'
  OBVIOUS
<1>1. CASE Next
  BY <1>1, NextPublishes, PublishLInv, Zenon
<1>2. CASE UNCHANGED ledger_vars
  BY <1>2 DEF ledger_vars, LInv, OneCellPerPool, LivePools, LiveCells
<1> QED
  BY <1>1, <1>2

\* Along every behaviour identities are used up in order.
LEMMA LedgerInvariance == Spec => []LInv
BY InitLInv, NextLInv, PTL DEF Spec

\* A pool has one live cell and its pair is sorted, whatever is published.
THEOREM PoolsAreUnique == Spec => []OneCellPerPool
<1>1. LInv => OneCellPerPool
  BY DEF LInv
<1> QED
  BY <1>1, LedgerInvariance, PTL

-----------------------------------------------------------------------------
\* A pool that a transaction consumes is updated by it.
LEMMA TouchedPools ==
    ASSUME LInv, NEW tx, NEW stale, Publish(tx, stale), NEW p \in Touched
    PROVE  /\ update_udtswap_check(tx, p.type)
           /\ \A k : Updated(tx, p.type, k) => p = Input(tx, 3 * k)
<1> DEFINE s == p.type
<1>1. p \in LiveCells /\ p \in LivePools /\ p \notin LiveCells' /\ s.code = "udtswap"
  BY DEF Touched, LivePools
<1>2. /\ Live(p) > 0 /\ ~ Live(p)' > 0
  <2>1. IsABag(live')
    BY Effect DEF LInv
  <2> QED
    BY <1>1, <2>1, LiveMeans DEF LInv
<1>3. s \in TypeScripts(tx)
  BY <1>1, <1>2, NotInvolved
<1>4. ~ create_udtswap_check(tx, s, stale)
  BY <1>1, Created, Zenon
<1>5. update_udtswap_check(tx, s)
  BY <1>1, <1>3, <1>4, ThreeWays, Zenon
<1>6. ASSUME NEW k, Updated(tx, s, k) PROVE p = Input(tx, 3 * k)
  BY <1>1, <1>6, Exchanged
<1> QED
  BY <1>5, <1>6

\* Behind a change of liquidity stands the fee cell, so there is one pool.
LEMMA FeeEndsPools ==
    ASSUME NEW tx, check_fee(tx, 3, 1), NEW k \in Pools(tx)
    PROVE  k = 0
<1>1. k \in 0 .. Len(tx.inputs) \div 3 /\ \A j \in 0 .. k : pool_triple(tx, 3 * j)
  BY Zenon DEF Pools
<1> SUFFICES ASSUME k # 0 PROVE FALSE
  OBVIOUS
<1>2. 1 \in 0 .. k /\ 3 * 1 = 3 /\ 3 + 0 = 3 /\ 0 \in 0 .. 2
  BY <1>1
<1>3. pool_triple(tx, 3)
  BY <1>1, <1>2
<1>4. Output(tx, 3).lock.code = "udtswap_lock"
  <2>1. Output(tx, 3 + 0).lock = Input(tx, 3).lock /\ Input(tx, 3).lock.code = "udtswap_lock"
    BY <1>2, <1>3, Zenon DEF pool_triple, locks_same
  <2> QED
    BY <1>2, <2>1
<1>5. Output(tx, 3).lock = FeeLock
  BY Zenon DEF check_fee
<1> QED
  BY <1>4, <1>5 DEF FeeLock, Script

\* There are finitely many triples, and no more touched pools than triples.
LEMMA TouchedCount ==
    ASSUME LInv, NEW tx, NEW stale, Publish(tx, stale)
    PROVE  /\ IsFiniteSet(Pools(tx)) /\ Cardinality(Pools(tx)) \in Nat
           /\ Cardinality(Touched) \in Nat
           /\ Cardinality(Touched) <= Cardinality(Pools(tx))
<1>1. IsFiniteSet(Pools(tx)) /\ Cardinality(Pools(tx)) \in Nat
  <2>1. Len(tx.inputs) \in Nat
    BY BothSequences DEF Publish
  <2>2. Len(tx.inputs) \div 3 \in Nat
    <3>1. \A n \in Nat : n \div 3 \in Nat
      OBVIOUS
    <3> QED
      BY <2>1, <3>1
  <2>3. \A n \in Nat : IsFiniteSet(0 .. n)
    BY FS_Interval
  <2>4. Pools(tx) \in SUBSET (0 .. Len(tx.inputs) \div 3)
    BY Zenon DEF Pools
  <2>5. IsFiniteSet(Pools(tx))
    BY <2>2, <2>3, <2>4, FS_Subset, Zenon
  <2> QED
    BY <2>5, FS_CardinalityType, Zenon
<1> DEFINE heads == [k \in Pools(tx) |-> Input(tx, 3 * k)]
           H == {heads[k] : k \in Pools(tx)}
<1>2. IsFiniteSet(H) /\ Cardinality(H) <= Cardinality(Pools(tx)) /\ Cardinality(H) \in Nat
  <2>1. heads \in Surjection(Pools(tx), H)
    BY DEF Surjection
  <2> HIDE DEF heads, H
  <2>2. IsFiniteSet(H) /\ Cardinality(H) <= Cardinality(Pools(tx))
    BY <1>1, <2>1, FS_Surjection, Zenon
  <2> QED
    BY <2>2, FS_CardinalityType, Zenon
<1>3. Touched \in SUBSET H
  <2> SUFFICES ASSUME NEW p \in Touched PROVE p \in H
    OBVIOUS
  <2>1. PICK k : Updated(tx, p.type, k)
    BY TouchedPools, UpdateFacts, Zenon DEF Publish
  <2>2. p = Input(tx, 3 * k)
    BY <2>1, TouchedPools
  <2> QED
    BY <2>1, <2>2 DEF Updated
<1> HIDE DEF H
<1>4. IsFiniteSet(Touched) /\ Cardinality(Touched) <= Cardinality(H)
  BY <1>2, <1>3, FS_Subset, Zenon
<1>5. Cardinality(Touched) \in Nat
  BY <1>4, FS_CardinalityType, Zenon
<1> QED
  BY <1>1, <1>2, <1>4, <1>5

\* What the fee lock receives is at least what any of its cells holds.
LEMMA FeesReceived ==
    ASSUME NEW tx, NEW stale, Publish(tx, stale)
    PROVE  /\ paid' \in Nat
           /\ \A i \in DOMAIN tx.outputs :
                 tx.outputs[i].lock = FeeLock => tx.outputs[i].capacity <= paid'
<1> DEFINE S == OfLock(tx.outputs, FeeLock)
           fees == Selected(tx.outputs, S)
           numbers == [k \in DOMAIN fees |-> fees[k].capacity]
<1>1. tx.outputs \in Seq(CellsOf(tx.outputs)) /\ S \in SUBSET DOMAIN tx.outputs
  BY BothSequences DEF Publish, OfLock
<1>2. paid' = Total(numbers)
  BY Zenon DEF Publish
<1>3. /\ fees \in Seq(CellsOf(tx.outputs))
      /\ \A j \in DOMAIN fees : \E k \in S : fees[j] = tx.outputs[k]
      /\ \A k \in S : \E j \in DOMAIN fees : fees[j] = tx.outputs[k]
  BY <1>1, SelectedCount, SelectedHas, Zenon
<1>4. \A k \in DOMAIN tx.outputs : tx.outputs[k].capacity \in Nat
  <2>1. \A k \in DOMAIN tx.outputs : tx.outputs[k].capacity \in 0 .. U64 - 1
    BY Zenon DEF Publish, WellFormed
  <2> QED
    BY <2>1, TypeScriptAssumption
<1> HIDE DEF fees, S
<1>5. numbers \in Seq(Nat)
  <2>1. \A j \in DOMAIN fees : fees[j].capacity \in Nat
    BY <1>1, <1>3, <1>4
  <2>2. DOMAIN fees = 1 .. Len(fees) /\ Len(fees) \in Nat
    BY <1>3
  <2> QED
    BY <2>1, <2>2
<1>6. /\ paid' \in Nat
      /\ \A j \in DOMAIN fees : numbers[j] <= paid'
  BY <1>2, <1>5, TotalAtLeast
<1>7. ASSUME NEW i \in DOMAIN tx.outputs, tx.outputs[i].lock = FeeLock
      PROVE  tx.outputs[i].capacity <= paid'
  <2>1. i \in S
    BY <1>7 DEF S, OfLock
  <2>2. PICK j \in DOMAIN fees : fees[j] = tx.outputs[i]
    BY <1>3, <2>1
  <2> QED
    BY <1>6, <2>2
<1> QED
  BY <1>6, <1>7

\* A fee that check_fee() has seen is received.
LEMMA FeeSeen ==
    ASSUME NEW tx, NEW stale, Publish(tx, stale), NEW index \in Nat, NEW cnt \in Nat,
           check_fee(tx, index, cnt)
    PROVE  STATE_USE_FEE * cnt <= paid'
<1>1. tx.outputs \in Seq(CellsOf(tx.outputs))
  BY BothSequences DEF Publish
<1>2. /\ index + 1 \in DOMAIN tx.outputs
      /\ tx.outputs[index + 1].lock = FeeLock
      /\ tx.outputs[index + 1].capacity = STATE_USE_FEE * cnt
  BY <1>1 DEF check_fee, HasOutput, Output
<1> QED
  BY <1>2, FeesReceived

\* Every pool that a transaction moves is paid for.
LEMMA PublishPays ==
    ASSUME LInv, NEW tx, NEW stale, Publish(tx, stale)
    PROVE  paid' >= STATE_USE_FEE * Cardinality(Touched)
<1> DEFINE n == Cardinality(Touched)
           m == Cardinality(Pools(tx))
           fee == STATE_USE_FEE
<1>1. n \in Nat /\ m \in Nat /\ n <= m /\ fee \in Nat /\ paid' \in Nat
  BY TouchedCount, FeesReceived, TypeScriptAssumption
<1>2. CASE Touched = {}
  <2>1. n = 0
    BY <1>2, FS_EmptySet
  <2>2. fee * 0 = 0
    BY <1>1
  <2> QED
    BY <1>1, <2>1, <2>2
<1>3. CASE Touched # {}
  <2>1. PICK p : p \in Touched
    BY <1>3
  <2>2. PICK k : /\ Updated(tx, p.type, k)
                 /\ \/ check_fee(tx, 3 * m, m)
                    \/ k = 0 /\ check_fee(tx, 3, 1)
    BY <2>1, TouchedPools, UpdateFacts, Zenon DEF Publish
  <2>3. CASE check_fee(tx, 3 * m, m)
    <3>1. fee * m <= paid'
      <4>1. 3 * m \in Nat
        BY <1>1
      <4> QED
        BY <1>1, <2>3, <4>1, FeeSeen, Zenon
    <3> HIDE DEF n, m, fee
    <3>2. fee * n <= fee * m /\ fee * n \in Nat /\ fee * m \in Nat
      BY <1>1
    <3> QED
      BY <1>1, <3>1, <3>2 DEF n, fee
  <2>4. CASE check_fee(tx, 3, 1)
    <3>1. fee * 1 <= paid'
      <4>1. 3 \in Nat /\ 1 \in Nat
        OBVIOUS
      <4> QED
        BY <2>4, <4>1, FeeSeen, Zenon
    <3>2. Pools(tx) = {0}
      <4>1. \A j \in Pools(tx) : j = 0
        BY <2>4, FeeEndsPools, Zenon
      <4> QED
        BY <2>2, <4>1 DEF Updated
    <3>3. m = 1
      BY <3>2, FS_Singleton, Zenon
    <3> HIDE DEF n, m
    <3> QED
      BY <1>1, <3>1, <3>3 DEF n
  <2> QED
    BY <2>2, <2>3, <2>4
<1> QED
  BY <1>2, <1>3

\* Every pool that a transaction moves is paid for, however many it moves.
THEOREM EveryPoolIsPaidFor == Spec => FeePaid
<1>1. LInv /\ [Next]_ledger_vars =>
         [paid' >= STATE_USE_FEE * Cardinality(Touched)]_ledger_vars
  BY NextPublishes, PublishPays, Zenon
<1> QED
  BY <1>1, LedgerInvariance, PTL DEF Spec, FeePaid

-----------------------------------------------------------------------------
\* A deposit or a withdrawal is the only thing that happens to a pool.
LEMMA PublishMovesAlone ==
    ASSUME LInv, NEW tx, NEW stale, Publish(tx, stale), NEW p \in Touched,
           NEW q \in LivePools', q.type = p.type, q.data[3] # p.data[3]
    PROVE  Touched = {p}
<1> DEFINE m == Cardinality(Pools(tx))
<1>1. PICK k : /\ Updated(tx, p.type, k)
               /\ \/ swapped(tx, 3 * k)
                  \/ k = 0 /\ check_fee(tx, 3, 1)
  BY TouchedPools, UpdateFacts, Zenon DEF Publish
<1>2. p = Input(tx, 3 * k)
  BY <1>1, TouchedPools
<1>3. q = Output(tx, 3 * k)
  <2>1. \A d : d.type = p.type => Live(d)' = IF d = Output(tx, 3 * k) THEN 1 ELSE 0
    BY <1>1, Exchanged DEF Touched, LivePools
  <2>2. Live(q)' > 0
    <3>1. IsABag(live') /\ q \in LiveCells'
      BY Effect DEF LInv, LivePools
    <3> QED
      BY <3>1, LiveMeans, Zenon
  <2> QED
    BY <2>1, <2>2
<1>4. ~ swapped(tx, 3 * k)
  BY <1>2, <1>3 DEF swapped, swap_branch, TotalLiquidity
<1>5. check_fee(tx, 3, 1)
  BY <1>1, <1>4
<1>6. ASSUME NEW p2 \in Touched PROVE p2 = p
  <2>1. PICK k2 : Updated(tx, p2.type, k2)
    BY TouchedPools, UpdateFacts, Zenon DEF Publish
  <2>2. p2 = Input(tx, 3 * k2)
    BY <2>1, TouchedPools
  <2>3. k2 = 0 /\ k = 0
    BY <1>1, <1>5, <2>1, FeeEndsPools, Zenon DEF Updated
  <2> QED
    BY <1>2, <2>2, <2>3
<1> QED
  BY <1>6

\* A transaction that changes the liquidity of a pool moves no other pool.
THEOREM LiquidityAlone == Spec => LiquidityMovesAlone
<1> DEFINE Alone == \A p \in Touched :
                       (\E q \in LivePools' : q.type = p.type /\ q.data[3] # p.data[3])
                         => Touched = {p}
<1>1. LInv /\ [Next]_ledger_vars => [Alone]_ledger_vars
  <2> SUFFICES ASSUME LInv, Next PROVE Alone
    OBVIOUS
  <2>1. PICK tx, stale : Publish(tx, stale)
    BY NextPublishes
  <2> QED
    BY <2>1, PublishMovesAlone
<1> QED
  BY <1>1, LedgerInvariance, PTL DEF Spec, LiquidityMovesAlone

-----------------------------------------------------------------------------
\* The live tokens of a type.
Supply(s) == SumLive({c \in LiveCells : c.type = s}, AmountOf)

\* What is written in the cells of a transaction.
LEMMA CellsOK ==
    ASSUME NEW tx, WellFormed(tx), NEW cells \in {tx.inputs, tx.outputs},
           NEW k \in DOMAIN cells
    PROVE  /\ cells[k].data \in Seq(0 .. U128 - 1)
           /\ IsScript(cells[k].lock) /\ IsScript(cells[k].type)
           /\ cells[k].capacity \in 0 .. U64 - 1
BY Zenon DEF WellFormed, IsTransaction

\* A live cell was live before, or is an output.
LEMMA Grown ==
    ASSUME IsABag(live), NEW tx, NEW stale, Publish(tx, stale), NEW c \in LiveCells'
    PROVE  c \in LiveCells \/ \E k \in DOMAIN tx.outputs : tx.outputs[k] = c
<1>1. IsABag(live')
  BY Effect
<1>2. Live(c)' > 0 /\ Live(c)' \in Nat
  BY <1>1, LiveMeans
<1>3. CASE IsSystemCell(c)
  <2>1. /\ CountIn(tx.inputs, c) <= Live(c)
        /\ Live(c)' = Live(c) - CountIn(tx.inputs, c) + CountIn(tx.outputs, c)
    BY <1>3, Effect
  <2>2. /\ CountIn(tx.inputs, c) \in Nat /\ CountIn(tx.outputs, c) \in Nat
        /\ CountIn(tx.outputs, c) = 0 <=> \A k \in DOMAIN tx.outputs : tx.outputs[k] # c
    BY BothSequences, Counts, Zenon DEF Publish
  <2>3. Live(c) \in Nat /\ (c \in LiveCells <=> Live(c) > 0)
    BY LiveMeans
  <2> QED
    BY <1>2, <2>1, <2>2, <2>3
<1>4. CASE ~ IsSystemCell(c)
  BY <1>4, Effect
<1> QED
  BY <1>3, <1>4

\* A sequence has finitely many cells.
LEMMA SequenceCells ==
    ASSUME NEW T, NEW cells \in Seq(T)
    PROVE  IsFiniteSet(CellsOf(cells))
<1>1. IsFiniteSet(DOMAIN cells)
  <2>1. DOMAIN cells \in SUBSET DOMAIN cells
    OBVIOUS
  <2> QED
    BY <2>1, PositionsFinite, Zenon
<1>2. cells \in Surjection(DOMAIN cells, CellsOf(cells))
  BY DEF Surjection, CellsOf
<1> QED
  BY <1>1, <1>2, FS_Surjection, Zenon

\* There are never more than finitely many cells.
LEMMA StaysFinite ==
    ASSUME IsABag(live), IsFiniteSet(LiveCells), NEW tx, NEW stale, Publish(tx, stale)
    PROVE  IsFiniteSet(LiveCells')
<1>1. IsFiniteSet(CellsOf(tx.inputs)) /\ IsFiniteSet(CellsOf(tx.outputs))
  BY BothSequences, SequenceCells, Zenon DEF Publish
<1>2. LiveCells' \in SUBSET (LiveCells \cup CellsOf(tx.outputs))
  BY Grown DEF CellsOf
<1> QED
  BY <1>1, <1>2, FS_Union, FS_Subset, Zenon

\* What a transaction takes out of the tokens of a type, and puts there.
Taken(tx, s) == sum_amounts(CellsOfType(tx.inputs, s))
Given(tx, s) == sum_amounts(CellsOfType(tx.outputs, s))

IsSequence(cells) == cells \in Seq(CellsOf(cells))

\* The sum over the cells of a type in a sequence, by kind of cell.
LEMMA SumOfCells ==
    ASSUME NEW cells, IsSequence(cells), NEW s, NEW C, IsFiniteSet(C),
           \A k \in OfType(cells, s) : cells[k] \in C,
           \A c \in C : c.type = s /\ AmountOf(c) \in Nat,
           NEW h \in Weights(C), \A c \in C : h[c] = CountIn(cells, c) * AmountOf(c)
    PROVE  sum_amounts(CellsOfType(cells, s)) = TotalOver(h)
<1> DEFINE T == CellsOf(cells)
<1>s. cells \in Seq(T)
  BY DEF IsSequence
<1> HIDE DEF T
<1> DEFINE v == [c \in C |-> AmountOf(c)]
<1>0. v \in Weights(C) /\ \A c \in C : v[c] = AmountOf(c)
  BY DEF Weights
<1> HIDE DEF v
<1> DEFINE S == OfType(cells, s)
           at == [k \in S |-> cells[k]]
           n == Len(cells)
           g == [k \in S |-> v[cells[k]]]
<1>1. S \in SUBSET DOMAIN cells /\ n \in Nat /\ DOMAIN cells = 1 .. n
  BY <1>s DEF OfType
<1>2. /\ Selected(cells, S) \in Seq(T)
      /\ \A j \in DOMAIN Selected(cells, S) : \E k \in S : Selected(cells, S)[j] = cells[k]
  BY <1>s, <1>1, SelectedCount, SelectedHas, Zenon
<1>3. sum_amounts(CellsOfType(cells, s))
        = Total([j \in DOMAIN Selected(cells, S) |-> v[Selected(cells, S)[j]]])
  <2> DEFINE sel == Selected(cells, S)
  <2>1. \A j \in DOMAIN sel : v[sel[j]] = AmountOf(sel[j])
    BY <1>0, <1>2
  <2>2. [j \in DOMAIN sel |-> v[sel[j]]] = [j \in DOMAIN sel |-> AmountOf(sel[j])]
    BY <2>1
  <2> QED
    BY <2>2 DEF sum_amounts, CellsOfType
<1>4. Total([j \in DOMAIN Selected(cells, S) |-> v[Selected(cells, S)[j]]]) = TotalOver(g)
  <2>1. \A k \in S : cells[k] \in C
    OBVIOUS
  <2> HIDE DEF S
  <2> QED
    BY <1>s, <1>0, <1>1, <2>1, SelectedTotal, Zenon
<1>5. Placed(at, S, n, C)
  BY <1>1 DEF Placed
<1>6. g \in Weights(S) /\ \A k \in S : g[k] = v[at[k]]
  BY <1>0 DEF Weights
<1>7. \A c \in C : CountIn(at, c) = CountIn(cells, c)
  <2> SUFFICES ASSUME NEW c \in C PROVE CountIn(at, c) = CountIn(cells, c)
    OBVIOUS
  <2>1. {k \in DOMAIN at : at[k] = c} = {k \in DOMAIN cells : cells[k] = c}
    BY DEF OfType
  <2> QED
    BY <2>1, Zenon DEF CountIn
<1>8. TotalOver(g) = TotalOver(h)
  <2> HIDE DEF g, at, S, n
  <2>1. \A c \in C : h[c] = CountIn(at, c) * v[c]
    BY <1>0, <1>7
  <2> QED
    BY <1>0, <1>5, <1>6, <2>1, SumByKind
<1> QED
  BY <1>3, <1>4, <1>8

Copies(B, c) == IF c \in DOMAIN B THEN B[c] ELSE 0
SumOfType(B, s) == TotalOver([c \in {d \in DOMAIN B : d.type = s} |-> B[c] * AmountOf(c)])

\* The sum over the cells of a type in a bag, over any set that has them all.
LEMMA SumOfBag ==
    ASSUME NEW B, IsABag(B), NEW s, NEW C,
           \A c \in C : c.type = s /\ AmountOf(c) \in Nat,
           \A c \in DOMAIN B : c.type = s => c \in C,
           NEW h \in Weights(C), \A c \in C : h[c] = Copies(B, c) * AmountOf(c)
    PROVE  TotalOver(h) = SumOfType(B, s)
<1> USE DEF Copies, SumOfType
<1> DEFINE D == {d \in DOMAIN B : d.type = s}
           g == [c \in D |-> B[c] * AmountOf(c)]
<1>1. D \in SUBSET C
  OBVIOUS
<1>2. \A c \in D : B[c] \in Nat /\ AmountOf(c) \in Nat
  BY <1>1 DEF IsABag
<1>3. g \in Weights(D)
  <2>1. \A a, b \in Nat : a * b \in Nat
    OBVIOUS
  <2> QED
    BY <1>2, <2>1 DEF Weights
<1>4. \A c \in D : g[c] = h[c]
  BY <1>1, <1>2
<1>5. \A c \in C \ D : h[c] = 0
  <2> SUFFICES ASSUME NEW c \in C, c \notin D PROVE h[c] = 0
    OBVIOUS
  <2>1. c \notin DOMAIN B
    OBVIOUS
  <2>2. AmountOf(c) \in Nat
    OBVIOUS
  <2>3. h[c] = 0 * AmountOf(c)
    BY <2>1
  <2> QED
    BY <2>2, <2>3
<1> HIDE DEF g, D
<1> QED
  BY <1>1, <1>3, <1>4, <1>5, SumOfPart DEF g, D

\* Tokens are taken from the supply and given to it, and it changes in no other
\* way.
LEMMA SupplyFlow ==
    ASSUME IsABag(live), IsFiniteSet(LiveCells), NEW tx, NEW stale, Publish(tx, stale),
           NEW s, s.code = "liquidity",
           \A c \in LiveCells : c.type = s => AmountOf(c) \in Nat,
           \A k \in OfType(tx.outputs, s) : AmountOf(tx.outputs[k]) \in Nat
    PROVE  /\ Supply(s) \in Nat /\ Supply(s)' \in Nat
           /\ Taken(tx, s) \in Nat /\ Given(tx, s) \in Nat
           /\ Taken(tx, s) <= Supply(s)
           /\ Supply(s)' = Supply(s) - Taken(tx, s) + Given(tx, s)
<1> DEFINE C == {c \in LiveCells \cup CellsOf(tx.outputs) : c.type = s}
           a == [c \in C |-> Live(c) * AmountOf(c)]
           b == [c \in C |-> Live(c)' * AmountOf(c)]
           i == [c \in C |-> CountIn(tx.inputs, c) * AmountOf(c)]
           o == [c \in C |-> CountIn(tx.outputs, c) * AmountOf(c)]
           all == [c \in C |-> Live(c) * AmountOf(c) + CountIn(tx.outputs, c) * AmountOf(c)]
<1>1. /\ tx.inputs \in Seq(CellsOf(tx.inputs)) /\ tx.outputs \in Seq(CellsOf(tx.outputs))
      /\ IsABag(live')
  BY BothSequences, Effect DEF Publish
<1>2. IsFiniteSet(C)
  <2>1. IsFiniteSet(CellsOf(tx.outputs))
    BY <1>1, SequenceCells, Zenon
  <2>2. C \in SUBSET (LiveCells \cup CellsOf(tx.outputs))
    OBVIOUS
  <2> QED
    BY <2>1, <2>2, FS_Union, FS_Subset, Zenon
<1>3. \A c \in C : c.type = s /\ IsSystemCell(c)
  BY DEF IsSystemCell
<1>4. \A c \in C : c.type = s /\ AmountOf(c) \in Nat
  BY DEF CellsOf, OfType
<1>5. \A c : /\ Live(c) \in Nat /\ (c \in LiveCells <=> Live(c) > 0)
             /\ Live(c)' \in Nat
             /\ CountIn(tx.inputs, c) \in Nat /\ CountIn(tx.outputs, c) \in Nat
  BY <1>1, LiveMeans, Counts, Zenon
<1>6. \A c \in C : /\ CountIn(tx.inputs, c) <= Live(c)
                   /\ Live(c)' = Live(c) - CountIn(tx.inputs, c) + CountIn(tx.outputs, c)
  BY <1>3, Effect
<1>7. \A k \in OfType(tx.inputs, s) : tx.inputs[k] \in C
  <2> SUFFICES ASSUME NEW k \in OfType(tx.inputs, s) PROVE tx.inputs[k] \in C
    OBVIOUS
  <2> DEFINE c == tx.inputs[k]
  <2>1. k \in DOMAIN tx.inputs /\ c.type = s
    BY DEF OfType
  <2>2. CountIn(tx.inputs, c) # 0
    <3>1. ~ \A j \in DOMAIN tx.inputs : tx.inputs[j] # c
      BY <2>1
    <3> QED
      BY <1>1, <3>1, Counts
  <2>3. IsSystemCell(c)
    BY <2>1 DEF IsSystemCell
  <2>4. CountIn(tx.inputs, c) <= Live(c)
    BY <2>3, Effect
  <2> HIDE DEF c
  <2>5. c \in LiveCells
    BY <1>5, <2>2, <2>4
  <2> QED
    BY <2>1, <2>5 DEF c
<1>8. \A k \in OfType(tx.outputs, s) : tx.outputs[k] \in C
  BY DEF OfType, CellsOf
<1> HIDE DEF C
<1>9. /\ a \in Weights(C) /\ b \in Weights(C) /\ i \in Weights(C)
      /\ o \in Weights(C) /\ all \in Weights(C)
  <2>1. \A x, y \in Nat : x * y \in Nat /\ x + y \in Nat
    OBVIOUS
  <2>2. \A c \in C : AmountOf(c) \in Nat
    BY <1>4
  <2> QED
    BY <1>5, <2>1, <2>2 DEF Weights
<1>10. \A c \in C : all[c] = a[c] + o[c] /\ all[c] = b[c] + i[c] /\ i[c] <= a[c]
  <2> SUFFICES ASSUME NEW c \in C
               PROVE  all[c] = a[c] + o[c] /\ all[c] = b[c] + i[c] /\ i[c] <= a[c]
    OBVIOUS
  <2>1. \A l, m, n, w \in Nat : m <= l => /\ l * w + n * w = (l - m + n) * w + m * w
                                          /\ m * w <= l * w
    <3>1. \A l, m, n, w \in Nat : l * w + n * w = (l - m + n) * w + m * w
      OBVIOUS
    <3>2. \A l, m, w \in Nat : m <= l => m * w <= l * w
      OBVIOUS
    <3> QED
      BY <3>1, <3>2
  <2>2. AmountOf(c) \in Nat
    BY <1>4
  <2>3. /\ Live(c) * AmountOf(c) + CountIn(tx.outputs, c) * AmountOf(c)
             = (Live(c) - CountIn(tx.inputs, c) + CountIn(tx.outputs, c)) * AmountOf(c)
                 + CountIn(tx.inputs, c) * AmountOf(c)
        /\ CountIn(tx.inputs, c) * AmountOf(c) <= Live(c) * AmountOf(c)
    BY <1>5, <1>6, <2>1, <2>2
  <2> QED
    BY <1>6, <2>3
<1>11. Supply(s) = TotalOver(a) /\ Supply(s)' = TotalOver(b)
  <2>1. \A c \in DOMAIN live : c.type = s => c \in C
    BY DEF C, LiveCells, BagToSet
  <2>2. \A c \in DOMAIN live' : c.type = s => c \in C
    BY Grown DEF C, LiveCells, BagToSet, CellsOf
  <2>3. \A c \in C : a[c] = Copies(live, c) * AmountOf(c)
    BY DEF Live, Copies
  <2>4. \A c \in C : b[c] = Copies(live', c) * AmountOf(c)
    BY DEF Live, Copies
  <2> HIDE DEF a, b
  <2>5. TotalOver(a) = SumOfType(live, s)
    BY <1>4, <1>9, <2>1, <2>3, SumOfBag
  <2>6. TotalOver(b) = SumOfType(live', s)
    BY <1>1, <1>4, <1>9, <2>2, <2>4, SumOfBag
  <2>7. Supply(s) = SumOfType(live, s)
    BY DEF Supply, SumLive, LiveCells, BagToSet, SumOfType
  <2>8. Supply(s)' = SumOfType(live', s)
    BY DEF Supply, SumLive, LiveCells, BagToSet, SumOfType, AmountOf
  <2> QED
    BY <2>5, <2>6, <2>7, <2>8
<1>12. Taken(tx, s) = TotalOver(i)
  <2> DEFINE cells == tx.inputs
  <2>1. IsSequence(cells) /\ (\A k \in OfType(cells, s) : cells[k] \in C)
    BY <1>1, <1>7 DEF IsSequence
  <2>2. \A c \in C : i[c] = CountIn(cells, c) * AmountOf(c)
    OBVIOUS
  <2> HIDE DEF i, cells
  <2>3. sum_amounts(CellsOfType(cells, s)) = TotalOver(i)
    BY <1>2, <1>4, <1>9, <2>1, <2>2, SumOfCells
  <2> QED
    BY <2>3 DEF Taken, cells
<1>13. Given(tx, s) = TotalOver(o)
  <2> DEFINE cells == tx.outputs
  <2>1. IsSequence(cells) /\ (\A k \in OfType(cells, s) : cells[k] \in C)
    BY <1>1, <1>8 DEF IsSequence
  <2>2. \A c \in C : o[c] = CountIn(cells, c) * AmountOf(c)
    OBVIOUS
  <2> HIDE DEF o, cells
  <2>3. sum_amounts(CellsOfType(cells, s)) = TotalOver(o)
    BY <1>2, <1>4, <1>9, <2>1, <2>2, SumOfCells
  <2> QED
    BY <2>3 DEF Given, cells
<1> HIDE DEF a, b, i, o, all
<1>14. /\ TotalOver(a) \in Nat /\ TotalOver(b) \in Nat
       /\ TotalOver(i) \in Nat /\ TotalOver(o) \in Nat
  BY <1>2, <1>9, UnitsFinite
<1>15. /\ TotalOver(all) = TotalOver(a) + TotalOver(o)
       /\ TotalOver(all) = TotalOver(b) + TotalOver(i)
       /\ TotalOver(i) <= TotalOver(a)
  BY <1>2, <1>9, <1>10, SumAdds, SumIsMonotone
<1> QED
  BY <1>11, <1>12, <1>13, <1>14, <1>15

-----------------------------------------------------------------------------
\* The sum of the numbers in the cells of a type is none without such a cell.
LEMMA SumOfNoCells ==
    ASSUME NEW T, NEW cells \in Seq(T), NEW s, OfType(cells, s) = {}
    PROVE  sum_amounts(CellsOfType(cells, s)) = 0
<1> DEFINE sel == Selected(cells, OfType(cells, s))
           numbers == [k \in DOMAIN sel |-> AmountOf(sel[k])]
<1>1. OfType(cells, s) \in SUBSET DOMAIN cells
  OBVIOUS
<1>2. sel \in Seq(T) /\ Len(sel) = Cardinality(OfType(cells, s))
  BY <1>1, SelectedCount, Zenon
<1>3. Len(sel) = 0
  BY <1>2, FS_EmptySet, Zenon
<1>4. numbers \in Seq(Nat) /\ Len(numbers) = 0
  BY <1>2, <1>3
<1>5. sum_amounts(CellsOfType(cells, s)) = Total(numbers)
  BY DEF sum_amounts, CellsOfType
<1> HIDE DEF numbers
<1> QED
  BY <1>4, <1>5, TotalSteps

\* A type has a sum when it has a cell.
LEMMA SumOfTypeZero ==
    ASSUME NEW B, IsABag(B), IsFiniteSet(DOMAIN B), NEW s,
           \A c \in DOMAIN B : c.type = s => AmountOf(c) \in Nat \ {0}
    PROVE  /\ SumOfType(B, s) \in Nat
           /\ SumOfType(B, s) = 0 <=> \A c \in DOMAIN B : c.type # s
<1> DEFINE D == {d \in DOMAIN B : d.type = s}
           f == [c \in D |-> B[c] * AmountOf(c)]
<1>1. SumOfType(B, s) = TotalOver(f)
  BY DEF SumOfType
<1>2. \A c \in D : f[c] \in Nat \ {0}
  <2>1. \A a, b \in Nat \ {0} : a * b \in Nat \ {0}
    OBVIOUS
  <2>2. \A c \in D : B[c] \in Nat \ {0} /\ AmountOf(c) \in Nat \ {0}
    BY DEF IsABag
  <2> QED
    BY <2>1, <2>2
<1>3. f \in Weights(D)
  BY <1>2 DEF Weights
<1>4. IsFiniteSet(D)
  <2>1. D \in SUBSET DOMAIN B
    OBVIOUS
  <2> QED
    BY <2>1, FS_Subset, Zenon
<1>5. (\A c \in DOMAIN B : c.type # s) <=> D = {}
  OBVIOUS
<1> HIDE DEF f, D
<1>6. TotalOver(f) \in Nat
  BY <1>3, <1>4, UnitsFinite
<1>7. ASSUME D = {} PROVE TotalOver(f) = 0
  BY <1>3, <1>7, SumOfZeros
<1>8. ASSUME D # {} PROVE TotalOver(f) # 0
  <2>1. PICK d : d \in D
    BY <1>8
  <2>2. f[d] <= TotalOver(f)
    BY <1>3, <1>4, <2>1, SumOfElement
  <2> QED
    BY <1>2, <1>6, <2>1, <2>2
<1> QED
  BY <1>1, <1>5, <1>6, <1>7, <1>8

\* The token cells of a transaction hold one number each, and none is empty.
LEMMA TokenCells ==
    ASSUME NEW tx, NEW stale, Publish(tx, stale), NEW s, s.code \in {"liquidity", "udt"},
           NEW cells \in {tx.inputs, tx.outputs}, NEW k \in OfType(cells, s)
    PROVE  Len(cells[k].data) = 1 /\ AmountOf(cells[k]) \in Nat \ {0}
<1>1. k \in DOMAIN cells /\ cells[k].type = s
  BY DEF OfType
<1>2. amounts_ok(CellsOfType(tx.inputs, s)) /\ amounts_ok(CellsOfType(tx.outputs, s))
  <2>1. s \in TypeScripts(tx)
    BY <1>1 DEF TypeScripts
  <2>2. \/ s.code = "liquidity" /\ liquidity_main(tx, s)
        \/ s.code = "udt" /\ test_udt_main(tx, s)
    BY <2>1, Zenon DEF Publish, ScriptsAccept
  <2> QED
    BY <2>2, Zenon DEF liquidity_main, test_udt_main
<1> DEFINE sel == CellsOfType(cells, s)
<1>3. \A i \in DOMAIN sel : Len(sel[i].data) = 1 /\ AmountOf(sel[i]) # 0
  BY <1>2, Zenon DEF amounts_ok
<1>4. cells \in Seq(CellsOf(cells)) /\ OfType(cells, s) \in SUBSET DOMAIN cells
  BY BothSequences DEF Publish, OfType
<1>5. \A j \in OfType(cells, s) : \E i \in DOMAIN sel : sel[i] = cells[j]
  BY <1>4, SelectedHas, Zenon DEF CellsOfType
<1>6. Len(cells[k].data) = 1 /\ AmountOf(cells[k]) # 0
  BY <1>3, <1>5
<1>7. cells[k].data \in Seq(0 .. U128 - 1)
  BY <1>1, CellsOK, Zenon DEF Publish
<1>8. AmountOf(cells[k]) \in 0 .. U128 - 1
  <2>1. ASSUME NEW T, NEW d \in Seq(T), Len(d) = 1
        PROVE  d[1] \in T
    <3>1. d \in [1 .. Len(d) -> T]
      OBVIOUS
    <3>2. 1 \in 1 .. Len(d)
      BY <2>1
    <3> QED
      BY <3>1, <3>2, Zenon
  <2>2. cells[k].data[1] \in 0 .. U128 - 1
    BY <1>6, <1>7, <2>1, Zenon
  <2> QED
    BY <1>6, <2>2, Zenon DEF AmountOf
<1> QED
  BY <1>6, <1>8, WidthAssumption

\* Those that it creates.
LEMMA TokenOutputs ==
    ASSUME NEW tx, NEW stale, Publish(tx, stale), NEW s, s.code = "liquidity",
           NEW k \in OfType(tx.outputs, s)
    PROVE  AmountOf(tx.outputs[k]) \in Nat \ {0}
BY TokenCells

\* Those that it consumes.
LEMMA TokenInputs ==
    ASSUME NEW tx, NEW stale, Publish(tx, stale), NEW s, s.code = "liquidity",
           NEW k \in OfType(tx.inputs, s)
    PROVE  AmountOf(tx.inputs[k]) \in Nat \ {0}
BY TokenCells

-----------------------------------------------------------------------------
\* What is known of live tokens and pools: a token belongs to a live pool, and
\* no token cell is empty.
TInv == /\ IsFiniteSet(LiveCells)
        /\ \A c \in LiveCells :
              c.type.code = "liquidity" => /\ AmountOf(c) \in Nat \ {0}
                                           /\ \E p \in LivePools : c \in LpCells(p)
        /\ \A p \in LivePools : IsScript(p.lock) /\ IsScript(p.type)
                                /\ p.lock.code = "udtswap_lock"

\* The supply of a type changes by what a transaction takes and gives.
LEMMA Flow ==
    ASSUME LInv, TInv, NEW tx, NEW stale, Publish(tx, stale), NEW s, s.code = "liquidity"
    PROVE  /\ Supply(s) \in Nat /\ Supply(s)' \in Nat
           /\ Taken(tx, s) \in Nat /\ Given(tx, s) \in Nat
           /\ Taken(tx, s) <= Supply(s)
           /\ Supply(s)' = Supply(s) - Taken(tx, s) + Given(tx, s)
           /\ s \notin TypeScripts(tx) => Taken(tx, s) = 0 /\ Given(tx, s) = 0
           /\ Supply(s) = 0 <=> \A c \in LiveCells : c.type # s
<1>1. IsABag(live) /\ IsFiniteSet(LiveCells)
  BY DEF LInv, TInv
<1>2. \A c \in LiveCells : c.type = s => AmountOf(c) \in Nat \ {0}
  BY DEF TInv
<1>3. \A k \in OfType(tx.outputs, s) : AmountOf(tx.outputs[k]) \in Nat
  BY TokenOutputs
<1>4. /\ Supply(s) \in Nat /\ Supply(s)' \in Nat
      /\ Taken(tx, s) \in Nat /\ Given(tx, s) \in Nat
      /\ Taken(tx, s) <= Supply(s)
      /\ Supply(s)' = Supply(s) - Taken(tx, s) + Given(tx, s)
  BY <1>1, <1>2, <1>3, SupplyFlow
<1>5. ASSUME s \notin TypeScripts(tx) PROVE Taken(tx, s) = 0 /\ Given(tx, s) = 0
  <2>1. OfType(tx.inputs, s) = {} /\ OfType(tx.outputs, s) = {}
    BY <1>5 DEF TypeScripts, OfType
  <2>2. tx.inputs \in Seq(CellsOf(tx.inputs)) /\ tx.outputs \in Seq(CellsOf(tx.outputs))
    BY BothSequences DEF Publish
  <2> QED
    BY <2>1, <2>2, SumOfNoCells, Zenon DEF Taken, Given
<1>6. Supply(s) = 0 <=> \A c \in LiveCells : c.type # s
  <2>1. Supply(s) = SumOfType(live, s) /\ LiveCells = DOMAIN live
    BY DEF Supply, SumLive, LiveCells, BagToSet, SumOfType
  <2> QED
    BY <1>1, <1>2, <2>1, SumOfTypeZero
<1> QED
  BY <1>4, <1>5, <1>6

-----------------------------------------------------------------------------
\* The pool of a token is at input 0, and the token script has compared the
\* tokens with its total liquidity.
Owned(tx, s) ==
    /\ Updated(tx, PoolType(s.id), 0)
    /\ Input(tx, 0) \in LivePools
    /\ Input(tx, 0).type = PoolType(s.id)
    /\ Input(tx, 0).lock = PairLock(s.t1, s.t2)
    /\ liquidity_moved(TotalLiquidity(Input(tx, 0)), TotalLiquidity(Output(tx, 0)),
                       Taken(tx, s), Given(tx, s))

\* The tokens of a pool move with the pool, or as many go out as come in.
LEMMA TokensMove ==
    ASSUME LInv, NEW tx, NEW stale, Publish(tx, stale), NEW s, s.code = "liquidity",
           s \in TypeScripts(tx)
    PROVE  /\ Taken(tx, s) < U128 /\ Given(tx, s) < U128
           /\ \/ Owned(tx, s)
              \/ /\ Input(tx, 0).lock # PairLock(s.t1, s.t2)
                 /\ Taken(tx, s) = Given(tx, s)
<1>1. liquidity_main(tx, s)
  BY Zenon DEF Publish, ScriptsAccept
<1>2. /\ Taken(tx, s) < U128 /\ Given(tx, s) < U128
      /\ IF Input(tx, 0).lock = PairLock(s.t1, s.t2)
           THEN check_owner_mode_transfer(tx, s, Taken(tx, s), Given(tx, s))
           ELSE Taken(tx, s) = Given(tx, s)
  BY <1>1, Zenon DEF liquidity_main, amounts_ok, Taken, Given
<1>3. ASSUME Input(tx, 0).lock = PairLock(s.t1, s.t2)
      PROVE  Owned(tx, s)
  <2> DEFINE p == Input(tx, 0)
  <2>1. /\ p.type.code = "udtswap" /\ p.type.id = s.id
        /\ liquidity_moved(p.data[3], Output(tx, 0).data[3], Taken(tx, s), Given(tx, s))
    BY <1>2, <1>3, Zenon DEF check_owner_mode_transfer
  <2>2. 1 \in DOMAIN tx.inputs /\ p = tx.inputs[1]
    <3>1. tx.inputs \in Seq(CellsOf(tx.inputs)) /\ tx.inputs # <<>>
      BY BothSequences, Zenon DEF Publish, WellFormed
    <3> QED
      BY <3>1 DEF Input
  <2>3. p.type = PoolType(s.id)
    <3>1. IsScript(p.type)
      BY <2>2, CellsOK, Zenon DEF Publish
    <3> QED
      BY <2>1, <3>1 DEF IsScript, PoolType, Script
  <2> DEFINE q == PoolType(s.id)
  <2>4. q.code = "udtswap"
    BY DEF PoolType, Script
  <2>5. PICK k : Updated(tx, q, k)
    <3>1. q \in TypeScripts(tx)
      BY <2>2, <2>3 DEF TypeScripts
    <3>2. ~ create_udtswap_check(tx, q, stale)
      <4>1. 1 \in OfType(tx.inputs, q)
        BY <2>2, <2>3 DEF OfType
      <4> QED
        BY <4>1, Zenon DEF create_udtswap_check
    <3> HIDE DEF q
    <3> QED
      BY <2>4, <3>1, <3>2, ThreeWays, Zenon
  <2>6. k = 0
    <3>1. k \in Nat /\ 3 * k + 1 = 1
      BY <2>2, <2>3, <2>5, Zenon DEF Updated, OnlyAt
    <3> QED
      BY <3>1
  <2>7. Input(tx, 3 * 0) \in LivePools
    <3> HIDE DEF q
    <3> QED
      BY <2>4, <2>5, <2>6, Exchanged, Zenon
  <2> QED
    BY <1>3, <2>1, <2>3, <2>5, <2>6, <2>7 DEF Owned, TotalLiquidity
<1> QED
  BY <1>2, <1>3

\* No pool is ever closed, and none changes its lock.
LEMMA PoolsStay ==
    ASSUME LInv, NEW tx, NEW stale, Publish(tx, stale), NEW p \in LivePools
    PROVE  \E q \in LivePools' : q.type = p.type /\ q.lock = p.lock
<1> DEFINE s == p.type
<1>1. p \in LiveCells /\ s.code = "udtswap"
  BY DEF LivePools
<1>2. IsABag(live') /\ Live(p) > 0
  BY <1>1, Effect, LiveMeans DEF LInv
<1>3. \A c : Live(c)' > 0 /\ c.type = s => c \in LivePools'
  BY <1>1, <1>2, LiveMeans DEF LivePools
<1> HIDE DEF s
<1>4. CASE s \notin TypeScripts(tx)
  <2>1. Live(p)' = Live(p)
    BY <1>1, <1>4, NotInvolved, Zenon DEF s
  <2> QED
    BY <1>2, <1>3, <2>1 DEF s
<1>5. CASE create_udtswap_check(tx, s, stale)
  BY <1>1, <1>5, Created, Zenon DEF s
<1>6. CASE \E k : Updated(tx, s, k)
  <2>1. PICK k : Updated(tx, s, k)
    BY <1>6
  <2>2. /\ Live(Output(tx, 3 * k))' = 1
        /\ p = Input(tx, 3 * k) /\ Output(tx, 3 * k).type = s
    BY <1>1, <2>1, Exchanged DEF s
  <2>3. Output(tx, 3 * k).lock = p.lock
    BY <2>1, <2>2 DEF Updated
  <2> QED
    BY <1>3, <2>2, <2>3 DEF s
<1> QED
  BY <1>1, <1>4, <1>5, <1>6, ThreeWays, Zenon

\* The cell of a new pool.
LEMMA NewPool ==
    ASSUME NEW tx, WellFormed(tx), NEW s, NEW stale, create_udtswap_check(tx, s, stale)
    PROVE  /\ tx.outputs[1] = Output(tx, 0)
           /\ Output(tx, 0).lock.code = "udtswap_lock"
           /\ created_empty(tx, stale)
<1>1. 0 + 1 = 1
  OBVIOUS
<1>2. tx.outputs[1] = Output(tx, 0)
  BY <1>1 DEF Output
<1> QED
  BY <1>2, Zenon DEF create_udtswap_check

\* The cell of a pool behind a transaction: it was there before, or it is new,
\* or it stands for one that was.
LEMMA PoolsBehind ==
    ASSUME LInv, NEW tx, NEW stale, Publish(tx, stale), NEW p \in LivePools'
    PROVE  \/ p \in LivePools /\ p.type \notin TypeScripts(tx)
           \/ p = Output(tx, 0) /\ create_udtswap_check(tx, p.type, stale)
           \/ /\ update_udtswap_check(tx, p.type)
              /\ \A k : Updated(tx, p.type, k) => p = Output(tx, 3 * k)
<1> DEFINE s == p.type
<1>1. IsABag(live') /\ p \in LiveCells' /\ s.code = "udtswap"
  BY Effect DEF LInv, LivePools
<1>2. Live(p)' > 0
  BY <1>1, LiveMeans
<1>3. CASE s \notin TypeScripts(tx)
  <2>1. Live(p)' = Live(p)
    BY <1>1, <1>3, NotInvolved
  <2>2. p \in LiveCells
    BY <1>2, <2>1, LiveMeans DEF LInv
  <2> QED
    BY <1>1, <1>3, <2>2 DEF LivePools
<1>4. CASE create_udtswap_check(tx, s, stale)
  <2>1. Live(p)' = IF p = tx.outputs[1] THEN 1 ELSE 0
    BY <1>1, <1>4, Created, Zenon
  <2>2. tx.outputs[1] = Output(tx, 0)
    BY <1>4, NewPool, Zenon DEF Publish
  <2> QED
    BY <1>2, <1>4, <2>1, <2>2
<1>5. CASE update_udtswap_check(tx, s)
  <2>1. ASSUME NEW k, Updated(tx, s, k) PROVE p = Output(tx, 3 * k)
    <3>1. Live(p)' = IF p = Output(tx, 3 * k) THEN 1 ELSE 0
      BY <1>1, <2>1, Exchanged
    <3> QED
      BY <1>2, <3>1
  <2> QED
    BY <1>5, <2>1
<1> QED
  BY <1>1, <1>3, <1>4, <1>5, ThreeWays, Zenon

\* A transaction leaves every token with a live pool.
LEMMA PublishTInv ==
    ASSUME LInv, TInv, NEW tx, NEW stale, Publish(tx, stale)
    PROVE  TInv'
<1>1. IsFiniteSet(LiveCells')
  BY StaysFinite DEF LInv, TInv
<1>2. IsABag(live)
  BY DEF LInv
<1>3. ASSUME NEW c \in LiveCells', c.type.code = "liquidity"
      PROVE  AmountOf(c) \in Nat \ {0} /\ \E p \in LivePools' : c \in LpCells(p)'
  <2> DEFINE s == c.type
  <2>1. AmountOf(c) \in Nat \ {0}
    <3>1. CASE c \in LiveCells
      BY <1>3, <3>1 DEF TInv
    <3>2. CASE \E k \in DOMAIN tx.outputs : tx.outputs[k] = c
      <4>1. PICK k \in DOMAIN tx.outputs : tx.outputs[k] = c
        BY <3>2
      <4>2. k \in OfType(tx.outputs, c.type)
        BY <4>1 DEF OfType
      <4> QED
        BY <1>3, <4>1, <4>2, TokenOutputs
    <3> QED
      BY <1>2, <3>1, <3>2, Grown
  <2>2. \E p \in LivePools : s = LiquidityType(p.lock, p.type.id)
    <3>1. CASE \E d \in LiveCells : d.type = s
      <4>1. PICK d \in LiveCells : d.type = s
        BY <3>1
      <4>2. \E p \in LivePools : d \in LpCells(p)
        BY <1>3, <4>1 DEF TInv
      <4> QED
        BY <4>1, <4>2 DEF LpCells
    <3>2. CASE \A d \in LiveCells : d.type # s
      <4> HIDE DEF s
      <4>1. /\ Supply(s) = 0 /\ Supply(s)' = Supply(s) - Taken(tx, s) + Given(tx, s)
            /\ Taken(tx, s) \in Nat /\ Given(tx, s) \in Nat /\ Taken(tx, s) <= Supply(s)
            /\ s \notin TypeScripts(tx) => Taken(tx, s) = 0 /\ Given(tx, s) = 0
        BY <1>3, <3>2, Flow DEF s
      <4>2. Supply(s)' # 0
        <5>1. \A d \in DOMAIN live' : d.type = s => AmountOf(d) \in Nat \ {0}
          <6> SUFFICES ASSUME NEW d \in LiveCells', d.type = s
                       PROVE  AmountOf(d) \in Nat \ {0}
            BY DEF LiveCells, BagToSet
          <6>1. PICK k \in DOMAIN tx.outputs : tx.outputs[k] = d
            BY <1>2, <3>2, Grown
          <6>2. k \in OfType(tx.outputs, s)
            BY <6>1 DEF OfType
          <6> QED
            BY <1>3, <6>1, <6>2, TokenOutputs DEF s
        <5>2. IsABag(live') /\ IsFiniteSet(DOMAIN live')
          BY <1>1, <1>2, Effect DEF LiveCells, BagToSet
        <5>3. c \in DOMAIN live' /\ c.type = s
          BY DEF LiveCells, BagToSet, s
        <5>4. SumOfType(live', s) # 0
          BY <5>1, <5>2, <5>3, SumOfTypeZero
        <5>5. Supply(s)' = SumOfType(live', s)
          BY DEF Supply, SumLive, LiveCells, BagToSet, SumOfType, AmountOf
        <5> QED
          BY <5>4, <5>5
      <4>3. s \in TypeScripts(tx) /\ Taken(tx, s) # Given(tx, s)
        BY <4>1, <4>2
      <4>4. Owned(tx, s)
        BY <1>3, <4>3, TokensMove DEF s
      <4>5. s = LiquidityType(Input(tx, 0).lock, Input(tx, 0).type.id)
        <5>1. PICK k \in DOMAIN tx.outputs : tx.outputs[k] = c
          BY <1>2, <3>2, Grown DEF s
        <5>2. IsScript(s)
          BY <5>1, CellsOK, Zenon DEF Publish, s
        <5>3. s.code = "liquidity"
          BY <1>3 DEF s
        <5> QED
          BY <4>4, <5>2, <5>3 DEF Owned, IsScript, LiquidityType, PairLock, PoolType, Script
      <4> QED
        BY <4>4, <4>5 DEF Owned
    <3> QED
      BY <3>1, <3>2
  <2>3. PICK p \in LivePools : s = LiquidityType(p.lock, p.type.id)
    BY <2>2
  <2>4. PICK q \in LivePools' : q.type = p.type /\ q.lock = p.lock
    BY PoolsStay
  <2>5. c \in LpCells(q)'
    BY <2>3, <2>4 DEF LpCells, LiquidityType
  <2> QED
    BY <2>1, <2>4, <2>5
<1>4. ASSUME NEW p \in LivePools'
      PROVE  IsScript(p.lock) /\ IsScript(p.type) /\ p.lock.code = "udtswap_lock"
  <2>1. p \in LivePools \/ \E k \in DOMAIN tx.outputs : tx.outputs[k] = p
    BY <1>2, Grown DEF LivePools
  <2>2. CASE p \in LivePools
    BY <2>2 DEF TInv
  <2>3. CASE p \notin LivePools
    <3>1. IsScript(p.lock) /\ IsScript(p.type)
      BY <2>1, <2>3, CellsOK, Zenon DEF Publish
    <3>2. CASE p = Output(tx, 0) /\ create_udtswap_check(tx, p.type, stale)
      BY <3>1, <3>2, NewPool, Zenon DEF Publish
    <3>3. CASE /\ update_udtswap_check(tx, p.type)
               /\ \A k : Updated(tx, p.type, k) => p = Output(tx, 3 * k)
      <4>1. PICK k : Updated(tx, p.type, k) /\ p = Output(tx, 3 * k)
        BY <3>3, UpdateFacts, Zenon DEF Publish
      <4> QED
        BY <3>1, <4>1, TripleCells, Zenon DEF Updated, Publish
    <3> QED
      BY <2>3, <3>2, <3>3, PoolsBehind
  <2> QED
    BY <2>2, <2>3
<1> QED
  BY <1>1, <1>3, <1>4, Zenon DEF TInv

\* One time around.
LEMMA WrapOnce ==
    ASSUME NEW m \in Nat \ {0}, NEW n \in Nat
    PROVE  /\ n < m => n % m = n
           /\ n >= m /\ n < 2 * m => n % m = n - m
OBVIOUS

\* The comparison of the token script, in numbers.
LEMMA MovedNumbers ==
    ASSUME NEW l \in 0 .. U128 - 1, NEW l2 \in 0 .. U128 - 1,
           NEW t \in Nat, NEW g \in Nat, t <= l, g < U128, liquidity_moved(l, l2, t, g)
    PROVE  l - t + g = l2 \/ l - t + g >= U128
<1>1. U128 \in Nat \ {0}
  BY WidthAssumption
<1>2. \A n \in Nat : /\ n < U128 => n % U128 = n
                     /\ n >= U128 /\ n < 2 * U128 => n % U128 = n - U128
  BY <1>1, WrapOnce
<1>3. CASE l2 > l
  <2>1. t + l2 - l \in Nat /\ t + l2 - l < U128
    BY <1>1, <1>3
  <2>2. (t + l2 - l) % U128 = g
    BY <1>3 DEF liquidity_moved, Wrap
  <2>3. t + l2 - l = g
    BY <1>2, <2>1, <2>2
  <2> QED
    BY <2>3
<1>4. CASE l2 < l
  <2>1. g + l - l2 \in Nat /\ g + l - l2 < 2 * U128
    BY <1>1, <1>4
  <2>2. t = (g + l - l2) % U128
    BY <1>4 DEF liquidity_moved, Wrap
  <2>3. t = g + l - l2 \/ t = g + l - l2 - U128
    BY <1>1, <1>2, <2>1, <2>2
  <2> QED
    BY <1>1, <2>3
<1>5. CASE l2 = l
  BY <1>5 DEF liquidity_moved
<1> QED
  BY <1>3, <1>4, <1>5

\* The scripts of a pool cell.
LEMMA PoolScripts ==
    ASSUME NEW p, IsScript(p.lock), IsScript(p.type), p.lock.code = "udtswap_lock",
           p.type.code = "udtswap"
    PROVE  p.type = PoolType(p.type.id) /\ p.lock = PairLock(p.lock.t1, p.lock.t2)
BY DEF IsScript, PoolType, PairLock, Script

\* What a transaction does to the tokens of a pool that is live behind it.  The
\* token script calculates in 128 bits: it may see a withdrawal where 2^128
\* tokens more than that were created.
LEMMA SupplyStep ==
    ASSUME LInv, TInv, NEW tx, NEW stale, Publish(tx, stale), NEW p \in LivePools',
           NEW s, s = LiquidityType(p.lock, p.type.id),
           \A q \in LivePools : Supply(LiquidityType(q.lock, q.type.id)) = q.data[3]
    PROVE  Supply(s)' = p.data[3] \/ Supply(s)' >= U128
<1>1. IsScript(p.lock) /\ IsScript(p.type) /\ p.lock.code = "udtswap_lock" /\ p.type.code = "udtswap"
  <2>1. TInv'
    BY PublishTInv
  <2> QED
    BY <2>1 DEF TInv, LivePools
<1>2. /\ p.type = PoolType(s.id) /\ p.lock = PairLock(s.t1, s.t2)
      /\ s.code = "liquidity" /\ s.id = p.type.id
  BY <1>1, PoolScripts DEF LiquidityType, Script
<1>3. /\ Supply(s) \in Nat /\ Supply(s)' \in Nat
      /\ Taken(tx, s) \in Nat /\ Given(tx, s) \in Nat
      /\ Taken(tx, s) <= Supply(s)
      /\ Supply(s)' = Supply(s) - Taken(tx, s) + Given(tx, s)
      /\ s \notin TypeScripts(tx) => Taken(tx, s) = 0 /\ Given(tx, s) = 0
      /\ Supply(s) = 0 <=> \A c \in LiveCells : c.type # s
  BY <1>2, Flow
<1>4. \/ Owned(tx, s)
      \/ Taken(tx, s) = Given(tx, s) /\ (s \in TypeScripts(tx) => Input(tx, 0).lock # p.lock)
  BY <1>2, <1>3, TokensMove
<1>5. Owned(tx, s) => /\ Input(tx, 0) \in LivePools /\ Input(tx, 0).type = p.type
                      /\ Updated(tx, p.type, 0)
  BY <1>2 DEF Owned
<1>6. CASE p \in LivePools /\ p.type \notin TypeScripts(tx)
  <2>1. ~ Owned(tx, s)
    BY <1>5, <1>6, Zenon DEF Updated, OnlyAt, TypeScripts
  <2>2. Supply(s) = p.data[3]
    BY <1>6
  <2> QED
    BY <1>3, <1>4, <2>1, <2>2
<1>7. CASE p = Output(tx, 0) /\ create_udtswap_check(tx, p.type, stale)
  <2>1. \A d \in LiveCells : d.type # p.type
    BY <1>1, <1>7, Created, Zenon
  <2>2. ~ Owned(tx, s)
    BY <1>5, <2>1 DEF LivePools
  <2>3. \A c \in LiveCells : c.type # s
    <3> SUFFICES ASSUME NEW c \in LiveCells, c.type = s PROVE FALSE
      OBVIOUS
    <3>1. PICK q \in LivePools : c \in LpCells(q)
      BY <1>2 DEF TInv
    <3>2. q.type.id = p.type.id
      BY <3>1 DEF LpCells, LiquidityType, Script
    <3>3. q.type = p.type
      <4>1. IsScript(q.lock) /\ IsScript(q.type) /\ q.lock.code = "udtswap_lock"
            /\ q.type.code = "udtswap"
        BY DEF TInv, LivePools
      <4> QED
        BY <1>2, <3>2, <4>1, PoolScripts
    <3> QED
      BY <2>1, <3>3 DEF LivePools
  <2>4. Supply(s)' = 0
    BY <1>3, <1>4, <2>2, <2>3
  <2>5. p.data[3] = 0
    BY <1>7, NewPool, Zenon DEF created_empty, Publish
  <2> QED
    BY <2>4, <2>5
<1>8. CASE /\ update_udtswap_check(tx, p.type)
           /\ \A k : Updated(tx, p.type, k) => p = Output(tx, 3 * k)
  <2>1. PICK k : /\ Updated(tx, p.type, k)
                 /\ \/ swapped(tx, 3 * k)
                    \/ /\ k = 0
                       /\ \/ added(tx, 0) /\ minted_to(tx)
                          \/ removed(tx, 0) /\ burned_from(tx)
    BY <1>8, UpdateFacts, Zenon DEF Publish
  <2> DEFINE a == Input(tx, 3 * k)
  <2>2. p = Output(tx, 3 * k) /\ a \in LivePools /\ a.type = p.type /\ a.lock = p.lock
    <3>1. p = Output(tx, 3 * k) /\ a.lock = p.lock
      BY <1>8, <2>1 DEF Updated
    <3>2. a \in LivePools /\ a.type = p.type
      BY <1>1, <2>1, Exchanged
    <3> QED
      BY <3>1, <3>2
  <2>3. Supply(s) = a.data[3]
    BY <2>2
  <2>4. CASE Owned(tx, s)
    <3>1. k = 0 /\ 3 * k = 0
      BY <1>5, <2>1, <2>4 DEF Updated, OnlyAt
    <3>2. liquidity_moved(a.data[3], p.data[3], Taken(tx, s), Given(tx, s))
      BY <2>2, <2>4, <3>1 DEF Owned, TotalLiquidity
    <3>3. a.data[3] \in 0 .. U128 - 1 /\ p.data[3] \in 0 .. U128 - 1
      <4>1. a.data \in Seq(0 .. U128 - 1) /\ p.data \in Seq(0 .. U128 - 1)
        BY <2>1, <2>2, CellsOK, Zenon DEF Publish, Updated, OnlyAt
      <4>2. Len(a.data) = 3 /\ Len(p.data) = 3
        BY <2>1, <2>2, Zenon DEF Updated, pool_triple, reserves_held
      <4>3. \A T : \A d \in Seq(T) : Len(d) = 3 => d[3] \in T
        OBVIOUS
      <4> QED
        BY <4>1, <4>2, <4>3
    <3>4. Given(tx, s) < U128
      <4>1. CASE s \in TypeScripts(tx)
        BY <1>2, <4>1, TokensMove
      <4>2. CASE s \notin TypeScripts(tx)
        BY <1>3, <4>2, WidthAssumption
      <4> QED
        BY <4>1, <4>2
    <3> HIDE DEF a
    <3>5. \/ a.data[3] - Taken(tx, s) + Given(tx, s) = p.data[3]
          \/ a.data[3] - Taken(tx, s) + Given(tx, s) >= U128
      BY <1>3, <2>3, <3>2, <3>3, <3>4, MovedNumbers
    <3> QED
      BY <1>3, <2>3, <3>5
  <2>5. CASE ~ Owned(tx, s)
    <3>1. swapped(tx, 3 * k)
      <4> SUFFICES ASSUME k = 0, minted_to(tx) \/ burned_from(tx) PROVE FALSE
        BY <2>1
      <4>1. Input(tx, 0) = a
        OBVIOUS
      <4>2. s = LiquidityType(Input(tx, 0).lock, Input(tx, 0).type.id)
        BY <2>2, <4>1
      <4>3. s \in TypeScripts(tx)
        <5>1. /\ Len(tx.inputs) \in Nat /\ DOMAIN tx.inputs = 1 .. Len(tx.inputs)
              /\ Len(tx.outputs) \in Nat /\ DOMAIN tx.outputs = 1 .. Len(tx.outputs)
          BY BothSequences DEF Publish
        <5>2. CASE minted_to(tx)
          BY <4>2, <5>1, <5>2 DEF minted_to, HasOutput, Output, check_liquidity_udt_script, TypeScripts
        <5>3. CASE burned_from(tx)
          BY <4>2, <5>1, <5>3 DEF burned_from, HasInput, Input, check_liquidity_udt_script, TypeScripts
        <5> QED
          BY <5>2, <5>3
      <4> QED
        BY <1>4, <2>2, <2>5, <4>1, <4>3
    <3>2. a.data[3] = p.data[3]
      BY <2>2, <3>1 DEF swapped, swap_branch, TotalLiquidity
    <3> QED
      BY <1>3, <1>4, <2>3, <2>5, <3>2
  <2> QED
    BY <2>4, <2>5
<1> QED
  BY <1>6, <1>7, <1>8, PoolsBehind

-----------------------------------------------------------------------------
\* Every pool is backed: as many tokens as it has recorded.
Backed == \A p \in LivePools : Supply(LiquidityType(p.lock, p.type.id)) = p.data[3]

\* There are fewer than 2^128 tokens of every pool.
SupplyFits == \A p \in LivePools : SumLive(LpCells(p), AmountOf) < U128

\* Before the first transaction there is no token.
LEMMA InitTInv == Init => TInv /\ Backed
<1> SUFFICES ASSUME Init PROVE TInv /\ Backed
  OBVIOUS
<1>1. live = [e \in {} |-> 1]
  BY DEF Init, EmptyBag, SetToBag
<1>2. LiveCells = {} /\ LivePools = {}
  BY <1>1 DEF LivePools, LiveCells, BagToSet
<1> QED
  BY <1>2, FS_EmptySet, Zenon DEF TInv, Backed

\* A step leaves every token with a live pool.
LEMMA NextTInv == LInv /\ TInv /\ [Next]_ledger_vars => TInv'
<1> SUFFICES ASSUME LInv, TInv, [Next]_ledger_vars PROVE TInv'
  OBVIOUS
<1>1. CASE Next
  BY <1>1, NextPublishes, PublishTInv, Zenon
<1>2. CASE UNCHANGED ledger_vars
  BY <1>2 DEF ledger_vars, TInv, LivePools, LiveCells, LpCells
<1> QED
  BY <1>1, <1>2

\* A step leaves every pool backed if its tokens can be counted in 128 bits.
LEMMA NextBacked ==
    LInv /\ TInv /\ Backed /\ SupplyFits' /\ [Next]_ledger_vars => Backed'
<1> SUFFICES ASSUME LInv, TInv, Backed, SupplyFits', [Next]_ledger_vars PROVE Backed'
  OBVIOUS
<1>1. CASE Next
  <2>1. PICK tx, stale : Publish(tx, stale)
    BY <1>1, NextPublishes
  <2> SUFFICES ASSUME NEW p \in LivePools'
               PROVE  Supply(LiquidityType(p.lock, p.type.id))' = p.data[3]
    BY DEF Backed, LiquidityType, Script
  <2> DEFINE s == LiquidityType(p.lock, p.type.id)
  <2>2. Supply(s)' < U128
    BY DEF SupplyFits, Supply, LpCells
  <2>3. Supply(s)' \in Nat
    <3>1. s.code = "liquidity"
      BY DEF LiquidityType, Script
    <3> QED
      BY <2>1, <3>1, Flow
  <2>4. Supply(s)' = p.data[3] \/ Supply(s)' >= U128
    BY <2>1, SupplyStep DEF Backed
  <2> QED
    BY <2>2, <2>3, <2>4, WidthAssumption
<1>2. CASE UNCHANGED ledger_vars
  BY <1>2 DEF ledger_vars, Backed, LivePools, LiveCells, Supply, SumLive
<1> QED
  BY <1>1, <1>2

\* Along every behaviour tokens belong to live pools.
LEMMA TokenInvariance == Spec => [](LInv /\ TInv)
<1>1. LInv /\ TInv /\ [Next]_ledger_vars => (LInv /\ TInv)'
  BY NextLInv, NextTInv
<1> QED
  BY InitLInv, InitTInv, <1>1, PTL DEF Spec

\* While there are fewer than 2^128 tokens of every pool, there are as many as
\* the pool has recorded; and there is never a token without a live pool.
THEOREM TokensBackPools == Spec /\ []SupplyFits => []LpSupplyBacked
<1>1. TInv /\ Backed => LpSupplyBacked
  BY DEF TInv, Backed, LpSupplyBacked, Supply, LpCells
<1>2. LInv /\ TInv /\ Backed /\ SupplyFits' /\ [Next]_ledger_vars => Backed'
  BY NextBacked
<1>3. Spec /\ []SupplyFits => []Backed
  BY InitTInv, TokenInvariance, <1>2, PTL DEF Spec
<1> QED
  BY <1>1, <1>3, TokenInvariance, PTL

-----------------------------------------------------------------------------
\* The three numbers of a live pool are numbers of 128 bits.
DInv == \A p \in LivePools : Len(p.data) = 3 /\ \A k \in 1 .. 3 : p.data[k] \in 0 .. U128 - 1

\* The numbers in a cell of a transaction.
LEMMA CellNumbers ==
    ASSUME NEW tx, WellFormed(tx), NEW i \in DOMAIN tx.outputs, Len(tx.outputs[i].data) = 3
    PROVE  \A k \in 1 .. 3 : tx.outputs[i].data[k] \in 0 .. U128 - 1
<1>1. tx.outputs[i].data \in Seq(0 .. U128 - 1)
  BY CellsOK, Zenon
<1>2. \A T : \A d \in Seq(T) : Len(d) = 3 => \A k \in 1 .. 3 : d[k] \in T
  OBVIOUS
<1> QED
  BY <1>1, <1>2

\* A transaction leaves every pool with three numbers.
LEMMA PublishDInv ==
    ASSUME LInv, DInv, NEW tx, NEW stale, Publish(tx, stale)
    PROVE  DInv'
<1> SUFFICES ASSUME NEW p \in LivePools'
             PROVE  Len(p.data) = 3 /\ \A k \in 1 .. 3 : p.data[k] \in 0 .. U128 - 1
  BY Zenon DEF DInv
<1>0. WellFormed(tx)
  BY DEF Publish
<1>1. CASE p \in LivePools
  BY <1>1 DEF DInv
<1>2. CASE p = Output(tx, 0) /\ create_udtswap_check(tx, p.type, stale)
  <2>1. Len(p.data) = 3
    BY <1>0, <1>2, NewPool, Zenon DEF created_empty
  <2>2. p = tx.outputs[1] /\ OnlyAt(tx.outputs, p.type, 1)
    BY <1>0, <1>2, NewPool, CreateFacts, Zenon
  <2> QED
    BY <1>0, <2>1, <2>2, CellNumbers, Zenon DEF OnlyAt
<1>3. CASE /\ update_udtswap_check(tx, p.type)
           /\ \A k : Updated(tx, p.type, k) => p = Output(tx, 3 * k)
  <2>1. PICK k : Updated(tx, p.type, k) /\ p = Output(tx, 3 * k)
    BY <1>0, <1>3, UpdateFacts, Zenon
  <2>2. Len(p.data) = 3
    BY <2>1, Zenon DEF Updated, pool_triple, reserves_held
  <2>3. p = tx.outputs[3 * k + 1] /\ OnlyAt(tx.outputs, p.type, 3 * k + 1)
    BY <2>1, Zenon DEF Updated
  <2> QED
    BY <1>0, <2>2, <2>3, CellNumbers, Zenon DEF OnlyAt
<1> QED
  BY <1>1, <1>2, <1>3, PoolsBehind

-----------------------------------------------------------------------------
\* The number that the only pool of a bag has.
NumberIn(B, S, k) == TotalOver([c \in S |-> B[c] * c.data[k]])

\* One pool, one number.
LEMMA NumberOfOne ==
    ASSUME NEW B, NEW p, B[p] = 1, NEW k, p.data[k] \in Nat
    PROVE  NumberIn(B, {p}, k) = p.data[k]
<1> DEFINE f == [c \in {p} |-> B[c] * c.data[k]]
<1>1. f[p] = p.data[k]
  OBVIOUS
<1>2. f \in Weights({p})
  <2>1. \A c \in {p} : f[c] \in Nat
    BY <1>1
  <2> QED
    BY <2>1 DEF Weights
<1>3. \A x \in {p} : x # p => f[x] = 0
  OBVIOUS
<1>4. NumberIn(B, {p}, k) = TotalOver(f)
  BY DEF NumberIn
<1>5. p \in {p}
  OBVIOUS
<1> HIDE DEF f
<1> QED
  BY <1>1, <1>2, <1>3, <1>4, <1>5, SumOfOne

\* Without a pool the number is zero.
LEMMA NumberOfNone ==
    ASSUME NEW B, NEW k PROVE NumberIn(B, {}, k) = 0
<1> DEFINE f == [c \in {} |-> B[c] * c.data[k]]
<1>1. f \in Weights({})
  BY DEF Weights
<1>2. NumberIn(B, {}, k) = TotalOver(f)
  BY DEF NumberIn
<1> HIDE DEF f
<1> QED
  BY <1>1, <1>2, SumOfZeros

\* What is seen of a pool: nothing, or the numbers of its one cell.
LEMMA NumbersAre ==
    /\ LInv /\ DInv => \A id, K :
          /\ (\A p \in LivePools : p.type = PoolType(id) => p.lock # K)
               => NumbersOf(id, K) = {} /\ \A k \in 1 .. 3 : Number(id, K, k) = 0
          /\ \A p \in LivePools : p.type = PoolType(id) /\ p.lock = K
               => NumbersOf(id, K) = {p} /\ \A k \in 1 .. 3 : Number(id, K, k) = p.data[k]
    /\ LInv' /\ DInv' => \A id, K :
          /\ (\A p \in LivePools' : p.type = PoolType(id) => p.lock # K)
               => NumbersOf(id, K)' = {} /\ \A k \in 1 .. 3 : Number(id, K, k)' = 0
          /\ \A p \in LivePools' : p.type = PoolType(id) /\ p.lock = K
               => NumbersOf(id, K)' = {p} /\ \A k \in 1 .. 3 : Number(id, K, k)' = p.data[k]
<1>1. ASSUME NEW id, NEW K, NEW k
      PROVE  /\ Number(id, K, k) = NumberIn(live, NumbersOf(id, K), k)
             /\ Number(id, K, k)' = NumberIn(live', NumbersOf(id, K)', k)
  BY DEF Number, SumLive, NumberIn
<1>2. ASSUME LInv, DInv, NEW id, NEW K
      PROVE  /\ (\A p \in LivePools : p.type = PoolType(id) => p.lock # K)
                  => NumbersOf(id, K) = {} /\ \A k \in 1 .. 3 : Number(id, K, k) = 0
             /\ \A p \in LivePools : p.type = PoolType(id) /\ p.lock = K
                  => NumbersOf(id, K) = {p} /\ \A k \in 1 .. 3 : Number(id, K, k) = p.data[k]
  <2>1. ASSUME \A p \in LivePools : p.type = PoolType(id) => p.lock # K
        PROVE  NumbersOf(id, K) = {} /\ \A k \in 1 .. 3 : Number(id, K, k) = 0
    <3>1. NumbersOf(id, K) = {}
      BY <2>1 DEF NumbersOf
    <3> QED
      BY <1>1, <3>1, NumberOfNone
  <2>2. ASSUME NEW p \in LivePools, p.type = PoolType(id), p.lock = K
        PROVE  NumbersOf(id, K) = {p} /\ \A k \in 1 .. 3 : Number(id, K, k) = p.data[k]
    <3>1. live[p] = 1 /\ \A q \in LivePools : q.type = p.type => q = p
      BY <1>2, <2>2, Zenon DEF LInv, OneCellPerPool
    <3>2. NumbersOf(id, K) = {p}
      BY <2>2, <3>1 DEF NumbersOf
    <3>3. \A k \in 1 .. 3 : p.data[k] \in Nat
      BY <1>2, WidthAssumption DEF DInv
    <3>4. ASSUME NEW k \in 1 .. 3 PROVE Number(id, K, k) = p.data[k]
      <4>1. NumberIn(live, {p}, k) = p.data[k]
        BY <3>1, <3>3, NumberOfOne
      <4> QED
        BY <1>1, <3>2, <4>1
    <3> QED
      BY <3>2, <3>4
  <2> QED
    BY <2>1, <2>2
<1>3. ASSUME LInv', DInv', NEW id, NEW K
      PROVE  /\ (\A p \in LivePools' : p.type = PoolType(id) => p.lock # K)
                  => NumbersOf(id, K)' = {} /\ \A k \in 1 .. 3 : Number(id, K, k)' = 0
             /\ \A p \in LivePools' : p.type = PoolType(id) /\ p.lock = K
                  => NumbersOf(id, K)' = {p} /\ \A k \in 1 .. 3 : Number(id, K, k)' = p.data[k]
  <2>1. ASSUME \A p \in LivePools' : p.type = PoolType(id) => p.lock # K
        PROVE  NumbersOf(id, K)' = {} /\ \A k \in 1 .. 3 : Number(id, K, k)' = 0
    <3>1. NumbersOf(id, K)' = {}
      BY <2>1 DEF NumbersOf
    <3> QED
      BY <1>1, <3>1, NumberOfNone
  <2>2. ASSUME NEW p \in LivePools', p.type = PoolType(id), p.lock = K
        PROVE  NumbersOf(id, K)' = {p} /\ \A k \in 1 .. 3 : Number(id, K, k)' = p.data[k]
    <3>1. live'[p] = 1 /\ \A q \in LivePools' : q.type = p.type => q = p
      BY <1>3, <2>2, Zenon DEF LInv, OneCellPerPool
    <3>2. NumbersOf(id, K)' = {p}
      BY <2>2, <3>1 DEF NumbersOf
    <3>3. \A k \in 1 .. 3 : p.data[k] \in Nat
      BY <1>3, WidthAssumption DEF DInv
    <3>4. ASSUME NEW k \in 1 .. 3 PROVE Number(id, K, k)' = p.data[k]
      <4>1. NumberIn(live', {p}, k) = p.data[k]
        BY <3>1, <3>3, NumberOfOne
      <4> QED
        BY <1>1, <3>2, <4>1
    <3> QED
      BY <3>2, <3>4
  <2> QED
    BY <2>1, <2>2
<1> QED
  BY <1>2, <1>3

\* The rules of module Pool are those of the scripts.
LEMMA SameRules ==
    ASSUME NEW id, NEW t1, NEW t2, NEW a, NEW b, NEW l, NEW a2, NEW b2, NEW l2
    PROVE  /\ swap_branch(a, b, l, a2, b2, l2)
                => Numbers(id, t1, t2)!swap_branch(a, b, l, a2, b2, l2)
           /\ add_branch(a, b, l, a2, b2, l2)
                => Numbers(id, t1, t2)!add_branch(a, b, l, a2, b2, l2)
           /\ remove_branch(a, b, l, a2, b2, l2)
                => Numbers(id, t1, t2)!remove_branch(a, b, l, a2, b2, l2)
           /\ liquidity_moved(a, b, l, a2) => Numbers(id, t1, t2)!liquidity_moved(a, b, l, a2)
<1>1. swap_branch(a, b, l, a2, b2, l2)
        => Numbers(id, t1, t2)!swap_branch(a, b, l, a2, b2, l2)
  BY DEF swap_branch, swap, Numbers!swap_branch, Numbers!swap
<1>2. add_branch(a, b, l, a2, b2, l2)
        => Numbers(id, t1, t2)!add_branch(a, b, l, a2, b2, l2)
  BY DEF add_branch, add_liquidity, Numbers!add_branch, Numbers!add_liquidity
<1>3. remove_branch(a, b, l, a2, b2, l2)
        => Numbers(id, t1, t2)!remove_branch(a, b, l, a2, b2, l2)
  BY DEF remove_branch, remove_liquidity, Numbers!remove_branch, Numbers!remove_liquidity
<1>4. liquidity_moved(a, b, l, a2) => Numbers(id, t1, t2)!liquidity_moved(a, b, l, a2)
  BY DEF liquidity_moved, Wrap, Numbers!liquidity_moved, Numbers!Wrap
<1> QED
  BY <1>1, <1>2, <1>3, <1>4

\* The lock of a pool cell names its pair.
LEMMA PairOfLock ==
    ASSUME NEW p, NEW t1, NEW t2, p.lock = PairLock(t1, t2)
    PROVE  Pair(p)[1] = t1 /\ Pair(p)[2] = t2
BY DEF PairLock, Script, Pair

\* What module Pool sees of a pool: its numbers.
LEMMA PoolSeen ==
    ASSUME LInv, DInv, NEW id, NEW t1, NEW t2, NEW a \in LivePools,
           a.type = PoolType(id), a.lock = PairLock(t1, t2)
    PROVE  /\ NumbersOf(id, PairLock(t1, t2)) # {}
           /\ \A k \in 1 .. 3 : Number(id, PairLock(t1, t2), k) = a.data[k]
           /\ a.data[1] - Default(t1) = Net(a, 1)
           /\ a.data[2] - Default(t2) = Net(a, 2)
<1>1. /\ NumbersOf(id, PairLock(t1, t2)) = {a}
      /\ \A k \in 1 .. 3 : Number(id, PairLock(t1, t2), k) = a.data[k]
  BY NumbersAre
<1>2. Pair(a)[1] = t1 /\ Pair(a)[2] = t2
  BY PairOfLock
<1> QED
  BY <1>1, <1>2 DEF Net

\* The same behind a transaction.
LEMMA PoolSeenBehind ==
    ASSUME LInv', DInv', NEW id, NEW t1, NEW t2, NEW b \in LivePools',
           b.type = PoolType(id), b.lock = PairLock(t1, t2)
    PROVE  /\ NumbersOf(id, PairLock(t1, t2))' # {}
           /\ \A k \in 1 .. 3 : Number(id, PairLock(t1, t2), k)' = b.data[k]
           /\ b.data[1] - Default(t1) = Net(b, 1)
           /\ b.data[2] - Default(t2) = Net(b, 2)
<1>1. /\ NumbersOf(id, PairLock(t1, t2))' = {b}
      /\ \A k \in 1 .. 3 : Number(id, PairLock(t1, t2), k)' = b.data[k]
  BY NumbersAre
<1>2. Pair(b)[1] = t1 /\ Pair(b)[2] = t2
  BY PairOfLock
<1> QED
  BY <1>1, <1>2 DEF Net

\* The reserves behind a transaction fit the cells that hold them.
LEMMA ReservesFit ==
    ASSUME NEW tx, WellFormed(tx), NEW k \in Nat, pool_triple(tx, 3 * k),
           NEW b, b = Output(tx, 3 * k), \A j \in 1 .. 3 : b.data[j] \in 0 .. U128 - 1,
           NEW t1, NEW t2, b.lock = PairLock(t1, t2)
    PROVE  /\ b.data[1] \in 0 .. (IF t1 = CKB THEN U64 ELSE U128) - 1
           /\ b.data[2] \in 0 .. (IF t2 = CKB THEN U64 ELSE U128) - 1
<1>1. Pair(Input(tx, 3 * k))[1] = t1 /\ Pair(Input(tx, 3 * k))[2] = t2
  BY TripleCells, PairOfLock
<1>2. /\ b.data[1] = AmountIn(Output(tx, 3 * k + 1), t1)
      /\ b.data[2] = AmountIn(Output(tx, 3 * k + 2), t2)
  BY <1>1 DEF pool_triple, reserves_held
<1>3. \A j \in 1 .. 2 : Output(tx, 3 * k + j).capacity \in 0 .. U64 - 1
  <2> SUFFICES ASSUME NEW j \in 1 .. 2
               PROVE  Output(tx, 3 * k + j).capacity \in 0 .. U64 - 1
    OBVIOUS
  <2>1. 3 * k + j < Len(tx.outputs)
    <3>1. j \in 0 .. 2
      OBVIOUS
    <3> QED
      BY <3>1, Zenon DEF pool_triple, HasOutput
  <2>2. Len(tx.outputs) \in Nat /\ DOMAIN tx.outputs = 1 .. Len(tx.outputs)
    BY BothSequences
  <2>3. 3 * k + j + 1 \in DOMAIN tx.outputs
    BY <2>1, <2>2
  <2> QED
    BY <2>3, CellsOK, Zenon DEF Output
<1>4. /\ t1 = CKB => b.data[1] \in 0 .. U64 - 1
      /\ t2 = CKB => b.data[2] \in 0 .. U64 - 1
  BY <1>2, <1>3 DEF AmountIn
<1> QED
  BY <1>4

\* A swap of the scripts is a swap of module Pool.
LEMMA SwapIsStep ==
    ASSUME LInv, DInv, LInv', DInv', NEW id, NEW t1, NEW t2,
           NEW a \in LivePools, a.type = PoolType(id), a.lock = PairLock(t1, t2),
           NEW b \in LivePools', b.type = PoolType(id), b.lock = PairLock(t1, t2),
           NEW tx, NEW i, a = Input(tx, i), b = Output(tx, i),
           swapped(tx, i), TokensOf(id, PairLock(t1, t2))' = TokensOf(id, PairLock(t1, t2))
    PROVE  Numbers(id, t1, t2)!Swap(b.data[1], b.data[2])
<1>a. /\ NumbersOf(id, PairLock(t1, t2)) # {}
      /\ \A k \in 1 .. 3 : Number(id, PairLock(t1, t2), k) = a.data[k]
      /\ a.data[1] - Default(t1) = Net(a, 1)
      /\ a.data[2] - Default(t2) = Net(a, 2)
  BY PoolSeen
<1>b. /\ NumbersOf(id, PairLock(t1, t2))' # {}
      /\ \A k \in 1 .. 3 : Number(id, PairLock(t1, t2), k)' = b.data[k]
      /\ b.data[1] - Default(t1) = Net(b, 1)
      /\ b.data[2] - Default(t2) = Net(b, 2)
  BY PoolSeenBehind
<1>1. /\ above_minimum(a.data[1], b.data[1], Default(t1))
      /\ above_minimum(a.data[2], b.data[2], Default(t2))
  BY PairOfLock DEF above_defaults, swapped
<1>2. Numbers(id, t1, t2)!Above(b.data[1], b.data[2])
  <2>1. /\ NumbersOf(id, PairLock(t1, t2)) # {}
        /\ Number(id, PairLock(t1, t2), 1) = a.data[1]
        /\ Number(id, PairLock(t1, t2), 2) = a.data[2]
    BY <1>a, <1>b
  <2> QED
    BY <1>1, <2>1 DEF Numbers!Above, Numbers!above_minimum, above_minimum
<1>3. swap_branch(Net(a, 1), Net(a, 2), a.data[3], Net(b, 1), Net(b, 2), b.data[3])
  BY DEF swapped, TotalLiquidity
<1>4. Numbers(id, t1, t2)!swap_branch(
        Number(id, PairLock(t1, t2), 1) - Default(t1),
        Number(id, PairLock(t1, t2), 2) - Default(t2), Number(id, PairLock(t1, t2), 3),
        b.data[1] - Default(t1), b.data[2] - Default(t2), b.data[3])
  <2>1. /\ Number(id, PairLock(t1, t2), 1) - Default(t1) = Net(a, 1)
        /\ Number(id, PairLock(t1, t2), 2) - Default(t2) = Net(a, 2)
        /\ Number(id, PairLock(t1, t2), 3) = a.data[3]
        /\ b.data[1] - Default(t1) = Net(b, 1) /\ b.data[2] - Default(t2) = Net(b, 2)
    BY <1>a, <1>b
  <2>2. Numbers(id, t1, t2)!swap_branch(Net(a, 1), Net(a, 2), a.data[3],
                                   Net(b, 1), Net(b, 2), b.data[3])
    BY <1>3, SameRules
  <2> QED
    BY <2>1, <2>2
<1>5. a.data[3] = b.data[3]
  BY <1>3 DEF swap_branch
<1>6. /\ Number(id, PairLock(t1, t2), 1)' = b.data[1]
      /\ Number(id, PairLock(t1, t2), 2)' = b.data[2]
      /\ Number(id, PairLock(t1, t2), 3)' = Number(id, PairLock(t1, t2), 3)
      /\ Number(id, PairLock(t1, t2), 3) = b.data[3]
      /\ (NumbersOf(id, PairLock(t1, t2)) # {})' = (NumbersOf(id, PairLock(t1, t2)) # {})
  BY <1>a, <1>b, <1>5
<1> QED
  BY <1>2, <1>4, <1>6 DEF Numbers!Swap, Numbers!Net1, Numbers!Net2

\* The tokens of a deposit or a withdrawal move as in module Pool.
LEMMA TokensMoveIsStep ==
    ASSUME NEW id, NEW t1, NEW t2, NEW after, NEW input, NEW output, input < U128,
           liquidity_moved(Number(id, PairLock(t1, t2), 3), after, input, output),
           TokensOf(id, PairLock(t1, t2))' = TokensOf(id, PairLock(t1, t2)) - input + output
    PROVE  Numbers(id, t1, t2)!MoveTokens(after, input, output)
BY SameRules DEF Numbers!MoveTokens

\* A deposit of the scripts is a deposit of module Pool.
LEMMA AddIsStep ==
    ASSUME LInv, DInv, LInv', DInv', NEW id, NEW t1, NEW t2,
           NEW a \in LivePools, a.type = PoolType(id), a.lock = PairLock(t1, t2),
           NEW b \in LivePools', b.type = PoolType(id), b.lock = PairLock(t1, t2),
           NEW tx, NEW i, a = Input(tx, i), b = Output(tx, i),
           added(tx, i),
           NEW input \in 0 .. TokensOf(id, PairLock(t1, t2)), NEW output \in 1 .. U128 - 1,
           Numbers(id, t1, t2)!MoveTokens(b.data[3], input, output)
    PROVE  Numbers(id, t1, t2)!AddLiquidity(b.data[1], b.data[2], b.data[3])
<1>a. /\ NumbersOf(id, PairLock(t1, t2)) # {}
      /\ \A k \in 1 .. 3 : Number(id, PairLock(t1, t2), k) = a.data[k]
      /\ a.data[1] - Default(t1) = Net(a, 1)
      /\ a.data[2] - Default(t2) = Net(a, 2)
  BY PoolSeen
<1>b. /\ NumbersOf(id, PairLock(t1, t2))' # {}
      /\ \A k \in 1 .. 3 : Number(id, PairLock(t1, t2), k)' = b.data[k]
      /\ b.data[1] - Default(t1) = Net(b, 1)
      /\ b.data[2] - Default(t2) = Net(b, 2)
  BY PoolSeenBehind
<1>1. /\ above_minimum(a.data[1], b.data[1], Default(t1))
      /\ above_minimum(a.data[2], b.data[2], Default(t2))
  BY PairOfLock DEF above_defaults, added
<1>2. Numbers(id, t1, t2)!Above(b.data[1], b.data[2])
  <2>1. /\ NumbersOf(id, PairLock(t1, t2)) # {}
        /\ Number(id, PairLock(t1, t2), 1) = a.data[1]
        /\ Number(id, PairLock(t1, t2), 2) = a.data[2]
    BY <1>a, <1>b
  <2> QED
    BY <1>1, <2>1 DEF Numbers!Above, Numbers!above_minimum, above_minimum
<1>3. add_branch(Net(a, 1), Net(a, 2), a.data[3], Net(b, 1), Net(b, 2), b.data[3])
  BY DEF added, TotalLiquidity
<1>4. Numbers(id, t1, t2)!add_branch(
        Number(id, PairLock(t1, t2), 1) - Default(t1),
        Number(id, PairLock(t1, t2), 2) - Default(t2), Number(id, PairLock(t1, t2), 3),
        b.data[1] - Default(t1), b.data[2] - Default(t2), b.data[3])
  <2>1. /\ Number(id, PairLock(t1, t2), 1) - Default(t1) = Net(a, 1)
        /\ Number(id, PairLock(t1, t2), 2) - Default(t2) = Net(a, 2)
        /\ Number(id, PairLock(t1, t2), 3) = a.data[3]
        /\ b.data[1] - Default(t1) = Net(b, 1) /\ b.data[2] - Default(t2) = Net(b, 2)
    BY <1>a, <1>b
  <2>2. Numbers(id, t1, t2)!add_branch(Net(a, 1), Net(a, 2), a.data[3],
                                   Net(b, 1), Net(b, 2), b.data[3])
    BY <1>3, SameRules
  <2> QED
    BY <2>1, <2>2
<1>6. /\ \A k \in 1 .. 3 : Number(id, PairLock(t1, t2), k)' = b.data[k]
      /\ (NumbersOf(id, PairLock(t1, t2)) # {})' = (NumbersOf(id, PairLock(t1, t2)) # {})
  BY <1>a, <1>b
<1> QED
  BY <1>2, <1>4, <1>6 DEF Numbers!AddLiquidity, Numbers!Net1, Numbers!Net2

\* A withdrawal of the scripts is a withdrawal of module Pool.
LEMMA RemoveIsStep ==
    ASSUME LInv, DInv, LInv', DInv', NEW id, NEW t1, NEW t2,
           NEW a \in LivePools, a.type = PoolType(id), a.lock = PairLock(t1, t2),
           NEW b \in LivePools', b.type = PoolType(id), b.lock = PairLock(t1, t2),
           NEW tx, NEW i, a = Input(tx, i), b = Output(tx, i),
           removed(tx, i),
           NEW input \in 1 .. TokensOf(id, PairLock(t1, t2)), NEW output \in 0 .. U128 - 1,
           Numbers(id, t1, t2)!MoveTokens(b.data[3], input, output)
    PROVE  Numbers(id, t1, t2)!RemoveLiquidity(b.data[1], b.data[2], b.data[3])
<1>a. /\ NumbersOf(id, PairLock(t1, t2)) # {}
      /\ \A k \in 1 .. 3 : Number(id, PairLock(t1, t2), k) = a.data[k]
      /\ a.data[1] - Default(t1) = Net(a, 1)
      /\ a.data[2] - Default(t2) = Net(a, 2)
  BY PoolSeen
<1>b. /\ NumbersOf(id, PairLock(t1, t2))' # {}
      /\ \A k \in 1 .. 3 : Number(id, PairLock(t1, t2), k)' = b.data[k]
      /\ b.data[1] - Default(t1) = Net(b, 1)
      /\ b.data[2] - Default(t2) = Net(b, 2)
  BY PoolSeenBehind
<1>1. /\ above_minimum(a.data[1], b.data[1], Default(t1))
      /\ above_minimum(a.data[2], b.data[2], Default(t2))
  BY PairOfLock DEF above_defaults, removed
<1>2. Numbers(id, t1, t2)!Above(b.data[1], b.data[2])
  <2>1. /\ NumbersOf(id, PairLock(t1, t2)) # {}
        /\ Number(id, PairLock(t1, t2), 1) = a.data[1]
        /\ Number(id, PairLock(t1, t2), 2) = a.data[2]
    BY <1>a, <1>b
  <2> QED
    BY <1>1, <2>1 DEF Numbers!Above, Numbers!above_minimum, above_minimum
<1>3. remove_branch(Net(a, 1), Net(a, 2), a.data[3], Net(b, 1), Net(b, 2), b.data[3])
  BY DEF removed, TotalLiquidity
<1>4. Numbers(id, t1, t2)!remove_branch(
        Number(id, PairLock(t1, t2), 1) - Default(t1),
        Number(id, PairLock(t1, t2), 2) - Default(t2), Number(id, PairLock(t1, t2), 3),
        b.data[1] - Default(t1), b.data[2] - Default(t2), b.data[3])
  <2>1. /\ Number(id, PairLock(t1, t2), 1) - Default(t1) = Net(a, 1)
        /\ Number(id, PairLock(t1, t2), 2) - Default(t2) = Net(a, 2)
        /\ Number(id, PairLock(t1, t2), 3) = a.data[3]
        /\ b.data[1] - Default(t1) = Net(b, 1) /\ b.data[2] - Default(t2) = Net(b, 2)
    BY <1>a, <1>b
  <2>2. Numbers(id, t1, t2)!remove_branch(Net(a, 1), Net(a, 2), a.data[3],
                                   Net(b, 1), Net(b, 2), b.data[3])
    BY <1>3, SameRules
  <2> QED
    BY <2>1, <2>2
<1>6. /\ \A k \in 1 .. 3 : Number(id, PairLock(t1, t2), k)' = b.data[k]
      /\ (NumbersOf(id, PairLock(t1, t2)) # {})' = (NumbersOf(id, PairLock(t1, t2)) # {})
  BY <1>a, <1>b
<1> QED
  BY <1>2, <1>4, <1>6 DEF Numbers!RemoveLiquidity, Numbers!Net1, Numbers!Net2

\* A pool that is not touched looks the same.
LEMMA NothingSeen ==
    ASSUME LInv, DInv, LInv', DInv', NEW id, NEW t1, NEW t2, NEW K, K = PairLock(t1, t2),
           \A d : d.type = PoolType(id) /\ d.lock = K => (d \in LivePools <=> d \in LivePools'),
           TokensOf(id, K)' = TokensOf(id, K)
    PROVE  UNCHANGED Numbers(id, t1, t2)!vars
<1>1. /\ NumbersOf(id, K)' = NumbersOf(id, K)
      /\ \A k \in 1 .. 3 : Number(id, K, k)' = Number(id, K, k)
  <2>1. CASE \E p \in LivePools : p.type = PoolType(id) /\ p.lock = K
    <3>1. PICK p \in LivePools : p.type = PoolType(id) /\ p.lock = K
      BY <2>1
    <3>2. p \in LivePools'
      BY <3>1
    <3>3. NumbersOf(id, K) = {p} /\ \A k \in 1 .. 3 : Number(id, K, k) = p.data[k]
      BY <3>1, NumbersAre
    <3>4. NumbersOf(id, K)' = {p} /\ \A k \in 1 .. 3 : Number(id, K, k)' = p.data[k]
      BY <3>1, <3>2, NumbersAre
    <3> QED
      BY <3>3, <3>4
  <2>2. CASE \A p \in LivePools : p.type = PoolType(id) => p.lock # K
    <3>1. \A p \in LivePools' : p.type = PoolType(id) => p.lock # K
      BY <2>2
    <3>2. NumbersOf(id, K) = {} /\ \A k \in 1 .. 3 : Number(id, K, k) = 0
      BY <2>2, NumbersAre
    <3>3. NumbersOf(id, K)' = {} /\ \A k \in 1 .. 3 : Number(id, K, k)' = 0
      BY <3>1, NumbersAre
    <3> QED
      BY <3>2, <3>3
  <2> QED
    BY <2>1, <2>2
<1> QED
  BY <1>1 DEF Numbers!vars

\* What a transaction does to the tokens of a pool.
LEMMA TokenStep ==
    ASSUME LInv, TInv, NEW tx, NEW stale, Publish(tx, stale),
           NEW id, NEW t1, NEW t2, NEW K, K = PairLock(t1, t2),
           NEW s, s = PoolType(id), NEW L, L = LiquidityType(K, id)
    PROVE  /\ Supply(L) \in Nat /\ Supply(L)' \in Nat
           /\ Taken(tx, L) \in 0 .. Supply(L) /\ Given(tx, L) \in 0 .. U128 - 1
           /\ Taken(tx, L) < U128
           /\ Supply(L)' = Supply(L) - Taken(tx, L) + Given(tx, L)
           /\ \/ /\ Updated(tx, s, 0)
                 /\ Input(tx, 0) \in LivePools /\ Input(tx, 0).type = s
                 /\ Input(tx, 0).lock = K
                 /\ liquidity_moved(TotalLiquidity(Input(tx, 0)), TotalLiquidity(Output(tx, 0)),
                                    Taken(tx, L), Given(tx, L))
              \/ /\ Taken(tx, L) = Given(tx, L)
                 /\ L \in TypeScripts(tx) => Input(tx, 0).lock # K
<1>1. L.code = "liquidity" /\ s = PoolType(L.id) /\ K = PairLock(L.t1, L.t2)
  BY DEF LiquidityType, PairLock, Script
<1>2. /\ Supply(L) \in Nat /\ Supply(L)' \in Nat
      /\ Taken(tx, L) \in Nat /\ Given(tx, L) \in Nat
      /\ Taken(tx, L) <= Supply(L)
      /\ Supply(L)' = Supply(L) - Taken(tx, L) + Given(tx, L)
      /\ L \notin TypeScripts(tx) => Taken(tx, L) = 0 /\ Given(tx, L) = 0
  BY <1>1, Flow
<1>3. CASE L \in TypeScripts(tx)
  <2>1. /\ Taken(tx, L) < U128 /\ Given(tx, L) < U128
        /\ \/ Owned(tx, L)
           \/ Input(tx, 0).lock # PairLock(L.t1, L.t2) /\ Taken(tx, L) = Given(tx, L)
    BY <1>1, <1>3, TokensMove
  <2>2. Owned(tx, L) =>
          /\ Updated(tx, s, 0)
          /\ Input(tx, 0) \in LivePools /\ Input(tx, 0).type = s
          /\ Input(tx, 0).lock = K
          /\ liquidity_moved(TotalLiquidity(Input(tx, 0)), TotalLiquidity(Output(tx, 0)),
                             Taken(tx, L), Given(tx, L))
    BY <1>1 DEF Owned
  <2> QED
    BY <1>1, <1>2, <2>1, <2>2, WidthAssumption
<1>4. CASE L \notin TypeScripts(tx)
  BY <1>2, <1>4, WidthAssumption
<1> QED
  BY <1>3, <1>4

\* The cell that a deposit or a withdrawal must have is not empty.
LEMMA TokenCellCounts ==
    ASSUME NEW T, NEW cells \in Seq(T), NEW s, NEW k \in OfType(cells, s),
           \A j \in OfType(cells, s) : AmountOf(cells[j]) \in Nat \ {0}
    PROVE  sum_amounts(CellsOfType(cells, s)) >= 1
<1> DEFINE S == OfType(cells, s)
           sel == Selected(cells, S)
           numbers == [j \in DOMAIN sel |-> AmountOf(sel[j])]
<1>1. S \in SUBSET DOMAIN cells
  BY DEF OfType
<1>2. /\ sel \in Seq(T)
      /\ \A j \in DOMAIN sel : \E i \in S : sel[j] = cells[i]
      /\ \A i \in S : \E j \in DOMAIN sel : sel[j] = cells[i]
  BY <1>1, SelectedCount, SelectedHas, Zenon
<1>3. sum_amounts(CellsOfType(cells, s)) = Total(numbers)
  BY DEF sum_amounts, CellsOfType
<1> HIDE DEF S, sel
<1>4. \A j \in DOMAIN sel : AmountOf(sel[j]) \in Nat \ {0}
  BY <1>2 DEF S
<1>5. numbers \in Seq(Nat) /\ DOMAIN numbers = DOMAIN sel
  <2>1. DOMAIN sel = 1 .. Len(sel) /\ Len(sel) \in Nat
    BY <1>2
  <2> QED
    BY <1>4, <2>1
<1>6. PICK j \in DOMAIN sel : sel[j] = cells[k]
  BY <1>2 DEF S
<1>7. numbers[j] >= 1
  BY <1>4, <1>6
<1>8. Total(numbers) \in Nat /\ numbers[j] <= Total(numbers) /\ numbers[j] \in Nat
  BY <1>4, <1>5, <1>6, TotalAtLeast
<1> HIDE DEF numbers
<1> QED
  BY <1>3, <1>7, <1>8

\* A deposit creates a token cell, a withdrawal consumes one.
LEMMA TokensOfChange ==
    ASSUME NEW tx, NEW stale, Publish(tx, stale), NEW L, L.code = "liquidity",
           L = LiquidityType(Input(tx, 0).lock, Input(tx, 0).type.id)
    PROVE  /\ minted_to(tx) => L \in TypeScripts(tx) /\ Given(tx, L) >= 1
           /\ burned_from(tx) => L \in TypeScripts(tx) /\ Taken(tx, L) >= 1
<1>1. /\ tx.inputs \in Seq(CellsOf(tx.inputs)) /\ tx.outputs \in Seq(CellsOf(tx.outputs))
      /\ Len(tx.inputs) \in Nat /\ DOMAIN tx.inputs = 1 .. Len(tx.inputs)
      /\ Len(tx.outputs) \in Nat /\ DOMAIN tx.outputs = 1 .. Len(tx.outputs)
  BY BothSequences DEF Publish
<1>2. ASSUME minted_to(tx) PROVE 5 \in OfType(tx.outputs, L)
  BY <1>1, <1>2 DEF minted_to, HasOutput, Output, check_liquidity_udt_script, OfType
<1>3. ASSUME burned_from(tx) PROVE 4 \in OfType(tx.inputs, L)
  BY <1>1, <1>3 DEF burned_from, HasInput, Input, check_liquidity_udt_script, OfType
<1>4. /\ \A k \in OfType(tx.outputs, L) : AmountOf(tx.outputs[k]) \in Nat \ {0}
      /\ \A k \in OfType(tx.inputs, L) : AmountOf(tx.inputs[k]) \in Nat \ {0}
  BY TokenOutputs, TokenInputs
<1>5. ASSUME minted_to(tx) PROVE L \in TypeScripts(tx) /\ Given(tx, L) >= 1
  <2>1. L \in TypeScripts(tx)
    BY <1>2, <1>5 DEF OfType, TypeScripts
  <2>2. Given(tx, L) >= 1
    BY <1>1, <1>2, <1>4, <1>5, TokenCellCounts, Zenon DEF Given
  <2> QED
    BY <2>1, <2>2
<1>6. ASSUME burned_from(tx) PROVE L \in TypeScripts(tx) /\ Taken(tx, L) >= 1
  <2>1. L \in TypeScripts(tx)
    BY <1>3, <1>6 DEF OfType, TypeScripts
  <2>2. Taken(tx, L) >= 1
    BY <1>1, <1>3, <1>4, <1>6, TokenCellCounts, Zenon DEF Taken
  <2> QED
    BY <2>1, <2>2
<1> QED
  BY <1>5, <1>6

\* Seen from the numbers of a pool, a transaction is a step of module Pool or
\* none at all.
LEMMA PoolStep ==
    ASSUME LInv, TInv, DInv, NEW tx, NEW stale, Publish(tx, stale), NEW id, NEW t1, NEW t2
    PROVE  UNCHANGED Numbers(id, t1, t2)!vars \/ Numbers(id, t1, t2)!Next
<1> DEFINE K == PairLock(t1, t2)
           s == PoolType(id)
           L == LiquidityType(K, id)
<1>k. K = PairLock(t1, t2) /\ s = PoolType(id) /\ L = LiquidityType(K, id)
      /\ s.code = "udtswap" /\ s.id = id /\ L.code = "liquidity"
  BY DEF PoolType, LiquidityType, Script
<1>1. LInv' /\ DInv'
  BY PublishLInv, PublishDInv
<1>2. TokensOf(id, K) = Supply(L) /\ TokensOf(id, K)' = Supply(L)'
  BY DEF TokensOf, Supply
<1> HIDE DEF K, s, L
<1> DEFINE a == Input(tx, 0)
           owned == /\ Updated(tx, s, 0) /\ a \in LivePools /\ a.type = s /\ a.lock = K
                    /\ liquidity_moved(TotalLiquidity(a), TotalLiquidity(Output(tx, 0)),
                                       Taken(tx, L), Given(tx, L))
<1>3. /\ Supply(L) \in Nat /\ Supply(L)' \in Nat
      /\ Taken(tx, L) \in 0 .. Supply(L) /\ Given(tx, L) \in 0 .. U128 - 1
      /\ Taken(tx, L) < U128
      /\ Supply(L)' = Supply(L) - Taken(tx, L) + Given(tx, L)
      /\ \/ owned
         \/ Taken(tx, L) = Given(tx, L) /\ (L \in TypeScripts(tx) => a.lock # K)
  BY <1>k, TokenStep
<1>4. ASSUME ~ owned PROVE TokensOf(id, K)' = TokensOf(id, K)
  BY <1>2, <1>3, <1>4
<1>5. /\ \A c : Live(c) \in Nat /\ (c \in LiveCells <=> Live(c) > 0)
      /\ \A c : Live(c)' \in Nat /\ (c \in LiveCells' <=> Live(c)' > 0)
  BY <1>1, LiveMeans, Zenon DEF LInv
<1>6. \A d : /\ d.type = s => (d \in LivePools <=> d \in LiveCells)
             /\ d.type = s => (d \in LivePools' <=> d \in LiveCells')
  BY <1>k DEF LivePools
<1>7. ASSUME ~ owned, \A d : d.type = s /\ d.lock = K => (d \in LivePools <=> d \in LivePools')
      PROVE  UNCHANGED Numbers(id, t1, t2)!vars
  BY <1>k, <1>1, <1>4, <1>7, NothingSeen
<1>8. CASE s \notin TypeScripts(tx)
  <2>1. ~ owned
    BY <1>8, Zenon DEF Updated, OnlyAt, TypeScripts
  <2>2. \A d : d.type = s => Live(d)' = Live(d)
    BY <1>k, <1>8, NotInvolved, Zenon
  <2>3. \A d : d.type = s => (d \in LivePools <=> d \in LivePools')
    BY <1>5, <1>6, <2>2
  <2> QED
    BY <1>7, <2>1, <2>3
<1>9. CASE create_udtswap_check(tx, s, stale)
  <2> DEFINE b == tx.outputs[1]
  <2>1. /\ \A d : d.type = s => Live(d)' = IF d = b THEN 1 ELSE 0
        /\ \A d \in LiveCells : d.type # s
        /\ b.type = s
    <3>1. s.code = "udtswap"
      BY <1>k
    <3>2. /\ \A d : d.type = s => Live(d)' = IF d = b THEN 1 ELSE 0
          /\ \A d \in LiveCells : d.type # s
          /\ OnlyAt(tx.outputs, s, 1)
      BY <1>9, <3>1, Created, Zenon
    <3> QED
      BY <3>2 DEF OnlyAt
  <2>2. ~ owned
    BY <2>1 DEF LivePools
  <2>3. b = Output(tx, 0) /\ created_empty(tx, stale)
    BY <1>9, NewPool, Zenon DEF Publish
  <2> HIDE DEF b
  <2>4. b \in LivePools' /\ \A d \in LivePools' : d.type = s => d = b
    BY <1>5, <1>6, <2>1
  <2>5. \A d \in LivePools : d.type # s
    BY <2>1 DEF LivePools
  <2>6. CASE b.lock # K
    BY <1>7, <2>2, <2>4, <2>5, <2>6
  <2>7. CASE b.lock = K
    <3>1. NumbersOf(id, K) = {}
      BY <1>k, <2>5, NumbersAre
    <3>2. /\ NumbersOf(id, K)' # {}
          /\ \A k \in 1 .. 3 : Number(id, K, k)' = b.data[k]
      BY <1>k, <1>1, <2>1, <2>4, <2>7, PoolSeenBehind
    <3>3. b.data[1] = Default(t1) /\ b.data[2] = Default(t2) /\ b.data[3] = 0
      BY <1>k, <2>3, <2>7, PairOfLock DEF created_empty
    <3>4. Numbers(id, t1, t2)!Create
      BY <1>k, <1>4, <2>2, <3>1, <3>2, <3>3 DEF Numbers!Create
    <3> QED
      BY <3>4 DEF Numbers!Next
  <2> QED
    BY <2>6, <2>7
<1>10. CASE update_udtswap_check(tx, s)
  <2>1. PICK k : /\ Updated(tx, s, k)
                 /\ \/ swapped(tx, 3 * k)
                    \/ /\ k = 0
                       /\ \/ added(tx, 0) /\ minted_to(tx)
                          \/ removed(tx, 0) /\ burned_from(tx)
    BY <1>10, UpdateFacts, Zenon DEF Publish
  <2> DEFINE p == Input(tx, 3 * k)
             b == Output(tx, 3 * k)
  <2>2. /\ \A d : d.type = s => Live(d)' = IF d = b THEN 1 ELSE 0
        /\ p \in LivePools /\ p.type = s /\ b.type = s
        /\ \A d \in LiveCells : d.type = s => d = p
    BY <1>k, <2>1, Exchanged
  <2>3. b.lock = p.lock /\ k \in Nat /\ pool_triple(tx, 3 * k)
    BY <2>1 DEF Updated
  <2>4. owned => k = 0
    <3>1. ASSUME owned PROVE 3 * 0 + 1 = 3 * k + 1
      BY <2>1, <3>1, Zenon DEF Updated, OnlyAt
    <3> QED
      BY <2>3, <3>1
  <2>5. k = 0 => p = a /\ b = Output(tx, 0)
    OBVIOUS
  <2> HIDE DEF p, b
  <2>6. b \in LivePools' /\ (\A d \in LivePools' : d.type = s => d = b)
        /\ \A d \in LivePools : d.type = s => d = p
    <3>1. b \in LivePools'
      BY <1>5, <1>6, <2>2
    <3>2. \A d \in LivePools' : d.type = s => d = b
      BY <1>5, <1>6, <2>2
    <3> QED
      BY <1>6, <2>2, <3>1, <3>2
  <2>7. CASE p.lock # K
    <3>1. ~ owned
      BY <2>4, <2>5, <2>7
    <3>2. \A d : d.type = s /\ d.lock = K => (d \in LivePools <=> d \in LivePools')
      BY <2>3, <2>6, <2>7
    <3> QED
      BY <1>7, <3>1, <3>2
  <2>8. CASE p.lock = K
    <3>1. b.data[1] \in 0 .. (IF t1 = CKB THEN U64 ELSE U128) - 1
          /\ b.data[2] \in 0 .. (IF t2 = CKB THEN U64 ELSE U128) - 1
          /\ b.data[3] \in 0 .. U128 - 1
      <4>1. \A j \in 1 .. 3 : b.data[j] \in 0 .. U128 - 1
        BY <1>1, <2>6 DEF DInv
      <4> QED
        BY <1>k, <2>3, <2>8, <4>1, ReservesFit DEF Publish, b
    <3>2. CASE swapped(tx, 3 * k)
      <4>1. TotalLiquidity(p) = TotalLiquidity(b)
        BY <3>2 DEF swapped, swap_branch, p, b
      <4>2. TokensOf(id, K)' = TokensOf(id, K)
        <5>1. CASE owned
          <6>1. liquidity_moved(TotalLiquidity(p), TotalLiquidity(b), Taken(tx, L), Given(tx, L))
            BY <2>4, <2>5, <5>1
          <6>2. TotalLiquidity(p) \in Nat
            BY <1>1, <2>6, <4>1, WidthAssumption DEF DInv, TotalLiquidity
          <6>3. Taken(tx, L) = Given(tx, L)
            BY <4>1, <6>1, <6>2 DEF liquidity_moved
          <6> QED
            BY <1>2, <1>3, <6>3
        <5>2. CASE ~ owned
          BY <1>4, <5>2
        <5> QED
          BY <5>1, <5>2
      <4>3. Numbers(id, t1, t2)!Swap(b.data[1], b.data[2])
        BY <1>k, <1>1, <2>2, <2>3, <2>6, <2>8, <3>2, <4>2, SwapIsStep DEF p, b
      <4> QED
        BY <3>1, <4>3 DEF Numbers!Next, Numbers!Reserve1, Numbers!Reserve2
    <3>3. ASSUME k = 0, minted_to(tx) \/ burned_from(tx)
          PROVE  /\ owned
                 /\ minted_to(tx) => Given(tx, L) >= 1
                 /\ burned_from(tx) => Taken(tx, L) >= 1
                 /\ Numbers(id, t1, t2)!MoveTokens(b.data[3], Taken(tx, L), Given(tx, L))
      <4>1. p = a /\ b = Output(tx, 0) /\ L = LiquidityType(a.lock, a.type.id)
        BY <1>k, <2>2, <2>5, <2>8, <3>3
      <4>2. /\ minted_to(tx) => L \in TypeScripts(tx) /\ Given(tx, L) >= 1
            /\ burned_from(tx) => L \in TypeScripts(tx) /\ Taken(tx, L) >= 1
        BY <1>k, <4>1, TokensOfChange
      <4>3. owned
        BY <1>3, <2>8, <3>3, <4>1, <4>2
      <4>4. liquidity_moved(p.data[3], b.data[3], Taken(tx, L), Given(tx, L))
        BY <4>1, <4>3 DEF TotalLiquidity
      <4>5. Number(id, K, 3) = p.data[3]
        BY <1>k, <2>2, <2>8, PoolSeen
      <4>6. Numbers(id, t1, t2)!MoveTokens(b.data[3], Taken(tx, L), Given(tx, L))
        BY <1>k, <1>2, <1>3, <4>4, <4>5, TokensMoveIsStep
      <4> QED
        BY <4>2, <4>3, <4>6
    <3>4. CASE k = 0 /\ added(tx, 0) /\ minted_to(tx)
      <4>1. /\ Taken(tx, L) \in 0 .. TokensOf(id, K) /\ Given(tx, L) \in 1 .. U128 - 1
            /\ Numbers(id, t1, t2)!MoveTokens(b.data[3], Taken(tx, L), Given(tx, L))
        BY <1>2, <1>3, <3>3, <3>4
      <4>2. Numbers(id, t1, t2)!AddLiquidity(b.data[1], b.data[2], b.data[3])
        BY <1>k, <1>1, <2>2, <2>3, <2>5, <2>6, <2>8, <3>4, <4>1, AddIsStep
      <4> QED
        BY <3>1, <4>2 DEF Numbers!Next, Numbers!Reserve1, Numbers!Reserve2, Numbers!Liquidity
    <3>5. CASE k = 0 /\ removed(tx, 0) /\ burned_from(tx)
      <4>1. /\ Taken(tx, L) \in 1 .. TokensOf(id, K) /\ Given(tx, L) \in 0 .. U128 - 1
            /\ Numbers(id, t1, t2)!MoveTokens(b.data[3], Taken(tx, L), Given(tx, L))
        BY <1>2, <1>3, <3>3, <3>5
      <4>2. Numbers(id, t1, t2)!RemoveLiquidity(b.data[1], b.data[2], b.data[3])
        BY <1>k, <1>1, <2>2, <2>3, <2>5, <2>6, <2>8, <3>5, <4>1, RemoveIsStep
      <4> QED
        BY <3>1, <4>2 DEF Numbers!Next, Numbers!Reserve1, Numbers!Reserve2, Numbers!Liquidity
    <3> QED
      BY <2>1, <3>2, <3>4, <3>5
  <2> QED
    BY <2>7, <2>8
<1> QED
  BY <1>k, <1>8, <1>9, <1>10, ThreeWays, Zenon

\* Before the first transaction there is no pool.
LEMMA InitDInv == Init => DInv
<1> SUFFICES ASSUME Init PROVE DInv
  OBVIOUS
<1>1. live = [e \in {} |-> 1]
  BY DEF Init, EmptyBag, SetToBag
<1>2. LivePools = {}
  BY <1>1 DEF LivePools, LiveCells, BagToSet
<1> QED
  BY <1>2 DEF DInv

\* A step leaves every pool with three numbers.
LEMMA NextDInv == LInv /\ DInv /\ [Next]_ledger_vars => DInv'
<1> SUFFICES ASSUME LInv, DInv, [Next]_ledger_vars PROVE DInv'
  OBVIOUS
<1>1. CASE Next
  BY <1>1, NextPublishes, PublishDInv, Zenon
<1>2. CASE UNCHANGED ledger_vars
  BY <1>2 DEF ledger_vars, DInv, LivePools, LiveCells
<1> QED
  BY <1>1, <1>2

\* Before the first transaction every pool is as module Pool has it.
LEMMA PoolStarts ==
    ASSUME Init, NEW id, NEW t1, NEW t2
    PROVE  Numbers(id, t1, t2)!Init
<1> DEFINE K == PairLock(t1, t2)
<1>1. live = [e \in {} |-> 1]
  BY DEF Init, EmptyBag, SetToBag
<1>2. LiveCells = {}
  BY <1>1 DEF LiveCells, BagToSet
<1>3. NumbersOf(id, K) = {} /\ \A k \in 1 .. 3 : Number(id, K, k) = 0
  <2>1. LivePools = {}
    BY <1>2 DEF LivePools
  <2> HIDE DEF K
  <2> QED
    BY <2>1, InitLInv, InitDInv, NumbersAre
<1>4. TokensOf(id, K) = 0
  <2> DEFINE f == [c \in {} |-> live[c] * AmountOf(c)]
  <2>1. {c \in LiveCells : c.type = LiquidityType(K, id)} = {}
    BY <1>2
  <2>2. TokensOf(id, K) = TotalOver(f)
    BY <2>1 DEF TokensOf, SumLive
  <2>3. f \in Weights({})
    BY DEF Weights
  <2> HIDE DEF f
  <2> QED
    BY <2>2, <2>3, SumOfZeros
<1> QED
  BY <1>3, <1>4 DEF Numbers!Init

\* Every accepted transaction is, for every pool, a step of module Pool or none.
THEOREM LedgerImplementsPool == Spec => ImplementsPool
<1> DEFINE Starts == \A id \in 1 .. MaxPools, pair \in Pairs :
                        Numbers(id, pair[1], pair[2])!Init
           Step == \A id \in 1 .. MaxPools, pair \in Pairs :
                      \/ UNCHANGED Numbers(id, pair[1], pair[2])!vars
                      \/ Numbers(id, pair[1], pair[2])!Next
<1>1. Init => Starts
  BY PoolStarts
<1>2. LInv /\ TInv /\ DInv /\ [Next]_ledger_vars => [Step]_ledger_vars
  <2> SUFFICES ASSUME LInv, TInv, DInv, Next PROVE Step
    OBVIOUS
  <2>1. PICK tx, stale : Publish(tx, stale)
    BY NextPublishes
  <2> QED
    BY <2>1, PoolStep
<1>3. Spec => []DInv
  <2>1. LInv /\ DInv /\ [Next]_ledger_vars => DInv'
    BY NextDInv
  <2> QED
    BY InitDInv, TokenInvariance, <2>1, PTL DEF Spec
<1> QED
  BY <1>1, <1>2, <1>3, TokenInvariance, PTL DEF Spec, ImplementsPool

-----------------------------------------------------------------------------
\* The positions of a sequence at which a cell of a set stands.
At(cells, D) == {j \in DOMAIN cells : cells[j] \in D}

\* A number for each cell, summed over a bag, and over a sequence.
BagSum(B, D, u) == TotalOver([c \in D |-> Copies(B, c) * u[c]])
SeqSum(cells, D, u) == TotalOver([j \in At(cells, D) |-> u[cells[j]]])

\* In a sequence it does not matter whether cells are summed by position or by
\* kind.
LEMMA SeqSumByKind ==
    ASSUME NEW T, NEW cells \in Seq(T), NEW D, IsFiniteSet(D), NEW u \in Weights(D),
           NEW h \in Weights(D), \A c \in D : h[c] = CountIn(cells, c) * u[c]
    PROVE  SeqSum(cells, D, u) = TotalOver(h)
<1> DEFINE S == At(cells, D)
           at == [k \in S |-> cells[k]]
           n == Len(cells)
           g == [k \in S |-> u[cells[k]]]
<1>1. n \in Nat /\ DOMAIN cells = 1 .. n /\ S \in SUBSET (1 .. n)
  BY DEF At
<1>2. Placed(at, S, n, D)
  BY <1>1 DEF Placed, At
<1>3. g \in Weights(S) /\ \A k \in S : g[k] = u[at[k]]
  BY DEF Weights, At
<1>4. \A c \in D : CountIn(at, c) = CountIn(cells, c)
  <2> SUFFICES ASSUME NEW c \in D PROVE CountIn(at, c) = CountIn(cells, c)
    OBVIOUS
  <2>1. {k \in DOMAIN at : at[k] = c} = {k \in DOMAIN cells : cells[k] = c}
    BY DEF At
  <2> QED
    BY <2>1, Zenon DEF CountIn
<1>5. SeqSum(cells, D, u) = TotalOver(g)
  BY DEF SeqSum
<1> HIDE DEF g, at, S, n
<1>6. \A c \in D : h[c] = CountIn(at, c) * u[c]
  BY <1>4
<1> QED
  BY <1>2, <1>3, <1>5, <1>6, SumByKind

\* Of a set of cells that count, a transaction takes its inputs and adds its
\* outputs.
LEMMA SystemFlow ==
    ASSUME IsABag(live), NEW tx, NEW stale, Publish(tx, stale),
           NEW D, IsFiniteSet(D), \A c \in D : IsSystemCell(c), NEW u \in Weights(D)
    PROVE  /\ BagSum(live, D, u) \in Nat /\ BagSum(live', D, u) \in Nat
           /\ SeqSum(tx.inputs, D, u) \in Nat /\ SeqSum(tx.outputs, D, u) \in Nat
           /\ BagSum(live', D, u) + SeqSum(tx.inputs, D, u)
                = BagSum(live, D, u) + SeqSum(tx.outputs, D, u)
<1> DEFINE a == [c \in D |-> Copies(live, c) * u[c]]
           b == [c \in D |-> Copies(live', c) * u[c]]
           i == [c \in D |-> CountIn(tx.inputs, c) * u[c]]
           o == [c \in D |-> CountIn(tx.outputs, c) * u[c]]
           all == [c \in D |-> Copies(live, c) * u[c] + CountIn(tx.outputs, c) * u[c]]
<1>1. /\ tx.inputs \in Seq(CellsOf(tx.inputs)) /\ tx.outputs \in Seq(CellsOf(tx.outputs))
      /\ IsABag(live')
  BY BothSequences, Effect DEF Publish
<1>2. \A c : /\ Copies(live, c) = Live(c) /\ Copies(live', c) = Live(c)'
             /\ Live(c) \in Nat /\ Live(c)' \in Nat
             /\ CountIn(tx.inputs, c) \in Nat /\ CountIn(tx.outputs, c) \in Nat
  <2>1. \A c : Copies(live, c) = Live(c) /\ Copies(live', c) = Live(c)'
    BY DEF Copies, Live
  <2>2. \A c : CountIn(tx.inputs, c) \in Nat /\ CountIn(tx.outputs, c) \in Nat
    BY <1>1, Counts, Zenon
  <2> QED
    BY <1>1, <2>1, <2>2, LiveMeans
<1>3. \A c \in D : /\ CountIn(tx.inputs, c) <= Live(c)
                   /\ Live(c)' = Live(c) - CountIn(tx.inputs, c) + CountIn(tx.outputs, c)
  BY Effect
<1>4. \A c \in D : u[c] \in Nat
  BY DEF Weights
<1>5. /\ a \in Weights(D) /\ b \in Weights(D) /\ i \in Weights(D)
      /\ o \in Weights(D) /\ all \in Weights(D)
  <2>1. \A x, y \in Nat : x * y \in Nat /\ x + y \in Nat
    OBVIOUS
  <2> QED
    BY <1>2, <1>4, <2>1 DEF Weights
<1>6. \A c \in D : all[c] = a[c] + o[c] /\ all[c] = b[c] + i[c]
  <2> SUFFICES ASSUME NEW c \in D
               PROVE  all[c] = a[c] + o[c] /\ all[c] = b[c] + i[c]
    OBVIOUS
  <2>1. \A l, m, n, w \in Nat : l * w + n * w = (l - m + n) * w + m * w
    OBVIOUS
  <2>2. Live(c) * u[c] + CountIn(tx.outputs, c) * u[c]
          = (Live(c) - CountIn(tx.inputs, c) + CountIn(tx.outputs, c)) * u[c]
              + CountIn(tx.inputs, c) * u[c]
    BY <1>2, <1>4, <2>1
  <2> QED
    BY <1>2, <1>3, <2>2
<1>7. BagSum(live, D, u) = TotalOver(a) /\ BagSum(live', D, u) = TotalOver(b)
  BY DEF BagSum
<1>8. SeqSum(tx.inputs, D, u) = TotalOver(i) /\ SeqSum(tx.outputs, D, u) = TotalOver(o)
  <2>1. (\A c \in D : i[c] = CountIn(tx.inputs, c) * u[c])
        /\ (\A c \in D : o[c] = CountIn(tx.outputs, c) * u[c])
    OBVIOUS
  <2> HIDE DEF i, o
  <2>2. SeqSum(tx.inputs, D, u) = TotalOver(i)
    BY <1>1, <1>5, <2>1, SeqSumByKind
  <2>3. SeqSum(tx.outputs, D, u) = TotalOver(o)
    BY <1>1, <1>5, <2>1, SeqSumByKind
  <2> QED
    BY <2>2, <2>3
<1> HIDE DEF a, b, i, o, all
<1>9. /\ TotalOver(a) \in Nat /\ TotalOver(b) \in Nat
      /\ TotalOver(i) \in Nat /\ TotalOver(o) \in Nat
  BY <1>5, UnitsFinite
<1>10. /\ TotalOver(all) = TotalOver(a) + TotalOver(o)
       /\ TotalOver(all) = TotalOver(b) + TotalOver(i)
  BY <1>5, <1>6, SumAdds
<1> QED
  BY <1>7, <1>8, <1>9, <1>10

\* Only the cells that a bag has count.
LEMMA BagPart ==
    ASSUME NEW B, IsABag(B), NEW D, NEW u \in Weights(D), NEW S, S = D \cap DOMAIN B
    PROVE  TotalOver([c \in S |-> B[c] * u[c]]) = BagSum(B, D, u)
<1> DEFINE f == [c \in D |-> Copies(B, c) * u[c]]
           g == [c \in S |-> B[c] * u[c]]
<1>1. \A c \in D : u[c] \in Nat
  BY DEF Weights
<1>2. \A c : Copies(B, c) \in Nat
  BY DEF Copies, IsABag
<1>3. \A x, y \in Nat : x * y \in Nat
  OBVIOUS
<1>4. f \in Weights(D)
  BY <1>1, <1>2, <1>3 DEF Weights
<1>5. \A c \in S : g[c] = f[c] /\ c \in D
  BY DEF Copies
<1>6. S \in SUBSET D /\ g \in Weights(S)
  <2>1. \A c \in S : g[c] \in Nat
    BY <1>4, <1>5 DEF Weights
  <2> QED
    BY <1>5, <2>1 DEF Weights
<1>7. \A c \in D \ S : f[c] = 0
  <2> SUFFICES ASSUME NEW c \in D, c \notin S PROVE f[c] = 0
    OBVIOUS
  <2>1. f[c] = 0 * u[c]
    BY DEF Copies
  <2> QED
    BY <1>1, <2>1
<1>8. BagSum(B, D, u) = TotalOver(f)
  BY DEF BagSum
<1> HIDE DEF f, g
<1>9. TotalOver(f) = TotalOver(g)
  BY <1>4, <1>5, <1>6, <1>7, SumOfPart
<1> QED
  BY <1>8, <1>9 DEF g

-----------------------------------------------------------------------------
\* The cells of a set that hold a token of a pair under its lock, and its pools.
HoldersIn(S, lock, k) == {c \in S : /\ c.lock = lock /\ c.type.code # "udtswap"
                                    /\ HoldsToken(c, Token(lock, k))}
PoolsIn(S, lock) == {c \in S : c.type.code = "udtswap" /\ c.lock = lock}

\* A cell that holds a token has an amount of it.
LEMMA HolderAmounts ==
    ASSUME NEW tx, NEW stale, Publish(tx, stale), NEW cells \in {tx.inputs, tx.outputs},
           NEW i \in DOMAIN cells, NEW t, HoldsToken(cells[i], t)
    PROVE  AmountIn(cells[i], t) \in Nat
<1>1. CASE t = CKB
  <2>1. cells[i].capacity \in 0 .. U64 - 1
    BY CellsOK, Zenon DEF Publish
  <2> QED
    BY <1>1, <2>1, TypeScriptAssumption DEF AmountIn
<1>2. CASE t # CKB
  <2> DEFINE s == UdtType(t)
  <2>1. i \in OfType(cells, s) /\ s.code \in {"liquidity", "udt"}
    BY <1>2 DEF HoldsToken, OfType, UdtType, Script
  <2> HIDE DEF s
  <2>2. AmountOf(cells[i]) \in Nat \ {0}
    BY <2>1, TokenCells
  <2> QED
    BY <1>2, <2>2 DEF AmountIn, AmountOf
<1> QED
  BY <1>1, <1>2

\* No cell holds two tokens.
LEMMA OneToken ==
    ASSUME NEW c, NEW t, NEW u, HoldsToken(c, t), HoldsToken(c, u)
    PROVE  t = u
BY DEF HoldsToken, NoScript, UdtType, Script, CKB

\* A cell that holds a token is no pool.
LEMMA HolderIsNoPool ==
    ASSUME NEW c, NEW t, HoldsToken(c, t) PROVE c.type.code # "udtswap"
BY DEF HoldsToken, NoScript, UdtType, Script

\* What the lock script lets go is the three cells of a pool.
LEMMA LockedTriples ==
    ASSUME NEW tx, NEW stale, Publish(tx, stale), NEW i \in DOMAIN tx.inputs,
           tx.inputs[i].lock.code = "udtswap_lock"
    PROVE  \E f \in Nat, j \in 0 .. 2 : /\ i = 3 * f + 1 + j
                                        /\ check_udtswap_type(tx, 3 * f, tx.inputs[i].lock)
<1> DEFINE lock == tx.inputs[i].lock
           T == OfLock(tx.inputs, lock)
           F == {k \in 0 .. Len(tx.inputs) \div 3 : check_udtswap_type(tx, 3 * k, lock)}
<1>1. tx.inputs \in Seq(CellsOf(tx.inputs))
  BY BothSequences DEF Publish
<1>2. lock_main(tx, lock)
  <2>1. lock \in LockScripts(tx)
    BY DEF LockScripts
  <2> QED
    BY <2>1, Zenon DEF Publish, ScriptsAccept
<1>3. Cardinality(T) % 3 = 0 /\ Cardinality(F) >= Cardinality(T) \div 3
  BY <1>2 DEF lock_main
<1>4. IsFiniteSet(T)
  <2>1. T \in SUBSET DOMAIN tx.inputs
    BY DEF OfLock
  <2> QED
    BY <1>1, <2>1, PositionsFinite, Zenon
<1>5. F \in SUBSET Nat /\ IsFiniteSet(F)
  <2>1. Len(tx.inputs) \div 3 \in Int
    BY <1>1
  <2>2. 0 \in Int /\ \A a, b \in Int : IsFiniteSet(a .. b)
    BY FS_Interval
  <2>3. IsFiniteSet(0 .. Len(tx.inputs) \div 3)
    BY <2>1, <2>2
  <2>4. F \in SUBSET (0 .. Len(tx.inputs) \div 3)
    BY Zenon
  <2> HIDE DEF F
  <2>5. \A n \in Int : 0 .. n \in SUBSET Nat
    OBVIOUS
  <2>6. F \in SUBSET Nat
    BY <2>1, <2>4, <2>5
  <2> QED
    BY <2>3, <2>4, <2>6, FS_Subset
<1>6. ASSUME NEW f \in F, NEW j \in 0 .. 2
      PROVE  3 * f + 1 + j \in T
  <2>1. f \in Nat
    BY <1>5
  <2>2. HasInput(tx, 3 * f + j) /\ Input(tx, 3 * f + j).lock = lock
    BY Zenon DEF check_udtswap_type
  <2>3. 3 * f + j < Len(tx.inputs) /\ tx.inputs[3 * f + j + 1].lock = lock
    BY <2>2 DEF HasInput, Input
  <2>4. 3 * f + 1 + j = 3 * f + j + 1 /\ 3 * f + 1 + j \in DOMAIN tx.inputs
    BY <1>1, <2>1, <2>3
  <2> QED
    BY <2>3, <2>4 DEF OfLock
<1>7. i \in T
  BY DEF OfLock
<1> HIDE DEF T, F, lock
<1>8. PICK f \in F, j \in 0 .. 2 : i = 3 * f + 1 + j
  BY <1>3, <1>4, <1>5, <1>6, <1>7, TriplesFillGroup
<1>9. f \in Nat /\ check_udtswap_type(tx, 3 * f, lock)
  BY <1>5 DEF F
<1> QED
  BY <1>8, <1>9 DEF lock

\* A cell that holds a token of a pair and is consumed goes with a pool that has
\* recorded its amount.
LEMMA InputsMatched ==
    ASSUME LInv, NEW tx, NEW stale, Publish(tx, stale),
           NEW lock, lock.code = "udtswap_lock", NEW k \in 1 .. 2,
           NEW i \in At(tx.inputs, HoldersIn(CellsOf(tx.inputs), lock, k))
    PROVE  /\ i - k \in At(tx.inputs, PoolsIn(CellsOf(tx.inputs), lock))
           /\ tx.inputs[i - k].data[k] = AmountIn(tx.inputs[i], Token(lock, k))
<1> DEFINE t == Token(lock, k)
<1>1. /\ i \in DOMAIN tx.inputs /\ tx.inputs[i].lock = lock
      /\ tx.inputs[i].type.code # "udtswap" /\ HoldsToken(tx.inputs[i], t)
  BY DEF At, HoldersIn
<1>2. PICK f \in Nat, j \in 0 .. 2 : i = 3 * f + 1 + j /\ check_udtswap_type(tx, 3 * f, lock)
  BY <1>1, LockedTriples
<1>3. tx.inputs \in Seq(CellsOf(tx.inputs))
  BY BothSequences DEF Publish
<1> DEFINE p == Input(tx, 3 * f)
           s == p.type
<1>4. /\ s.code = "udtswap" /\ p.lock = lock
      /\ 3 * f + 1 \in DOMAIN tx.inputs /\ p = tx.inputs[3 * f + 1]
  <2>1. 0 \in 0 .. 2 /\ 3 * f + 0 = 3 * f
    OBVIOUS
  <2>2. HasInput(tx, 3 * f) /\ s.code = "udtswap" /\ p.lock = lock
    BY <1>2, <2>1, Zenon DEF check_udtswap_type
  <2> QED
    BY <1>3, <2>2 DEF HasInput, Input
<1>5. PICK m : Updated(tx, s, m)
  <2>1. s \in TypeScripts(tx)
    BY <1>4 DEF TypeScripts
  <2>2. ~ create_udtswap_check(tx, s, stale)
    BY <1>4, CreateFacts, Zenon DEF Publish
  <2> QED
    BY <1>4, <2>1, <2>2, ThreeWays, Zenon
<1>6. m = f
  <2>1. 3 * f + 1 = 3 * m + 1 /\ m \in Nat
    BY <1>4, <1>5, Zenon DEF Updated, OnlyAt
  <2> QED
    BY <2>1
<1>7. reserves_held(tx, 3 * f) /\ Pair(p) = <<lock.t1, lock.t2>>
  BY <1>4, <1>5, <1>6, Zenon DEF Updated, pool_triple, Pair
<1>8. \A n \in 1 .. 2 : /\ HoldsToken(Input(tx, 3 * f + n), Token(lock, n))
                        /\ p.data[n] = AmountIn(Input(tx, 3 * f + n), Token(lock, n))
  BY <1>7, Zenon DEF reserves_held, Token
<1>9. lock.t1 < lock.t2 /\ lock.t1 \in Nat /\ lock.t2 \in Nat
  <2>1. p \in LivePools
    BY <1>4, <1>5, <1>6, Exchanged
  <2>2. IsScript(lock)
    BY <1>1, CellsOK, Zenon DEF Publish
  <2> QED
    BY <1>4, <2>1, <2>2, Zenon DEF LInv, OneCellPerPool, IsScript
<1>10. j = k
  <2>1. j # 0
    BY <1>1, <1>2, <1>4
  <2>2. tx.inputs[i] = Input(tx, 3 * f + j) /\ j \in 1 .. 2
    BY <1>2, <2>1 DEF Input
  <2>3. Token(lock, j) = Token(lock, k)
    BY <1>1, <1>8, <2>2, OneToken
  <2>4. Token(lock, 1) # Token(lock, 2)
    <3>1. Token(lock, 1) = lock.t1 /\ Token(lock, 2) = lock.t2
      BY DEF Token
    <3> QED
      BY <1>9, <3>1
  <2> QED
    BY <2>2, <2>3, <2>4
<1>11. i - k = 3 * f + 1 /\ tx.inputs[i] = Input(tx, 3 * f + k)
  BY <1>2, <1>10 DEF Input
<1> QED
  BY <1>4, <1>8, <1>11 DEF At, PoolsIn, CellsOf

\* A pool that is created or updated has the cells of its pair behind it, with
\* what it records; a creation may read another amount.
LEMMA OutputsMatched ==
    ASSUME NEW tx, NEW stale, Publish(tx, stale),
           NEW lock, lock.code = "udtswap_lock", NEW k \in 1 .. 2,
           NEW j \in At(tx.outputs, PoolsIn(CellsOf(tx.outputs), lock))
    PROVE  /\ j + k \in At(tx.outputs, HoldersIn(CellsOf(tx.outputs), lock, k))
           /\ \/ tx.outputs[j].data[k] = AmountIn(tx.outputs[j + k], Token(lock, k))
              \/ j = 1 /\ create_udtswap_check(tx, tx.outputs[1].type, stale)
<1> DEFINE q == tx.outputs[j]
           s == q.type
<1>1. j \in DOMAIN tx.outputs /\ s.code = "udtswap" /\ q.lock = lock
  BY DEF At, PoolsIn
<1>2. tx.outputs \in Seq(CellsOf(tx.outputs))
  BY BothSequences DEF Publish
<1>3. s \in TypeScripts(tx)
  BY <1>1 DEF TypeScripts
<1>4. CASE create_udtswap_check(tx, s, stale)
  <2>1. j = 1
    BY <1>1, <1>4, CreateFacts, Zenon DEF Publish, OnlyAt
  <2>2. Output(tx, 0) = q
    BY <2>1 DEF Output
  <2>3. k \in 0 .. 2
    OBVIOUS
  <2>4. /\ HasOutput(tx, k) /\ Output(tx, k).lock = lock
        /\ HoldsToken(Output(tx, k), Token(lock, k))
    BY <1>1, <1>4, <2>2, <2>3, Zenon DEF create_udtswap_check, Pair, Token
  <2>5. j + k \in DOMAIN tx.outputs /\ tx.outputs[j + k] = Output(tx, k)
    BY <1>2, <2>1, <2>4 DEF HasOutput, Output
  <2>6. Output(tx, k).type.code # "udtswap"
    BY <2>4, HolderIsNoPool
  <2> QED
    BY <1>4, <2>1, <2>4, <2>5, <2>6 DEF At, HoldersIn, CellsOf
<1>5. CASE \E m : Updated(tx, s, m)
  <2>1. PICK m : Updated(tx, s, m)
    BY <1>5
  <2>2. j = 3 * m + 1 /\ m \in Nat /\ q = Output(tx, 3 * m)
    BY <1>1, <2>1, Zenon DEF Updated, OnlyAt
  <2>3. /\ Input(tx, 3 * m).lock = lock /\ Pair(Input(tx, 3 * m)) = <<lock.t1, lock.t2>>
    BY <1>1, <2>1, <2>2, Zenon DEF Updated, Pair
  <2>4. /\ HasOutput(tx, 3 * m + k) /\ Output(tx, 3 * m + k).lock = lock
        /\ HoldsToken(Output(tx, 3 * m + k), Token(lock, k))
        /\ q.data[k] = AmountIn(Output(tx, 3 * m + k), Token(lock, k))
    <3>1. k \in 0 .. 2
      OBVIOUS
    <3>2. pool_triple(tx, 3 * m)
      BY <2>1 DEF Updated
    <3> QED
      BY <2>2, <2>3, <3>1, <3>2, Zenon DEF pool_triple, locks_same, reserves_held, Token
  <2>5. j + k \in DOMAIN tx.outputs /\ tx.outputs[j + k] = Output(tx, 3 * m + k)
    BY <1>2, <2>2, <2>4 DEF HasOutput, Output
  <2>6. Output(tx, 3 * m + k).type.code # "udtswap"
    BY <2>4, HolderIsNoPool
  <2> QED
    BY <2>4, <2>5, <2>6 DEF At, HoldersIn, CellsOf
<1> QED
  BY <1>1, <1>3, <1>4, <1>5, ThreeWays, Zenon

-----------------------------------------------------------------------------
\* Amounts measured: as they are, or 1 for one amount and 0 for all others.
Measures == [Nat -> Nat]
Measure(g, n) == IF n \in Nat THEN g[n] ELSE 0
AmountItself == [n \in Nat |-> n]
Is(a) == [n \in Nat |-> IF n = a THEN 1 ELSE 0]

\* What is measured of the cells that hold a token of a pair under its lock, and
\* of what the pools record, in a bag and in a sequence.
HeldOf(B, lock, k, g) ==
    TotalOver([c \in HoldersIn(DOMAIN B, lock, k)
                 |-> B[c] * Measure(g, AmountIn(c, Token(lock, k)))])
OwedBy(B, lock, k, g) ==
    TotalOver([p \in PoolsIn(DOMAIN B, lock) |-> B[p] * Measure(g, p.data[k])])

HeldIn(cells, lock, k, g) ==
    TotalOver([j \in At(cells, HoldersIn(CellsOf(cells), lock, k))
                 |-> Measure(g, AmountIn(cells[j], Token(lock, k)))])
OwedIn(cells, lock, k, g) ==
    TotalOver([j \in At(cells, PoolsIn(CellsOf(cells), lock))
                 |-> Measure(g, cells[j].data[k])])

\* A measure is a number, also of what is none.
LEMMA MeasureIsNat == ASSUME NEW g \in Measures, NEW n PROVE Measure(g, n) \in Nat
BY DEF Measures, Measure

\* The cells of the ledger and of a transaction.
Around(tx) == LiveCells \cup CellsOf(tx.inputs) \cup CellsOf(tx.outputs)

\* They are finitely many, and there are no others after the transaction.
LEMMA AroundIs ==
    ASSUME IsABag(live), IsFiniteSet(LiveCells), NEW tx, NEW stale, Publish(tx, stale)
    PROVE  /\ IsFiniteSet(Around(tx))
           /\ DOMAIN live \subseteq Around(tx) /\ DOMAIN live' \subseteq Around(tx)
           /\ CellsOf(tx.inputs) \subseteq Around(tx)
           /\ CellsOf(tx.outputs) \subseteq Around(tx)
<1>1. IsFiniteSet(CellsOf(tx.inputs)) /\ IsFiniteSet(CellsOf(tx.outputs))
  BY BothSequences, SequenceCells, Zenon DEF Publish
<1>2. IsFiniteSet(Around(tx))
  BY <1>1, FS_Union, Zenon DEF Around
<1>3. LiveCells = DOMAIN live /\ LiveCells' = DOMAIN live'
  BY DEF LiveCells, BagToSet
<1>4. \A c \in LiveCells' : c \in LiveCells \/ c \in CellsOf(tx.outputs)
  BY Grown DEF CellsOf
<1> QED
  BY <1>2, <1>3, <1>4 DEF Around

\* What a transaction does to what lies under a lock.
LEMMA HeldFlow ==
    ASSUME IsABag(live), IsFiniteSet(LiveCells), NEW tx, NEW stale, Publish(tx, stale),
           NEW lock, lock.code = "udtswap_lock", NEW k \in 1 .. 2, NEW g \in Measures
    PROVE  /\ HeldOf(live, lock, k, g) \in Nat /\ HeldOf(live', lock, k, g) \in Nat
           /\ HeldIn(tx.inputs, lock, k, g) \in Nat /\ HeldIn(tx.outputs, lock, k, g) \in Nat
           /\ HeldOf(live', lock, k, g) + HeldIn(tx.inputs, lock, k, g)
                = HeldOf(live, lock, k, g) + HeldIn(tx.outputs, lock, k, g)
<1> DEFINE t == Token(lock, k)
           D == HoldersIn(Around(tx), lock, k)
           u == [c \in D |-> Measure(g, AmountIn(c, t))]
<1>1. IsABag(live')
  BY Effect
<1>2. IsFiniteSet(D)
  <2>1. D \in SUBSET Around(tx)
    BY DEF HoldersIn
  <2> QED
    BY <2>1, AroundIs, FS_Subset, Zenon
<1>3. \A c \in D : IsSystemCell(c)
  BY DEF HoldersIn, IsSystemCell
<1>4. u \in Weights(D)
  BY MeasureIsNat DEF Weights
<1>5. HeldOf(live, lock, k, g) = BagSum(live, D, u)
  <2> DEFINE S == HoldersIn(DOMAIN live, lock, k)
  <2>1. S = D \cap DOMAIN live
    BY AroundIs DEF HoldersIn
  <2>2. [c \in S |-> live[c] * u[c]] = [c \in S |-> live[c] * Measure(g, AmountIn(c, t))]
    BY <2>1
  <2>3. TotalOver([c \in S |-> live[c] * u[c]]) = BagSum(live, D, u)
    <3> HIDE DEF S, D, u
    <3> QED
      BY <1>4, <2>1, BagPart
  <2> QED
    BY <2>2, <2>3 DEF HeldOf
<1>6. HeldOf(live', lock, k, g) = BagSum(live', D, u)
  <2> DEFINE S == HoldersIn(DOMAIN live', lock, k)
  <2>1. S = D \cap DOMAIN live'
    BY AroundIs DEF HoldersIn
  <2>2. [c \in S |-> live'[c] * u[c]] = [c \in S |-> live'[c] * Measure(g, AmountIn(c, t))]
    BY <2>1
  <2>3. TotalOver([c \in S |-> live'[c] * u[c]]) = BagSum(live', D, u)
    <3> HIDE DEF S, D, u
    <3> QED
      BY <1>1, <1>4, <2>1, BagPart
  <2> QED
    BY <2>2, <2>3 DEF HeldOf
<1>7. /\ HeldIn(tx.inputs, lock, k, g) = SeqSum(tx.inputs, D, u)
      /\ HeldIn(tx.outputs, lock, k, g) = SeqSum(tx.outputs, D, u)
  <2>1. ASSUME NEW cells, CellsOf(cells) \subseteq Around(tx)
        PROVE  HeldIn(cells, lock, k, g) = SeqSum(cells, D, u)
    <3> DEFINE S == At(cells, HoldersIn(CellsOf(cells), lock, k))
    <3>1. S = At(cells, D)
      BY <2>1 DEF At, HoldersIn, CellsOf
    <3>2. \A j \in At(cells, D) : u[cells[j]] = Measure(g, AmountIn(cells[j], t))
      BY DEF At
    <3>3. [j \in S |-> Measure(g, AmountIn(cells[j], t))] = [j \in At(cells, D) |-> u[cells[j]]]
      <4> HIDE DEF S, D, u
      <4> QED
        BY <3>1, <3>2
    <3> QED
      BY <3>3 DEF HeldIn, SeqSum
  <2> QED
    BY <2>1, AroundIs
<1> HIDE DEF D, u
<1> QED
  BY <1>2, <1>3, <1>4, <1>5, <1>6, <1>7, SystemFlow

\* And to what the pools record.
LEMMA OwedFlow ==
    ASSUME IsABag(live), IsFiniteSet(LiveCells), NEW tx, NEW stale, Publish(tx, stale),
           NEW lock, NEW k \in 1 .. 2, NEW g \in Measures
    PROVE  /\ OwedBy(live, lock, k, g) \in Nat /\ OwedBy(live', lock, k, g) \in Nat
           /\ OwedIn(tx.inputs, lock, k, g) \in Nat /\ OwedIn(tx.outputs, lock, k, g) \in Nat
           /\ OwedBy(live', lock, k, g) + OwedIn(tx.inputs, lock, k, g)
                = OwedBy(live, lock, k, g) + OwedIn(tx.outputs, lock, k, g)
<1> DEFINE D == PoolsIn(Around(tx), lock)
           u == [c \in D |-> Measure(g, c.data[k])]
<1>1. IsABag(live')
  BY Effect
<1>2. IsFiniteSet(D)
  <2>1. D \in SUBSET Around(tx)
    BY DEF PoolsIn
  <2> QED
    BY <2>1, AroundIs, FS_Subset, Zenon
<1>3. \A c \in D : IsSystemCell(c)
  BY DEF PoolsIn, IsSystemCell
<1>4. u \in Weights(D)
  BY MeasureIsNat DEF Weights
<1>5. OwedBy(live, lock, k, g) = BagSum(live, D, u)
  <2> DEFINE S == PoolsIn(DOMAIN live, lock)
  <2>1. S = D \cap DOMAIN live
    BY AroundIs DEF PoolsIn
  <2>2. [c \in S |-> live[c] * u[c]] = [c \in S |-> live[c] * Measure(g, c.data[k])]
    BY <2>1
  <2>3. TotalOver([c \in S |-> live[c] * u[c]]) = BagSum(live, D, u)
    <3> HIDE DEF S, D, u
    <3> QED
      BY <1>4, <2>1, BagPart
  <2> QED
    BY <2>2, <2>3 DEF OwedBy
<1>6. OwedBy(live', lock, k, g) = BagSum(live', D, u)
  <2> DEFINE S == PoolsIn(DOMAIN live', lock)
  <2>1. S = D \cap DOMAIN live'
    BY AroundIs DEF PoolsIn
  <2>2. [c \in S |-> live'[c] * u[c]] = [c \in S |-> live'[c] * Measure(g, c.data[k])]
    BY <2>1
  <2>3. TotalOver([c \in S |-> live'[c] * u[c]]) = BagSum(live', D, u)
    <3> HIDE DEF S, D, u
    <3> QED
      BY <1>1, <1>4, <2>1, BagPart
  <2> QED
    BY <2>2, <2>3 DEF OwedBy
<1>7. /\ OwedIn(tx.inputs, lock, k, g) = SeqSum(tx.inputs, D, u)
      /\ OwedIn(tx.outputs, lock, k, g) = SeqSum(tx.outputs, D, u)
  <2>1. ASSUME NEW cells, CellsOf(cells) \subseteq Around(tx)
        PROVE  OwedIn(cells, lock, k, g) = SeqSum(cells, D, u)
    <3> DEFINE S == At(cells, PoolsIn(CellsOf(cells), lock))
    <3>1. S = At(cells, D)
      BY <2>1 DEF At, PoolsIn, CellsOf
    <3>2. \A j \in At(cells, D) : u[cells[j]] = Measure(g, cells[j].data[k])
      BY DEF At
    <3>3. [j \in S |-> Measure(g, cells[j].data[k])] = [j \in At(cells, D) |-> u[cells[j]]]
      <4> HIDE DEF S, D, u
      <4> QED
        BY <3>1, <3>2
    <3> QED
      BY <3>3 DEF OwedIn, SeqSum
  <2> QED
    BY <2>1, AroundIs
<1> HIDE DEF D, u
<1> QED
  BY <1>2, <1>3, <1>4, <1>5, <1>6, <1>7, SystemFlow

-----------------------------------------------------------------------------
\* A transaction opens a pool of a pair.
Opens(tx, stale, lock) == /\ tx.outputs[1].type.code = "udtswap"
                          /\ tx.outputs[1].lock = lock
                          /\ create_udtswap_check(tx, tx.outputs[1].type, stale)

\* A new pool records no more than lies behind it.
ReadExactly(tx, lock, k, g) ==
    Measure(g, tx.outputs[1].data[k])
      <= Measure(g, AmountIn(tx.outputs[1 + k], Token(lock, k)))

\* What a transaction takes from under a lock, the pools that it takes have
\* recorded.
LEMMA TakesRecorded ==
    ASSUME LInv, NEW tx, NEW stale, Publish(tx, stale),
           NEW lock, lock.code = "udtswap_lock", NEW k \in 1 .. 2, NEW g \in Measures
    PROVE  HeldIn(tx.inputs, lock, k, g) <= OwedIn(tx.inputs, lock, k, g)
<1> DEFINE S == At(tx.inputs, HoldersIn(CellsOf(tx.inputs), lock, k))
           T == At(tx.inputs, PoolsIn(CellsOf(tx.inputs), lock))
           f == [j \in S |-> Measure(g, AmountIn(tx.inputs[j], Token(lock, k)))]
           r == [j \in T |-> Measure(g, tx.inputs[j].data[k])]
           h == [j \in S |-> j - k]
<1>1. tx.inputs \in Seq(CellsOf(tx.inputs)) /\ S \in SUBSET Int
      /\ S \in SUBSET DOMAIN tx.inputs /\ T \in SUBSET DOMAIN tx.inputs
  BY BothSequences DEF Publish, At
<1>2. IsFiniteSet(S) /\ IsFiniteSet(T)
  <2> HIDE DEF S, T
  <2> QED
    BY <1>1, PositionsFinite, Zenon
<1>3. \A j \in S : /\ j - k \in T
                   /\ tx.inputs[j - k].data[k] = AmountIn(tx.inputs[j], Token(lock, k))
  BY InputsMatched
<1>4. f \in Weights(S) /\ r \in Weights(T)
  BY MeasureIsNat DEF Weights
<1>5. h \in [S -> T] /\ \A x, y \in S : h[x] = h[y] => x = y
  <2> HIDE DEF S, T
  <2> QED
    BY <1>1, <1>3
<1>6. \A j \in S : f[j] <= r[h[j]]
  <2> SUFFICES ASSUME NEW j \in S PROVE f[j] <= r[h[j]]
    OBVIOUS
  <2>1. f[j] = r[h[j]]
    <3> HIDE DEF S, T
    <3> QED
      BY <1>3
  <2>2. f[j] \in Nat
    BY MeasureIsNat
  <2> QED
    BY <2>1, <2>2
<1>7. HeldIn(tx.inputs, lock, k, g) = TotalOver(f) /\ OwedIn(tx.inputs, lock, k, g) = TotalOver(r)
  BY DEF HeldIn, OwedIn
<1> HIDE DEF S, T, f, r, h
<1> QED
  BY <1>2, <1>4, <1>5, <1>6, <1>7, SumOfMatched

\* What the pools behind a transaction record, it puts under the lock.
LEMMA PutsRecorded ==
    ASSUME NEW tx, NEW stale, Publish(tx, stale),
           NEW lock, lock.code = "udtswap_lock", NEW k \in 1 .. 2, NEW g \in Measures,
           Opens(tx, stale, lock) => ReadExactly(tx, lock, k, g)
    PROVE  OwedIn(tx.outputs, lock, k, g) <= HeldIn(tx.outputs, lock, k, g)
<1> DEFINE S == At(tx.outputs, PoolsIn(CellsOf(tx.outputs), lock))
           T == At(tx.outputs, HoldersIn(CellsOf(tx.outputs), lock, k))
           f == [j \in S |-> Measure(g, tx.outputs[j].data[k])]
           r == [j \in T |-> Measure(g, AmountIn(tx.outputs[j], Token(lock, k)))]
           h == [j \in S |-> j + k]
<1>1. tx.outputs \in Seq(CellsOf(tx.outputs)) /\ S \in SUBSET Int
      /\ S \in SUBSET DOMAIN tx.outputs /\ T \in SUBSET DOMAIN tx.outputs
  BY BothSequences DEF Publish, At
<1>2. IsFiniteSet(S) /\ IsFiniteSet(T)
  <2> HIDE DEF S, T
  <2> QED
    BY <1>1, PositionsFinite, Zenon
<1>3. \A j \in S :
         /\ j + k \in T
         /\ \/ tx.outputs[j].data[k] = AmountIn(tx.outputs[j + k], Token(lock, k))
            \/ j = 1 /\ create_udtswap_check(tx, tx.outputs[1].type, stale)
  BY OutputsMatched
<1>4. f \in Weights(S) /\ r \in Weights(T)
  BY MeasureIsNat DEF Weights
<1>5. h \in [S -> T] /\ \A x, y \in S : h[x] = h[y] => x = y
  <2> HIDE DEF S, T
  <2> QED
    BY <1>1, <1>3
<1>6. ASSUME NEW j \in S PROVE f[j] <= r[h[j]]
  <2>1. /\ f[j] = Measure(g, tx.outputs[j].data[k])
        /\ r[h[j]] = Measure(g, AmountIn(tx.outputs[j + k], Token(lock, k)))
    <3> HIDE DEF S, T
    <3> QED
      BY <1>3
  <2>2. f[j] \in Nat
    BY MeasureIsNat
  <2>3. CASE tx.outputs[j].data[k] = AmountIn(tx.outputs[j + k], Token(lock, k))
    BY <2>1, <2>2, <2>3
  <2>4. CASE j = 1 /\ create_udtswap_check(tx, tx.outputs[1].type, stale)
    <3>1. Opens(tx, stale, lock)
      BY <2>4 DEF At, PoolsIn, Opens
    <3> QED
      BY <2>1, <2>4, <3>1 DEF ReadExactly
  <2> QED
    BY <1>3, <2>3, <2>4
<1>7. OwedIn(tx.outputs, lock, k, g) = TotalOver(f) /\ HeldIn(tx.outputs, lock, k, g) = TotalOver(r)
  BY DEF HeldIn, OwedIn
<1> HIDE DEF S, T, f, r, h
<1> QED
  BY <1>2, <1>4, <1>5, <1>6, <1>7, SumOfMatched

\* Between what lies under a lock and what is recorded, the difference never
\* falls.
LEMMA PublishCovers ==
    ASSUME LInv, IsFiniteSet(LiveCells), NEW tx, NEW stale, Publish(tx, stale),
           NEW lock, lock.code = "udtswap_lock", NEW k \in 1 .. 2, NEW g \in Measures,
           Opens(tx, stale, lock) => ReadExactly(tx, lock, k, g)
    PROVE  /\ HeldOf(live, lock, k, g) \in Nat /\ HeldOf(live', lock, k, g) \in Nat
           /\ OwedBy(live, lock, k, g) \in Nat /\ OwedBy(live', lock, k, g) \in Nat
           /\ HeldOf(live, lock, k, g) + OwedBy(live', lock, k, g)
                <= HeldOf(live', lock, k, g) + OwedBy(live, lock, k, g)
<1>1. IsABag(live)
  BY DEF LInv
<1>2. /\ HeldIn(tx.inputs, lock, k, g) <= OwedIn(tx.inputs, lock, k, g)
      /\ OwedIn(tx.outputs, lock, k, g) <= HeldIn(tx.outputs, lock, k, g)
  BY TakesRecorded, PutsRecorded
<1>3. /\ HeldOf(live, lock, k, g) \in Nat /\ HeldOf(live', lock, k, g) \in Nat
      /\ HeldIn(tx.inputs, lock, k, g) \in Nat /\ HeldIn(tx.outputs, lock, k, g) \in Nat
      /\ HeldOf(live', lock, k, g) + HeldIn(tx.inputs, lock, k, g)
           = HeldOf(live, lock, k, g) + HeldIn(tx.outputs, lock, k, g)
  BY <1>1, HeldFlow
<1>4. /\ OwedBy(live, lock, k, g) \in Nat /\ OwedBy(live', lock, k, g) \in Nat
      /\ OwedIn(tx.inputs, lock, k, g) \in Nat /\ OwedIn(tx.outputs, lock, k, g) \in Nat
      /\ OwedBy(live', lock, k, g) + OwedIn(tx.inputs, lock, k, g)
           = OwedBy(live, lock, k, g) + OwedIn(tx.outputs, lock, k, g)
  BY <1>1, OwedFlow
<1> QED
  BY <1>2, <1>3, <1>4

-----------------------------------------------------------------------------
\* What a new pool records of its lock cells: their amounts, or of the second
\* token of a CKB pair the lower half and what the upper half is taken for.
LEMMA NewPoolReads ==
    ASSUME NEW tx, NEW stale, Publish(tx, stale),
           create_udtswap_check(tx, tx.outputs[1].type, stale),
           NEW lock, lock = tx.outputs[1].lock
    PROVE  /\ tx.outputs[1].data[1] = AmountIn(tx.outputs[2], Token(lock, 1))
           /\ \/ tx.outputs[1].data[2] = AmountIn(tx.outputs[3], Token(lock, 2))
              \/ /\ lock.t1 = CKB /\ lock.t2 # CKB
                 /\ tx.outputs[1].data[2] = UDT_RESERVE_DEFAULT
                 /\ tx.outputs[1].data[2]
                      = (AmountIn(tx.outputs[3], Token(lock, 2)) % U64) + stale * U64
           /\ \A k \in 1 .. 2 : /\ 1 + k \in DOMAIN tx.outputs
                                /\ tx.outputs[1 + k].lock = lock
                                /\ HoldsToken(tx.outputs[1 + k], Token(lock, k))
<1> DEFINE pool == Output(tx, 0)
<1>1. pool = tx.outputs[1] /\ Output(tx, 1) = tx.outputs[2] /\ Output(tx, 2) = tx.outputs[3]
  BY DEF Output
<1>2. /\ created_empty(tx, stale)
      /\ Pair(pool) = <<lock.t1, lock.t2>>
      /\ in_order(Pair(pool))
      /\ \A k \in 0 .. 2 : HasOutput(tx, k)
      /\ \A k \in 1 .. 2 : /\ Output(tx, k).lock = lock
                           /\ HoldsToken(Output(tx, k), Pair(pool)[k])
  <2>1. /\ created_empty(tx, stale)
        /\ in_order(Pair(pool))
        /\ \A k \in 0 .. 2 : HasOutput(tx, k)
        /\ \A k \in 1 .. 2 : /\ Output(tx, k).lock = pool.lock
                             /\ HoldsToken(Output(tx, k), Pair(pool)[k])
    BY Zenon DEF create_udtswap_check
  <2>2. pool.lock = lock
    BY <1>1
  <2>3. Pair(pool) = <<lock.t1, lock.t2>>
    BY <2>2 DEF Pair
  <2> HIDE DEF pool
  <2> QED
    BY <2>1, <2>2, <2>3
<1>3. /\ Pair(pool)[1] = Token(lock, 1) /\ Pair(pool)[2] = Token(lock, 2)
      /\ Token(lock, 1) = lock.t1 /\ Token(lock, 2) = lock.t2
  BY <1>2 DEF Token
<1>4. lock.t1 < lock.t2 /\ lock.t1 \in Nat /\ lock.t2 \in Nat
  <2>1. 1 \in DOMAIN tx.outputs
    BY CreateFacts, Zenon DEF Publish, OnlyAt
  <2>2. IsScript(lock)
    BY <2>1, CellsOK, Zenon DEF Publish
  <2>3. lock.t1 < lock.t2
    BY <1>2 DEF in_order
  <2> QED
    BY <2>2, <2>3, Zenon DEF IsScript
<1>5. tx.outputs[1].data[1] = AmountIn(tx.outputs[2], Token(lock, 1))
  BY <1>1, <1>2, <1>3, Zenon DEF created_empty, CreatedAmount1
<1>6. /\ tx.outputs[1].data[2] = CreatedAmount2(tx.outputs[3], Pair(pool), stale)
      /\ tx.outputs[1].data[2] = Default(lock.t2)
  BY <1>1, <1>2, <1>3, Zenon DEF created_empty
<1>7. \/ tx.outputs[1].data[2] = AmountIn(tx.outputs[3], Token(lock, 2))
      \/ /\ lock.t1 = CKB /\ lock.t2 # CKB
         /\ tx.outputs[1].data[2] = UDT_RESERVE_DEFAULT
         /\ tx.outputs[1].data[2]
              = (AmountIn(tx.outputs[3], Token(lock, 2)) % U64) + stale * U64
  <2>1. CASE lock.t1 = CKB
    <3>1. lock.t2 # CKB
      BY <1>4, <2>1
    <3> QED
      BY <1>3, <1>6, <2>1, <3>1 DEF CreatedAmount2, Default
  <2>2. CASE lock.t1 # CKB
    BY <1>3, <1>6, <2>2 DEF CreatedAmount2
  <2> QED
    BY <2>1, <2>2
<1>8. ASSUME NEW k \in 1 .. 2
      PROVE  /\ 1 + k \in DOMAIN tx.outputs /\ tx.outputs[1 + k].lock = lock
             /\ HoldsToken(tx.outputs[1 + k], Token(lock, k))
  <2>1. tx.outputs \in Seq(CellsOf(tx.outputs))
    BY BothSequences DEF Publish
  <2>2. HasOutput(tx, k) /\ k \in 0 .. 2
    BY <1>2
  <2>3. 1 + k \in DOMAIN tx.outputs /\ tx.outputs[1 + k] = Output(tx, k)
    BY <2>1, <2>2 DEF HasOutput, Output
  <2>4. Pair(pool)[k] = Token(lock, k)
    BY <1>2 DEF Token
  <2> QED
    BY <1>2, <2>3, <2>4
<1> QED
  BY <1>5, <1>7, <1>8

-----------------------------------------------------------------------------
\* Adding a multiple leaves the rest as it is.
LEMMA RestOfSum ==
    ASSUME NEW r \in Nat, NEW m \in Nat \ {0}, r < m, NEW n \in Nat
    PROVE  (r + n * m) % m = r
<1> DEFINE x == r + n * m
           d == x \div m
           e == x % m
<1>1. n * m \in Nat
  OBVIOUS
<1>2. x \in Nat
  BY <1>1
<1>3. d \in Int /\ e \in Int /\ 0 <= e /\ e < m /\ x = m * d + e
  <2> HIDE DEF x
  <2> QED
    BY <1>2
<1> HIDE DEF d, e
<1>4. n * m + r = d * m + e
  BY <1>3
<1>5. ASSUME NEW a \in Int, NEW b \in Int, a > b PROVE a * m >= b * m + m
  <2>1. a * m >= (b + 1) * m
    BY <1>5
  <2> QED
    BY <2>1
<1>6. CASE n > d
  BY <1>3, <1>4, <1>5, <1>6
<1>7. CASE d > n
  BY <1>3, <1>4, <1>5, <1>7
<1>8. CASE n = d
  BY <1>3, <1>4, <1>8
<1>9. n > d \/ d > n \/ n = d
  BY <1>3
<1> QED
  BY <1>6, <1>7, <1>8, <1>9, <1>3 DEF e

\* An output that counts is live behind the transaction.
LEMMA OutputLives ==
    ASSUME IsABag(live), NEW tx, NEW stale, Publish(tx, stale),
           NEW j \in DOMAIN tx.outputs, IsSystemCell(tx.outputs[j])
    PROVE  tx.outputs[j] \in LiveCells'
<1> DEFINE c == tx.outputs[j]
<1>1. IsABag(live')
  BY Effect
<1>2. /\ CountIn(tx.inputs, c) <= Live(c)
      /\ Live(c)' = Live(c) - CountIn(tx.inputs, c) + CountIn(tx.outputs, c)
  BY Effect
<1>3. CountIn(tx.outputs, c) \in Nat /\ CountIn(tx.outputs, c) # 0 /\ CountIn(tx.inputs, c) \in Nat
  BY BothSequences, Counts, Zenon DEF Publish
<1>4. Live(c) \in Nat /\ (c \in LiveCells' <=> Live(c)' > 0)
  BY <1>1, LiveMeans
<1> QED
  BY <1>2, <1>3, <1>4

\* What lies under a pair lock is an amount.
HInv == \A c \in PairCells : \A t : HoldsToken(c, t) => AmountIn(c, t) \in Nat

\* It stays one.
LEMMA PublishHInv ==
    ASSUME LInv, HInv, NEW tx, NEW stale, Publish(tx, stale)
    PROVE  HInv'
<1> SUFFICES ASSUME NEW c \in PairCells', NEW t, HoldsToken(c, t)
             PROVE  AmountIn(c, t) \in Nat
  BY Zenon DEF HInv
<1>1. c \in LiveCells' /\ c.lock.code = "udtswap_lock" /\ c.type.code # "udtswap"
  BY DEF PairCells
<1>2. CASE c \in LiveCells
  BY <1>1, <1>2 DEF PairCells, HInv
<1>3. CASE \E j \in DOMAIN tx.outputs : tx.outputs[j] = c
  BY <1>3, HolderAmounts, Zenon
<1> QED
  BY <1>1, <1>2, <1>3, Grown, Zenon DEF LInv

\* No cell under the lock of a CKB pair has an amount that only the lower half
\* of looks like the default: line 818 reads the lower half of what a pool is
\* created with.
NoLookalike ==
    \A c \in PairCells :
       LET t == c.lock.t2
       IN  c.lock.t1 = CKB /\ HoldsToken(c, t)
             /\ AmountIn(c, t) % U64 = UDT_RESERVE_DEFAULT % U64
           => AmountIn(c, t) = UDT_RESERVE_DEFAULT

\* As many cells as records, of every amount.
Covered ==
    \A a \in Nat, k \in 1 .. 2 : \A lock :
       lock.code = "udtswap_lock"
         => OwedBy(live, lock, k, Is(a)) <= HeldOf(live, lock, k, Is(a))

\* There is none where a pool is created.
CreatesTruly == next_id' # next_id => NoLookalike'

\* An opened pool uses up an identity.
LEMMA OpensIdentity ==
    ASSUME LInv, NEW tx, NEW stale, Publish(tx, stale), NEW lock, Opens(tx, stale, lock)
    PROVE  next_id' # next_id
<1> DEFINE s == tx.outputs[1].type
<1>1. s.id = next_id /\ OnlyAt(tx.outputs, s, 1)
  BY Created, Zenon DEF Opens
<1>2. IsScript(s)
  BY <1>1, CellsOK, Zenon DEF Publish, OnlyAt
<1>3. s = PoolType(next_id)
  BY <1>1, <1>2 DEF IsScript, Opens, PoolType, Script
<1>4. next_id' = next_id + 1
  BY <1>1, <1>3, NextIdentity
<1> QED
  BY <1>4 DEF LInv

\* Then a new pool records what lies behind it.
LEMMA ReadsExactly ==
    ASSUME LInv, NEW tx, NEW stale \in Nat, Publish(tx, stale), CreatesTruly,
           NEW lock, lock.code = "udtswap_lock", Opens(tx, stale, lock),
           NEW k \in 1 .. 2, NEW g \in Measures
    PROVE  ReadExactly(tx, lock, k, g)
<1>0. /\ create_udtswap_check(tx, tx.outputs[1].type, stale) /\ tx.outputs[1].lock = lock
      /\ NoLookalike'
  BY OpensIdentity DEF CreatesTruly, Opens
<1> DEFINE D == tx.outputs[1].data[k]
           c == tx.outputs[1 + k]
           A == AmountIn(c, Token(lock, k))
<1>1. /\ 1 + k \in DOMAIN tx.outputs /\ c.lock = lock
      /\ HoldsToken(c, Token(lock, k))
  BY <1>0, NewPoolReads
<1>2. D = A
  <2>1. CASE k = 1
    BY <1>0, <2>1, NewPoolReads
  <2>2. CASE k = 2
    <3>1. tx.outputs[1 + k] = tx.outputs[3]
      BY <2>2
    <3>2. CASE tx.outputs[1].data[2] = AmountIn(tx.outputs[3], Token(lock, 2))
      BY <2>2, <3>1, <3>2
    <3>3. CASE /\ lock.t1 = CKB
               /\ tx.outputs[1].data[2] = UDT_RESERVE_DEFAULT
               /\ tx.outputs[1].data[2]
                      = (AmountIn(tx.outputs[3], Token(lock, 2)) % U64) + stale * U64
      <4>1. D = UDT_RESERVE_DEFAULT /\ D = (A % U64) + stale * U64
        BY <2>2, <3>1, <3>3
      <4>2. A \in Nat
        BY <1>1, HolderAmounts
      <4>3. U64 \in Nat \ {0} /\ A % U64 \in Nat /\ A % U64 < U64
        <5>1. \A m \in Nat \ {0} : \A n \in Nat : n % m \in Nat /\ n % m < m
          OBVIOUS
        <5> HIDE DEF A
        <5> QED
          BY <4>2, <5>1, TypeScriptAssumption
      <4>4. D % U64 = A % U64
        <5> HIDE DEF A, D
        <5>1. ((A % U64) + stale * U64) % U64 = A % U64
          BY <4>3, RestOfSum
        <5> QED
          BY <4>1, <5>1
      <4>5. c \in PairCells'
        <5>1. IsSystemCell(c)
          BY <1>1 DEF IsSystemCell
        <5>2. c \in LiveCells'
          BY <1>1, <5>1, OutputLives DEF LInv
        <5> QED
          BY <1>1, <5>2, HolderIsNoPool DEF PairCells
      <4>6. Token(lock, k) = lock.t2
        BY <2>2 DEF Token
      <4> HIDE DEF c
      <4> QED
        BY <1>0, <1>1, <3>3, <4>1, <4>4, <4>5, <4>6, Zenon DEF NoLookalike
    <3> QED
      BY <1>0, <3>2, <3>3, NewPoolReads
  <2> QED
    BY <2>1, <2>2
<1>3. Measure(g, D) \in Nat
  BY MeasureIsNat
<1> QED
  BY <1>2, <1>3 DEF ReadExactly

\* A transaction leaves a cell for every record.
LEMMA PublishCovered ==
    ASSUME LInv, IsFiniteSet(LiveCells), Covered, CreatesTruly,
           NEW tx, NEW stale \in Nat, Publish(tx, stale)
    PROVE  Covered'
<1> SUFFICES ASSUME NEW a \in Nat, NEW k \in 1 .. 2, NEW lock, lock.code = "udtswap_lock"
             PROVE  OwedBy(live', lock, k, Is(a)) <= HeldOf(live', lock, k, Is(a))
  BY Zenon DEF Covered
<1> DEFINE g == Is(a)
<1>1. g \in Measures
  BY DEF Is, Measures
<1>2. OwedBy(live, lock, k, g) <= HeldOf(live, lock, k, g)
  BY Zenon DEF Covered
<1> HIDE DEF g
<1>3. Opens(tx, stale, lock) => ReadExactly(tx, lock, k, g)
  BY <1>1, ReadsExactly
<1>4. /\ HeldOf(live, lock, k, g) \in Nat /\ HeldOf(live', lock, k, g) \in Nat
      /\ OwedBy(live, lock, k, g) \in Nat /\ OwedBy(live', lock, k, g) \in Nat
      /\ HeldOf(live, lock, k, g) + OwedBy(live', lock, k, g)
           <= HeldOf(live', lock, k, g) + OwedBy(live, lock, k, g)
  BY <1>1, <1>3, PublishCovers
<1>5. OwedBy(live', lock, k, g) <= HeldOf(live', lock, k, g)
  BY <1>2, <1>4
<1> QED
  BY <1>5 DEF g

\* Cells of one amount are counted by its measure.
LEMMA CountIs ==
    ASSUME NEW B, IsABag(B), NEW S \in SUBSET DOMAIN B, NEW amount \in [S -> Nat], NEW a \in Nat
    PROVE  TotalOver([c \in {d \in S : amount[d] = a} |-> B[c] * 1])
             = TotalOver([c \in S |-> B[c] * Measure(Is(a), amount[c])])
<1> DEFINE X == {d \in S : amount[d] = a}
           f == [c \in S |-> B[c] * Measure(Is(a), amount[c])]
           e == [c \in X |-> B[c] * 1]
<1>1. \A c \in S : /\ B[c] \in Nat /\ amount[c] \in Nat
                   /\ Measure(Is(a), amount[c]) = IF amount[c] = a THEN 1 ELSE 0
  BY DEF IsABag, Measure, Is
<1>2. \A c \in S : f[c] = IF amount[c] = a THEN B[c] ELSE 0
  BY <1>1
<1>3. \A c \in X : e[c] = B[c] /\ c \in S /\ amount[c] = a
  BY <1>1
<1>4. f \in Weights(S) /\ e \in Weights(X) /\ X \in SUBSET S
  BY <1>1, <1>2, <1>3 DEF Weights
<1>5. (\A c \in X : e[c] = f[c]) /\ (\A c \in S \ X : f[c] = 0)
  BY <1>2, <1>3
<1> HIDE DEF e, f, X
<1>6. TotalOver(f) = TotalOver(e)
  BY <1>4, <1>5, SumOfPart
<1> QED
  BY <1>6 DEF e, f, X

-----------------------------------------------------------------------------
\* Before the first transaction nothing lies under a lock and nothing is recorded.
LEMMA InitCovered == Init => HInv /\ Covered
<1> SUFFICES ASSUME Init PROVE HInv /\ Covered
  OBVIOUS
<1>1. live = [e \in {} |-> 1] /\ DOMAIN live = {}
  BY DEF Init, EmptyBag, SetToBag
<1>2. HInv
  BY <1>1 DEF HInv, PairCells, LiveCells, BagToSet
<1>3. ASSUME NEW lock, NEW k \in 1 .. 2, NEW g
      PROVE  HeldOf(live, lock, k, g) = 0 /\ OwedBy(live, lock, k, g) = 0
  <2> DEFINE h == [c \in {} |-> live[c] * Measure(g, AmountIn(c, Token(lock, k)))]
             o == [p \in {} |-> live[p] * Measure(g, p.data[k])]
  <2>1. HoldersIn(DOMAIN live, lock, k) = {} /\ PoolsIn(DOMAIN live, lock) = {}
    BY <1>1 DEF HoldersIn, PoolsIn
  <2>2. HeldOf(live, lock, k, g) = TotalOver(h) /\ OwedBy(live, lock, k, g) = TotalOver(o)
    BY <2>1 DEF HeldOf, OwedBy
  <2>3. h \in Weights({}) /\ o \in Weights({})
    BY DEF Weights
  <2> HIDE DEF h, o
  <2> QED
    BY <2>2, <2>3, SumOfZeros
<1>4. Covered
  BY <1>3 DEF Covered
<1> QED
  BY <1>2, <1>4

\* Amounts stay amounts.
LEMMA NextHInv == LInv /\ HInv /\ [Next]_ledger_vars => HInv'
<1> SUFFICES ASSUME LInv, HInv, [Next]_ledger_vars PROVE HInv'
  OBVIOUS
<1>1. CASE Next
  BY <1>1, NextPublishes, PublishHInv, Zenon
<1>2. CASE UNCHANGED ledger_vars
  BY <1>2 DEF ledger_vars, HInv, PairCells, LiveCells
<1> QED
  BY <1>1, <1>2

\* There stay as many cells as records.
LEMMA NextCovered ==
    LInv /\ TInv /\ Covered /\ [CreatesTruly]_ledger_vars /\ [Next]_ledger_vars => Covered'
<1> SUFFICES ASSUME LInv, TInv, Covered, [CreatesTruly]_ledger_vars, [Next]_ledger_vars
             PROVE  Covered'
  OBVIOUS
<1>1. CASE UNCHANGED ledger_vars
  BY <1>1 DEF ledger_vars, Covered
<1>2. CASE Next /\ CreatesTruly
  <2>1. PICK tx : \E stale \in Stale : Publish(tx, stale)
    BY <1>2, NextPublishes
  <2>2. PICK stale \in Stale : Publish(tx, stale)
    BY <2>1
  <2>3. stale \in Nat
    BY DEF Stale
  <2> QED
    BY <1>2, <2>2, <2>3, PublishCovered DEF TInv
<1> QED
  BY <1>1, <1>2

\* Cells and pools under a lock, as the properties of the ledger name them.
LEMMA UnderLock ==
    ASSUME NEW lock, lock.code = "udtswap_lock", NEW k \in 1 .. 2
    PROVE  /\ HoldersOf(lock, k) = HoldersIn(DOMAIN live, lock, k)
           /\ HoldersOf(lock, k)' = HoldersIn(DOMAIN live', lock, k)
           /\ PoolsUnder(lock) = PoolsIn(DOMAIN live, lock)
           /\ PoolsUnder(lock)' = PoolsIn(DOMAIN live', lock)
BY DEF HoldersOf, HoldersIn, PairCells, PoolsUnder, PoolsIn, LivePools, LiveCells, BagToSet

\* As many cells as records of every amount is a cell for every pool.
LEMMA CoveredIsSpendable == LInv /\ TInv /\ DInv /\ HInv /\ Covered => EveryPoolSpendable
<1> SUFFICES ASSUME LInv, TInv, DInv, HInv, Covered, NEW p \in LivePools, NEW k \in 1 .. 2
             PROVE  CountLive({q \in PoolsUnder(p.lock) : q.data[k] = p.data[k]})
                      <= CountLive({c \in HoldersOf(p.lock, k) :
                                      AmountIn(c, Token(p.lock, k)) = p.data[k]})
  BY Zenon DEF EveryPoolSpendable
<1> DEFINE lock == p.lock
           a == p.data[k]
           S == PoolsIn(DOMAIN live, lock)
           H == HoldersIn(DOMAIN live, lock, k)
           s == [q \in S |-> q.data[k]]
           h == [c \in H |-> AmountIn(c, Token(lock, k))]
<1>1. lock.code = "udtswap_lock" /\ IsABag(live)
  BY DEF TInv, LInv
<1>2. HoldersOf(lock, k) = H /\ PoolsUnder(lock) = S
  BY <1>1, UnderLock
<1>3. a \in Nat
  BY DEF DInv
<1>4. S \in SUBSET DOMAIN live /\ H \in SUBSET DOMAIN live
  BY DEF PoolsIn, HoldersIn
<1>5. s \in [S -> Nat]
  <2> SUFFICES ASSUME NEW q \in S PROVE q.data[k] \in Nat
    OBVIOUS
  <2>1. q \in LivePools
    BY DEF PoolsIn, LivePools, LiveCells, BagToSet
  <2> QED
    BY <2>1 DEF DInv
<1>6. h \in [H -> Nat]
  <2> SUFFICES ASSUME NEW c \in H PROVE AmountIn(c, Token(lock, k)) \in Nat
    OBVIOUS
  <2>1. c \in PairCells /\ HoldsToken(c, Token(lock, k))
    BY <1>2 DEF HoldersOf
  <2> QED
    BY <2>1 DEF HInv
<1>7. TotalOver([q \in {r \in S : s[r] = a} |-> live[q] * 1])
        = TotalOver([q \in S |-> live[q] * Measure(Is(a), s[q])])
  <2> HIDE DEF S, s, a
  <2> QED
    BY <1>1, <1>3, <1>4, <1>5, CountIs
<1>8. TotalOver([c \in {d \in H : h[d] = a} |-> live[c] * 1])
        = TotalOver([c \in H |-> live[c] * Measure(Is(a), h[c])])
  <2> HIDE DEF H, h, a
  <2> QED
    BY <1>1, <1>3, <1>4, <1>6, CountIs
<1>9. CountLive({q \in PoolsUnder(lock) : q.data[k] = a}) = OwedBy(live, lock, k, Is(a))
  <2>1. {r \in S : s[r] = a} = {q \in PoolsUnder(lock) : q.data[k] = a}
    BY <1>2
  <2>2. [q \in S |-> live[q] * Measure(Is(a), s[q])]
          = [q \in S |-> live[q] * Measure(Is(a), q.data[k])]
    OBVIOUS
  <2> QED
    BY <1>7, <2>1, <2>2 DEF CountLive, SumLive, OwedBy
<1>10. CountLive({c \in HoldersOf(lock, k) : AmountIn(c, Token(lock, k)) = a})
         = HeldOf(live, lock, k, Is(a))
  <2>1. {d \in H : h[d] = a} = {c \in HoldersOf(lock, k) : AmountIn(c, Token(lock, k)) = a}
    BY <1>2
  <2>2. [c \in H |-> live[c] * Measure(Is(a), h[c])]
          = [c \in H |-> live[c] * Measure(Is(a), AmountIn(c, Token(lock, k)))]
    OBVIOUS
  <2> QED
    BY <1>8, <2>1, <2>2 DEF CountLive, SumLive, HeldOf
<1>11. OwedBy(live, lock, k, Is(a)) <= HeldOf(live, lock, k, Is(a))
  BY <1>1, <1>3, Zenon DEF Covered
<1> QED
  BY <1>9, <1>10, <1>11

\* Along every behaviour pools have three numbers and lock cells an amount.
LEMMA AmountInvariance == Spec => [](DInv /\ HInv)
<1>1. LInv /\ DInv /\ HInv /\ [Next]_ledger_vars => (DInv /\ HInv)'
  BY NextDInv, NextHInv
<1> QED
  BY InitDInv, InitCovered, TokenInvariance, <1>1, PTL DEF Spec

\* While no pool is created where an amount of a UDT looks like the default in
\* its lower half, every pool has the cells that its next transaction consumes.
THEOREM PoolsStaySpendable ==
    Spec /\ [][CreatesTruly]_ledger_vars => []EveryPoolSpendable
<1>1. LInv /\ TInv /\ Covered /\ [CreatesTruly]_ledger_vars /\ [Next]_ledger_vars => Covered'
  BY NextCovered
<1>2. LInv /\ TInv /\ DInv /\ HInv /\ Covered => EveryPoolSpendable
  BY CoveredIsSpendable
<1>3. Spec /\ [][CreatesTruly]_ledger_vars => []Covered
  BY InitCovered, TokenInvariance, <1>1, PTL DEF Spec
<1> QED
  BY <1>2, <1>3, TokenInvariance, AmountInvariance, PTL

-----------------------------------------------------------------------------
\* Amounts measured as they are are summed.
LEMMA SumsMeasured ==
    ASSUME NEW B, NEW lock, NEW k \in 1 .. 2
    PROVE  /\ (\A c \in HoldersIn(DOMAIN B, lock, k) : AmountIn(c, Token(lock, k)) \in Nat)
                => HeldOf(B, lock, k, AmountItself)
                     = TotalOver([c \in HoldersIn(DOMAIN B, lock, k)
                                    |-> B[c] * AmountIn(c, Token(lock, k))])
           /\ (\A p \in PoolsIn(DOMAIN B, lock) : p.data[k] \in Nat)
                => OwedBy(B, lock, k, AmountItself)
                     = TotalOver([p \in PoolsIn(DOMAIN B, lock) |-> B[p] * p.data[k]])
<1>1. \A n \in Nat : Measure(AmountItself, n) = n
  BY DEF Measure, AmountItself
<1> DEFINE H == HoldersIn(DOMAIN B, lock, k)
           S == PoolsIn(DOMAIN B, lock)
<1>2. ASSUME \A c \in H : AmountIn(c, Token(lock, k)) \in Nat
      PROVE  HeldOf(B, lock, k, AmountItself)
               = TotalOver([c \in H |-> B[c] * AmountIn(c, Token(lock, k))])
  <2>1. [c \in H |-> B[c] * Measure(AmountItself, AmountIn(c, Token(lock, k)))]
          = [c \in H |-> B[c] * AmountIn(c, Token(lock, k))]
    <3> HIDE DEF H
    <3> QED
      BY <1>1, <1>2
  <2> QED
    BY <2>1 DEF HeldOf
<1>3. ASSUME \A p \in S : p.data[k] \in Nat
      PROVE  OwedBy(B, lock, k, AmountItself) = TotalOver([p \in S |-> B[p] * p.data[k]])
  <2>1. [p \in S |-> B[p] * Measure(AmountItself, p.data[k])]
          = [p \in S |-> B[p] * p.data[k]]
    <3> HIDE DEF S
    <3> QED
      BY <1>1, <1>3
  <2> QED
    BY <2>1 DEF OwedBy
<1> QED
  BY <1>2, <1>3

\* The surplus under a lock is what lies there less what is recorded.
LEMMA SurplusIs ==
    ASSUME DInv, HInv, NEW lock, lock.code = "udtswap_lock", NEW k \in 1 .. 2
    PROVE  Surplus(lock, k)
             = HeldOf(live, lock, k, AmountItself) - OwedBy(live, lock, k, AmountItself)
<1>1. \A c \in HoldersOf(lock, k) : AmountIn(c, Token(lock, k)) \in Nat
  BY DEF HInv, HoldersOf
<1>2. \A p \in PoolsUnder(lock) : p.data[k] \in Nat
  BY DEF DInv, PoolsUnder
<1>3. /\ HoldersOf(lock, k) = HoldersIn(DOMAIN live, lock, k)
      /\ PoolsUnder(lock) = PoolsIn(DOMAIN live, lock)
  BY UnderLock
<1>4. HeldOf(live, lock, k, AmountItself)
        = TotalOver([c \in HoldersOf(lock, k) |-> live[c] * AmountIn(c, Token(lock, k))])
  <2>1. \A c \in HoldersIn(DOMAIN live, lock, k) : AmountIn(c, Token(lock, k)) \in Nat
    BY <1>1, <1>3
  <2>2. HeldOf(live, lock, k, AmountItself)
          = TotalOver([c \in HoldersIn(DOMAIN live, lock, k)
                         |-> live[c] * AmountIn(c, Token(lock, k))])
    BY <2>1, SumsMeasured, Zenon
  <2> QED
    BY <1>3, <2>2
<1>5. OwedBy(live, lock, k, AmountItself)
        = TotalOver([p \in PoolsUnder(lock) |-> live[p] * p.data[k]])
  BY <1>2, <1>3, SumsMeasured
<1>6. Surplus(lock, k)
        = TotalOver([c \in HoldersOf(lock, k) |-> live[c] * AmountIn(c, Token(lock, k))])
            - TotalOver([p \in PoolsUnder(lock) |-> live[p] * p.data[k]])
  BY Zenon DEF Surplus, SumLive
<1> QED
  BY <1>4, <1>5, <1>6

\* It is, behind a step too.
LEMMA SurplusIsNext ==
    ASSUME DInv', HInv', NEW lock, lock.code = "udtswap_lock", NEW k \in 1 .. 2
    PROVE  Surplus(lock, k)'
             = HeldOf(live', lock, k, AmountItself) - OwedBy(live', lock, k, AmountItself)
<1>1. \A c \in HoldersOf(lock, k)' : AmountIn(c, Token(lock, k)) \in Nat
  BY DEF HInv, HoldersOf
<1>2. \A p \in PoolsUnder(lock)' : p.data[k] \in Nat
  BY DEF DInv, PoolsUnder
<1>3. /\ HoldersOf(lock, k)' = HoldersIn(DOMAIN live', lock, k)
      /\ PoolsUnder(lock)' = PoolsIn(DOMAIN live', lock)
  BY UnderLock
<1>4. HeldOf(live', lock, k, AmountItself)
        = TotalOver([c \in HoldersOf(lock, k)' |-> live'[c] * AmountIn(c, Token(lock, k))])
  <2>1. \A c \in HoldersIn(DOMAIN live', lock, k) : AmountIn(c, Token(lock, k)) \in Nat
    BY <1>1, <1>3
  <2>2. HeldOf(live', lock, k, AmountItself)
          = TotalOver([c \in HoldersIn(DOMAIN live', lock, k)
                         |-> live'[c] * AmountIn(c, Token(lock, k))])
    BY <2>1, SumsMeasured, Zenon
  <2> QED
    BY <1>3, <2>2
<1>5. OwedBy(live', lock, k, AmountItself)
        = TotalOver([p \in PoolsUnder(lock)' |-> live'[p] * p.data[k]])
  BY <1>2, <1>3, SumsMeasured
<1>6. Surplus(lock, k)'
        = TotalOver([c \in HoldersOf(lock, k)' |-> live'[c] * AmountIn(c, Token(lock, k))])
            - TotalOver([p \in PoolsUnder(lock)' |-> live'[p] * p.data[k]])
  BY Zenon DEF Surplus, SumLive
<1> QED
  BY <1>4, <1>5, <1>6

\* What a new pool records is at most what lies behind it, whatever is read for
\* the upper half of an amount: a default is less than one upper half.
LEMMA ReadsNoMore ==
    ASSUME UDT_RESERVE_DEFAULT < U64,
           NEW tx, NEW stale \in Nat, Publish(tx, stale),
           NEW lock, lock.code = "udtswap_lock", Opens(tx, stale, lock),
           NEW k \in 1 .. 2
    PROVE  ReadExactly(tx, lock, k, AmountItself)
<1> DEFINE D == tx.outputs[1].data[k]
           c == tx.outputs[1 + k]
           A == AmountIn(c, Token(lock, k))
<1>1. create_udtswap_check(tx, tx.outputs[1].type, stale) /\ tx.outputs[1].lock = lock
  BY DEF Opens
<1>2. 1 + k \in DOMAIN tx.outputs /\ HoldsToken(c, Token(lock, k))
  BY <1>1, NewPoolReads
<1>3. A \in Nat
  BY <1>2, HolderAmounts
<1>4. D = A \/ (D = UDT_RESERVE_DEFAULT /\ D = (A % U64) + stale * U64)
  <2>1. CASE k = 1
    BY <1>1, <2>1, NewPoolReads
  <2>2. CASE k = 2
    <3>1. tx.outputs[1 + k] = tx.outputs[3]
      BY <2>2
    <3> QED
      BY <1>1, <2>2, <3>1, NewPoolReads
  <2> QED
    BY <2>1, <2>2
<1> HIDE DEF A, D
<1>5. D \in Nat /\ D <= A
  <2>1. CASE D = A
    BY <1>3, <2>1
  <2>2. CASE D = UDT_RESERVE_DEFAULT /\ D = (A % U64) + stale * U64
    <3>1. U64 \in Nat \ {0} /\ UDT_RESERVE_DEFAULT \in Nat
      BY TypeScriptAssumption
    <3>2. A % U64 \in Nat /\ A % U64 <= A
      <4>1. \A m \in Nat \ {0} : \A n \in Nat : n % m \in Nat /\ n % m <= n
        <5> SUFFICES ASSUME NEW m \in Nat \ {0}, NEW n \in Nat
                     PROVE  n % m \in Nat /\ n % m <= n
          OBVIOUS
        <5>1. (n % m) \in 0 .. m - 1 /\ n = m * (n \div m) + (n % m) /\ (n \div m) \in Nat
          OBVIOUS
        <5>2. m * (n \div m) \in Nat
          BY <5>1
        <5> QED
          BY <5>1, <5>2
      <4> QED
        BY <1>3, <3>1, <4>1
    <3>3. stale = 0
      <4>1. stale # 0 => stale * U64 >= U64
        <5> SUFFICES ASSUME stale # 0 PROVE stale * U64 >= U64
          OBVIOUS
        <5>1. stale * U64 = (stale - 1) * U64 + U64 /\ (stale - 1) * U64 \in Nat
          BY <3>1
        <5> QED
          BY <3>1, <5>1
      <4>2. stale * U64 \in Nat
        BY <3>1
      <4> QED
        BY <2>2, <3>1, <3>2, <4>1, <4>2
    <3>4. stale * U64 = 0
      BY <3>1, <3>3
    <3> QED
      BY <2>2, <3>1, <3>2, <3>4
  <2> QED
    BY <1>4, <2>1, <2>2
<1>6. Measure(AmountItself, D) = D /\ Measure(AmountItself, A) = A
  BY <1>3, <1>5 DEF Measure, AmountItself
<1> QED
  BY <1>5, <1>6 DEF ReadExactly, A, D

\* A transaction takes nothing from under a lock that the numbers of a pool do
\* not account for.
LEMMA PublishKeepsSurplus ==
    ASSUME UDT_RESERVE_DEFAULT < U64,
           LInv, TInv, DInv, HInv, NEW tx, NEW stale \in Nat, Publish(tx, stale),
           NEW lock, lock.code = "udtswap_lock", NEW k \in 1 .. 2
    PROVE  Surplus(lock, k)' >= Surplus(lock, k)
<1> DEFINE g == AmountItself
<1>1. g \in Measures
  BY DEF AmountItself, Measures
<1>2. Opens(tx, stale, lock) => ReadExactly(tx, lock, k, g)
  BY ReadsNoMore
<1> HIDE DEF g
<1>3. /\ HeldOf(live, lock, k, g) \in Nat /\ HeldOf(live', lock, k, g) \in Nat
      /\ OwedBy(live, lock, k, g) \in Nat /\ OwedBy(live', lock, k, g) \in Nat
      /\ HeldOf(live, lock, k, g) + OwedBy(live', lock, k, g)
           <= HeldOf(live', lock, k, g) + OwedBy(live, lock, k, g)
  BY <1>1, <1>2, PublishCovers DEF TInv
<1>4. DInv' /\ HInv'
  BY PublishDInv, PublishHInv
<1>5. /\ Surplus(lock, k) = HeldOf(live, lock, k, g) - OwedBy(live, lock, k, g)
      /\ Surplus(lock, k)' = HeldOf(live', lock, k, g) - OwedBy(live', lock, k, g)
  BY <1>4, SurplusIs, SurplusIsNext DEF g
<1> QED
  BY <1>3, <1>5

\* Tokens under a pair lock that belong to no pool stay there, also where a new
\* pool misreads an amount.
THEOREM SurplusIsSafe ==
    ASSUME UDT_RESERVE_DEFAULT < U64
    PROVE  Spec => SurplusStays
<1> DEFINE Step == \A lock \in PairLocks, k \in 1 .. 2 : Surplus(lock, k)' >= Surplus(lock, k)
<1>1. LInv /\ TInv /\ DInv /\ HInv /\ [Next]_ledger_vars => [Step]_ledger_vars
  <2> SUFFICES ASSUME LInv, TInv, DInv, HInv, Next PROVE Step
    OBVIOUS
  <2>1. PICK tx : \E stale \in Stale : Publish(tx, stale)
    BY NextPublishes
  <2>2. PICK stale \in Stale : Publish(tx, stale)
    BY <2>1
  <2>3. stale \in Nat
    BY DEF Stale
  <2>4. \A lock \in PairLocks : lock.code = "udtswap_lock"
    BY DEF PairLocks, PairLock, Script
  <2> QED
    BY <2>2, <2>3, <2>4, PublishKeepsSurplus
<1> QED
  BY <1>1, TokenInvariance, AmountInvariance, PTL DEF Spec, SurplusStays

=============================================================================
