--------------------------- MODULE LockLoopProofs ---------------------------
(***************************************************************************)
(* main() of the lock script comes to lock_main, and what it unlocks is    *)
(* spent as part of a pool, for every number of inputs.                    *)
(***************************************************************************)
EXTENDS LockLoop, CellFacts

Group == Cardinality(OfLock(inputs, Lock))

\* The pools among the first triples of the inputs, as many as start before i.
Triples == {k \in 0 .. Len(inputs) \div 3 : check_udtswap_type(tx, 3 * k, Lock)}
Found == {k \in Triples : 3 * k < i}

IInv ==
    /\ inputs \in Seq(InputCells)
    /\ pc \in {"count", "count_more", "last", "search", "done"}
    /\ i \in Nat /\ i % 3 = 0
    /\ group_cnt \in Nat
    /\ pc = "count" => i = 3 /\ group_cnt = 1 /\ Group > 0
    /\ pc = "count_more" => i >= 6 /\ i - 3 < Group
    /\ pc = "last" => i >= 3 /\ group_cnt = i \div 3 /\ i - 3 < Group /\ Group <= i
    /\ pc = "search" => /\ group_cnt > 0 /\ Group % 3 = 0
                        /\ group_cnt = Group \div 3 - Cardinality(Found)
    /\ pc = "done" => \/ /\ exit = CKB_SUCCESS
                         /\ Group > 0 /\ Group % 3 = 0
                         /\ Cardinality(Triples) >= Group \div 3
                      \/ exit # CKB_SUCCESS /\ Group % 3 # 0

-----------------------------------------------------------------------------
\* The inputs under a lock can be counted.
LEMMA GroupFinite ==
    ASSUME inputs \in Seq(InputCells)
    PROVE  /\ IsFiniteSet(OfLock(inputs, Lock))
           /\ Group \in Nat
           /\ IsFiniteSet(Triples) /\ IsFiniteSet(Found)
           /\ Cardinality(Found) \in Nat
           /\ Cardinality(Found) <= Cardinality(Triples)
<1>1. Len(inputs) \in Nat /\ DOMAIN inputs = 1 .. Len(inputs) OBVIOUS
<1>2. IsFiniteSet(1 .. Len(inputs)) BY <1>1, FS_Interval
<1>3. OfLock(inputs, Lock) \in SUBSET (1 .. Len(inputs)) BY <1>1 DEF OfLock
<1>4. IsFiniteSet(OfLock(inputs, Lock)) BY <1>2, <1>3, FS_Subset
<1>5. Len(inputs) \div 3 \in Int BY <1>1
<1>6. IsFiniteSet(0 .. Len(inputs) \div 3) BY <1>5, FS_Interval
<1>7. Triples \in SUBSET (0 .. Len(inputs) \div 3) BY DEF Triples
<1>8. IsFiniteSet(Triples) BY <1>6, <1>7, FS_Subset
<1>9. Found \in SUBSET Triples BY DEF Found
<1>10. IsFiniteSet(Found) /\ Cardinality(Found) <= Cardinality(Triples)
  BY <1>8, <1>9, FS_Subset
<1> QED BY <1>4, <1>8, <1>10, FS_CardinalityType DEF Group

\* The loop starts with nothing counted.
LEMMA InitIInv == Init => IInv
<1> SUFFICES ASSUME Init PROVE IInv OBVIOUS
<1>1. inputs \in Seq(InputCells) BY LockLoopAssumption DEF Init, BoundedSeq, SeqOf
<1>2. Group \in Nat BY <1>1, GroupFinite
<1>3. Group # 0
  <2>1. OfLock(inputs, Lock) # {} BY DEF Init
  <2> QED BY <2>1, <1>1, GroupFinite, FS_EmptySet DEF Group
<1> QED BY <1>1, <1>2, <1>3 DEF Init, IInv

\* What check_udtswap_type() returns: success exactly for a pool, and never the
\* code that main() compares with.
LEMMA Codes ==
    ASSUME NEW n
    PROVE  /\ check_udtswap_type_code(n) = CKB_SUCCESS <=> check_udtswap_type(tx, n, Lock)
           /\ check_udtswap_type_code(n) # INDEX_OUT_OF_BOUND_ERROR
<1> USE DEF CKB_SUCCESS, UDTSWAP_SYSCALL_ERROR, UDTSWAP_LOCK_ERROR_IDX,
            INDEX_OUT_OF_BOUND_ERROR, SCRIPT_NOT_MATCH_ERROR
<1>1. CASE check_udtswap_type(tx, n, Lock)
  <2>1. HasInput(tx, n) BY <1>1 DEF check_udtswap_type
  <2>2. check_udtswap_type_code(n) = CKB_SUCCESS
    BY <1>1, <2>1 DEF check_udtswap_type_code
  <2> QED BY <1>1, <2>2
<1>2. CASE ~check_udtswap_type(tx, n, Lock) /\ ~HasInput(tx, n)
  <2>1. check_udtswap_type_code(n) = UDTSWAP_SYSCALL_ERROR - UDTSWAP_LOCK_ERROR_IDX
                                       - INDEX_OUT_OF_BOUND_ERROR
    BY <1>2 DEF check_udtswap_type_code
  <2> QED BY <1>2, <2>1
<1>3. CASE ~check_udtswap_type(tx, n, Lock) /\ HasInput(tx, n)
  <2>1. check_udtswap_type_code(n) = SCRIPT_NOT_MATCH_ERROR - UDTSWAP_LOCK_ERROR_IDX
    BY <1>3 DEF check_udtswap_type_code
  <2> QED BY <1>3, <2>1
<1> QED BY <1>1, <1>2, <1>3

\* What the second loop has behind it when it moves on.
LEMMA FoundNext ==
    ASSUME IInv
    PROVE  LET next == {k \in Triples : 3 * k < i + 3}
               found == check_udtswap_type_code(i) = CKB_SUCCESS
           IN  /\ Cardinality(next) = Cardinality(Found) + IF found THEN 1 ELSE 0
               /\ ~HasInput(tx, i) => ~found
<1> DEFINE next == {k \in Triples : 3 * k < i + 3}
           found == check_udtswap_type_code(i) = CKB_SUCCESS
<1>1. found <=> check_udtswap_type(tx, i, Lock)
  BY Codes
<1>2. ~HasInput(tx, i) => ~found
  BY <1>1 DEF check_udtswap_type
<1>3. PICK k \in Nat : i = 3 * k
  BY DEF IInv
<1>4. next = Found \union {j \in {k} : found}
  <2>1. ASSUME NEW j \in next PROVE j \in Found \union {l \in {k} : found}
    <3>1. j \in Triples /\ j \in Nat /\ 3 * j < i + 3 BY DEF Triples
    <3>2. CASE 3 * j < i BY <3>1, <3>2 DEF Found
    <3>3. CASE ~(3 * j < i)
      <4>1. j = k BY <1>3, <3>1, <3>3
      <4>2. check_udtswap_type(tx, 3 * j, Lock) BY <3>1 DEF Triples
      <4> QED BY <1>1, <1>3, <4>1, <4>2
    <3> QED BY <3>2, <3>3
  <2>2. Found \subseteq next BY DEF Found, Triples, IInv
  <2>3. ASSUME found PROVE k \in next
    <3>1. check_udtswap_type(tx, 3 * k, Lock) BY <1>1, <1>3, <2>3
    <3>2. i < Len(inputs) BY <1>1, <2>3 DEF check_udtswap_type, HasInput, tx
    <3>3. Len(inputs) \in Nat BY DEF IInv
    <3>4. k \in 0 .. Len(inputs) \div 3 BY <1>3, <3>2, <3>3
    <3> QED BY <1>3, <3>1, <3>4 DEF Triples
  <2> QED BY <2>1, <2>2, <2>3
<1>5. k \notin Found BY <1>3 DEF Found
<1>6. IsFiniteSet(Found) /\ Cardinality(Found) \in Nat BY GroupFinite DEF IInv
<1>7. CASE found
  <2>1. next = Found \union {k} BY <1>4, <1>7
  <2>2. Cardinality(next) = Cardinality(Found) + 1 BY <1>5, <1>6, <2>1, FS_AddElement
  <2> HIDE DEF next, found
  <2> QED BY <1>2, <1>7, <2>2 DEF next, found
<1>8. CASE ~found
  <2>1. next = Found BY <1>4, <1>8
  <2> HIDE DEF next, found
  <2> QED BY <1>2, <1>6, <1>8, <2>1 DEF next, found
<1> QED BY <1>7, <1>8

\* Every step of the loop counts what it looks at.
LEMMA NextIInv == IInv /\ [Next]_vars => IInv'
<1> SUFFICES ASSUME IInv, [Next]_vars PROVE IInv' OBVIOUS
<1>0. Group \in Nat /\ inputs \in Seq(InputCells) BY GroupFinite DEF IInv
<1>a. ASSUME UNCHANGED inputs
      PROVE  Group' = Group /\ Triples' = Triples /\ (UNCHANGED i => Found' = Found)
  BY <1>a DEF Group, Triples, Found, tx
<1>1. CASE Count
  <2>1. CASE InGroup(3)
    BY <1>0, <1>1, <1>a, <2>1 DEF Count, IInv, InGroup, Group
  <2>2. CASE ~InGroup(3)
    BY <1>0, <1>1, <1>a, <2>2 DEF Count, IInv, InGroup, Group
  <2> QED BY <2>1, <2>2
<1>2. CASE CountMore
  BY <1>0, <1>2, <1>a DEF CountMore, IInv, InGroup, Group
<1>3. CASE Counted
  BY <1>0, <1>3, <1>a DEF Counted, IInv, InGroup, Group
<1>4. CASE CheckLast
  <2>1. /\ pc' = "search" /\ i' = 0 /\ group_cnt' = group_cnt /\ inputs' = inputs
        /\ i - 1 < Group /\ i - 3 < Group /\ Group <= i /\ i >= 3 /\ i % 3 = 0
        /\ group_cnt = i \div 3 /\ i \in Nat
    BY <1>4 DEF CheckLast, IInv, InGroup, Group
  <2>2. Group = i BY <1>0, <2>1
  <2>3. Found' = {} BY <2>1 DEF Found, Triples
  <2>4. Cardinality(Found') = 0 BY <2>3, FS_EmptySet
  <2>5. group_cnt = Group \div 3 - 0 /\ group_cnt > 0 /\ Group % 3 = 0 /\ group_cnt \in Nat
    BY <2>1, <2>2
  <2> QED BY <1>0, <1>a, <2>1, <2>4, <2>5 DEF IInv
<1>5. CASE NotEnough
  <2>1. /\ pc' = "done" /\ UNCHANGED <<inputs, i, group_cnt>>
        /\ exit' = NOT_ENOUGH_GROUP_CELL_ERROR - UDTSWAP_LOCK_ERROR_IDX
        /\ ~(i - 1 < Group) /\ i - 3 < Group /\ i >= 3 /\ i % 3 = 0 /\ i \in Nat
    BY <1>5 DEF NotEnough, Return, IInv, InGroup, Group
  <2>2. Group % 3 # 0 BY <1>0, <2>1
  <2>3. exit' # CKB_SUCCESS
    BY <2>1 DEF NOT_ENOUGH_GROUP_CELL_ERROR, UDTSWAP_LOCK_ERROR_IDX, CKB_SUCCESS
  <2> QED BY <1>0, <1>a, <2>1, <2>2, <2>3 DEF IInv
<1>6. CASE Search
  <2> DEFINE next == {k \in Triples : 3 * k < i + 3}
             found == check_udtswap_type_code(i) = CKB_SUCCESS
             left == IF found THEN group_cnt - 1 ELSE group_cnt
  <2>1. /\ pc = "search" /\ i \in Nat /\ i % 3 = 0 /\ group_cnt \in Nat
        /\ group_cnt > 0 /\ Group % 3 = 0
        /\ group_cnt = Group \div 3 - Cardinality(Found)
    BY <1>6 DEF Search, IInv
  <2>2. /\ Cardinality(next) = Cardinality(Found) + IF found THEN 1 ELSE 0
        /\ ~HasInput(tx, i) => ~found
    BY FoundNext
  <2>3. Cardinality(Found) \in Nat BY GroupFinite DEF IInv
  <2> HIDE DEF next, found
  <2>4. left \in Nat /\ left = Group \div 3 - Cardinality(next)
    BY <1>0, <2>1, <2>2, <2>3
  <2>5. CASE left = 0
    <3>1. pc' = "done" /\ exit' = CKB_SUCCESS /\ UNCHANGED <<inputs, i, group_cnt>>
      BY <1>6, <2>5 DEF Search, Return, found
    <3>2. Cardinality(Triples) >= Cardinality(next)
      <4>1. next \in SUBSET Triples BY DEF next
      <4>2. IsFiniteSet(Triples) BY GroupFinite DEF IInv
      <4> QED BY <4>1, <4>2, FS_Subset, FS_CardinalityType
    <3>3. Group > 0 /\ Cardinality(Triples) >= Group \div 3
      <4>1. Cardinality(next) \in Nat
        BY <2>2, <2>3
      <4>2. Group \div 3 \in Nat /\ Group \div 3 = Cardinality(next)
        BY <1>0, <2>4, <2>5, <4>1
      <4>3. Group > 0 BY <1>0, <2>1, <2>3
      <4> QED BY <3>2, <4>2, <4>3
    <3> QED BY <1>0, <1>a, <2>1, <3>1, <3>3 DEF IInv
  <2>6. CASE left # 0
    <3>1. /\ group_cnt' = left
          /\ i' = IF HasInput(tx, i) THEN i + 3 ELSE i
          /\ UNCHANGED <<inputs, pc, exit>>
      BY <1>6, <2>6, Codes DEF Search, found
    <3>2. CASE HasInput(tx, i)
      <4>1. i' = i + 3 BY <3>1, <3>2
      <4>2. Found' = next BY <3>1, <4>1, <1>a DEF Found, next
      <4> QED BY <1>0, <1>a, <2>1, <2>4, <2>6, <3>1, <4>1, <4>2 DEF IInv
    <3>3. CASE ~HasInput(tx, i)
      <4>1. i' = i /\ ~found BY <2>2, <3>1, <3>3
      <4>2. left = group_cnt BY <4>1
      <4> QED BY <1>0, <1>a, <2>1, <2>6, <3>1, <4>1, <4>2 DEF IInv
    <3> QED BY <3>2, <3>3
  <2> QED BY <2>5, <2>6
<1>7. CASE UNCHANGED vars
  BY <1>7, <1>a DEF vars, IInv
<1> QED BY <1>1, <1>2, <1>3, <1>4, <1>5, <1>6, <1>7 DEF Next

\* The invariant holds along every run of the loop.
LEMMA Invariance == Spec => []IInv
BY InitIInv, NextIInv, PTL DEF Spec

\* main() returns success exactly where lock_main does.
THEOREM LockVerdict == Spec => []ReturnsVerdict
<1>1. IInv => ReturnsVerdict
  <2> SUFFICES ASSUME IInv, pc = "done"
               PROVE  exit = CKB_SUCCESS <=> lock_main(tx, Lock)
    BY DEF ReturnsVerdict
  <2>1. lock_main(tx, Lock) <=> /\ Group > 0 /\ Group % 3 = 0
                                /\ Cardinality(Triples) >= Group \div 3
    BY DEF lock_main, Group, Triples, tx
  <2> QED BY <2>1 DEF IInv
<1> QED BY <1>1, Invariance, PTL

\* As many pools as there are threes in the group leave no cell of the group
\* over.
LEMMA PoolsFillGroup ==
    ASSUME inputs \in Seq(InputCells), Group % 3 = 0,
           Cardinality(Triples) >= Group \div 3,
           NEW k \in OfLock(inputs, Lock)
    PROVE  \E f \in Triples, j \in 0 .. 2 : k = 3 * f + 1 + j
<1>1. IsFiniteSet(OfLock(inputs, Lock)) /\ IsFiniteSet(Triples)
  BY GroupFinite
<1>2. Triples \in SUBSET Nat BY DEF Triples
<1>3. ASSUME NEW f \in Triples, NEW j \in 0 .. 2
      PROVE  3 * f + 1 + j \in OfLock(inputs, Lock)
  <2>1. f \in Nat BY <1>2
  <2>2. HasInput(tx, 3 * f + j) /\ Input(tx, 3 * f + j).lock = Lock
    BY DEF Triples, check_udtswap_type
  <2>3. 3 * f + j < Len(inputs) /\ inputs[3 * f + j + 1].lock = Lock
    BY <2>2 DEF HasInput, Input, tx
  <2>4. 3 * f + 1 + j = 3 * f + j + 1 /\ 3 * f + 1 + j \in 1 .. Len(inputs)
    BY <2>1, <2>3
  <2> QED BY <2>3, <2>4 DEF OfLock
<1> QED BY <1>1, <1>2, <1>3, TriplesFillGroup DEF Group

\* What main() unlocks is spent as the three cells of pools.
THEOREM LockedCellsGoWithPools == Spec => []SpentWithPool
<1>1. IInv => SpentWithPool
  <2> SUFFICES ASSUME IInv, pc = "done", exit = CKB_SUCCESS,
                      NEW k \in DOMAIN inputs, inputs[k].lock = Lock
               PROVE  \E j \in 0 .. 2 : /\ (k - 1 - j) % 3 = 0
                                       /\ check_udtswap_type(tx, k - 1 - j, Lock)
    BY DEF SpentWithPool
  <2>1. k \in OfLock(inputs, Lock) BY DEF OfLock
  <2>2. PICK f \in Triples, j \in 0 .. 2 : k = 3 * f + 1 + j
    BY <2>1, PoolsFillGroup DEF IInv
  <2>3. f \in Nat /\ check_udtswap_type(tx, 3 * f, Lock) BY DEF Triples
  <2>4. k - 1 - j = 3 * f BY <2>2, <2>3
  <2>5. (k - 1 - j) % 3 = 0 BY <2>3, <2>4
  <2> QED BY <2>3, <2>4, <2>5
<1> QED BY <1>1, Invariance, PTL

=============================================================================
