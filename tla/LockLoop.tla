------------------------------- MODULE LockLoop -------------------------------
(***************************************************************************)
(* main() of the lock script, UDTswap_lock_udt_based.c, step by step: a    *)
(* first loop counts the cells of the group by threes, a second one looks  *)
(* for as many pools at inputs 0, 3, 6, ...  Module LockScript has what    *)
(* the two loops come to.                                                  *)
(***************************************************************************)
EXTENDS LockScript, SequencesExt

CONSTANTS
    Lock,         \* the lock script that runs
    InputCells,   \* the cells a transaction can consume
    MaxInputs     \* bound: the inputs of a transaction

ASSUME LockLoopAssumption == MaxInputs \in Nat

VARIABLES
    inputs,      \* the transaction
    pc,          \* where main() is
    i,           \* its locals
    group_cnt,
    exit         \* what main() returned

vars == <<inputs, pc, i, group_cnt, exit>>

tx == [inputs |-> inputs]

-----------------------------------------------------------------------------
\* The return codes (udtswap_common.h).
CKB_SUCCESS == 0
INDEX_OUT_OF_BOUND_ERROR == 1
SCRIPT_NOT_MATCH_ERROR == -79
NOT_ENOUGH_GROUP_CELL_ERROR == -95
CANNOT_UNLOCK_ERROR == -105
UDTSWAP_SYSCALL_ERROR == -109
UDTSWAP_LOCK_ERROR_IDX == 100

\* What check_udtswap_type() returns.  The code of a failed syscall goes into
\* a code of the script's own.  (The sizes it compares are part of what makes a
\* script a pool's.)
check_udtswap_type_code(index) ==
    CASE check_udtswap_type(tx, index, Lock) -> CKB_SUCCESS
      [] ~HasInput(tx, index) ->
           UDTSWAP_SYSCALL_ERROR - UDTSWAP_LOCK_ERROR_IDX - INDEX_OUT_OF_BOUND_ERROR
      [] OTHER -> SCRIPT_NOT_MATCH_ERROR - UDTSWAP_LOCK_ERROR_IDX

\* CKB_SOURCE_GROUP_INPUT: the inputs that have this lock.
InGroup(index) == index < Cardinality(OfLock(inputs, Lock))

-----------------------------------------------------------------------------
\* A script runs because an input has it as its lock.
Init == /\ inputs \in {s \in BoundedSeq(InputCells, MaxInputs) :
                          OfLock(s, Lock) # {}}
        /\ pc = "count"
        /\ i = 3
        /\ group_cnt = 1
        /\ exit = CKB_SUCCESS

Return(code) == /\ pc' = "done"
                /\ exit' = code
                /\ UNCHANGED <<inputs, i, group_cnt>>

\* The group has a fourth cell, or it has not.
Count == /\ pc = "count"
         /\ IF InGroup(3) THEN i' = 6 /\ pc' = "count_more"
                          ELSE pc' = "last" /\ UNCHANGED i
         /\ UNCHANGED <<inputs, group_cnt, exit>>

CountMore == /\ pc = "count_more"
             /\ InGroup(i)
             /\ i' = i + 3
             /\ UNCHANGED <<inputs, pc, group_cnt, exit>>

\* Mutations: the last three cells are not counted; one pool is enough.
Counted_one_less == /\ pc = "count_more" /\ ~InGroup(i)
                    /\ group_cnt' = i \div 3 - 1
                    /\ pc' = "last"
                    /\ UNCHANGED <<inputs, i, exit>>

Counted_once == /\ pc = "count_more" /\ ~InGroup(i)
                /\ group_cnt' = 1
                /\ pc' = "last"
                /\ UNCHANGED <<inputs, i, exit>>

\* The last three of the group have been counted.
Counted == /\ pc = "count_more"
           /\ ~InGroup(i)
           /\ group_cnt' = i \div 3
           /\ pc' = "last"
           /\ UNCHANGED <<inputs, i, exit>>

\* The last cell of the last three is there.
CheckLast == /\ pc = "last" /\ InGroup(i - 1)
             /\ pc' = "search" /\ i' = 0
             /\ UNCHANGED <<inputs, group_cnt, exit>>

NotEnough == /\ pc = "last" /\ ~InGroup(i - 1)
             /\ Return(NOT_ENOUGH_GROUP_CELL_ERROR - UDTSWAP_LOCK_ERROR_IDX)

\* Mutation: a miss skips two triples.
Search_skipping ==
    LET found == IF check_udtswap_type_code(i) = CKB_SUCCESS
                   THEN group_cnt - 1 ELSE group_cnt
    IN  /\ pc = "search"
        /\ IF found = 0 THEN Return(CKB_SUCCESS)
           ELSE /\ group_cnt' = found
                /\ i' = IF ~HasInput(tx, i) THEN i
                        ELSE IF found = group_cnt THEN i + 6 ELSE i + 3
                /\ UNCHANGED <<inputs, pc, exit>>

\* A step of the second loop.  Behind the last input i is kept as it is: the
\* machine that runs scripts stops one that runs long before i wraps.
Search ==
    LET ret == check_udtswap_type_code(i)
        found == IF ret = CKB_SUCCESS THEN group_cnt - 1 ELSE group_cnt
    IN  /\ pc = "search"
        /\ IF found = 0 THEN Return(CKB_SUCCESS)
           ELSE IF ret = INDEX_OUT_OF_BOUND_ERROR THEN Return(CANNOT_UNLOCK_ERROR)
           ELSE /\ group_cnt' = found
                /\ i' = IF HasInput(tx, i) THEN i + 3 ELSE i
                /\ UNCHANGED <<inputs, pc, exit>>

Next == Count \/ CountMore \/ Counted \/ CheckLast \/ NotEnough \/ Search

\* A script runs until it returns.
Spec == Init /\ [][Next]_vars /\ WF_vars(Next)

-----------------------------------------------------------------------------
\* main() returns success only where lock_main does: counting by threes and
\* looking at every third input comes to the same.
ReturnsVerdict == pc = "done" => (exit = CKB_SUCCESS <=> lock_main(tx, Lock))

\* An input under the lock is spent only as one of the three cells of a pool
\* of this lock, whatever stands around it ("only 3n (same pair, different
\* pools) input with current lock checked").
SpentWithPool ==
    pc = "done" /\ exit = CKB_SUCCESS =>
      \A k \in DOMAIN inputs :
         inputs[k].lock = Lock =>
           \E j \in 0 .. 2 : (k - 1 - j) % 3 = 0 /\ check_udtswap_type(tx, k - 1 - j, Lock)

\* A transaction that may spend the cells is not kept from doing so: main()
\* finds the pools.
EventuallyUnlocks == lock_main(tx, Lock) ~> (pc = "done" /\ exit = CKB_SUCCESS)

\* main() returns, with CANNOT_UNLOCK_ERROR if it does not find the pools: the
\* lines behind the loop.
EventuallyReturns == <>(pc = "done")

=============================================================================
