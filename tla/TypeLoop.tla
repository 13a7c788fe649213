------------------------------- MODULE TypeLoop -------------------------------
(***************************************************************************)
(* main() of the type script, UDTswap_udt_based.c, behind the attempt to   *)
(* create a pool: the loop over the triples of the transaction, one triple *)
(* a step.  Every pool of a transaction runs it, each from the start.      *)
(* Module TypeScript has what it comes to (update_udtswap_check).          *)
(***************************************************************************)
EXTENDS TypeScript

CONSTANTS
    Current,        \* the pool whose script runs
    Transactions    \* bound: the transactions it runs for

ASSUME TypeLoopAssumption ==
    /\ Current.code = "udtswap"
    /\ \A t \in Transactions : IsTransaction(t, 0 .. U128 - 1)

VARIABLES
    tx,
    pc,            \* where main() is
    i,             \* its locals
    is_success,
    exit           \* what main() returned: 0 is CKB_SUCCESS

vars == <<tx, pc, i, is_success, exit>>

CKB_SUCCESS == 0
Error == -1        \* any of the error codes

-----------------------------------------------------------------------------
\* udtswap_default_check(): the whole triple is right and is of this pool,
\* or of another one, or is not right.
OfThisPool == pool_triple(tx, i) /\ Input(tx, i).type = Current
OnlyTypeScriptDiffers == pool_triple(tx, i) /\ Input(tx, i).type # Current

LiquidityKept == Input(tx, i).data[3] = Output(tx, i).data[3]

-----------------------------------------------------------------------------
Init == /\ tx \in Transactions
        /\ pc = "group"
        /\ i = 0
        /\ is_success = FALSE
        /\ exit = CKB_SUCCESS

Return(code) == /\ pc' = "done"
                /\ exit' = code
                /\ UNCHANGED <<tx, i, is_success>>

\* The pool has one cell in the inputs and one in the outputs.
CheckGroup ==
    /\ pc = "group"
    /\ IF /\ Cardinality(OfType(tx.inputs, Current)) = 1
          /\ Cardinality(OfType(tx.outputs, Current)) = 1
         THEN pc' = "loop" /\ UNCHANGED <<tx, i, is_success, exit>>
         ELSE Return(Error)

\* Mutation: the index does not move.
SkipOther_not == /\ pc = "loop" /\ OnlyTypeScriptDiffers
                 /\ UNCHANGED vars

\* The triple is a pool, but another one.
SkipOther == /\ pc = "loop"
             /\ OnlyTypeScriptDiffers
             /\ i' = i + 3
             /\ UNCHANGED <<tx, pc, is_success, exit>>

\* The first triple that is not right ends the loop.
LeaveLoop == /\ pc = "loop"
             /\ ~pool_triple(tx, i)
             /\ IF is_success THEN pc' = "fee" /\ UNCHANGED <<tx, i, is_success, exit>>
                              ELSE Return(Error)

CheckSwap == /\ pc = "loop"
             /\ OfThisPool /\ LiquidityKept
             /\ IF swapped(tx, i)
                  THEN /\ is_success' = TRUE
                       /\ i' = i + 3
                       /\ UNCHANGED <<tx, pc, exit>>
                  ELSE Return(Error)

\* Only the first pool may add or remove liquidity, and then the loop ends.
CheckLiquidity ==
    /\ pc = "loop"
    /\ OfThisPool /\ ~LiquidityKept
    /\ IF /\ i = 0
          /\ \/ added(tx, i) /\ minted_to(tx)
             \/ removed(tx, i) /\ burned_from(tx)
         THEN /\ i' = i + 3
              /\ pc' = "fee"
              /\ UNCHANGED <<tx, is_success, exit>>
         ELSE Return(Error)

\* Mutations: the fee is not counted; it is not looked for.
CheckFee_of_one == /\ pc = "fee"
                   /\ Return(IF check_fee(tx, i, 1) THEN CKB_SUCCESS ELSE Error)

CheckFee_not == pc = "fee" /\ Return(CKB_SUCCESS)

CheckFee == /\ pc = "fee"
            /\ Return(IF check_fee(tx, i, i \div 3) THEN CKB_SUCCESS ELSE Error)

Next == \/ CheckGroup
        \/ SkipOther
        \/ LeaveLoop
        \/ CheckSwap
        \/ CheckLiquidity
        \/ CheckFee

\* A script runs until it returns.
Spec == Init /\ [][Next]_vars /\ WF_vars(Next)

-----------------------------------------------------------------------------
\* What the flags, the two ways out of the loop and the index come to is
\* update_udtswap_check.
ReturnsVerdict == pc = "done" => (exit = CKB_SUCCESS <=> update_udtswap_check(tx, Current))

\* The fee is counted from all pools that the loop has passed: a script that
\* succeeds has seen its own pool and has been paid for every pool up to the
\* fee cell ("udtswap group should be 1 input and 1 output", "fee checked").
FeeBehindLastPool ==
    pc = "done" /\ exit = CKB_SUCCESS =>
      /\ \A k \in 0 .. i - 1 :
            Input(tx, k).type.code = "udtswap" <=> k % 3 = 0
      /\ HasOutput(tx, i) /\ Output(tx, i).capacity = STATE_USE_FEE * (i \div 3)
      /\ \E k \in 0 .. i - 1 : Input(tx, k).type = Current

\* main() returns for every transaction, unlike main() of the lock script.
EventuallyReturns == <>(pc = "done")

=============================================================================
