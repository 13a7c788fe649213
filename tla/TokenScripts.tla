---------------------------- MODULE TokenScripts ----------------------------
(***************************************************************************)
(* The two token type scripts: the liquidity token of a pool               *)
(* (UDTswap_liquidity_UDT_udt_based.c) and the UDT the tests trade         *)
(* (test_udt.c).  Each runs once for a transaction and one of its type     *)
(* scripts, and is TRUE when main() returns CKB_SUCCESS.                   *)
(***************************************************************************)
EXTENDS Cells, PoolRules

\* The amounts of a script's cells on one side of the transaction: every cell
\* has 16 bytes of data, none is empty, and the running sum never wraps.
AmountOf(cell) == cell.data[1]

sum_amounts(cells) == Total([k \in DOMAIN cells |-> AmountOf(cells[k])])

amounts_ok(cells) ==
    /\ \A i \in DOMAIN cells : Len(cells[i].data) = 1 /\ AmountOf(cells[i]) # 0
    /\ sum_amounts(cells) < U128

-----------------------------------------------------------------------------
\* Mutation: any pool under the lock may mint.
check_owner_mode_transfer_any_pool(tx, s, input_amount, output_amount) ==
    /\ Input(tx, 0).type.code = "udtswap"
    /\ HasOutput(tx, 0) /\ Len(Output(tx, 0).data) = 3
    /\ liquidity_moved(Input(tx, 0).data[3], Output(tx, 0).data[3],
                       input_amount, output_amount)

\* check_owner_mode_transfer(): input 0 is the pool that the token names, and
\* the tokens move by the difference of its total liquidity.
check_owner_mode_transfer(tx, s, input_amount, output_amount) ==
    LET pool == Input(tx, 0)
    IN  /\ pool.type.code = "udtswap"
        /\ pool.type.id = s.id
        /\ Len(pool.data) = 3
        /\ HasOutput(tx, 0) /\ Len(Output(tx, 0).data) = 3
        /\ liquidity_moved(pool.data[3], Output(tx, 0).data[3],
                           input_amount, output_amount)

\* main() of the liquidity token: owner mode is a transaction whose input 0
\* has the lock of the pool; without it as many tokens go out as come in.
liquidity_main(tx, s) ==
    LET inputs == CellsOfType(tx.inputs, s)
        outputs == CellsOfType(tx.outputs, s)
    IN  /\ amounts_ok(inputs)
        /\ amounts_ok(outputs)
        /\ IF Input(tx, 0).lock = PairLock(s.t1, s.t2)
             THEN check_owner_mode_transfer(tx, s, sum_amounts(inputs),
                                            sum_amounts(outputs))
             ELSE sum_amounts(inputs) = sum_amounts(outputs)

-----------------------------------------------------------------------------
\* main() of the tests' UDT: its issuer may create and destroy it.
IssuerLock == Script("issuer", 0, 0, 0)

test_udt_main(tx, s) ==
    LET inputs == CellsOfType(tx.inputs, s)
        outputs == CellsOfType(tx.outputs, s)
    IN  /\ amounts_ok(inputs)
        /\ amounts_ok(outputs)
        /\ \/ Input(tx, 0).lock = IssuerLock
           \/ sum_amounts(inputs) = sum_amounts(outputs)

=============================================================================
