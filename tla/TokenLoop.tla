------------------------------ MODULE TokenLoop ------------------------------
(***************************************************************************)
(* main() of the two token scripts from beginning to end                   *)
(* (UDTswap_liquidity_UDT_udt_based.c and test_udt.c, which differ in the  *)
(* arguments and in what owner mode allows).  It reads its own arguments   *)
(* (module Molecule); then one loop adds up the amounts of the group's     *)
(* inputs, another those of its outputs, in 128 bits.  Module TokenScripts *)
(* has what that comes to, with sums of any size.                          *)
(***************************************************************************)
EXTENDS TokenScripts, Molecule

CONSTANTS
    TX_INPUT_SIZE, \* bytes of the input in the arguments
    Runs           \* bound: the bytes of a token script, a transaction and the script

ASSUME TokenLoopAssumption ==
    /\ TX_INPUT_SIZE \in Nat
    /\ ARGS_START + HASH_SIZE + TX_INPUT_SIZE <= SCRIPT_SIZE
    /\ \A r \in Runs : r.bytes \in Items /\ IsTransaction(r.tx, 0 .. U128 - 1)

VARIABLES
    run,       \* the transaction tx and the script s that runs for it
    i,         \* main()'s locals; pc goes on from "got" with "owner", "inputs",
    amounts,   \* "outputs", "end", and "success" or "error".  The amounts are
    owner_mode \* input_amount and output_amount.

loop_vars == <<run, i, amounts, owner_mode>>

tx == run.tx

\* The side a loop is about, and the cells of the script's group there.
side == IF pc = "inputs" THEN 1 ELSE 2
Group(k) == CellsOfType(<<tx.inputs, tx.outputs>>[k], run.s)

-----------------------------------------------------------------------------
\* The transaction is checked: a script runs because a cell has it.
MainInit == /\ \E r \in Runs : item = r.bytes /\ run = [tx |-> r.tx, s |-> r.s]
            /\ Init
            /\ i = 0
            /\ amounts = <<0, 0>>
            /\ owner_mode = FALSE

\* The arguments are the hash of a lock, and for the liquidity token an input.
ArgsSize == HASH_SIZE + IF run.s.code = "liquidity" THEN TX_INPUT_SIZE ELSE 0

CheckArgs ==
    /\ pc = "got"
    /\ pc' = IF args.size = ArgsSize THEN "owner" ELSE "error"
    /\ UNCHANGED <<item, script, len, offsets, args, loop_vars>>

OwnerLock == IF run.s.code = "liquidity" THEN PairLock(run.s.t1, run.s.t2) ELSE IssuerLock

\* The lock of input 0 against the first of the arguments.
CheckOwner ==
    /\ pc = "owner"
    /\ owner_mode' = (Input(tx, 0).lock = OwnerLock)
    /\ pc' = "inputs"
    /\ UNCHANGED <<run, i, amounts>>

\* Mutations: the sum is not looked at again; i is not set back.
AddAmount_unchecked ==
    /\ pc \in {"inputs", "outputs"} /\ i < Len(Group(side))
    /\ LET cell == Group(side)[i + 1]
           sum == Wrap(amounts[side] + AmountOf(cell))
       IN  IF Len(cell.data) # 1 \/ AmountOf(cell) = 0
             THEN pc' = "error" /\ UNCHANGED <<i, amounts>>
             ELSE /\ amounts' = [amounts EXCEPT ![side] = sum]
                  /\ i' = i + 1
                  /\ pc' = pc
    /\ UNCHANGED <<run, owner_mode>>

EndLoop_keeps_index ==
    /\ pc \in {"inputs", "outputs"} /\ i >= Len(Group(side))
    /\ pc' = IF pc = "inputs" THEN "outputs" ELSE "end"
    /\ UNCHANGED <<run, i, amounts, owner_mode>>

\* The body of either loop.
AddAmount ==
    /\ pc \in {"inputs", "outputs"} /\ i < Len(Group(side))
    /\ LET cell == Group(side)[i + 1]
           sum == Wrap(amounts[side] + AmountOf(cell))
       IN  IF Len(cell.data) # 1 \/ sum < AmountOf(cell) \/ AmountOf(cell) = 0
             THEN pc' = "error" /\ UNCHANGED <<i, amounts>>
             ELSE /\ amounts' = [amounts EXCEPT ![side] = sum]
                  /\ i' = i + 1
                  /\ pc' = pc
    /\ UNCHANGED <<run, owner_mode>>

\* INDEX_OUT_OF_BOUND_ERROR.
EndLoop ==
    /\ pc \in {"inputs", "outputs"} /\ i >= Len(Group(side))
    /\ pc' = IF pc = "inputs" THEN "outputs" ELSE "end"
    /\ i' = 0
    /\ UNCHANGED <<run, amounts, owner_mode>>

\* What main() returns behind the loops.
Accepts ==
    IF owner_mode
      THEN run.s.code = "liquidity" =>
             check_owner_mode_transfer(tx, run.s, amounts[1], amounts[2])
      ELSE amounts[1] = amounts[2]

Return ==
    /\ pc = "end"
    /\ pc' = IF Accepts THEN "success" ELSE "error"
    /\ UNCHANGED <<run, i, amounts, owner_mode>>

MainNext == \/ Next /\ UNCHANGED loop_vars
            \/ CheckArgs
            \/ (CheckOwner \/ AddAmount \/ EndLoop \/ Return)
                 /\ UNCHANGED <<item, script, len, offsets, args>>

MainSpec == MainInit /\ [][MainNext]_<<vars, loop_vars>>

-----------------------------------------------------------------------------
\* main() returns success exactly where its script is one with arguments of the
\* right size and the token's rule holds of the whole sums, however large:
\* looking at the sum at every cell is enough (OVERFLOW_ERROR in both loops).
ReturnsVerdict ==
    pc \in {"success", "error", "ERROR_ENCODING", "too_long"} =>
      (pc = "success" <=>
         /\ IsScript /\ Len(item) = ARGS_START + ArgsSize
         /\ IF run.s.code = "liquidity" THEN liquidity_main(tx, run.s)
                                        ELSE test_udt_main(tx, run.s))

\* Who does not own the token neither makes nor destroys any, in whole
\* numbers, by any choice of cells ("input amount = output amount").
Conserved ==
    pc = "success" /\ ~owner_mode =>
      /\ sum_amounts(Group(1)) = sum_amounts(Group(2))
      /\ \A k \in 1 .. 2 : amounts[k] = sum_amounts(Group(k))

==============================================================================
