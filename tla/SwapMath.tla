------------------------------ MODULE SwapMath ------------------------------
(***************************************************************************)
(* The arithmetic of the UDTSwap type script: the three functions that     *)
(* decide whether the amounts of a transaction are right.  Each operator   *)
(* is TRUE exactly when the C function returns CKB_SUCCESS.                *)
(*                                                                         *)
(* The code computes on 1024-bit numbers (bn.h) and its operands have 128  *)
(* bits, so the products below cannot overflow: they are numbers of Nat.   *)
(* Callers have compared the reserves before they call, so no subtraction  *)
(* of reserves wraps.                                                      *)
(***************************************************************************)
EXTENDS Integers

CONSTANTS
    Thousand,    \* the literal 0x3e8 of swap()
    ExceptFee    \* LIQUIDITY_POOL_EXCEPT_FEE: a swap pays Thousand - ExceptFee

\* The fee is positive and is not the whole amount.
ASSUME FeeAssumption == /\ Thousand \in Nat
                        /\ ExceptFee \in Nat
                        /\ 0 < ExceptFee
                        /\ ExceptFee < Thousand

-----------------------------------------------------------------------------
\* Mutation: add_liquidity() without the 1 that rounds the second amount up.
add_liquidity_not_rounded_up(r1, r2, r1_after, r2_after, liquidity, liquidity_after) ==
    /\ r1 # 0
    /\ (r2 * (r1_after - r1)) \div r1 = r2_after - r2
    /\ (liquidity * (r1_after - r1)) \div r1 = liquidity_after - liquidity

\* add_liquidity(): the second amount is the proportional one rounded up, the
\* liquidity minted is the proportional one rounded down.
add_liquidity(r1, r2, r1_after, r2_after, liquidity, liquidity_after) ==
    LET udt1_amount == r1_after - r1
        udt2_amount == r2_after - r2
        user_liquidity == liquidity_after - liquidity
    IN  /\ r1 # 0
        /\ (r2 * udt1_amount) \div r1 + 1 = udt2_amount
        /\ (liquidity * udt1_amount) \div r1 = user_liquidity

\* Mutation: remove_liquidity() with the second amount rounded up.
remove_liquidity_rounded_up(r1, r2, r1_after, r2_after, liquidity, liquidity_after) ==
    /\ liquidity # 0
    /\ ((liquidity - liquidity_after) * r2) \div liquidity + 1 = r2 - r2_after
    /\ ((liquidity - liquidity_after) * r1) \div liquidity = r1 - r1_after

\* remove_liquidity(): both amounts are the proportional ones rounded down.
remove_liquidity(r1, r2, r1_after, r2_after, liquidity, liquidity_after) ==
    LET user_liquidity == liquidity - liquidity_after
    IN  /\ liquidity # 0
        /\ (user_liquidity * r2) \div liquidity = r2 - r2_after
        /\ (user_liquidity * r1) \div liquidity = r1 - r1_after

\* Mutations: swap() without its second formula, with the second formula rounded
\* up, and with the first one rounded down.
swap_by_output_only(ir, or, ir_after, or_after) ==
    /\ or_after > 0
    /\ (ir * Thousand * (or - or_after)) \div (or_after * ExceptFee) + 1 = ir_after - ir

swap_output_rounded_up(ir, or, ir_after, or_after) ==
    LET input == ir_after - ir
    IN  /\ or_after > 0
        /\ (input * ExceptFee * or) \div (ir * Thousand + input * ExceptFee) + 1
             = or - or_after

swap_input_rounded_down(ir, or, ir_after, or_after) ==
    /\ or_after > 0
    /\ (ir * Thousand * (or - or_after)) \div (or_after * ExceptFee) = ir_after - ir

\* swap(): either the input amount is the one the output amount asks for, or
\* the output amount is the one the input amount buys.  SUBTRACT_ERROR and the
\* two DIVIDE_ZERO_ERROR returns are the first, second and fourth conjunct.
swap(ir, or, ir_after, or_after) ==
    LET input == ir_after - ir
        output == or - or_after
        rest == (or - output) * ExceptFee
        paid == ir * Thousand + input * ExceptFee
    IN  /\ or >= output
        /\ rest # 0
        /\ paid # 0
        /\ \/ (ir * Thousand * output) \div rest + 1 = input
           \/ (input * ExceptFee * or) \div paid = output

=============================================================================
