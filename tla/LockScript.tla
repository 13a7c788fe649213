----------------------------- MODULE LockScript -----------------------------
(***************************************************************************)
(* The lock script of pools, UDTswap_lock_udt_based.c.  It does not look   *)
(* at signatures: cells under a pair lock may be spent in triples, each    *)
(* behind a pool cell.                                                     *)
(***************************************************************************)
EXTENDS Cells

\* check_udtswap_type(): input i is a pool cell, and it and the two inputs
\* behind it have the lock that is being checked.
check_udtswap_type(tx, i, lock) ==
    /\ HasInput(tx, i)
    /\ Input(tx, i).type.code = "udtswap"
    /\ \A k \in 0 .. 2 : HasInput(tx, i + k) /\ Input(tx, i + k).lock = lock

\* Mutation: a group that is not a multiple of three passes.
lock_main_any_count(tx, lock) ==
    LET group == Cardinality(OfLock(tx.inputs, lock))
        triples == {k \in 0 .. Len(tx.inputs) \div 3 :
                       check_udtswap_type(tx, 3 * k, lock)}
    IN  group >= 3 /\ Cardinality(triples) >= group \div 3

\* main(): the inputs under the lock are 3n, and n of the triples that start
\* at input 0, 3, 6, ... are pools under the lock.  The loop of main() ends
\* only when it has found n (module LockLoop), so it accepts exactly then.
lock_main(tx, lock) ==
    LET group == Cardinality(OfLock(tx.inputs, lock))
        triples == {k \in 0 .. Len(tx.inputs) \div 3 :
                       check_udtswap_type(tx, 3 * k, lock)}
    IN  /\ group > 0
        /\ group % 3 = 0
        /\ Cardinality(triples) >= group \div 3

=============================================================================
