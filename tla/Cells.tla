-------------------------------- MODULE Cells --------------------------------
(***************************************************************************)
(* Transactions as the scripts see them through the syscalls of the CKB    *)
(* virtual machine (ckb_syscalls.h).  A transaction consumes a sequence of *)
(* live cells and creates a sequence of cells; a cell has a lock script, a *)
(* type script or none, a capacity and data.                               *)
(*                                                                         *)
(* A hash of a script is as good as the script: scripts are compared as    *)
(* values.  A script is its code and its arguments.  The arguments the     *)
(* scripts of this system use are two token hashes (the pair of a pool     *)
(* lock) and the serialized first input of the transaction that created a  *)
(* pool (the identity of the pool); a script without one of them has 0     *)
(* there.  Token 0 is CKB, whose "type hash" is 32 zero bytes and thus the *)
(* least of all.                                                           *)
(***************************************************************************)
EXTENDS Integers, Sequences, FiniteSets

Script(code, t1, t2, id) == [code |-> code, t1 |-> t1, t2 |-> t2, id |-> id]

NoScript == Script("none", 0, 0, 0)
UserLock == Script("user", 0, 0, 0)        \* a lock some user can sign for
FeeLock == Script("fee", 0, 0, 0)          \* fee_lock_hash
PairLock(t1, t2) == Script("udtswap_lock", t1, t2, 0)
PoolType(id) == Script("udtswap", 0, 0, id)
UdtType(t) == Script("udt", t, 0, 0)

\* The token of a pool: its type script names the lock that owns it and the pool.
LiquidityType(lock, id) == Script("liquidity", lock.t1, lock.t2, id)

CKB == 0

-----------------------------------------------------------------------------
\* Data is a sequence of 128-bit numbers: three in a pool cell (48 bytes), one
\* in a token cell (16 bytes), none elsewhere.
Cell(lock, type, capacity, data) ==
    [lock |-> lock, type |-> type, capacity |-> capacity, data |-> data]

\* A cell that holds an amount of a token under a lock.  The capacity that a
\* UDT cell occupies is not modelled.
TokenCell(lock, t, amount) ==
    IF t = CKB THEN Cell(lock, NoScript, amount, <<>>)
               ELSE Cell(lock, UdtType(t), 0, <<amount>>)

PoolCell(lock, id, r1, r2, liquidity) ==
    Cell(lock, PoolType(id), 0, <<r1, r2, liquidity>>)

LiquidityCell(lock, id, amount) ==
    Cell(UserLock, LiquidityType(lock, id), 0, <<amount>>)

-----------------------------------------------------------------------------
\* A transaction: first is the serialized out-point of input 0, which no other
\* transaction has.  Indices count from 0, as in the code.
Input(tx, i) == tx.inputs[i + 1]
Output(tx, i) == tx.outputs[i + 1]
HasInput(tx, i) == i < Len(tx.inputs)
HasOutput(tx, i) == i < Len(tx.outputs)

\* Inputs and outputs are sequences of cells, data is a sequence of numbers.
IsTransaction(tx, Number) ==
    \A cells \in {tx.inputs, tx.outputs} :
       /\ cells \in Seq({cells[k] : k \in DOMAIN cells})
       /\ \A k \in DOMAIN cells : cells[k].data \in Seq(Number)

\* CKB_SOURCE_GROUP_INPUT and CKB_SOURCE_GROUP_OUTPUT: the cells of a script.
\* These are the positions; Selected has the cells, in the same order.
OfType(cells, s) == {k \in DOMAIN cells : cells[k].type = s}
OfLock(cells, s) == {k \in DOMAIN cells : cells[k].lock = s}

Selected(cells, positions) ==
    LET upto[n \in 0 .. Len(cells)] ==
          IF n = 0 THEN <<>>
          ELSE IF n \in positions THEN Append(upto[n - 1], cells[n])
          ELSE upto[n - 1]
    IN  upto[Len(cells)]

CellsOfType(cells, s) == Selected(cells, OfType(cells, s))

\* The sum of a sequence of numbers.
Total(numbers) ==
    LET upto[n \in 0 .. Len(numbers)] ==
          IF n = 0 THEN 0 ELSE upto[n - 1] + numbers[n]
    IN  upto[Len(numbers)]

\* The sum of the numbers a function gives the elements of a finite set: what
\* is counted are the units.
TotalOver(f) == Cardinality(UNION {{x} \X (1 .. f[x]) : x \in DOMAIN f})

TypeScripts(tx) ==
    {tx.inputs[i].type : i \in DOMAIN tx.inputs}
      \union {tx.outputs[i].type : i \in DOMAIN tx.outputs}

LockScripts(tx) == {tx.inputs[i].lock : i \in DOMAIN tx.inputs}

=============================================================================
