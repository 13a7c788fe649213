----------------------------- MODULE MC_TypeLoop -----------------------------
(***************************************************************************)
(* TypeLoop for TLC.  A transaction is up to three parts, each a triple    *)
(* that the loop can meet - this pool or another one, swapped, added to,   *)
(* withdrawn from, wrongly priced, or with a reserve that its cell does    *)
(* not hold - and then a fee cell and a liquidity token, or not.           *)
(***************************************************************************)
EXTENDS TypeLoop

ThePool == PoolType(1)
Lock == PairLock(1, 2)

Three(id, r1, r2, liquidity, held) ==
    <<PoolCell(Lock, id, r1, r2, liquidity),
      TokenCell(Lock, 1, r1), TokenCell(Lock, 2, held)>>

\* From 2 and 4 beyond the defaults: to 3 and 3 is a swap.
Before(id) == Three(id, 3, 5, 2, 5)
Parts ==
    {[inputs |-> Before(1), outputs |-> after] :
        after \in {Three(1, 4, 4, 2, 4), Three(1, 4, 2, 2, 2), Three(1, 4, 8, 3, 8),
                   Three(1, 2, 3, 1, 3), Three(1, 4, 4, 2, 3)}}
      \union {[inputs |-> Before(2), outputs |-> after] :
        after \in {Three(2, 4, 4, 2, 4), Three(2, 4, 8, 3, 8), Three(1, 4, 4, 2, 4)}}

\* The cells behind the triples.
Behind == {<<>>,
          <<TokenCell(FeeLock, CKB, STATE_USE_FEE)>>,
          <<TokenCell(FeeLock, CKB, STATE_USE_FEE), LiquidityCell(Lock, 1, 1)>>,
          <<TokenCell(FeeLock, CKB, STATE_USE_FEE * 2)>>,
          <<TokenCell(FeeLock, CKB, STATE_USE_FEE * 3)>>}

BehindInputs == {<<>>, <<LiquidityCell(Lock, 1, 1)>>, <<LiquidityCell(Lock, 2, 1)>>}

Joined(a, b, c, more_in, more_out) ==
    [inputs |-> a.inputs \o b.inputs \o c.inputs \o more_in,
     outputs |-> a.outputs \o b.outputs \o c.outputs \o more_out]

AllTransactions ==
    LET parts == Parts \union {[inputs |-> <<>>, outputs |-> <<>>]}
    IN  {Joined(a, b, c, more_in, more_out) :
           a \in parts, b \in parts, c \in parts,
           more_in \in BehindInputs, more_out \in Behind}

=============================================================================
