----------------------------- MODULE PoolHistory -----------------------------
(***************************************************************************)
(* A pool and one moment of its past: what its shares are worth now,       *)
(* against what they were worth then, with any run of swaps, deposits and  *)
(* withdrawals between.  The mark is a history variable: it is set at any  *)
(* one moment and no step of the pool depends on it.                       *)
(***************************************************************************)
EXTENDS Pool

VARIABLE mark    \* the reserves and the liquidity of that moment

NotMarked == [x |-> 0, y |-> 0, shares |-> 0]

Mark == /\ mark = NotMarked
        /\ created /\ total_liquidity > 0
        /\ mark' = [x |-> Net1, y |-> Net2, shares |-> total_liquidity]
        /\ UNCHANGED vars

HistoryInit == Init /\ mark = NotMarked

HistoryNext == \/ Next /\ UNCHANGED mark
               \/ Mark

HistorySpec == HistoryInit /\ [][HistoryNext]_<<vars, mark>>

-----------------------------------------------------------------------------
\* A share is worth, as the square root of the product of the two amounts it
\* stands for, at least what it was worth at any moment before: x * y /
\* shares^2 never falls, over any sequence of transactions of any users.  One
\* transaction that rounds against the pool can be made up for by the fees of
\* others; this says that there is no such transaction and no such sequence.
ValueKept ==
    mark # NotMarked =>
        Net1 * Net2 * (mark.shares * mark.shares)
          >= mark.x * mark.y * (total_liquidity * total_liquidity)

\* No round trip is free: users who bring the liquidity back to what it was
\* have not taken from one reserve without leaving the other one larger.
NoFreeRoundTrip ==
    mark # NotMarked /\ total_liquidity = mark.shares =>
        /\ Net1 < mark.x => Net2 > mark.y
        /\ Net2 < mark.y => Net1 > mark.x

=============================================================================
