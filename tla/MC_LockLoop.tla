----------------------------- MODULE MC_LockLoop -----------------------------
(***************************************************************************)
(* LockLoop for TLC: every kind of cell that the lock script tells apart.  *)
(***************************************************************************)
EXTENDS LockLoop

TheLock == PairLock(1, 2)

Kinds == {PoolCell(TheLock, 1, 0, 0, 0),
          TokenCell(TheLock, 1, 1),
          PoolCell(PairLock(1, 3), 2, 0, 0, 0),
          TokenCell(UserLock, 1, 1)}

=============================================================================
