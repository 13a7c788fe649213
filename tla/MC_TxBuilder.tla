----------------------------- MODULE MC_TxBuilder -----------------------------
(***************************************************************************)
(* Instances of TxBuilder for TLC, with the capacities and the fee of the  *)
(* code in CKB: pools of CKB and a UDT and of two UDTs, empty and funded,  *)
(* and wallets whose cells suffice alone or only together.                 *)
(***************************************************************************)
EXTENDS TxBuilder

Snapshot(id, t1, t2, data) == Cell(PairLock(t1, t2), PoolType(id), poolCellCKB, data)

EachKind == {Snapshot(101, 0, 2, <<400, 301, 100>>), Snapshot(102, 1, 2, <<201, 301, 150>>),
             Snapshot(103, 0, 1, <<380, 241, 80>>), Snapshot(104, 1, 2, <<151, 101, 120>>),
             Snapshot(105, 0, 1, <<300, 1, 0>>), Snapshot(106, 1, 2, <<1, 1, 0>>)}

LpOf(id, t1, t2, amount) ==
    Cell(UserLock, LiquidityType(PairLock(t1, t2), id), liquidityCKB, <<amount>>)

SmallWallets ==
    {UserCell(CKB, 61), UserCell(CKB, 1900), UserCell(1, 40), UserCell(2, 41),
     Cell(UserLock, UdtType(1), 1700, <<40>>),
     UserCell(2, 200), LpOf(101, 0, 2, 21), LpOf(102, 1, 2, 21)}

==============================================================================
