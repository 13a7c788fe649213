---------------------------- MODULE MC_TokenLoop ----------------------------
(***************************************************************************)
(* TokenLoop for TLC.  As its own bytes a script is given scripts with     *)
(* arguments of up to four bytes and all that differs from them in two     *)
(* bytes or is cut off; one that the buffer is too small for; tables that  *)
(* are too short for their offsets, and one of four fields.  With the      *)
(* right bytes it sees cells of amounts up to the width, of nothing or     *)
(* without data, with and without the owner; and the liquidity token next  *)
(* to its pool, or to another one.                                         *)
(***************************************************************************)
EXTENDS TokenLoop, SequencesExt

Arguments == {<<>>, <<2>>, <<0, 1, 2, 2>>}

ScriptsOfNode == {Serialize(<<h>>, 1, bytes) : h \in {0, 2}, bytes \in Arguments}

TooLong == Serialize(<<1>>, 1, <<1, 0, 1, 0, 1>>)

Altered(s) == {[s EXCEPT ![m] = b, ![n] = c] : m, n \in DOMAIN s, b, c \in Byte}
CutOff(s) == {SubSeq(s, 1, n) : n \in 0 .. Len(s)}

\* A table of four fields, the last one empty.
FourFields ==
    Bytes(26) \o Bytes(20) \o Bytes(21) \o Bytes(22) \o Bytes(26) \o <<1, 1>> \o Bytes(0)

\* What is left of a table when it says that it ends within its offsets.
ShortTables == {Bytes(n) \o Bytes(m) \o [k \in 1 .. n - 8 |-> 0] :
                  n \in 8 .. 16, m \in {8, 12, 16, 20}}

SomeItems == UNION {Altered(s) \union CutOff(s) : s \in ScriptsOfNode}
               \union ShortTables \union {FourFields, TooLong}

-----------------------------------------------------------------------------
CONSTANTS MaxInputs, MaxOutputs, MaxUdtCells, MaxCellsOfPool   \* bounds: token cells

Udt == UdtType(1)
Lp == LiquidityType(PairLock(1, 2), 7)

Contents == {<<a>> : a \in 0 .. U128 - 1} \union {<<>>}
TokenCells(s) == {Cell(UserLock, s, 0, d) : d \in Contents}

OtherCell(lock) == Cell(lock, NoScript, 1, <<>>)
Holdings(s, n) == BoundedSeq(TokenCells(s), n)

Transfers(s, locks, n, m) ==
    {[tx |-> [inputs |-> <<OtherCell(lock)>> \o ins, outputs |-> outs], s |-> s] :
       lock \in locks, ins \in Holdings(s, n), outs \in Holdings(s, m)}

ThroughPool ==
    {[tx |-> [inputs |-> <<PoolCell(PairLock(1, 2), id, 0, 0, l)>> \o ins,
              outputs |-> <<PoolCell(PairLock(1, 2), id, 0, 0, m)>> \o outs], s |-> Lp] :
       id \in {7, 8}, l \in 0 .. U128 - 1, m \in 0 .. U128 - 1,
       ins \in Holdings(Lp, MaxCellsOfPool), outs \in Holdings(Lp, MaxCellsOfPool)}

WithBytes(bytes, cases) ==
    {[bytes |-> Serialize(<<1>>, 1, bytes), tx |-> c.tx, s |-> c.s] : c \in cases}

Transaction == [inputs |-> <<OtherCell(UserLock)>>, outputs |-> <<>>]

AllRuns ==
    WithBytes(<<2>>, Transfers(Udt, {UserLock, IssuerLock}, MaxUdtCells, MaxUdtCells))
      \union WithBytes(<<0, 1, 2, 2>>, Transfers(Lp, {UserLock}, MaxInputs, MaxOutputs)
                                        \union ThroughPool)
      \union UNION {WithBytes(bytes, {[tx |-> Transaction, s |-> Udt]}) : bytes \in Arguments}
      \union {[bytes |-> b, tx |-> Transaction, s |-> Lp] : b \in SomeItems}

AllItems == {r.bytes : r \in AllRuns}

=============================================================================
