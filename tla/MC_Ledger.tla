------------------------------ MODULE MC_Ledger ------------------------------
(***************************************************************************)
(* Instances of Ledger for TLC: the pairs of the configurations, a fee of  *)
(* one tenth and defaults small enough for a pool to hold little else.     *)
(***************************************************************************)
EXTENDS LedgerProperties

OnePair == {<<0, 1>>}
AnyPair == {<<1, 1>>, <<1, 2>>, <<2, 1>>}
TwoPairs == {<<0, 1>>, <<1, 2>>}

\* Which of two pools came first makes no difference, so the first is of CKB.
OnePairOf == <<OnePair>>
AnyPairOf == <<AnyPair>>
TwoPairsOf == <<OnePair, TwoPairs>>

=============================================================================
