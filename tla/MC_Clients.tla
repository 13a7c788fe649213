------------------------------ MODULE MC_Clients ------------------------------
(***************************************************************************)
(* Suites for TLC: test.js alone from beginning to end, with pool 1 for    *)
(* the one of two UDTs and pool 2 for the one of CKB and a UDT, or three   *)
(* clients that share both pools.                                          *)
(***************************************************************************)
EXTENDS Clients

CreationOf(p) == [create |-> TRUE, pools |-> <<p>>]
UpdateOf(p) == [create |-> FALSE, pools |-> <<p>>]
Both == [create |-> FALSE, pools |-> <<2, 1>>]

\* The order of test.js, with one transaction for each that only differs in
\* its numbers.
WholeSuite == <<CreationOf(1), UpdateOf(1), UpdateOf(1),
                CreationOf(2), UpdateOf(2), UpdateOf(2), Both>>

\* What several clients do to pools that they share.
SharedSuite == <<UpdateOf(1), Both>>

AloneOrTogether ==
    {[c \in Client |-> SharedSuite],
     [c \in Client |-> IF c = CHOOSE d \in Client : TRUE THEN WholeSuite ELSE <<>>]}

ASSUME SuitesInOrder == \A run \in Suites : InOrder(run)

==============================================================================
