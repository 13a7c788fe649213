----------------------------- MODULE PoolPromise -----------------------------
(***************************************************************************)
(* What a UDTSwap pool promises to its users, whatever the scripts compute *)
(* and however a transaction is laid out: two reserves and the shares that *)
(* liquidity tokens are.  A trade makes the product of the reserves grow;  *)
(* a deposit and a withdrawal leave every share worth at least as much of  *)
(* both reserves as before; once somebody has funded the pool it is never  *)
(* empty again.                                                            *)
(***************************************************************************)
EXTENDS Integers

VARIABLES
    open,     \* the pool exists
    x, y,     \* its reserves above what creation locked
    shares    \* liquidity tokens in circulation

promise == <<open, x, y, shares>>

Init == open = FALSE /\ x = 0 /\ y = 0 /\ shares = 0

Open == /\ ~open
        /\ open' = TRUE
        /\ UNCHANGED <<x, y, shares>>

\* The reserves are not empty behind the step, and each of the shares is
\* backed by at least as much of both as before.
NoDilution == /\ x' > 0 /\ y' > 0 /\ shares' > 0
              /\ x * shares' <= x' * shares
              /\ y * shares' <= y' * shares

\* The first deposit sets the price; its shares count the first token.
Fund == /\ open /\ shares = 0
        /\ x' > 0 /\ y' > 0 /\ shares' = x'
        /\ UNCHANGED open

Deposit == /\ open /\ shares > 0
           /\ x' > x /\ y' > y /\ shares' > shares
           /\ NoDilution
           /\ UNCHANGED open

Withdraw == /\ open /\ shares > 0
            /\ x' < x /\ y' < y /\ shares' < shares
            /\ NoDilution
            /\ UNCHANGED open

Trade == /\ open /\ shares > 0
         /\ x' > 0 /\ y' > 0
         /\ (x' > x /\ y' < y) \/ (x' < x /\ y' > y)
         /\ x' * y' > x * y
         /\ UNCHANGED <<open, shares>>

Next == Open \/ Fund \/ Deposit \/ Withdraw \/ Trade

Spec == Init /\ [][Next]_promise

=============================================================================
