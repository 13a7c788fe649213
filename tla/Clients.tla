------------------------------- MODULE Clients -------------------------------
(***************************************************************************)
(* Test clients (test/test.js) that use the same pools through one node.   *)
(* A client reads a pool never again once it knows it: it keeps a snapshot *)
(* of the out-point and of the numbers, builds each transaction on it, and *)
(* advances it when the transaction is sent, before it is in the chain.    *)
(* Then it polls for the transaction's output until mocha's timeout.       *)
(*                                                                         *)
(* The numbers of a pool are abstracted to the count of its updates, which *)
(* is what a transaction built on the wrong ones gets wrong; that scripts  *)
(* accept a transaction built on the right ones is checked in TxBuilder.   *)
(* The node (external) keeps a transaction pool next to the chain, and may *)
(* drop what has not been committed.                                       *)
(***************************************************************************)
EXTENDS Integers, Sequences, FiniteSets, Functions

CONSTANTS
    Client,      \* processes that run the suite
    Pools,       \* pools, as numbers: 1 .. the number of pools
    Suites,      \* bound: what tests the clients run
    MaxDrops     \* bound: how often the node drops transactions

\* A test creates a pool or uses some.
TestSet == [create : BOOLEAN, pools : Seq(Pools)]

CreatedBy(run, c) ==
    UNION {Range(run[c][k].pools) : k \in {k \in DOMAIN run[c] : run[c][k].create}}
UsedBy(run, c) == UNION {Range(run[c][k].pools) : k \in DOMAIN run[c]}

\* A client that creates a pool does so once, and is the only one to know it.
ASSUME ClientsAssumption ==
    /\ IsFiniteSet(Pools) /\ Pools = 1 .. Cardinality(Pools)
    /\ Suites \subseteq [Client -> Seq(TestSet)]
    /\ \A run \in Suites, c \in Client :
          /\ \A k \in DOMAIN run[c] : IsInjective(run[c][k].pools)
          /\ \A k \in DOMAIN run[c] : run[c][k].create =>
                /\ Len(run[c][k].pools) = 1
                /\ \A j \in DOMAIN run[c] \ {k} : run[c][j].create =>
                      run[c][j].pools # run[c][k].pools
          /\ \A d \in Client \ {c} : CreatedBy(run, c) \intersect UsedBy(run, d) = {}
    /\ MaxDrops \in Nat

VARIABLES
    suite,      \* the tests of each client
    chain,      \* the committed transactions
    mempool,    \* the transactions the node has accepted and not committed
    next_tx,    \* the hash of the next transaction
    drops,      \* how often the node has dropped some
    snapshot,   \* for each client and pool, liveTxHash, liveTxIndex, the numbers
    polls,      \* the hash that a client waits for, or NoTx
    results     \* how the tests of a client ended so far

vars == <<suite, chain, mempool, next_tx, drops, snapshot, polls, results>>
node_vars == <<suite, chain, mempool, next_tx, drops>>

NoTx == 0

-----------------------------------------------------------------------------
\* A pool cell is the output of a transaction at an index.  (The two lock
\* cells behind it share its fate.)
PoolCell(p, tx, index, count) == [pool |-> p, tx |-> tx, index |-> index, count |-> count]
OutPoint(cell) == <<cell.tx, cell.index>>

CellsMade(txs) == UNION {t.outputs : t \in txs}
OutPointsSpent(txs) == UNION {t.inputs : t \in txs}
Unspent(txs) == {cell \in CellsMade(txs) : OutPoint(cell) \notin OutPointsSpent(txs)}
LiveOutPoints(txs) == {OutPoint(cell) : cell \in Unspent(txs)}
CellsOf(p, txs) == {cell \in Unspent(txs) : cell.pool = p}

\* A pool that no test creates exists from the start, and every client knows
\* it; the transaction that made it has its number.
Existing == Pools \ UNION {CreatedBy(suite, c) : c \in Client}
Genesis(p) == [id |-> p, inputs |-> {}, outputs |-> {PoolCell(p, p, 0, 0)}]

-----------------------------------------------------------------------------
test(c) == suite[c][Len(results[c]) + 1]
Ended(c) == Len(results[c]) = Len(suite[c])
Using(c) == Range(test(c).pools)

\* Every leg puts its cells in front of those of the legs before it
\* (setPoolCellsOutput), three for each pool.
CellIndex(c, p) == 3 * Cardinality({k \in DOMAIN test(c).pools :
                                      \E j \in 1 .. k - 1 : test(c).pools[j] = p})

\* The transaction of a test: it consumes the pools where the snapshot says
\* they are, and makes them again with the numbers of the snapshot, updated.
Transaction(c) ==
    [id |-> next_tx,
     inputs |-> IF test(c).create THEN {} ELSE {OutPoint(snapshot[c][p]) : p \in Using(c)},
     outputs |-> {PoolCell(p, next_tx, CellIndex(c, p),
                           IF test(c).create THEN 0 ELSE snapshot[c][p].count + 1) :
                    p \in Using(c)}]

\* Mutations: the hash, or the numbers, are left as they were.
Advanced_numbers_only(c, tx) ==
    [p \in Pools |->
       IF p \notin Using(c) THEN snapshot[c][p]
       ELSE [snapshot[c][p] EXCEPT !.count = IF test(c).create THEN 0 ELSE @ + 1]]

Advanced_hash_only(c, tx) ==
    [p \in Pools |->
       IF p \notin Using(c) THEN snapshot[c][p]
       ELSE [snapshot[c][p] EXCEPT !.tx = tx]]

\* What a test assigns to currentPool behind sendTransaction(): the hash that
\* it returned and the new numbers.  liveTxIndex stays what it was.
Advanced(c, tx) ==
    [p \in Pools |->
       IF p \notin Using(c) THEN snapshot[c][p]
       ELSE [snapshot[c][p] EXCEPT !.tx = tx,
                                   !.count = IF test(c).create THEN 0 ELSE @ + 1]]

-----------------------------------------------------------------------------
Init == /\ suite \in Suites
        /\ chain = {Genesis(p) : p \in Existing}
        /\ mempool = {}
        /\ next_tx = Cardinality(Pools) + 1
        /\ drops = 0
        /\ snapshot = [c \in Client |-> [p \in Pools |->
                         PoolCell(p, IF p \in Existing THEN p ELSE NoTx, 0, 0)]]
        /\ polls = [c \in Client |-> NoTx]
        /\ results = [c \in Client |-> <<>>]

Ends(c, result) == results' = [results EXCEPT ![c] = Append(@, result)]

\* The node accepts the transaction: its inputs are live or made by a
\* transaction in its pool, nothing there consumes them, and they are the
\* pools' own, as their scripts demand.
Accepted(c) ==
    test(c).create \/ \A p \in Using(c) :
        \E cell \in CellsOf(p, chain \union mempool) :
            OutPoint(cell) = OutPoint(snapshot[c][p])

\* The client takes an accepted transaction for done, and starts to poll.
Send(c) ==
    /\ ~Ended(c) /\ polls[c] = NoTx
    /\ Accepted(c)
    /\ mempool' = mempool \union {Transaction(c)}
    /\ next_tx' = next_tx + 1
    /\ snapshot' = [snapshot EXCEPT ![c] = Advanced(c, next_tx)]
    /\ polls' = [polls EXCEPT ![c] = next_tx]
    /\ UNCHANGED <<suite, chain, drops, results>>

\* rpc.sendTransaction() throws, and the test fails before it assigns anything.
SendRefused(c) ==
    /\ ~Ended(c) /\ polls[c] = NoTx
    /\ ~Accepted(c)
    /\ Ends(c, "refused")
    /\ UNCHANGED <<node_vars, snapshot, polls>>

\* sendTransaction() finds the balance too low and returns the hash null, which
\* the test takes like any other; getLiveCell() of it throws.
SendNothing(c) ==
    /\ ~Ended(c) /\ polls[c] = NoTx
    /\ snapshot' = [snapshot EXCEPT ![c] = Advanced(c, NoTx)]
    /\ Ends(c, "null")
    /\ UNCHANGED <<node_vars, polls>>

\* checkAmounts(): output 0 of the transaction is live.
Confirm(c) ==
    /\ polls[c] # NoTx
    /\ <<polls[c], 0>> \in LiveOutPoints(chain)
    /\ polls' = [polls EXCEPT ![c] = NoTx]
    /\ Ends(c, "passed")
    /\ UNCHANGED <<node_vars, snapshot>>

\* Mutations: only what the node has can time out; mocha stops.
Timeout_if_known(c) ==
    /\ polls[c] # NoTx
    /\ \E t \in chain \union mempool : t.id = polls[c]
    /\ polls' = [polls EXCEPT ![c] = NoTx]
    /\ Ends(c, "timeout")
    /\ UNCHANGED <<node_vars, snapshot>>

Timeout_bails(c) ==
    /\ polls[c] # NoTx
    /\ polls' = [polls EXCEPT ![c] = NoTx]
    /\ results' = [results EXCEPT ![c] = [k \in DOMAIN suite[c] |-> "timeout"]]
    /\ UNCHANGED <<node_vars, snapshot>>

\* The 90 seconds are over; mocha goes on to the next test, with the snapshot
\* as the transaction would leave it.
Timeout(c) ==
    /\ polls[c] # NoTx
    /\ polls' = [polls EXCEPT ![c] = NoTx]
    /\ Ends(c, "timeout")
    /\ UNCHANGED <<node_vars, snapshot>>

\* The node commits a transaction whose inputs are live.
Commit ==
    \E t \in mempool :
        /\ t.inputs \subseteq LiveOutPoints(chain)
        /\ chain' = chain \union {t}
        /\ mempool' = mempool \ {t}
        /\ UNCHANGED <<suite, next_tx, drops, snapshot, polls, results>>

\* The node drops transactions, and with them all that consume their outputs.
Drop ==
    /\ drops < MaxDrops
    /\ \E dropped \in SUBSET mempool \ {{}} :
         /\ \A t \in mempool \ dropped :
              t.inputs \intersect {OutPoint(cell) : cell \in CellsMade(dropped)} = {}
         /\ mempool' = mempool \ dropped
    /\ drops' = drops + 1
    /\ UNCHANGED <<suite, chain, next_tx, snapshot, polls, results>>

Step(c) == Send(c) \/ SendRefused(c) \/ SendNothing(c) \/ Confirm(c) \/ Timeout(c)

Next == \/ \E c \in Client : Step(c)
        \/ Commit
        \/ Drop

\* The event loop of a client runs and its timers fire, and the node goes on
\* to commit what it has accepted.
Fairness == WF_vars(Commit) /\ \A c \in Client : WF_vars(Step(c))

Spec == Init /\ [][Next]_vars /\ Fairness

-----------------------------------------------------------------------------
\* No update of a pool is lost, whoever sent it and whatever the others knew:
\* a pool has one live cell, and its numbers are those of all the transactions
\* in the chain that went through it.  Each was computed from a snapshot, and
\* only the snapshot's out-point keeps it from being applied to other numbers.
NoLostUpdate ==
    \A p \in Pools :
       LET updates == {t \in chain : \E cell \in t.outputs : cell.pool = p}
       IN  updates # {} =>
             \E cell \in CellsOf(p, chain) :
                /\ cell.count = Cardinality(updates) - 1
                /\ CellsOf(p, chain) = {cell}

\* A snapshot is right or dead: if the cell it points to exists, its numbers
\* are the cell's.  A transaction that the node accepts is thus never built on
\* numbers of another state of the pool (test.js, the assignments behind every
\* sendTransaction, lines 289 to 294 and so on).
SnapshotRightOrDead ==
    \A c \in Client, p \in Pools :
       \A cell \in CellsMade(chain \union mempool) :
          cell.pool = p /\ OutPoint(cell) = OutPoint(snapshot[c][p])
            => cell.count = snapshot[c][p].count

\* Every client comes to the end of its tests, whatever the node drops of what
\* it waits for: the poll of checkAmounts() has no end of its own.
EventuallyEnds == <>(\A c \in Client : Ended(c))

\* test.js creates a pool before it uses it, and what one of its transactions
\* left behind another output than the first is not used by a later one (the
\* index in the snapshot is not assigned: test.js:680).
InOrder(run) ==
    \A c \in Client : \A k \in DOMAIN run[c] : \A p \in Range(run[c][k].pools) :
       /\ p \in CreatedBy(run, c) =>
             \E j \in 1 .. k : run[c][j].create /\ p \in Range(run[c][j].pools)
       /\ \A j \in 1 .. k - 1 : p \in Range(run[c][j].pools) =>
             run[c][j].pools[Len(run[c][j].pools)] = p

\* Nothing went wrong for a client: nobody else uses its pools, its wallet did
\* not run out and the node has dropped nothing.
Undisturbed(c) ==
    /\ \A d \in Client \ {c} : UsedBy(suite, c) \intersect UsedBy(suite, d) = {}
    /\ "null" \notin Range(results[c])
    /\ drops = 0

\* A client that nothing disturbs is never refused, although it sends on top of
\* transactions that a timeout kept it from seeing in the chain.
NeverRefused ==
    \A c \in Client : Undisturbed(c) => "refused" \notin Range(results[c])

\* What a client has in the chain.
TransactionsOf(c) ==
    {t \in chain : \E cell \in t.outputs : cell.pool \in UsedBy(suite, c)}

\* And all that such a client sends comes to be in the chain, one transaction
\* for each test.
EverythingCommits ==
    \A c \in Client :
       <>(Undisturbed(c) => Cardinality(TransactionsOf(c) \ {Genesis(p) : p \in Existing})
                              = Len(suite[c]))

==============================================================================
