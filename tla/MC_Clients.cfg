\* One client with the whole suite, or three on two shared pools; the node drops
\* transactions, wallets run out.
CONSTANTS
    Client = {c1, c2, c3}
    Pools = {1, 2}
    Suites <- AloneOrTogether
    MaxDrops = 2
SPECIFICATION Spec
\* All tests end.
CHECK_DEADLOCK FALSE
INVARIANTS
    NoLostUpdate
    SnapshotRightOrDead
    NeverRefused
PROPERTIES
    EventuallyEnds
    EverythingCommits
