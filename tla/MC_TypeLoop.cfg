\* Up to three triples of this pool and another, and what may stand behind them.
CONSTANTS
    Thousand = 10
    ExceptFee = 9
    AddMinimum = 1
    U128 = 16
    U64 = 16
    CKB_RESERVE_DEFAULT = 2
    UDT_RESERVE_DEFAULT = 1
    STATE_USE_FEE = 7
    Current <- ThePool
    Transactions <- AllTransactions
SPECIFICATION Spec
\* A script that has returned does nothing more.
CHECK_DEADLOCK FALSE
INVARIANTS
    ReturnsVerdict
    FeeBehindLastPool
PROPERTIES
    EventuallyReturns
