\* Token amounts as wide as their type: outputs up to U128 - 1.
CONSTANTS
    Thousand = 10
    ExceptFee = 9
    AddMinimum = 2
    U128 = 16
    Default1 = 3
    Default2 = 1
    Limit1 = 12
    Limit2 = 14
    LiquidityLimit = 8
    LpOutputLimit = 16
SPECIFICATION HistorySpec
CHECK_DEADLOCK FALSE
INVARIANTS
    SupplyBacked
