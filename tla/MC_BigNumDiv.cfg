\* Words of two bits, numbers of eight.
CONSTANTS
    WordBits = 2
    Base = 4
    ArraySize = 4
    Top = 256
    Dividends <- SomeDividends
    Divisors <- SomeDivisors
SPECIFICATION Spec
\* A function that has returned does nothing more.
CHECK_DEADLOCK FALSE
INVARIANTS
    WordsAreNumbers
    AmountsSurvive
PROPERTIES
    KeepsDivision
    Returns
