\* Bytes of three values, a hash of one byte, a buffer of 26 bytes: arguments
\* of five bytes do not fit.  Amounts of two bits: two cells can exceed the width.
CONSTANTS
    Thousand = 1000
    ExceptFee = 997
    AddMinimum = 1
    U128 = 4
    Base = 3
    HASH_SIZE = 1
    TX_INPUT_SIZE = 3
    SCRIPT_SIZE = 26
    CODE_HASH_START = 16
    ARGS_START = 22
    MaxInputs = 3
    MaxOutputs = 2
    MaxUdtCells = 2
    MaxCellsOfPool = 1
    Items <- AllItems
    Runs <- AllRuns
SPECIFICATION MainSpec
\* A script that has returned does nothing more.
CHECK_DEADLOCK FALSE
INVARIANTS
    ReturnsVerdict
    Conserved
    ExactlyScripts
    ReadsInside
    FixedOffsets
