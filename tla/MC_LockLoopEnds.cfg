\* One triple is enough for a search that finds no pool.
CONSTANTS
    Lock <- TheLock
    InputCells <- Kinds
    MaxInputs = 3
SPECIFICATION Spec
\* A script that has returned does nothing more.
CHECK_DEADLOCK FALSE
PROPERTIES
    EventuallyReturns
