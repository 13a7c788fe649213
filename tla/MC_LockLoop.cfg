\* Two triples and a cell more, of every kind of cell.
CONSTANTS
    Lock <- TheLock
    InputCells <- Kinds
    MaxInputs = 7
SPECIFICATION Spec
\* A script that has returned does nothing more.
CHECK_DEADLOCK FALSE
INVARIANTS
    ReturnsVerdict
    SpentWithPool
PROPERTIES
    EventuallyUnlocks
