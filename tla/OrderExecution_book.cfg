SPECIFICATION Spec
CONSTANTS
    Names = {A, B}
    MaxQty = 1
    Executors = {e1}
    Operators = {op}
    Holdings = {0}
    Desired = {1}
    LockLoss = FALSE
    LateLanding = FALSE
    Rounds = 1
    MaxFaults = 1
    MaxHalts = 1
SYMMETRY Symmetry
INVARIANTS SecondLegWaits RowsNeverOverstate
CHECK_DEADLOCK FALSE
