SPECIFICATION Spec
CONSTANTS
    Names = {A}
    MaxQty = 2
    Executors = {e1}
    Operators = {op}
    Holdings = {0, 2}
    Desired = {0, 1, 2}
    LockLoss = FALSE
    LateLanding = FALSE
    Rounds = 2
    MaxFaults = 0
    MaxHalts = 1
PROPERTIES HaltedSellsReduce
CHECK_DEADLOCK FALSE
