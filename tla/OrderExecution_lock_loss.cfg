SPECIFICATION Spec
CONSTANTS
    Names = {A}
    MaxQty = 2
    Executors = {e1, e2}
    Operators = {}
    Holdings = {0}
    Desired = {2}
    LockLoss = TRUE
    LateLanding = TRUE
    Rounds = 1
    MaxFaults = 1
    MaxHalts = 0
INVARIANTS NoOverfill
CHECK_DEADLOCK FALSE
