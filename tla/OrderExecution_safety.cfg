SPECIFICATION FairSpec
CONSTANTS
    Names = {A}
    MaxQty = 2
    Executors = {e1}
    Operators = {}
    Holdings = {0, 2}
    Desired = {0, 1, 2}
    LockLoss = FALSE
    LateLanding = FALSE
    Rounds = 2
    MaxFaults = 3
    MaxHalts = 0
INVARIANTS LongOnly ExecutedIsBacked
PROPERTIES HaltStopsBuying ImplementsExposure EvidenceSettles OrdersSettle
CHECK_DEADLOCK FALSE
