SPECIFICATION Spec
CONSTANTS
    VALUE = VALUE  MACRO = MACRO  x = x  y = y
    Voters = {VALUE, MACRO}
    Red = RED_TEAM
    Names = {x, y}
    TopN = 1
    VetoPct = 50
    Costs = {1}
    MaxCost = 1
    Ceiling = 7
    Concurrency = 2
    MaxAttempts = 2
    MaxFaults = 1
SYMMETRY Symmetry
INVARIANTS SpendBounded LedgerIsTrue VerdictsAreAccounted
INVARIANTS AbortsAreDeadLettered BooksAreReviewed AttemptsGoOn RebilledOnlyIfDropped
PROPERTIES CeilingIsFinal
CHECK_DEADLOCK FALSE
