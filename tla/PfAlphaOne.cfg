SPECIFICATION Spec
CONSTANTS
    Policies = {"proportional-fair"}
    NumUes = 3
    NumCells = 1
    Prbs = 5
    Rates = {1, 2}
    Alphas = {2}
    AlphaDen = 2
    RateFloor = 1
    MaxUpdates = 2
INVARIANTS
    AlwaysDecides
CHECK_DEADLOCK FALSE
