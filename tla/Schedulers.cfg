SPECIFICATION Spec
CONSTANTS
    Policies = {"round-robin", "max-ci", "proportional-fair"}
    NumUes = 3
    NumCells = 2
    Prbs = 5
    Rates = {1}
    Alphas = {1, 2}
    AlphaDen = 2
    RateFloor = 1
    MaxUpdates = 1
INVARIANTS
    DecisionsValid
    FairCycles
    FailsOnlyAtAlphaOne
CHECK_DEADLOCK FALSE
