SPECIFICATION Spec
CONSTANTS
    Policies = {"round-robin"}
    NumUes = 3
    NumCells = 1
    Prbs = 5
    Rates = {1}
    Alphas = {1}
    AlphaDen = 2
    RateFloor = 1
    MaxUpdates = 0
PROPERTIES
    CursorAdvancesOneUe
