CONSTANTS
    Invocations = {i1, i2}
    Plan <- MCPlan
    Results <- MCResults
    WorkerCounts = {1, 3}
    Publishers = {p1, p2}
    Changes <- MCChanges
    MaxEdits = 2
    Reference = {1}
SPECIFICATION Spec
INVARIANTS AllOrNothing InFlightBounded SnapshotVerified ComparesLikeWithLike
SYMMETRY Symmetry
PROPERTY PublishedOnce
