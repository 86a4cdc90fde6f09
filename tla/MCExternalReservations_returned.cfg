\* One sync, one event: it moves, or goes and comes back, while its row is cancelled.
SPECIFICATION Spec
CONSTANTS
    e1 = e1
    e2 = e2
    m1 = m1
    m2 = m2
    Dates <- MCTwoDates
    Capacity = 1
    Events <- MCEvents1
    Rows <- MCNoRows
    Syncs = {job}
    Sweep = job
    MaxChanges = 3
INVARIANTS NoDoubleSale
