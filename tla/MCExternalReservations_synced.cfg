\* Two syncs of one feed, a row by hand or CSV, other takers, the partner cancels.
SPECIFICATION FairSpec
CONSTANTS
    e1 = e1
    e2 = e2
    m1 = m1
    m2 = m2
    Dates <- MCTwoDates
    Capacity = 1
    Events <- MCEvents1
    Rows <- MCRows1
    Syncs = {job, manual}
    Sweep = job
    MaxChanges = 2
INVARIANTS TypeOK
PROPERTIES NightsAreAccounted GoneIsReleased FeedArrives
