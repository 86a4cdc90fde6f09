\* A CSV row that does not fit is stored nevertheless, and cancelled later.
SPECIFICATION Spec
CONSTANTS
    e1 = e1
    e2 = e2
    m1 = m1
    m2 = m2
    Dates <- MCOneDate
    Capacity = 1
    Events <- MCEvents1
    Rows <- MCRows1
    Syncs = {job}
    Sweep = job
    MaxChanges = 0
INVARIANTS NoDoubleSale
