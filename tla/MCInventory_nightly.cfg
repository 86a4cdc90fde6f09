\* Nightly and hourly stays on two dates: a booking, a manual block, saved totals.
SPECIFICATION Spec
CONSTANTS
    c1 = c1
    c2 = c2
    c3 = c3
    u1 = u1
    u2 = u2
    Nobody = Nobody
    Dates <- MCTwoDates
    Hours <- MCOneHour
    Claims <- MCClaims3
    Users <- MCUsers1
    Bookings = {b1}
    Blocks = {k1}
    Sweepers = {s1}
    Capacity = 2
    Totals = {1}
    MaxOffered = 2
    SweepOverlaps = FALSE
SYMMETRY MCSymmetry
INVARIANTS TypeOK LedgerAgrees NoDoubleSale NoOversell AbsentRowIsFree
PROPERTIES ImplementsUnitCapacity
