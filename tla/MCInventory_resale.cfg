\* The SLA sweep gives the capacity of a rejected booking back a second time.
SPECIFICATION Spec
CONSTANTS
    c1 = c1
    c2 = c2
    c3 = c3
    u1 = u1
    u2 = u2
    Nobody = Nobody
    Dates <- MCOneDate
    Hours <- MCNoHours
    Claims <- MCClaims2
    Users <- MCUsers1
    Bookings = {b1}
    Blocks = {}
    Sweepers = {s1}
    Capacity = 2
    Totals = {}
    MaxOffered = 2
    SweepOverlaps = TRUE
INVARIANTS NoDoubleSale
