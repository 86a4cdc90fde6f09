\* Decisions fall between the SLA sweep's read and its writes; two hold sweeps overlap; under fairness.
SPECIFICATION FairSpec
CONSTANTS
    c1 = c1
    c2 = c2
    c3 = c3
    u1 = u1
    u2 = u2
    Nobody = Nobody
    Dates <- MCOneDate
    Hours <- MCNoHours
    Claims <- MCClaims2
    Users <- MCUsers1
    Bookings = {b1, b2}
    Blocks = {k1}
    Sweepers = {s1, s2}
    Capacity = 2
    Totals = {}
    MaxOffered = 2
    SweepOverlaps = TRUE
INVARIANTS NoLeak StandingBookingIsHeld
PROPERTIES NoClaimChangesHands HoldsEnd PendingBookingsAreDecided
