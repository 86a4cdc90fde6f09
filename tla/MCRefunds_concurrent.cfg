\* Three refunds of one payment at once, with failing calls and a server that stops.
SPECIFICATION RefundsSpec
CONSTANTS
    r1 = r1
    r2 = r2
    r3 = r3
    Payments = {p1}
    NoPayment = NoPayment
    Refunds <- MCRefunds3
    Total = 3
    CallsMayFail = TRUE
    ServerMayStop = TRUE
CHECK_DEADLOCK FALSE
SYMMETRY MCSymmetry
INVARIANTS RefundsTypeOK ReservationsMatch NeverOverRefunded LedgerMatchesRefunds KnownRefundTellsTheTruth ReviewClosedByMoney
