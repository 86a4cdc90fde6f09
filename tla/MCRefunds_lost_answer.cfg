\* The provider makes a refund whose answer is lost.
SPECIFICATION RefundsSpec
CONSTANTS
    r1 = r1
    r2 = r2
    r3 = r3
    Payments = {p1}
    NoPayment = NoPayment
    Refunds <- MCRefunds2
    Total = 2
    CallsMayFail = TRUE
    ServerMayStop = FALSE
CHECK_DEADLOCK FALSE
SYMMETRY MCSymmetry
INVARIANTS FailedRefundMovedNothing
