\* Two attempts at paying one booking, the first of which may fail.
SPECIFICATION Spec
CONSTANTS
    p1 = p1
    p2 = p2
    Payments <- MCPayments2
    Refunds = {auto}
    AutoRefund = auto
    NoPayment = NoPayment
    Total = 1
    Answers = {"CREATED", "FAILED"}
    CustomerMay = {"decline"}
    CallsMayFail = FALSE
    ServerMayStop = FALSE
CHECK_DEADLOCK FALSE
SYMMETRY MCSymmetry
INVARIANTS OneLivePayment BookingShowsItsPayment
