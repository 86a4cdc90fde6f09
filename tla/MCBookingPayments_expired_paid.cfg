\* The SLA sweep writes over a booking that was confirmed after the sweep had read it.
SPECIFICATION Spec
CONSTANTS
    p1 = p1
    p2 = p2
    Payments <- MCPayments1
    Refunds = {auto}
    AutoRefund = auto
    NoPayment = NoPayment
    Total = 1
    Answers = {"CREATED"}
    CustomerMay = {}
    CallsMayFail = FALSE
    ServerMayStop = FALSE
CHECK_DEADLOCK FALSE
INVARIANTS ExpiredBookingIsNotCharged
