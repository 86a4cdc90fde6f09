\* One payment; cards are challenged and declined, authorisations lapse, calls fail, the server stops.
SPECIFICATION Spec
CONSTANTS
    p1 = p1
    p2 = p2
    Payments <- MCPayments1
    Refunds = {auto}
    AutoRefund = auto
    NoPayment = NoPayment
    Total = 1
    Answers = {"CREATED", "PROCESSING", "AUTHORIZED", "FAILED"}
    CustomerMay = {"challenge", "decline", "lapse"}
    CallsMayFail = TRUE
    ServerMayStop = TRUE
CHECK_DEADLOCK FALSE
INVARIANTS PaymentsTypeOK NoChargeBeforeConfirmation RowsTellTheTruth
