\* An authorisation that follows a challenge is refused.
SPECIFICATION Spec
CONSTANTS
    p1 = p1
    p2 = p2
    Payments <- MCPayments1
    Refunds = {auto}
    AutoRefund = auto
    NoPayment = NoPayment
    Total = 1
    Answers = {"CREATED"}
    CustomerMay = {"challenge"}
    CallsMayFail = FALSE
    ServerMayStop = FALSE
CHECK_DEADLOCK FALSE
INVARIANTS HeldMoneyIsOnRecord
