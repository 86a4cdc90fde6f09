\* Every call arrives and is answered: who decides first does not matter.  An admin may refund as well.
SPECIFICATION FairSpec
CONSTANTS
    p1 = p1
    p2 = p2
    Payments <- MCPayments1
    Refunds = {auto, r1}
    AutoRefund = auto
    NoPayment = NoPayment
    Total = 2
    Answers = {"CREATED"}
    CustomerMay = {"lapse"}
    CallsMayFail = FALSE
    ServerMayStop = FALSE
CHECK_DEADLOCK FALSE
INVARIANTS HeldMoneyIsOnRecord ConfirmedBookingIsCaptured DecidedBookingReleasesCard
PROPERTIES AuthorisationsAreSettled
