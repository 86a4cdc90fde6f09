------------------------------ MODULE Refunds ------------------------------
(***************************************************************************)
(* Refunds of the payments of one booking: executeRefund, its two short    *)
(* transactions with the provider's call between them, the provider's      *)
(* webhooks and the admin who closes a refund review.  Sources:            *)
(* PaymentService, MySqlPaymentRepository, BookingService.                 *)
(*                                                                         *)
(* A refund is identified by its idempotency key: createRefund makes one   *)
(* up when the caller gives none, and refunds.idempotency_key is UNIQUE,   *)
(* so a key has at most one row, and a repeated request returns that row.  *)
(*                                                                         *)
(* A transaction locks the rows it reads and is one action; the provider's *)
(* side (atProvider, sent) is external.                                    *)
(***************************************************************************)
EXTENDS Integers, FiniteSets

CONSTANTS
    Payments,      \* the attempts at paying the booking
    Refunds,       \* idempotency keys of refunds
    Total,         \* the booking's total
    NoPayment,     \* the payment of a refund that does not exist
    CallsMayFail,  \* may a provider call fail in transport, or its answer?
    ServerMayStop  \* may the server stop between two steps of a request?

ASSUME RefundsAssumption == IsFiniteSet(Refunds) /\ NoPayment \notin Payments
ASSUME TotalAssumption == Total \in Nat \ {0}
ASSUME EnvironmentAssumption == CallsMayFail \in BOOLEAN /\ ServerMayStop \in BOOLEAN

VARIABLES
    payment,        \* payments rows: status, captured_amount, refunded_amount
    bookingPayment, \* bookings.payment_status_id
    refundStatus,   \* bookings.refund_status
    refund,         \* refunds rows; known: provider_refund_id is stored
    request,        \* how far each executeRefund has come
    issued,         \* REFUND_ISSUED entries of the money ledger, per refund
    sent,           \* webhook events the provider emits
    seen,           \* payment_provider_events: events that have their row
    atProvider      \* the provider's own state of each refund

refundVars == <<refundStatus, refund, request, issued, atProvider>>
vars == <<payment, bookingPayment, sent, seen, refundVars>>

-----------------------------------------------------------------------------

PaymentStatuses ==
    {"CREATED", "REQUIRES_ACTION", "PROCESSING", "AUTHORIZED", "SUCCEEDED",
     "FAILED", "CANCELLED", "PARTIALLY_REFUNDED", "REFUNDED"}

PaymentRecords ==
    [status : PaymentStatuses \cup {"NONE"}, captured : Int, refunded : Int]

REFUND_TRANSITIONS ==
    [ CREATED    |-> {"PROCESSING", "SUCCEEDED", "FAILED", "CANCELLED"},
      PROCESSING |-> {"SUCCEEDED", "FAILED"},
      SUCCEEDED  |-> {},
      FAILED     |-> {},
      CANCELLED  |-> {} ]

\* What the provider's refund statuses are normalised to.
Outcomes == {"SUCCEEDED", "PROCESSING", "FAILED"}

\* The stages of executeRefund: none yet or refused; its row is committed and
\* the provider is being called; the provider's answer, or its absence, is in
\* memory; it has returned, thrown, or died with the server.
Stages == {"NONE", "CALLING", "UNREACHABLE", "RETURNED", "THREW", "GONE"} \cup Outcomes

RefundStatuses ==
    {"NOT_APPLICABLE", "REQUIRES_MANUAL_REVIEW", "AUTO_REFUNDED",
     "REFUND_FAILED", "MANUALLY_REFUNDED", "RESOLVED_NO_REFUND"}

BookingPaymentStatuses ==
    {"UNPAID", "AWAITING_PAYMENT", "AUTHORIZED_AWAITING_CAPTURE", "PAID_ONLINE",
     "PAYMENT_FAILED", "PAYMENT_VOIDED", "PARTIALLY_REFUNDED_ONLINE",
     "REFUNDED_ONLINE"}

NoRefund == [status |-> "NONE", payment |-> NoPayment, amount |-> 0, known |-> FALSE]

RefundRecords ==
    [status : DOMAIN REFUND_TRANSITIONS \cup {"NONE"},
     payment : Payments \cup {NoPayment}, amount : 0..Total, known : BOOLEAN]

RefundsTypeOK ==
    /\ payment \in [Payments -> PaymentRecords]
    /\ bookingPayment \in BookingPaymentStatuses
    /\ refundStatus \in RefundStatuses
    /\ refund \in [Refunds -> RefundRecords]
    /\ request \in [Refunds -> Stages]
    /\ issued \in [Refunds -> Nat]
    /\ atProvider \in [Refunds -> Outcomes \cup {"NONE"}]

RefundRowsInit ==
    /\ refund = [r \in Refunds |-> NoRefund]
    /\ request = [r \in Refunds |-> "NONE"]
    /\ issued = [r \in Refunds |-> 0]
    /\ atProvider = [r \in Refunds |-> "NONE"]
    /\ sent = {} /\ seen = {}

\* A booking whose last payment attempt was captured; the customer may have
\* cancelled it.
RefundsInit ==
    /\ RefundRowsInit
    /\ \E p \in Payments :
          payment = [q \in Payments |->
              IF q = p THEN [status |-> "SUCCEEDED", captured |-> Total, refunded |-> 0]
                       ELSE [status |-> "FAILED", captured |-> 0, refunded |-> 0]]
    /\ bookingPayment = "PAID_ONLINE"
    /\ refundStatus \in {"NOT_APPLICABLE", "REQUIRES_MANUAL_REVIEW"}

\* The units of money that the refunds R of payment p stand for.
Units(R, p) ==
    {u \in R \X (1..Total) : refund[u[1]].payment = p /\ u[2] <= refund[u[1]].amount}
Amount(R, p) == Cardinality(Units(R, p))

InStatus(S) == {r \in Refunds : refund[r].status \in S}

-----------------------------------------------------------------------------
(* executeRefund: validate and reserve, call the provider, finish. *)

Refundable(p) == payment[p].status \in {"SUCCEEDED", "PARTIALLY_REFUNDED"}

\* MUTANT of StartRefund: checks against what was captured, not against what
\* is left of it.
StartRefundUnreserved(r, p, n) ==
    /\ refund[r] = NoRefund
    /\ Refundable(p)
    /\ 0 < n /\ n <= payment[p].captured
    /\ payment' = [payment EXCEPT ![p].refunded = @ + n]
    /\ refund' = [refund EXCEPT ![r] =
          [status |-> "CREATED", payment |-> p, amount |-> n, known |-> FALSE]]
    /\ request' = [request EXCEPT ![r] = "CALLING"]
    /\ UNCHANGED <<bookingPayment, refundStatus, issued, sent, seen, atProvider>>

\* MUTANT of StartRefund: closes the review before the money moves.
StartRefundClosingReview(r, p, n) ==
    /\ refund[r] = NoRefund
    /\ Refundable(p)
    /\ 0 < n /\ n <= payment[p].captured - payment[p].refunded
    /\ payment' = [payment EXCEPT ![p].refunded = @ + n]
    /\ refund' = [refund EXCEPT ![r] =
          [status |-> "CREATED", payment |-> p, amount |-> n, known |-> FALSE]]
    /\ refundStatus' = IF refundStatus = "REQUIRES_MANUAL_REVIEW"
                       THEN "MANUALLY_REFUNDED" ELSE refundStatus
    /\ request' = [request EXCEPT ![r] = "CALLING"]
    /\ UNCHANGED <<bookingPayment, issued, sent, seen, atProvider>>

StartRefund(r, p, n) ==
    /\ refund[r] = NoRefund
    /\ Refundable(p)
    /\ 0 < n /\ n <= payment[p].captured - payment[p].refunded
    /\ payment' = [payment EXCEPT ![p].refunded = @ + n]
    /\ refund' = [refund EXCEPT ![r] =
          [status |-> "CREATED", payment |-> p, amount |-> n, known |-> FALSE]]
    /\ request' = [request EXCEPT ![r] = "CALLING"]
    /\ UNCHANGED <<bookingPayment, refundStatus, issued, sent, seen, atProvider>>

\* The provider does not pay back more than it has taken.
ProviderAccepts(r) ==
    LET p == refund[r].payment
        paid == {q \in Refunds : atProvider[q] \in {"SUCCEEDED", "PROCESSING"}}
    IN  Amount(paid, p) + refund[r].amount <= Total

ProviderRefunds(r) ==
    /\ request[r] = "CALLING"
    /\ ProviderAccepts(r)
    /\ \E s \in Outcomes :
          /\ atProvider' = [atProvider EXCEPT ![r] = s]
          /\ sent' = sent \cup {<<r, s>>}
          /\ \E answer \in {s} \cup (IF CallsMayFail THEN {"UNREACHABLE"} ELSE {}) :
                request' = [request EXCEPT ![r] = answer]
    /\ UNCHANGED <<payment, bookingPayment, refundStatus, refund, issued, seen>>

\* The call is refused, or never arrives.
RefundCallFails(r) ==
    /\ request[r] = "CALLING"
    /\ CallsMayFail \/ ~ProviderAccepts(r)
    /\ request' = [request EXCEPT ![r] = "UNREACHABLE"]
    /\ UNCHANGED <<payment, bookingPayment, refundStatus, refund, issued, sent, seen,
                   atProvider>>

\* Sums refunded_amount, which holds the reservations of other refunds too.
FullyRefunded(p) == payment[p].refunded = payment[p].captured

\* MUTANT of CanApply: a repeated outcome is applied again.
CanApplyAgain(r, s) == s \in REFUND_TRANSITIONS[refund[r].status] \cup {refund[r].status}

CanApply(r, s) == s \in REFUND_TRANSITIONS[refund[r].status]

ReleaseRefundAmount(r) ==
    payment' = [payment EXCEPT ![refund[r].payment].refunded = @ - refund[r].amount]

\* MUTANT of RefundSucceeds: writes the payment's status to the booking.
RefundSucceedsWithPaymentCode(p) ==
    /\ payment' = [payment EXCEPT ![p].status =
          IF FullyRefunded(p) THEN "REFUNDED" ELSE "PARTIALLY_REFUNDED"]
    /\ bookingPayment' = IF FullyRefunded(p) THEN "REFUNDED" ELSE "PARTIALLY_REFUNDED"
    /\ refundStatus' = IF refundStatus = "REQUIRES_MANUAL_REVIEW"
                       THEN "MANUALLY_REFUNDED" ELSE refundStatus

RefundSucceeds(p) ==
    /\ payment' = [payment EXCEPT ![p].status =
          IF FullyRefunded(p) THEN "REFUNDED" ELSE "PARTIALLY_REFUNDED"]
    /\ bookingPayment' =
          IF FullyRefunded(p) THEN "REFUNDED_ONLINE" ELSE "PARTIALLY_REFUNDED_ONLINE"
    /\ refundStatus' = IF refundStatus = "REQUIRES_MANUAL_REVIEW"
                       THEN "MANUALLY_REFUNDED" ELSE refundStatus

\* A webhook and executeRefund's own second transaction share this.
ApplyRefundResult(r, s) ==
    /\ refund' = [refund EXCEPT ![r].status = s, ![r].known = TRUE]
    /\ \/ /\ s = "SUCCEEDED"
          /\ RefundSucceeds(refund[r].payment)
          /\ issued' = [issued EXCEPT ![r] = @ + 1]
       \/ /\ s = "FAILED"
          /\ ReleaseRefundAmount(r)
          /\ UNCHANGED <<bookingPayment, refundStatus, issued>>
       \/ /\ s = "PROCESSING"
          /\ UNCHANGED <<payment, bookingPayment, refundStatus, issued>>

\* MUTANT of FinishRefund: takes a refund the provider has accepted for paid.
FinishRefundOptimistic(r) ==
    /\ request[r] \in Outcomes
    /\ LET s == IF request[r] = "PROCESSING" THEN "SUCCEEDED" ELSE request[r]
       IN  CanApply(r, s) /\ ApplyRefundResult(r, s)
    /\ request' = [request EXCEPT ![r] = "RETURNED"]
    /\ UNCHANGED <<sent, seen, atProvider>>

FinishRefund(r) ==
    /\ request[r] \in Outcomes
    /\ CanApply(r, request[r])
    /\ ApplyRefundResult(r, request[r])
    /\ request' = [request EXCEPT ![r] = "RETURNED"]
    /\ UNCHANGED <<sent, seen, atProvider>>

\* MUTANT of FailRefund: keeps the amount of a refund that failed reserved.
FailRefundKeepingAmount(r) ==
    /\ request[r] = "UNREACHABLE"
    /\ refund' = [refund EXCEPT ![r].status = "FAILED"]
    /\ request' = [request EXCEPT ![r] = "THREW"]
    /\ UNCHANGED <<payment, bookingPayment, refundStatus, issued, sent, seen, atProvider>>

FailRefund(r) ==
    /\ request[r] = "UNREACHABLE"
    /\ ReleaseRefundAmount(r)
    /\ refund' = [refund EXCEPT ![r].status = "FAILED"]
    /\ request' = [request EXCEPT ![r] = "THREW"]
    /\ UNCHANGED <<bookingPayment, refundStatus, issued, sent, seen, atProvider>>

-----------------------------------------------------------------------------
(* Webhooks, the review, and a server that stops. *)

ProviderSettlesRefund(r) ==
    /\ atProvider[r] = "PROCESSING"
    /\ \E s \in {"SUCCEEDED", "FAILED"} :
          /\ atProvider' = [atProvider EXCEPT ![r] = s]
          /\ sent' = sent \cup {<<r, s>>}
    /\ UNCHANGED <<payment, bookingPayment, refundStatus, refund, request, issued, seen>>

\* Events arrive in any order and any number of times; a second delivery finds
\* the row of the first and does nothing.  The row is committed before the
\* event is acted on: an event for an unknown provider_refund_id, one that the
\* state machine refuses, and one whose processing dies with the server are
\* not acted on by any later delivery.
RefundWebhook(r, s) ==
    /\ <<r, s>> \in sent \ seen
    /\ seen' = seen \cup {<<r, s>>}
    /\ IF refund[r].known /\ CanApply(r, s)
       THEN ApplyRefundResult(r, s)
       ELSE UNCHANGED <<payment, bookingPayment, refundStatus, refund, issued>>
    /\ UNCHANGED <<sent, request, atProvider>>

EventDiesWithServer(e) ==
    /\ ServerMayStop
    /\ e \in sent \ seen
    /\ seen' = seen \cup {e}
    /\ UNCHANGED <<payment, bookingPayment, sent, refundVars>>

ResolveRefundReviewWithoutRefund ==
    /\ refundStatus = "REQUIRES_MANUAL_REVIEW"
    /\ refundStatus' = "RESOLVED_NO_REFUND"
    /\ UNCHANGED <<payment, bookingPayment, sent, seen, refund, request, issued, atProvider>>

RefundsInMemory == {r \in Refunds : request[r] \in Outcomes \cup {"CALLING", "UNREACHABLE"}}

RefundRequestsStop ==
    request' = [r \in Refunds |-> IF r \in RefundsInMemory THEN "GONE" ELSE request[r]]

RefundServerStops ==
    /\ ServerMayStop
    /\ RefundsInMemory # {}
    /\ RefundRequestsStop
    /\ UNCHANGED <<payment, bookingPayment, sent, seen, refundStatus, refund, issued,
                   atProvider>>

\* The steps of a refund once somebody has asked for it.
RefundStep(r) ==
    \/ ProviderRefunds(r) \/ RefundCallFails(r)
    \/ FinishRefund(r) \/ FailRefund(r)
    \/ ProviderSettlesRefund(r)
    \/ \E s \in Outcomes : RefundWebhook(r, s)

CreateRefund == \E r \in Refunds, p \in Payments, n \in 1..Total : StartRefund(r, p, n)

RefundsNext ==
    \/ CreateRefund
    \/ \E r \in Refunds : RefundStep(r)
    \/ \E e \in sent : EventDiesWithServer(e)
    \/ ResolveRefundReviewWithoutRefund
    \/ RefundServerStops

RefundsSpec == RefundsInit /\ [][RefundsNext]_vars

\* The server goes on with its requests, the provider answers, settles what is
\* pending, and delivers every event at least once.
RefundsFairness ==
    \A r \in Refunds :
        /\ WF_vars(ProviderRefunds(r)) /\ WF_vars(RefundCallFails(r))
        /\ WF_vars(FinishRefund(r)) /\ WF_vars(FailRefund(r))
        /\ WF_vars(ProviderSettlesRefund(r))
        /\ \A s \in Outcomes : WF_vars(RefundWebhook(r, s))

FairRefundsSpec == RefundsSpec /\ RefundsFairness

-----------------------------------------------------------------------------
(* Properties. *)

\* refunded_amount is what the refunds not given up amount to: a reservation is
\* made once and released once, whichever of the request's second transaction,
\* its error path and the webhooks ends the refund.
ReservationsMatch ==
    \A p \in Payments :
        payment[p].refunded = Amount(InStatus({"CREATED", "PROCESSING", "SUCCEEDED"}), p)

\* However many refunds run at once, what they have reserved together is never
\* more than was captured (and never less than nothing, after releases).
NeverOverRefunded ==
    \A p \in Payments : 0 <= payment[p].refunded /\ payment[p].refunded <= payment[p].captured

\* A refund enters the money ledger when it succeeds and once, although the
\* request and several webhooks may all report the success.
LedgerMatchesRefunds ==
    \A r \in Refunds : issued[r] = IF refund[r].status = "SUCCEEDED" THEN 1 ELSE 0

\* What the row of a refund with a provider_refund_id says of its end is what
\* happened at the provider, in whatever order the answers arrive.
KnownRefundTellsTheTruth ==
    \A r \in Refunds :
        refund[r].known /\ refund[r].status \in {"SUCCEEDED", "FAILED"} =>
            atProvider[r] = refund[r].status

\* A review closed as refunded has seen money go back: a refund that is only
\* reserved, pending or failed leaves it open.
ReviewClosedByMoney ==
    refundStatus = "MANUALLY_REFUNDED" => InStatus({"SUCCEEDED"}) # {}

-----------------------------------------------------------------------------
(* What comments of the code claim and the code does not keep (README, 3).  *)

\* A refund marked FAILED moved no money, so that its amount may be released
\* (comment of reserveRefundAmount).
FailedRefundMovedNothing ==
    \A r \in Refunds : refund[r].status = "FAILED" =>
        atProvider[r] \notin {"PROCESSING", "SUCCEEDED"}

\* A payment that reads REFUNDED has been paid back in full by refunds that
\* succeeded (header of refundStatusTransitions.js).
RefundedMeansPaidBack ==
    \A p \in Payments : payment[p].status = "REFUNDED" =>
        Amount(InStatus({"SUCCEEDED"}), p) = payment[p].captured

\* REFUNDED is terminal (paymentStatusTransitions.js), which is why a new
\* payment may be made beside it.
RefundedIsFinal ==
    [][\A p \in Payments : payment[p].status = "REFUNDED" =>
          payment'[p].status = "REFUNDED"]_vars

\* A refund the provider is still working on is resolved by a later webhook
\* (comment at the end of applyRefundResult).
PendingRefundsAreResolved ==
    \A r \in Refunds : refund[r].status = "PROCESSING" ~> refund[r].status # "PROCESSING"
=============================================================================
