-------------------------- MODULE BookingPayments --------------------------
(***************************************************************************)
(* The payments of one booking while the booking is decided on: payment    *)
(* intents, captures and voids, the provider's webhooks, and what          *)
(* BookingService does to the payment after it has committed a decision.   *)
(* Refunds are those of module Refunds, which this module extends.         *)
(* Sources: PaymentService, BookingService, MySqlPaymentRepository.        *)
(*                                                                         *)
(* A provider call happens between two transactions, and what was read     *)
(* before it is used after it, so a request is a record that remembers how *)
(* far it has come and what it has read.  The provider and the customer at *)
(* the provider's form (intent, sent) are external.                        *)
(***************************************************************************)
EXTENDS Refunds

CONSTANTS
    AutoRefund,   \* the idempotency key "auto-refund:booking:<id>"
    Answers,      \* what the provider may answer to a new intent: CREATED for
                  \* Stripe, the others for the local provider
    CustomerMay   \* what can happen at the provider besides paying:
                  \* "challenge", "decline", "lapse" (an authorisation expires)

ASSUME AutoRefundAssumption == AutoRefund \in Refunds
ASSUME AnswersAssumption ==
    /\ Answers \subseteq {"CREATED", "PROCESSING", "AUTHORIZED", "FAILED"}
    /\ CustomerMay \subseteq {"challenge", "decline", "lapse"}
\* An event is about a payment or about a refund.
ASSUME EventsAssumption == Payments \cap Refunds = {}

VARIABLES
    booking,  \* bookings.status_id
    confirmed,\* booking_status_history has a row with CONFIRMED
    slaBatch, \* an SLA sweep under way has read the booking as pending
    creating, \* each createPaymentIntent: its stage, the booking status it read
    settling, \* captures and voids in progress (executeCaptureOrVoid)
    deciding, \* what a committed confirm or reject has still to look up
    cancel,   \* how far a committed cancellation's payment has come
    intent    \* the provider's own state of each payment

statusVars == <<booking, confirmed, slaBatch>>
bookingVars == <<statusVars, creating, settling, deciding, cancel, intent>>
allVars == <<vars, bookingVars>>

-----------------------------------------------------------------------------

\* MUTANT of PAYMENT_TRANSITIONS: an intent is authorised while it is processed
\* and at no other time.
STRICT_TRANSITIONS ==
    [ CREATED            |-> {"REQUIRES_ACTION", "PROCESSING", "FAILED", "CANCELLED"},
      REQUIRES_ACTION    |-> {"PROCESSING", "CANCELLED", "FAILED"},
      PROCESSING         |-> {"AUTHORIZED", "SUCCEEDED", "FAILED"},
      AUTHORIZED         |-> {"SUCCEEDED", "CANCELLED", "FAILED"},
      SUCCEEDED          |-> {"PARTIALLY_REFUNDED", "REFUNDED"},
      PARTIALLY_REFUNDED |-> {"PARTIALLY_REFUNDED", "REFUNDED"},
      FAILED             |-> {},
      CANCELLED          |-> {},
      REFUNDED           |-> {} ]

PAYMENT_TRANSITIONS ==
    [ CREATED            |-> {"REQUIRES_ACTION", "PROCESSING", "AUTHORIZED",
                              "SUCCEEDED", "FAILED", "CANCELLED"},
      REQUIRES_ACTION    |-> {"PROCESSING", "CANCELLED", "FAILED"},
      PROCESSING         |-> {"AUTHORIZED", "SUCCEEDED", "FAILED"},
      AUTHORIZED         |-> {"SUCCEEDED", "CANCELLED", "FAILED"},
      SUCCEEDED          |-> {"PARTIALLY_REFUNDED", "REFUNDED"},
      PARTIALLY_REFUNDED |-> {"PARTIALLY_REFUNDED", "REFUNDED"},
      FAILED             |-> {},
      CANCELLED          |-> {},
      REFUNDED           |-> {} ]

\* The booking's coarse summary of its payment.
BookingPaymentStatus ==
    [ CREATED |-> "AWAITING_PAYMENT", REQUIRES_ACTION |-> "AWAITING_PAYMENT",
      PROCESSING |-> "AWAITING_PAYMENT", AUTHORIZED |-> "AUTHORIZED_AWAITING_CAPTURE",
      SUCCEEDED |-> "PAID_ONLINE", FAILED |-> "PAYMENT_FAILED",
      CANCELLED |-> "PAYMENT_VOIDED" ]

CancelledStatuses == {"CANCELLED_BY_CUSTOMER", "CANCELLED_BY_VENDOR"}
BookingStatuses ==
    {"PENDING_VENDOR", "CONFIRMED", "REJECTED", "EXPIRED", "COMPLETED", "NO_SHOW"}
        \cup CancelledStatuses

\* The provider's states of an intent; "none" before the call arrives.
IntentStates == {"none", "requires_payment_method", "requires_action", "processing",
                 "requires_capture", "succeeded", "canceled"}

IntentAfter ==
    [ CREATED |-> "requires_payment_method", PROCESSING |-> "processing",
      AUTHORIZED |-> "requires_capture", FAILED |-> "none" ]

Settlements ==
    [origin : {"creation", "webhook", "decision", "cancellation"}, payment : Payments,
     action : {"sync", "capture", "void"}, stage : {"check", "calling", "SUCCEEDED", "CANCELLED"}]

Idle == [stage |-> "NONE", booking |-> "NONE"]
NotCancelled == [stage |-> "NONE", by |-> "NONE", payment |-> NoPayment, amount |-> 0]

PaymentsTypeOK ==
    /\ RefundsTypeOK
    /\ booking \in BookingStatuses
    /\ confirmed \in BOOLEAN /\ slaBatch \in BOOLEAN
    /\ creating \in [Payments -> [stage : {"NONE", "BEGUN", "CALLING", "UNREACHABLE",
                                              "RETURNED", "OVER"}
                                             \cup PaymentStatuses,
                                  booking : BookingStatuses \cup {"NONE"}]]
    /\ settling \subseteq Settlements
    /\ deciding \in {"none", "capture", "void"}
    /\ cancel \in [stage : {"NONE", "AUTHORIZED?", "REFUNDABLE?", "REVIEW", "REFUND",
                            "REFUNDING", "OVER"},
                   by : CancelledStatuses \cup {"NONE"},
                   payment : Payments \cup {NoPayment}, amount : 0..Total]
    /\ intent \in [Payments -> IntentStates]

Init ==
    /\ RefundRowsInit
    /\ payment = [p \in Payments |-> [status |-> "NONE", captured |-> 0, refunded |-> 0]]
    /\ bookingPayment = "UNPAID"
    /\ refundStatus = "NOT_APPLICABLE"
    /\ booking = "PENDING_VENDOR"
    /\ confirmed = FALSE
    /\ slaBatch = FALSE
    /\ creating = [p \in Payments |-> Idle]
    /\ settling = {}
    /\ deciding = "none"
    /\ cancel = NotCancelled
    /\ intent = [p \in Payments |-> "none"]

Active(p) == payment[p].status \notin {"NONE", "FAILED", "CANCELLED", "REFUNDED"}

-----------------------------------------------------------------------------
(* applyProviderResult: the one way a provider's word reaches the payment,  *)
(* in a transaction that has locked its row.                               *)

CanBecome(p, s) == s \in PAYMENT_TRANSITIONS[payment[p].status]

\* MUTANT of ApplyProviderResult: has no booking status for a voided payment.
ApplyProviderResultUnmapped(p, s) ==
    /\ payment' = [payment EXCEPT
          ![p].status = s, ![p].captured = IF s = "SUCCEEDED" THEN Total ELSE @]
    /\ bookingPayment' = IF s = "CANCELLED" THEN s ELSE BookingPaymentStatus[s]

ApplyProviderResult(p, s) ==
    /\ payment' = [payment EXCEPT
          ![p].status = s, ![p].captured = IF s = "SUCCEEDED" THEN Total ELSE @]
    /\ bookingPayment' = BookingPaymentStatus[s]

\* A result that the state machine refuses rolls the transaction back.
ApplyIfAllowed(p, s) ==
    IF CanBecome(p, s) THEN ApplyProviderResult(p, s)
                       ELSE UNCHANGED <<payment, bookingPayment>>

Stage(p, s) == creating' = [creating EXCEPT ![p].stage = s]

Emit(p, s) == sent' = sent \cup {<<p, s>>}

-----------------------------------------------------------------------------
(* createPaymentIntent.                                                     *)

\* getBooking: an ordinary read.
BeginPayment(p) ==
    /\ creating[p] = Idle
    /\ booking \in {"PENDING_VENDOR", "CONFIRMED"}
    /\ creating' = [creating EXCEPT ![p] = [stage |-> "BEGUN", booking |-> booking]]
    /\ UNCHANGED <<vars, statusVars, settling, deciding, cancel, intent>>

\* MUTANT of InsertPayment: a payment whose provider call has not returned does
\* not count as active.
InsertPaymentBesideCreated(p) ==
    /\ creating[p].stage = "BEGUN"
    /\ \A q \in Payments : payment[q].status = "CREATED" \/ ~Active(q)
    /\ payment' = [payment EXCEPT ![p].status = "CREATED"]
    /\ bookingPayment' = "AWAITING_PAYMENT"
    /\ Stage(p, "CALLING")
    /\ UNCHANGED <<sent, seen, refundVars, statusVars, settling, deciding, cancel, intent>>

\* MUTANT of InsertPayment: leaves the booking with the status of the last attempt.
InsertPaymentSilently(p) ==
    /\ creating[p].stage = "BEGUN"
    /\ \A q \in Payments : ~Active(q)
    /\ payment' = [payment EXCEPT ![p].status = "CREATED"]
    /\ Stage(p, "CALLING")
    /\ UNCHANGED <<bookingPayment, sent, seen, refundVars, statusVars, settling, deciding, cancel,
                   intent>>

\* findActiveForBooking holds its lock until the insert has committed.
InsertPayment(p) ==
    /\ creating[p].stage = "BEGUN"
    /\ \A q \in Payments : ~Active(q)
    /\ payment' = [payment EXCEPT ![p].status = "CREATED"]
    /\ bookingPayment' = "AWAITING_PAYMENT"
    /\ Stage(p, "CALLING")
    /\ UNCHANGED <<sent, seen, refundVars, statusVars, settling, deciding, cancel, intent>>

ProviderCreatesIntent(p) ==
    /\ creating[p].stage = "CALLING"
    /\ \E s \in Answers :
          /\ intent' = [intent EXCEPT ![p] = IntentAfter[s]]
          /\ Stage(p, s) \/ (CallsMayFail /\ Stage(p, "UNREACHABLE"))
    /\ UNCHANGED <<vars, statusVars, settling, deciding, cancel>>

IntentCallFails(p) ==
    /\ CallsMayFail
    /\ creating[p].stage = "CALLING"
    /\ Stage(p, "UNREACHABLE")
    /\ UNCHANGED <<vars, statusVars, settling, deciding, cancel, intent>>

MarkUnreachable(p) ==
    /\ creating[p].stage = "UNREACHABLE"
    /\ ApplyIfAllowed(p, "FAILED")
    /\ Stage(p, "OVER")
    /\ UNCHANGED <<sent, seen, refundVars, statusVars, settling, deciding, cancel, intent>>

\* The booking status that decides on an immediate capture is the one that
\* getBooking read.
StoreAnswer(p) ==
    /\ creating[p].stage \in Answers
    /\ IF creating[p].stage = payment[p].status
       THEN UNCHANGED <<payment, bookingPayment>>
       ELSE ApplyIfAllowed(p, creating[p].stage)
    /\ settling' = IF creating[p].stage = "AUTHORIZED" /\ creating[p].booking = "CONFIRMED"
                   THEN settling \cup {[origin |-> "creation", payment |-> p,
                                        action |-> "capture", stage |-> "check"]}
                   ELSE settling
    /\ Stage(p, "RETURNED")
    /\ UNCHANGED <<sent, seen, refundVars, statusVars, deciding, cancel, intent>>

-----------------------------------------------------------------------------
(* External: the customer at the provider's form, and the provider.         *)

\* The customer has the client secret, and getPayment gives it again.
ProviderMoves(p, from, to, s) ==
    /\ creating[p].stage = "RETURNED"
    /\ intent[p] \in from
    /\ intent' = [intent EXCEPT ![p] = to]
    /\ Emit(p, s)
    /\ UNCHANGED <<payment, bookingPayment, seen, refundVars, statusVars, creating, settling,
                   deciding, cancel>>

CustomerPays(p) ==
    ProviderMoves(p, {"requires_payment_method", "requires_action"}, "requires_capture",
                  "AUTHORIZED")

CustomerIsChallenged(p) ==
    /\ "challenge" \in CustomerMay
    /\ ProviderMoves(p, {"requires_payment_method"}, "requires_action", "REQUIRES_ACTION")

\* A declined intent can be paid again with the same client secret.
CardIsDeclined(p) ==
    /\ "decline" \in CustomerMay /\ <<p, "FAILED">> \notin sent
    /\ ProviderMoves(p, {"requires_payment_method", "requires_action"},
                     "requires_payment_method", "FAILED")

\* The local provider's settlement job.
ProcessingSettles(p) == ProviderMoves(p, {"processing"}, "requires_capture", "AUTHORIZED")

AuthorisationLapses(p) ==
    /\ "lapse" \in CustomerMay
    /\ ProviderMoves(p, {"requires_capture"}, "canceled", "CANCELLED")

-----------------------------------------------------------------------------
(* handleProviderWebhook, and the capture or void that follows from it.     *)

Settlement(origin, p, action) ==
    [origin |-> origin, payment |-> p, action |-> action, stage |-> "check"]

PaymentWebhook(p, s) ==
    /\ <<p, s>> \in sent \ seen
    /\ seen' = seen \cup {<<p, s>>}
    /\ ApplyIfAllowed(p, s)
    /\ settling' = IF s = "AUTHORIZED" /\ (CanBecome(p, s) \/ payment[p].status = s)
                   THEN settling \cup {Settlement("webhook", p, "sync")}
                   ELSE settling
    /\ UNCHANGED <<sent, refundVars, statusVars, creating, deciding, cancel, intent>>

Ends(t) == settling' = settling \ {t}
Becomes(t, u) == settling' = (settling \ {t}) \cup {u}

\* MUTANT of SyncPaymentWithBookingDecision: captures unless the booking is off.
SyncCapturesPending(t) ==
    /\ t.action = "sync"
    /\ \/ /\ booking \in {"PENDING_VENDOR", "CONFIRMED"}
          /\ Becomes(t, [t EXCEPT !.action = "capture"])
       \/ /\ booking \in {"REJECTED", "EXPIRED"} \cup CancelledStatuses
          /\ Becomes(t, [t EXCEPT !.action = "void"])
       \/ /\ booking \in {"COMPLETED", "NO_SHOW"}
          /\ Ends(t)
    /\ UNCHANGED <<vars, statusVars, creating, deciding, cancel, intent>>

\* MUTANT of SyncPaymentWithBookingDecision: leaves captures to confirmBooking.
SyncVoidsOnly(t) ==
    /\ t.action = "sync"
    /\ \/ /\ booking \in {"REJECTED", "EXPIRED"} \cup CancelledStatuses
          /\ Becomes(t, [t EXCEPT !.action = "void"])
       \/ /\ booking \in {"PENDING_VENDOR", "CONFIRMED", "COMPLETED", "NO_SHOW"}
          /\ Ends(t)
    /\ UNCHANGED <<vars, statusVars, creating, deciding, cancel, intent>>

\* MUTANT of SyncPaymentWithBookingDecision: leaves voids to rejectBooking.
SyncCapturesOnly(t) ==
    /\ t.action = "sync"
    /\ \/ /\ booking = "CONFIRMED"
          /\ Becomes(t, [t EXCEPT !.action = "capture"])
       \/ /\ booking # "CONFIRMED"
          /\ Ends(t)
    /\ UNCHANGED <<vars, statusVars, creating, deciding, cancel, intent>>

\* An ordinary read of the booking's status.
SyncPaymentWithBookingDecision(t) ==
    /\ t.action = "sync"
    /\ \/ /\ booking = "CONFIRMED"
          /\ Becomes(t, [t EXCEPT !.action = "capture"])
       \/ /\ booking \in {"REJECTED", "EXPIRED"} \cup CancelledStatuses
          /\ Becomes(t, [t EXCEPT !.action = "void"])
       \/ /\ booking \in {"PENDING_VENDOR", "COMPLETED", "NO_SHOW"}
          /\ Ends(t)
    /\ UNCHANGED <<vars, statusVars, creating, deciding, cancel, intent>>

-----------------------------------------------------------------------------
(* executeCaptureOrVoid.                                                    *)

CheckAuthorized(t) ==
    /\ t.action # "sync" /\ t.stage = "check"
    /\ IF payment[t.payment].status = "AUTHORIZED"
       THEN Becomes(t, [t EXCEPT !.stage = "calling"])
       ELSE Ends(t)
    /\ UNCHANGED <<vars, statusVars, creating, deciding, cancel, intent>>

\* The provider's state, and this application's name for it, after an action.
Target(action) == IF action = "capture" THEN "succeeded" ELSE "canceled"
Outcome(action) == IF action = "capture" THEN "SUCCEEDED" ELSE "CANCELLED"

\* MUTANT of ProviderSettles: a void waits for the authorisation to lapse.
ProviderCapturesOnly(t) ==
    /\ t.stage = "calling" /\ t.action = "capture"
    /\ intent[t.payment] = "requires_capture"
    /\ intent' = [intent EXCEPT ![t.payment] = Target(t.action)]
    /\ Emit(t.payment, Outcome(t.action))
    /\ Becomes(t, [t EXCEPT !.stage = Outcome(t.action)]) \/ (CallsMayFail /\ Ends(t))
    /\ UNCHANGED <<payment, bookingPayment, seen, refundVars, statusVars, creating, deciding,
                   cancel>>

ProviderSettles(t) ==
    /\ t.stage = "calling"
    /\ intent[t.payment] = "requires_capture"
    /\ intent' = [intent EXCEPT ![t.payment] = Target(t.action)]
    /\ Emit(t.payment, Outcome(t.action))
    /\ Becomes(t, [t EXCEPT !.stage = Outcome(t.action)]) \/ (CallsMayFail /\ Ends(t))
    /\ UNCHANGED <<payment, bookingPayment, seen, refundVars, statusVars, creating, deciding,
                   cancel>>

\* A repeated capture or void is answered with the state the intent is in.
ProviderRepeats(t) ==
    /\ t.stage = "calling"
    /\ intent[t.payment] = Target(t.action)
    /\ Becomes(t, [t EXCEPT !.stage = Outcome(t.action)])
    /\ UNCHANGED <<vars, statusVars, creating, deciding, cancel, intent>>

\* MUTANT of SettlementFails: takes a call that failed for one that was made.
SettlementFailsAsDone(t) ==
    /\ t.stage = "calling"
    /\ CallsMayFail \/ intent[t.payment] # "requires_capture"
    /\ Becomes(t, [t EXCEPT !.stage = Outcome(t.action)])
    /\ UNCHANGED <<vars, statusVars, creating, deciding, cancel, intent>>

\* The call is refused, or fails: logged, and the payment stays as it is.
SettlementFails(t) ==
    /\ t.stage = "calling"
    /\ CallsMayFail \/ intent[t.payment] # "requires_capture"
    /\ Ends(t)
    /\ UNCHANGED <<vars, statusVars, creating, deciding, cancel, intent>>

StoreSettlement(t) ==
    /\ t.stage \in {"SUCCEEDED", "CANCELLED"}
    /\ ApplyIfAllowed(t.payment, t.stage)
    /\ Ends(t)
    /\ UNCHANGED <<sent, seen, refundVars, statusVars, creating, deciding, cancel, intent>>

-----------------------------------------------------------------------------
(* BookingService: a decision commits first, its payment follows.           *)

AuthorizedPayments == {p \in Payments : payment[p].status = "AUTHORIZED"}
RefundablePayments == {p \in Payments : Refundable(p)}

ConfirmBooking ==
    /\ booking = "PENDING_VENDOR"
    /\ booking' = "CONFIRMED"
    /\ confirmed' = TRUE
    /\ deciding' = "capture"
    /\ UNCHANGED <<vars, slaBatch, creating, settling, cancel, intent>>

RejectBooking ==
    /\ booking = "PENDING_VENDOR"
    /\ booking' = "REJECTED"
    /\ deciding' = "void"
    /\ UNCHANGED <<vars, confirmed, slaBatch, creating, settling, cancel, intent>>

\* completeBooking and markNoShow.
BookingEnds ==
    /\ booking = "CONFIRMED"
    /\ booking' \in {"COMPLETED", "NO_SHOW"}
    /\ UNCHANGED <<vars, confirmed, slaBatch, creating, settling, deciding, cancel, intent>>

\* findPendingVendorPastSla, an ordinary read of the sweep's batch.
SlaSweepReads ==
    /\ booking = "PENDING_VENDOR"
    /\ slaBatch' = TRUE
    /\ UNCHANGED <<vars, booking, confirmed, creating, settling, deciding, cancel, intent>>

\* applyTransition validates the status that was read and updates whatever the
\* booking has become.  The sweep looks at no payment.
SlaSweepExpires ==
    /\ slaBatch
    /\ booking' = "EXPIRED"
    /\ slaBatch' = FALSE
    /\ UNCHANGED <<vars, confirmed, creating, settling, deciding, cancel, intent>>

\* findAuthorizedForBooking, an ordinary read.
LookAfterDecision ==
    /\ deciding # "none"
    /\ \/ \E p \in AuthorizedPayments :
             settling' = settling \cup {Settlement("decision", p, deciding)}
       \/ /\ AuthorizedPayments = {}
          /\ UNCHANGED settling
    /\ deciding' = "none"
    /\ UNCHANGED <<vars, statusVars, creating, cancel, intent>>

CancelBooking ==
    /\ booking = "CONFIRMED"
    /\ booking' \in CancelledStatuses
    /\ cancel' = [cancel EXCEPT !.stage = "AUTHORIZED?", !.by = booking']
    /\ UNCHANGED <<vars, confirmed, slaBatch, creating, settling, deciding, intent>>

CancelStage(s) == cancel' = [cancel EXCEPT !.stage = s]

CancelLooksForAuthorized ==
    /\ cancel.stage = "AUTHORIZED?"
    /\ \/ \E p \in AuthorizedPayments :
             /\ settling' = settling \cup {Settlement("cancellation", p, "void")}
             /\ CancelStage("OVER")
       \/ /\ AuthorizedPayments = {}
          /\ CancelStage("REFUNDABLE?")
          /\ UNCHANGED settling
    /\ UNCHANGED <<vars, statusVars, creating, deciding, intent>>

\* The refundable balance is computed from this read.
CancelLooksForRefundable ==
    /\ cancel.stage = "REFUNDABLE?"
    /\ \/ /\ RefundablePayments = {}
          /\ CancelStage("OVER")
       \/ /\ RefundablePayments # {}
          /\ cancel.by = "CANCELLED_BY_CUSTOMER"
          /\ CancelStage("REVIEW")
       \/ /\ cancel.by = "CANCELLED_BY_VENDOR"
          /\ \E p \in RefundablePayments :
                cancel' = [cancel EXCEPT
                    !.stage = "REFUND", !.payment = p,
                    !.amount = payment[p].captured - payment[p].refunded]
    /\ UNCHANGED <<vars, statusVars, creating, settling, deciding, intent>>

WriteRefundStatus(s) ==
    /\ refundStatus' = s
    /\ CancelStage("OVER")
    /\ UNCHANGED <<payment, bookingPayment, sent, seen, refund, request, issued, atProvider,
                   statusVars, creating, settling, deciding, intent>>

CancellationNeedsReview ==
    /\ cancel.stage = "REVIEW"
    /\ WriteRefundStatus("REQUIRES_MANUAL_REVIEW")

AutoRefundStarts ==
    /\ cancel.stage = "REFUND"
    /\ StartRefund(AutoRefund, cancel.payment, cancel.amount)
    /\ CancelStage("REFUNDING")
    /\ UNCHANGED <<statusVars, creating, settling, deciding, intent>>

\* executeRefund refuses: the balance has changed since it was read.
AutoRefundRefused ==
    /\ cancel.stage = "REFUND"
    /\ LET p == cancel.payment
       IN  \/ ~Refundable(p)
           \/ cancel.amount \notin 1..(payment[p].captured - payment[p].refunded)
    /\ WriteRefundStatus("REFUND_FAILED")

AutoRefundEnds ==
    /\ cancel.stage = "REFUNDING"
    /\ \/ /\ request[AutoRefund] = "RETURNED"
          /\ WriteRefundStatus("AUTO_REFUNDED")
       \/ /\ request[AutoRefund] = "THREW"
          /\ WriteRefundStatus("REFUND_FAILED")

-----------------------------------------------------------------------------

CreatingInMemory ==
    {p \in Payments : creating[p].stage \in {"BEGUN", "CALLING", "UNREACHABLE"} \cup Answers}

\* The server stops: what its requests had in memory is gone.
ServerStops ==
    /\ ServerMayStop
    /\ creating' = [p \in Payments |-> IF p \in CreatingInMemory
                                       THEN [creating[p] EXCEPT !.stage = "OVER"]
                                       ELSE creating[p]]
    /\ settling' = {}
    /\ deciding' = "none"
    /\ cancel' = IF cancel.stage = "NONE" THEN cancel ELSE [cancel EXCEPT !.stage = "OVER"]
    /\ slaBatch' = FALSE
    /\ RefundRequestsStop
    /\ UNCHANGED <<payment, bookingPayment, refundStatus, refund, issued, sent, seen,
                   atProvider, booking, confirmed, intent>>

PaymentRequestStep(p) ==
    \/ InsertPayment(p) \/ ProviderCreatesIntent(p) \/ IntentCallFails(p)
    \/ MarkUnreachable(p) \/ StoreAnswer(p)

CustomerStep(p) ==
    \/ BeginPayment(p) \/ CustomerPays(p) \/ CustomerIsChallenged(p) \/ CardIsDeclined(p)
    \/ AuthorisationLapses(p)

SettlementStep(t) ==
    \/ SyncPaymentWithBookingDecision(t) \/ CheckAuthorized(t) \/ ProviderSettles(t)
    \/ ProviderRepeats(t) \/ SettlementFails(t) \/ StoreSettlement(t)

CancellationStep ==
    \/ CancelLooksForAuthorized \/ CancelLooksForRefundable \/ CancellationNeedsReview
    \/ AutoRefundStarts \/ AutoRefundRefused \/ AutoRefundEnds

DecisionStep ==
    \/ ConfirmBooking \/ RejectBooking \/ CancelBooking \/ BookingEnds
    \/ SlaSweepReads \/ SlaSweepExpires

\* An admin's refund, as in module Refunds.
AdminRefund ==
    \E r \in Refunds \ {AutoRefund}, p \in Payments, n \in 1..Total : StartRefund(r, p, n)

RefundsStep ==
    /\ \/ AdminRefund
       \/ \E r \in Refunds : RefundStep(r)
       \/ \E e \in sent : EventDiesWithServer(e)
       \/ ResolveRefundReviewWithoutRefund
    /\ UNCHANGED bookingVars

Next ==
    \/ \E p \in Payments :
          \/ PaymentRequestStep(p) \/ CustomerStep(p) \/ ProcessingSettles(p)
          \/ \E s \in PaymentStatuses : PaymentWebhook(p, s)
    \/ \E t \in settling : SettlementStep(t)
    \/ DecisionStep \/ LookAfterDecision \/ CancellationStep
    \/ RefundsStep
    \/ ServerStops

Spec == Init /\ [][Next]_allVars

\* A server that does not stop goes on with every request, and the provider
\* delivers every event.  Nobody has to pay, decide, refund or cancel.
Fairness ==
    /\ \A p \in Payments :
          /\ WF_allVars(PaymentRequestStep(p))
          /\ WF_allVars(ProcessingSettles(p))
          /\ \A s \in PaymentStatuses : WF_allVars(PaymentWebhook(p, s))
    /\ \A t \in Settlements : WF_allVars(t \in settling /\ SettlementStep(t))
    /\ WF_allVars(LookAfterDecision)
    /\ WF_allVars(CancellationStep)

FairSpec == Spec /\ Fairness

-----------------------------------------------------------------------------
(* Properties. *)

\* A booking has at most one payment that is not over, although a customer may
\* ask for several at once and findActiveForBooking's caller then leaves its
\* transaction before the provider is called.
OneLivePayment == Cardinality({p \in Payments : Active(p)}) <= 1

\* What the booking says of its payment is what the live payment's row says,
\* whichever request, webhook or refund wrote last.
BookingShowsItsPayment ==
    \A p \in Payments : Active(p) =>
        bookingPayment = IF payment[p].status = "PARTIALLY_REFUNDED"
                         THEN "PARTIALLY_REFUNDED_ONLINE"
                         ELSE BookingPaymentStatus[payment[p].status]

\* Nobody is charged for a booking that its vendor has not confirmed: a capture
\* follows a confirmation, however late the authorisation comes.  (The booking
\* may read EXPIRED meanwhile: see ExpiredBookingIsNotCharged.)
NoChargeBeforeConfirmation ==
    (\E p \in Payments : intent[p] = "succeeded") => confirmed

\* A payment reads as captured or voided only when the provider's intent is,
\* when captures, voids, lapses and reordered events meet.
RowsTellTheTruth ==
    \A p \in Payments :
        /\ payment[p].status \in {"SUCCEEDED", "PARTIALLY_REFUNDED", "REFUNDED"}
              => intent[p] = "succeeded"
        /\ payment[p].status = "CANCELLED" => intent[p] = "canceled"

\* Nothing is under way: no request in memory, no event unseen.
Quiet ==
    /\ \A p \in Payments : creating[p].stage \in {"NONE", "BEGUN", "RETURNED", "OVER"}
    /\ settling = {} /\ deciding = "none"
    /\ cancel.stage \in {"NONE", "OVER"}
    /\ RefundsInMemory = {}
    /\ sent = seen

\* Money held at the provider is on record: its payment reads AUTHORIZED, so
\* that a decision on the booking finds it.
HeldMoneyIsOnRecord ==
    Quiet => \A p \in Payments :
        intent[p] = "requires_capture" => payment[p].status = "AUTHORIZED"

\* When all is quiet a confirmed booking has no authorisation left to capture,
\* whichever of the confirmation and the authorisation came first.
ConfirmedBookingIsCaptured ==
    Quiet /\ booking = "CONFIRMED" => AuthorizedPayments = {}

\* When all is quiet a rejected or cancelled booking holds nobody's money.
DecidedBookingReleasesCard ==
    Quiet /\ booking \in {"REJECTED"} \cup CancelledStatuses => AuthorizedPayments = {}

\* An authorisation on a booking that has been decided on is captured or voided.
AuthorisationsAreSettled ==
    \A p \in Payments :
        /\ payment[p].status = "AUTHORIZED"
        /\ booking \in {"CONFIRMED", "REJECTED"} \cup CancelledStatuses
        ~> payment[p].status # "AUTHORIZED" \/ booking \in {"COMPLETED", "NO_SHOW"}

-----------------------------------------------------------------------------
(* What comments and documents claim and the code does not keep (README, 3). *)

\* One capture or void of a payment runs at a time (comment of
\* executeCaptureOrVoid).
OneSettlementAtATime ==
    \A p \in Payments :
        Cardinality({t \in settling : t.payment = p /\ t.stage = "calling"}) <= 1

\* A cancelled booking whose payment was captured says what becomes of the money
\* (comment in cancelBooking).
CancelledBookingHasRefundStatus ==
    /\ Quiet
    /\ booking \in CancelledStatuses
    /\ \E p \in Payments : payment[p].status = "SUCCEEDED"
    => refundStatus # "NOT_APPLICABLE"

\* An expired booking's authorisation is voided (docs/BOOKING_ENGINE_ARCHITECTURE.md).
ExpiredBookingReleasesCard ==
    Quiet /\ booking = "EXPIRED" => AuthorizedPayments = {}

\* A booking whose payment was captured does not read EXPIRED: CONFIRMED has no
\* transition to it (TRANSITIONS of bookingStatusTransitions.js).
ExpiredBookingIsNotCharged ==
    booking = "EXPIRED" => \A p \in Payments : intent[p] # "succeeded"

\* AUTO_REFUNDED means that the money went back.
AutoRefundedIsRefunded ==
    Quiet /\ refundStatus = "AUTO_REFUNDED" => refund[AutoRefund].status = "SUCCEEDED"
=============================================================================
