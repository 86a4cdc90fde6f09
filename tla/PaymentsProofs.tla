--------------------------- MODULE PaymentsProofs ---------------------------
(***************************************************************************)
(* Proofs about BookingPayments, for every number of attempts and refunds, *)
(* every total and every answer of the provider.                           *)
(*                                                                         *)
(* PaymentsInv is inductive whatever fails.  Its first half, Ledgers, is   *)
(* about what is committed and what the provider knows; its second half,   *)
(* Requests, about what the requests under way remember of it.  From it    *)
(* follow the types, that no charge precedes a confirmation, and that rows *)
(* which read as captured or voided tell the truth.                        *)
(*                                                                         *)
(* LivePaymentInv says that one payment at most is live and that the       *)
(* booking shows it.  It needs refunds that do not overlap: two that do    *)
(* can take a payment out of REFUNDED again, beside a newer one.           *)
(*                                                                         *)
(* RowsFollowIntents and SettlingInv follow an authorisation to its        *)
(* capture or void while provider calls arrive and cards are good.  What   *)
(* happens otherwise is what the runs that expect a violation show.        *)
(***************************************************************************)
EXTENDS BookingPayments, RefundsProofs

Paid == {"SUCCEEDED", "PARTIALLY_REFUNDED", "REFUNDED"}
Open == {"CREATED", "REQUIRES_ACTION", "PROCESSING", "AUTHORIZED"}

USE DEF statusVars

\* What the provider's events say of a payment.
EventStatuses == {"AUTHORIZED", "REQUIRES_ACTION", "FAILED", "SUCCEEDED", "CANCELLED"}

EventsTellTheTruth ==
    \A p \in Payments :
        /\ \A s \in PaymentStatuses : <<p, s>> \in sent => s \in EventStatuses
        /\ <<p, "SUCCEEDED">> \in sent => intent[p] = "succeeded"
        /\ <<p, "CANCELLED">> \in sent => intent[p] = "canceled"

\* Only what was captured is refunded.
RefundsArePaidFor ==
    \A r \in Refunds : refund[r].status # "NONE" => payment[refund[r].payment].status \in Paid

CapturedInRange == \A p \in Payments : payment[p].captured \in 0..Total

\* Two attempts are never open at once: this is findActiveForBooking's lock, and
\* needs nothing of refunds.
OneOpenPayment ==
    \A p, q \in Payments : payment[p].status \in Open /\ payment[q].status \in Open => p = q

\* What is committed, and what is at the provider.
Ledgers ==
    /\ Rows /\ Money /\ CapturedInRange
    /\ intent \in [Payments -> IntentStates]
    /\ EventsTellTheTruth /\ RowsTellTheTruth /\ RefundsArePaidFor /\ OneOpenPayment

CreationStages ==
    {"NONE", "BEGUN", "CALLING", "UNREACHABLE", "RETURNED", "OVER"} \cup Answers

CancelTypes ==
    /\ cancel \in [stage : {"NONE", "AUTHORIZED?", "REFUNDABLE?", "REVIEW", "REFUND",
                            "REFUNDING", "OVER"},
                   by : CancelledStatuses \cup {"NONE"},
                   payment : Payments \cup {NoPayment}, amount : 0..Total]
    /\ cancel.stage = "REFUND" => cancel.payment \in Payments

RequestsTypeOK ==
    /\ booking \in BookingStatuses
    /\ confirmed \in BOOLEAN /\ slaBatch \in BOOLEAN
    /\ creating \in [Payments -> [stage : CreationStages,
                                  booking : BookingStatuses \cup {"NONE"}]]
    /\ settling \subseteq Settlements
    /\ deciding \in {"none", "capture", "void"}
    /\ CancelTypes

\* How far createPaymentIntent has come says what the row, the provider and the
\* other requests can be at.
CreationMatches(p) ==
    /\ creating[p].stage # "RETURNED" =>
          /\ payment[p].status \in {"NONE", "CREATED", "FAILED"}
          /\ \A s \in PaymentStatuses : <<p, s>> \notin sent
          /\ \A t \in settling : t.payment # p
    /\ creating[p].stage = "RETURNED" => payment[p].status # "NONE"
    /\ creating[p].stage \in {"NONE", "BEGUN"} => payment[p].status = "NONE"
    /\ creating[p].stage \in {"NONE", "BEGUN", "CALLING"} => intent[p] = "none"
    /\ creating[p].stage \in {"CALLING", "UNREACHABLE"} \cup Answers =>
          payment[p].status = "CREATED"

\* An answer that executeCaptureOrVoid has not stored yet is still true.
SettlementMatches(t) ==
    /\ t.action = "sync" => t.stage = "check"
    /\ t.stage = "SUCCEEDED" => intent[t.payment] = "succeeded"
    /\ t.stage = "CANCELLED" => intent[t.payment] = "canceled"

\* A booking that reads as confirmed, or as what follows, has been confirmed (the
\* converse is what the SLA sweep breaks), and before a confirmation nobody
\* captures, and nobody will for what he has read.
ChargesAreAgreed ==
    /\ booking \in {"CONFIRMED", "COMPLETED", "NO_SHOW"} \cup CancelledStatuses => confirmed
    /\ \/ confirmed
       \/ /\ deciding # "capture"
          /\ \A t \in settling : t.action # "capture"
          /\ \A p \in Payments : creating[p].booking # "CONFIRMED" /\ intent[p] # "succeeded"

\* What the requests under way remember.
Requests ==
    /\ RequestsTypeOK
    /\ \A p \in Payments : CreationMatches(p)
    /\ \A t \in settling : SettlementMatches(t)
    /\ ChargesAreAgreed

PaymentsInv == Ledgers /\ Requests

-----------------------------------------------------------------------------
(* What is committed and what is at the provider. *)

\* A write to payments and to the booking's summary leaves the refunds as they were.
LEMMA PaymentWriteKeepsRefunds ==
    ASSUME Rows, Money, CapturedInRange, UNCHANGED <<refund, request, issued, atProvider>>,
           refundStatus' \in RefundStatuses,
           refundStatus' = "MANUALLY_REFUNDED" => refundStatus = "MANUALLY_REFUNDED",
           payment' \in [Payments -> PaymentRecords], bookingPayment' \in BookingPaymentStatuses,
           \A p \in Payments : /\ payment'[p].refunded = payment[p].refunded
                               /\ payment'[p].captured \in {payment[p].captured, Total},
           \A r \in Refunds, s \in Final : <<r, s>> \in sent' => <<r, s>> \in sent
    PROVE  Rows' /\ Money' /\ CapturedInRange'
<1>1. RefundsTypeOK'
  BY DEF Rows, RefundsTypeOK
<1>2. ASSUME NEW r \in Refunds PROVE RowMatchesRequest(r)'
  BY DEF Rows, RowMatchesRequest, RefundsInMemory
<1>3. LedgerMatchesRefunds' /\ KnownRefundTellsTheTruth' /\ ReviewClosedByMoney'
  BY DEF Rows, LedgerMatchesRefunds, KnownRefundTellsTheTruth, ReviewClosedByMoney, InStatus
<1>4. ASSUME NEW p \in Payments
      PROVE  /\ payment'[p].captured \in 0..Total
             /\ payment'[p].refunded <= payment'[p].captured
  <2>1. /\ payment[p].captured \in 0..Total /\ payment[p].refunded \in Int
        /\ payment[p].refunded <= payment[p].captured
    BY DEF Rows, RefundsTypeOK, PaymentRecords, Money, CapturedCovers, CapturedInRange
  <2> QED
    BY <2>1, TotalAssumption
<1>5. ASSUME NEW p PROVE Amount(Live, p)' = Amount(Live, p)
  BY AmountKept
<1>6. ReservationsMatch'
  BY <1>5 DEF Money, ReservationsMatch, Live, Counted
<1> QED
  BY <1>1, <1>2, <1>3, <1>4, <1>6 DEF Rows, Money, CapturedCovers, CapturedInRange

LEMMA LedgersKept ==
    ASSUME Ledgers, UNCHANGED <<payment, bookingPayment, refund, request, issued, atProvider,
                                sent, intent>>,
           refundStatus' \in RefundStatuses,
           refundStatus' = "MANUALLY_REFUNDED" => refundStatus = "MANUALLY_REFUNDED"
    PROVE  Ledgers'
<1>1. Rows' /\ Money' /\ CapturedInRange'
  <2>1. payment' \in [Payments -> PaymentRecords] /\ bookingPayment' \in BookingPaymentStatuses
    BY DEF Ledgers, Rows, RefundsTypeOK
  <2> QED
    BY <2>1, PaymentWriteKeepsRefunds DEF Ledgers
<1>2. EventsTellTheTruth' /\ RowsTellTheTruth' /\ RefundsArePaidFor' /\ OneOpenPayment'
  BY DEF Ledgers, EventsTellTheTruth, RowsTellTheTruth, RefundsArePaidFor, OneOpenPayment
<1> QED
  BY <1>1, <1>2 DEF Ledgers

\* The provider moves an intent that is not over, and may say so.
LEMMA ProviderKeepsLedgers ==
    ASSUME Ledgers, NEW p \in Payments, NEW to \in IntentStates, NEW s \in EventStatuses,
           UNCHANGED <<payment, bookingPayment, refundVars>>,
           intent[p] \notin {"succeeded", "canceled"},
           intent' = [intent EXCEPT ![p] = to],
           sent' \in {sent, sent \cup {<<p, s>>}},
           s = "SUCCEEDED" => to = "succeeded", s = "CANCELLED" => to = "canceled"
    PROVE  Ledgers'
<1>1. Rows' /\ Money' /\ CapturedInRange'
  <2>1. payment' \in [Payments -> PaymentRecords] /\ bookingPayment' \in BookingPaymentStatuses
        /\ refundStatus' \in RefundStatuses
    BY DEF Ledgers, Rows, RefundsTypeOK, refundVars
  <2>2. \A r \in Refunds, u \in Final : <<r, u>> \in sent' => <<r, u>> \in sent
    BY EventsAssumption
  <2> QED
    BY <2>1, <2>2, PaymentWriteKeepsRefunds DEF Ledgers, refundVars
<1>2. intent' \in [Payments -> IntentStates]
  BY DEF Ledgers
<1>3. EventsTellTheTruth'
  <2>1. ASSUME NEW q \in Payments, NEW u, <<q, u>> \in sent'
        PROVE  <<q, u>> \in sent \/ (q = p /\ u = s)
    BY <2>1
  <2>2. ASSUME NEW q \in Payments
        PROVE  intent'[q] = intent[q] \/ (q = p /\ intent'[q] = to)
    BY DEF Ledgers
  <2> QED
    BY <2>1, <2>2 DEF Ledgers, EventsTellTheTruth
<1>4. RowsTellTheTruth'
  BY DEF Ledgers, RowsTellTheTruth
<1>5. RefundsArePaidFor' /\ OneOpenPayment'
  BY DEF Ledgers, RefundsArePaidFor, OneOpenPayment, refundVars
<1> QED
  BY <1>1, <1>2, <1>3, <1>4, <1>5 DEF Ledgers

LEMMA InsertKeepsLedgers ==
    ASSUME PaymentsInv, NEW p \in Payments, InsertPayment(p)
    PROVE  Ledgers'
<1>1. /\ payment[p].status = "NONE"
      /\ payment' = [payment EXCEPT ![p].status = "CREATED"]
      /\ payment \in [Payments -> PaymentRecords]
      /\ UNCHANGED <<sent, refundVars, intent>>
      /\ bookingPayment' \in BookingPaymentStatuses
  BY DEF InsertPayment, PaymentsInv, Requests, CreationMatches, Ledgers, Rows, RefundsTypeOK,
     BookingPaymentStatuses
<1>2. /\ payment' \in [Payments -> PaymentRecords]
      /\ \A q \in Payments : /\ payment'[q].refunded = payment[q].refunded
                             /\ payment'[q].captured = payment[q].captured
                             /\ payment'[q].status = IF q = p THEN "CREATED"
                                                     ELSE payment[q].status
  BY <1>1 DEF PaymentRecords, PaymentStatuses
<1>3. Rows' /\ Money' /\ CapturedInRange'
  <2>1. refundStatus' \in RefundStatuses
    BY <1>1 DEF PaymentsInv, Ledgers, Rows, RefundsTypeOK, refundVars
  <2> QED
    BY <1>1, <1>2, <2>1, PaymentWriteKeepsRefunds DEF PaymentsInv, Ledgers, refundVars
<1>4. EventsTellTheTruth' /\ RowsTellTheTruth'
  BY <1>1, <1>2 DEF PaymentsInv, Ledgers, EventsTellTheTruth, RowsTellTheTruth
<1>5. RefundsArePaidFor'
  BY <1>1, <1>2 DEF PaymentsInv, Ledgers, RefundsArePaidFor, refundVars, Rows, RowMatchesRequest,
     Paid
<1>6. OneOpenPayment'
  BY <1>1, <1>2 DEF InsertPayment, Active, OneOpenPayment, Open
<1> QED
  BY <1>1, <1>3, <1>4, <1>5, <1>6 DEF PaymentsInv, Ledgers

\* A provider's word that the state machine allows.
LEMMA ApplyWrites ==
    ASSUME Ledgers, NEW p \in Payments, NEW s \in EventStatuses \cup {"PROCESSING"},
           payment[p].status # "NONE", CanBecome(p, s), ApplyProviderResult(p, s)
    PROVE  /\ payment' \in [Payments -> PaymentRecords]
           /\ bookingPayment' \in BookingPaymentStatuses
           /\ payment[p].status \in Open
           /\ payment'[p].status = s
           /\ payment[p].status = "AUTHORIZED" => s \notin {"AUTHORIZED", "PROCESSING"}
           /\ \A q \in Payments :
                 /\ payment'[q].refunded = payment[q].refunded
                 /\ payment'[q].captured \in {payment[q].captured, Total}
                 /\ q # p => payment'[q] = payment[q]
<1>1. payment \in [Payments -> PaymentRecords]
  BY DEF Ledgers, Rows, RefundsTypeOK
<1>2. payment[p].status \in PaymentStatuses
  BY <1>1 DEF PaymentRecords
<1>3. /\ payment[p].status \in Open
      /\ payment[p].status = "AUTHORIZED" => s \notin {"AUTHORIZED", "PROCESSING"}
  BY <1>2 DEF CanBecome, PAYMENT_TRANSITIONS, PaymentStatuses, Open, EventStatuses
<1>4. bookingPayment' \in BookingPaymentStatuses
  BY DEF ApplyProviderResult, BookingPaymentStatus, BookingPaymentStatuses, EventStatuses
<1>5. /\ payment' \in [Payments -> PaymentRecords]
      /\ payment'[p].status = s
      /\ \A q \in Payments :
            /\ payment'[q].refunded = payment[q].refunded
            /\ payment'[q].captured \in {payment[q].captured, Total}
            /\ q # p => payment'[q] = payment[q]
  <2> DEFINE n == IF s = "SUCCEEDED" THEN Total ELSE payment[p].captured
  <2>1. payment' = [payment EXCEPT ![p].status = s, ![p].captured = n]
    BY <1>1 DEF ApplyProviderResult, PaymentRecords
  <2>2. n \in Int /\ n \in {payment[p].captured, Total} /\ s \in PaymentStatuses
    BY <1>1, TotalAssumption DEF PaymentRecords, PaymentStatuses, EventStatuses
  <2> HIDE DEF n
  <2> QED
    BY <1>1, <2>1, <2>2 DEF PaymentRecords
<1> QED
  BY <1>3, <1>4, <1>5

LEMMA ApplyKeepsLedgers ==
    ASSUME Ledgers, NEW p \in Payments, NEW s \in EventStatuses \cup {"PROCESSING"},
           payment[p].status # "NONE", ApplyIfAllowed(p, s),
           s = "SUCCEEDED" => intent[p] = "succeeded",
           s = "CANCELLED" => intent[p] = "canceled",
           UNCHANGED <<sent, refundVars, intent>>
    PROVE  Ledgers'
<1>1. CASE ~CanBecome(p, s)
  BY <1>1, LedgersKept DEF ApplyIfAllowed, refundVars, Ledgers, Rows, RefundsTypeOK
<1>2. CASE CanBecome(p, s)
  <2>1. ApplyProviderResult(p, s)
    BY <1>2 DEF ApplyIfAllowed
  <2>2. /\ payment' \in [Payments -> PaymentRecords]
        /\ bookingPayment' \in BookingPaymentStatuses
        /\ payment[p].status \in Open /\ payment'[p].status = s
        /\ \A q \in Payments :
              /\ payment'[q].refunded = payment[q].refunded
              /\ payment'[q].captured \in {payment[q].captured, Total}
              /\ q # p => payment'[q] = payment[q]
    BY <1>2, <2>1, ApplyWrites
  <2>3. Rows' /\ Money' /\ CapturedInRange'
    <3>1. refundStatus' \in RefundStatuses
      BY DEF Ledgers, Rows, RefundsTypeOK, refundVars
    <3> QED
      BY <2>2, <3>1, PaymentWriteKeepsRefunds DEF Ledgers, refundVars
  <2>4. EventsTellTheTruth'
    BY DEF Ledgers, EventsTellTheTruth
  <2>5. RowsTellTheTruth'
    BY <2>2 DEF Ledgers, RowsTellTheTruth, EventStatuses
  <2>6. RefundsArePaidFor'
    BY <2>2 DEF Ledgers, RefundsArePaidFor, refundVars, Rows, RowMatchesRequest, Paid, Open
  <2>7. OneOpenPayment'
    BY <2>2 DEF Ledgers, OneOpenPayment
  <2> QED
    BY <2>3, <2>4, <2>5, <2>6, <2>7 DEF Ledgers
<1> QED
  BY <1>1, <1>2

-----------------------------------------------------------------------------
(* Refunds. *)

\* What a step of a refund may do to the payments, and to what refers to them.
RefundWrites ==
    /\ \A p \in Payments :
          /\ payment'[p].captured = payment[p].captured
          /\ payment'[p].status # payment[p].status =>
                payment[p].status \in Paid /\ payment'[p].status \in Paid
          /\ \A s \in PaymentStatuses : <<p, s>> \in sent' <=> <<p, s>> \in sent
    /\ \A r \in Refunds : refund'[r].status # "NONE" =>
          payment[refund'[r].payment].status \in Paid

LEMMA ApplyRefundWrites ==
    ASSUME Rows, RefundsArePaidFor, NEW r \in Refunds, NEW s \in Outcomes,
           refund[r].status # "NONE", CanApply(r, s), ApplyRefundResult(r, s), sent' = sent
    PROVE  RefundWrites
<1>1. /\ refund' = [refund EXCEPT ![r] = [@ EXCEPT !.status = s, !.known = TRUE]]
      /\ refund[r].payment \in Payments
  BY AppliedRow
<1>2. /\ payment \in [Payments -> PaymentRecords] /\ refund \in [Refunds -> RefundRecords]
      /\ refund[r].amount \in Int
  BY TotalAssumption DEF Rows, RefundsTypeOK, RefundRecords
<1>3. ASSUME NEW q \in Refunds, refund'[q].status # "NONE"
      PROVE  refund[q].status # "NONE" /\ refund'[q].payment = refund[q].payment
  BY <1>1, <1>2, <1>3 DEF RefundRecords
<1>4. payment[refund[r].payment].status \in Paid
  BY DEF RefundsArePaidFor
<1>5. ASSUME NEW p \in Payments
      PROVE  /\ payment'[p].captured = payment[p].captured
             /\ payment'[p].status # payment[p].status =>
                   payment[p].status \in Paid /\ payment'[p].status \in Paid
  <2>1. CASE s = "SUCCEEDED"
    BY <1>1, <1>2, <1>4, <2>1 DEF ApplyRefundResult, RefundSucceeds, Paid, PaymentRecords
  <2>2. CASE s = "FAILED"
    BY <1>1, <1>2, <2>2 DEF ApplyRefundResult, ReleaseRefundAmount, PaymentRecords
  <2>3. CASE s = "PROCESSING"
    BY <2>3 DEF ApplyRefundResult
  <2> QED
    BY <2>1, <2>2, <2>3 DEF Outcomes
<1> QED
  BY <1>3, <1>5 DEF RefundWrites, RefundsArePaidFor

LEMMA StartWrites ==
    ASSUME Rows, RefundsArePaidFor, NEW r \in Refunds, NEW p \in Payments, NEW n \in 1..Total,
           StartRefund(r, p, n)
    PROVE  RefundWrites
<1>1. /\ payment \in [Payments -> PaymentRecords] /\ refund \in [Refunds -> RefundRecords]
      /\ n \in Int /\ payment[p].status \in Paid /\ sent' = sent
  BY TotalAssumption DEF Rows, RefundsTypeOK, StartRefund, Refundable, Paid
<1>2. ASSUME NEW q \in Payments
      PROVE  payment'[q].captured = payment[q].captured /\ payment'[q].status = payment[q].status
  BY <1>1 DEF StartRefund, PaymentRecords
<1>3. ASSUME NEW q \in Refunds, refund'[q].status # "NONE"
      PROVE  payment[refund'[q].payment].status \in Paid
  BY <1>1, <1>3 DEF StartRefund, RefundsArePaidFor
<1> QED
  BY <1>1, <1>2, <1>3 DEF RefundWrites

LEMMA FailWrites ==
    ASSUME Rows, RefundsArePaidFor, NEW r \in Refunds, FailRefund(r)
    PROVE  RefundWrites
<1>1. /\ payment \in [Payments -> PaymentRecords] /\ refund \in [Refunds -> RefundRecords]
      /\ refund[r].amount \in Int /\ refund[r].status = "CREATED" /\ sent' = sent
  BY TotalAssumption DEF Rows, RefundsTypeOK, RefundRecords, RowMatchesRequest, RefundsInMemory,
     FailRefund
<1>2. ASSUME NEW q \in Payments
      PROVE  payment'[q].captured = payment[q].captured /\ payment'[q].status = payment[q].status
  BY <1>1 DEF FailRefund, ReleaseRefundAmount, PaymentRecords
<1>3. ASSUME NEW q \in Refunds, refund'[q].status # "NONE"
      PROVE  refund[q].status # "NONE" /\ refund'[q].payment = refund[q].payment
  BY <1>1, <1>3 DEF FailRefund, RefundRecords
<1> QED
  BY <1>1, <1>2, <1>3 DEF RefundWrites, RefundsArePaidFor

\* The provider's steps of a refund, and those that leave everything here alone.
LEMMA ElsewhereWrites ==
    ASSUME RefundsArePaidFor, UNCHANGED <<payment, refund>>,
           \/ sent' = sent
           \/ \E r \in Refunds, s \in Outcomes : sent' = sent \cup {<<r, s>>}
    PROVE  RefundWrites
BY EventsAssumption DEF RefundWrites, RefundsArePaidFor

LEMMA RefundsNextWrites ==
    ASSUME Rows, RefundsArePaidFor, [RefundsNext]_vars
    PROVE  RefundWrites
BY RefundsCases, StartWrites, ApplyRefundWrites, FailWrites, ElsewhereWrites

LEMMA RefundsKeepLedgers ==
    ASSUME Ledgers, [RefundsNext]_vars, intent' = intent
    PROVE  Ledgers' /\ RefundWrites
<1>1. Rows' /\ Money'
  BY RowsStep, MoneyStep DEF Ledgers
<1>2. RefundWrites
  BY RefundsNextWrites DEF Ledgers
<1>3. CapturedInRange' /\ OneOpenPayment'
  BY <1>2 DEF Ledgers, RefundWrites, CapturedInRange, OneOpenPayment, Paid, Open
<1>4. EventsTellTheTruth'
  BY <1>2 DEF Ledgers, RefundWrites, EventsTellTheTruth, PaymentStatuses
<1>5. RowsTellTheTruth'
  BY <1>2 DEF Ledgers, RefundWrites, RowsTellTheTruth, Paid
<1>6. RefundsArePaidFor'
  BY <1>1, <1>2 DEF RefundWrites, RefundsArePaidFor, Rows, RowMatchesRequest
<1> QED
  BY <1>1, <1>2, <1>3, <1>4, <1>5, <1>6 DEF Ledgers

-----------------------------------------------------------------------------
(* What requests hold in memory. *)

\* Steps that change no request but the cancellation's.
LEMMA RefundsKeepRequests ==
    ASSUME PaymentsInv, RefundWrites, CancelTypes',
           UNCHANGED <<statusVars, creating, settling, deciding, intent>>
    PROVE  Requests'
<1>1. RequestsTypeOK'
  BY DEF PaymentsInv, Requests, RequestsTypeOK, CancelTypes
<1>2. ASSUME NEW p \in Payments PROVE CreationMatches(p)'
  <2>1. CreationMatches(p)
    BY DEF PaymentsInv, Requests
  <2>2. payment'[p].status # payment[p].status =>
           payment[p].status \in Paid /\ payment'[p].status \in Paid
    BY DEF RefundWrites
  <2>3. \A s \in PaymentStatuses : <<p, s>> \in sent' <=> <<p, s>> \in sent
    BY DEF RefundWrites
  <2> QED
    BY <2>1, <2>2, <2>3 DEF CreationMatches, Paid
<1>3. \A t \in settling' : SettlementMatches(t)'
  BY DEF PaymentsInv, Requests, SettlementMatches
<1>4. ChargesAreAgreed'
  BY DEF PaymentsInv, Requests, ChargesAreAgreed
<1> QED
  BY <1>1, <1>2, <1>3, <1>4 DEF Requests

\* Steps of settlements, each of which goes on from one that was there.
LEMMA SettlementsGoOn ==
    ASSUME PaymentsInv, UNCHANGED <<vars, statusVars, creating, deciding, cancel, intent>>,
           settling' \subseteq Settlements,
           \A t \in settling' :
              \/ t \in settling
              \/ /\ SettlementMatches(t)
                 /\ \E u \in settling : u.payment = t.payment
                 /\ t.action = "capture" => confirmed \/ \E u \in settling : u.action = "capture"
    PROVE  PaymentsInv'
<1>1. Ledgers'
  BY LedgersKept DEF PaymentsInv, Ledgers, vars, refundVars, Rows, RefundsTypeOK
<1>2. RequestsTypeOK'
  BY DEF PaymentsInv, Requests, RequestsTypeOK, CancelTypes
<1>3. ASSUME NEW p \in Payments PROVE CreationMatches(p)'
  BY DEF PaymentsInv, Requests, CreationMatches, vars
<1>4. \A t \in settling' : SettlementMatches(t)'
  BY DEF PaymentsInv, Requests, SettlementMatches
<1>5. ChargesAreAgreed'
  BY DEF PaymentsInv, Requests, ChargesAreAgreed
<1> QED
  BY <1>1, <1>2, <1>3, <1>4, <1>5 DEF PaymentsInv, Requests

LEMMA SyncKeepsInv ==
    ASSUME PaymentsInv, NEW t \in settling, SyncPaymentWithBookingDecision(t)
    PROVE  PaymentsInv'
<1>1. t \in Settlements /\ SettlementMatches(t) /\ t.action = "sync" /\ t.stage = "check"
  BY DEF PaymentsInv, Requests, RequestsTypeOK, SettlementMatches, SyncPaymentWithBookingDecision
<1>2. CASE settling' = settling \ {t}
  BY <1>2, SettlementsGoOn DEF SyncPaymentWithBookingDecision, PaymentsInv, Requests,
     RequestsTypeOK
<1>3. ASSUME NEW a \in {"capture", "void"}, a = "capture" => confirmed,
             settling' = (settling \ {t}) \cup {[t EXCEPT !.action = a]}
      PROVE  PaymentsInv'
  <2> DEFINE u == [t EXCEPT !.action = a]
  <2>1. /\ u \in Settlements /\ u.payment = t.payment /\ u.action = a
        /\ u.stage = "check"
    BY <1>1 DEF Settlements
  <2>2. SettlementMatches(u)
    BY <2>1 DEF SettlementMatches
  <2>3. settling' = (settling \ {t}) \cup {u}
    BY <1>3
  <2> HIDE DEF u
  <2>4. \A v \in settling' : v \in settling \/ v = u
    BY <2>3
  <2>5. settling' \subseteq Settlements
    BY <2>1, <2>4 DEF PaymentsInv, Requests, RequestsTypeOK
  <2>6. UNCHANGED <<vars, statusVars, creating, deciding, cancel, intent>>
    BY DEF SyncPaymentWithBookingDecision
  <2> QED
    BY <1>3, <2>1, <2>2, <2>4, <2>5, <2>6, SettlementsGoOn
<1> QED
  BY <1>2, <1>3 DEF SyncPaymentWithBookingDecision, Becomes, Ends, PaymentsInv, Requests,
     ChargesAreAgreed

LEMMA CheckKeepsInv ==
    ASSUME PaymentsInv, NEW t \in settling,
           CheckAuthorized(t) \/ ProviderRepeats(t) \/ SettlementFails(t)
    PROVE  PaymentsInv'
<1>1. t \in Settlements /\ SettlementMatches(t) /\ settling \subseteq Settlements
  BY DEF PaymentsInv, Requests, RequestsTypeOK
<1>2. UNCHANGED <<vars, statusVars, creating, deciding, cancel, intent>>
  BY DEF CheckAuthorized, ProviderRepeats, SettlementFails
<1>3. CASE settling' = settling \ {t}
  BY <1>1, <1>2, <1>3, SettlementsGoOn
<1>4. ASSUME NEW s \in {"calling", "SUCCEEDED", "CANCELLED"}, t.action # "sync",
             s = "SUCCEEDED" => intent[t.payment] = "succeeded",
             s = "CANCELLED" => intent[t.payment] = "canceled",
             settling' = (settling \ {t}) \cup {[t EXCEPT !.stage = s]}
      PROVE  PaymentsInv'
  <2> DEFINE u == [t EXCEPT !.stage = s]
  <2>1. /\ u \in Settlements /\ u.payment = t.payment /\ u.action = t.action
        /\ u.stage = s
    BY <1>1 DEF Settlements
  <2>2. SettlementMatches(u)
    BY <1>4, <2>1 DEF SettlementMatches
  <2>3. settling' = (settling \ {t}) \cup {u}
    BY <1>4
  <2> HIDE DEF u
  <2>4. \A v \in settling' : v \in settling \/ v = u
    BY <2>3
  <2>5. settling' \subseteq Settlements
    BY <1>1, <2>1, <2>4
  <2> QED
    BY <1>2, <2>1, <2>2, <2>4, <2>5, SettlementsGoOn
<1>5. CASE CheckAuthorized(t)
  BY <1>3, <1>4, <1>5 DEF CheckAuthorized, Becomes, Ends
<1>6. CASE ProviderRepeats(t)
  BY <1>1, <1>4, <1>6 DEF ProviderRepeats, Becomes, Target, Outcome, SettlementMatches
<1>7. CASE SettlementFails(t)
  BY <1>3, <1>7 DEF SettlementFails, Ends
<1> QED
  BY <1>5, <1>6, <1>7

\* Steps of BookingService, which start a settlement for a payment that is
\* authorised and decide no charge without a confirmation.
LEMMA DecisionsKeepInv ==
    ASSUME PaymentsInv, UNCHANGED <<vars, creating, intent>>, CancelTypes',
           booking' \in BookingStatuses, confirmed' \in BOOLEAN, slaBatch' \in BOOLEAN,
           confirmed => confirmed',
           booking' \in {"CONFIRMED", "COMPLETED", "NO_SHOW"} \cup CancelledStatuses =>
              booking' = booking \/ confirmed',
           deciding' \in {"none", "capture", "void"},
           deciding' = "capture" => confirmed' \/ deciding = "capture",
           \/ settling' = settling
           \/ \E origin \in {"decision", "cancellation"}, p \in AuthorizedPayments,
                 a \in {"capture", "void"} :
                 /\ a = "capture" => deciding = "capture"
                 /\ settling' = settling \cup {Settlement(origin, p, a)}
    PROVE  PaymentsInv'
<1>1. Ledgers'
  BY LedgersKept DEF PaymentsInv, Ledgers, vars, refundVars, Rows, RefundsTypeOK
<1>2. ASSUME NEW t \in settling', t \notin settling
      PROVE  /\ t \in Settlements /\ t.stage = "check" /\ payment[t.payment].status = "AUTHORIZED"
             /\ t.action # "sync" /\ t.action = "capture" => deciding = "capture"
  BY <1>2 DEF AuthorizedPayments, Settlement, Settlements
<1>3. RequestsTypeOK'
  BY <1>2 DEF PaymentsInv, Requests, RequestsTypeOK, CancelTypes
<1>4. ASSUME NEW p \in Payments PROVE CreationMatches(p)'
  BY <1>2 DEF PaymentsInv, Requests, CreationMatches, vars
<1>5. ASSUME NEW t \in settling' PROVE SettlementMatches(t)'
  BY <1>2 DEF PaymentsInv, Requests, SettlementMatches
<1>6. ChargesAreAgreed'
  BY <1>2 DEF PaymentsInv, Requests, ChargesAreAgreed
<1> QED
  BY <1>1, <1>3, <1>4, <1>5, <1>6 DEF PaymentsInv, Requests

LEMMA DecisionStepKeepsInv ==
    ASSUME PaymentsInv, DecisionStep \/ LookAfterDecision
    PROVE  PaymentsInv'
<1>1. /\ CancelTypes /\ booking \in BookingStatuses /\ deciding \in {"none", "capture", "void"}
      /\ confirmed \in BOOLEAN /\ slaBatch \in BOOLEAN
  BY DEF PaymentsInv, Requests, RequestsTypeOK, CancelTypes
<1>2. booking = "CONFIRMED" => confirmed
  BY DEF PaymentsInv, Requests, ChargesAreAgreed
<1>3. CASE \/ ConfirmBooking \/ RejectBooking \/ BookingEnds
           \/ SlaSweepReads \/ SlaSweepExpires
  <2>1. CancelTypes' /\ UNCHANGED <<vars, creating, intent, settling>>
    BY <1>1, <1>3 DEF ConfirmBooking, RejectBooking, BookingEnds, SlaSweepReads,
       SlaSweepExpires, CancelTypes
  <2>2. /\ booking' \in BookingStatuses /\ confirmed' \in BOOLEAN /\ slaBatch' \in BOOLEAN
        /\ confirmed => confirmed'
        /\ booking' \in {"CONFIRMED", "COMPLETED", "NO_SHOW"} \cup CancelledStatuses =>
              booking' = booking \/ confirmed'
        /\ deciding' \in {"none", "capture", "void"}
        /\ deciding' = "capture" => confirmed' \/ deciding = "capture"
    BY <1>1, <1>2, <1>3 DEF ConfirmBooking, RejectBooking, BookingEnds, SlaSweepReads,
       SlaSweepExpires, BookingStatuses, CancelledStatuses
  <2> QED
    BY <2>1, <2>2, DecisionsKeepInv
<1>5. CASE CancelBooking
  <2>1. CancelTypes'
    BY <1>1, <1>5 DEF CancelBooking, CancelTypes
  <2> QED
    BY <1>1, <1>2, <1>5, <2>1, DecisionsKeepInv DEF CancelBooking, BookingStatuses
<1>6. CASE LookAfterDecision
  <2>1. CancelTypes' /\ UNCHANGED <<vars, creating, intent, statusVars>> /\ deciding' = "none"
    BY <1>1, <1>6 DEF LookAfterDecision, CancelTypes
  <2>2. confirmed => confirmed'
    BY <2>1
  <2>3. deciding \in {"capture", "void"}
    BY <1>1, <1>6 DEF LookAfterDecision
  <2>4. \/ settling' = settling
        \/ \E p \in AuthorizedPayments :
              settling' = settling \cup {Settlement("decision", p, deciding)}
    BY <1>6 DEF LookAfterDecision
  <2> QED
    BY <1>1, <2>1, <2>2, <2>3, <2>4, DecisionsKeepInv
<1> QED
  BY <1>3, <1>5, <1>6 DEF DecisionStep

-----------------------------------------------------------------------------
(* createPaymentIntent. *)

LEMMA CreationTypes ==
    ASSUME RequestsTypeOK, NEW p \in Payments, NEW stage \in CreationStages, Stage(p, stage)
    PROVE  /\ creating' \in [Payments -> [stage : CreationStages,
                                          booking : BookingStatuses \cup {"NONE"}]]
           /\ creating'[p].stage = stage
           /\ \A q \in Payments : /\ creating'[q].booking = creating[q].booking
                                  /\ q # p => creating'[q] = creating[q]
BY DEF RequestsTypeOK, Stage, CreationStages

LEMMA BeginKeepsInv ==
    ASSUME PaymentsInv, NEW p \in Payments, BeginPayment(p)
    PROVE  PaymentsInv'
<1>1. Ledgers'
  BY LedgersKept DEF BeginPayment, PaymentsInv, Ledgers, vars, refundVars, Rows, RefundsTypeOK
<1>2. RequestsTypeOK'
  BY DEF BeginPayment, PaymentsInv, Requests, RequestsTypeOK, CancelTypes, CreationStages
<1>3. ASSUME NEW q \in Payments PROVE CreationMatches(q)'
  <2>1. CreationMatches(q) /\ UNCHANGED <<payment, sent, settling, intent>>
    BY DEF BeginPayment, PaymentsInv, Requests, vars
  <2>2. \/ creating'[q] = creating[q]
        \/ creating[q].stage = "NONE" /\ creating'[q].stage = "BEGUN"
    BY DEF BeginPayment, PaymentsInv, Requests, RequestsTypeOK, Idle
  <2> QED
    BY <2>1, <2>2, AnswersAssumption DEF CreationMatches
<1>4. \A t \in settling' : SettlementMatches(t)'
  BY DEF BeginPayment, PaymentsInv, Requests, SettlementMatches
<1>5. ChargesAreAgreed'
  BY DEF BeginPayment, PaymentsInv, Requests, RequestsTypeOK, ChargesAreAgreed
<1> QED
  BY <1>1, <1>2, <1>3, <1>4, <1>5 DEF PaymentsInv, Requests

\* Steps of a creation that write the payment's row.
LEMMA CreationWritesKeepInv ==
    ASSUME PaymentsInv, Ledgers', NEW p \in Payments, NEW stage \in {"CALLING", "RETURNED", "OVER"},
           Stage(p, stage), creating[p].stage \in {"BEGUN", "UNREACHABLE"} \cup Answers,
           creating[p].stage = "RETURNED" => stage = "RETURNED",
           stage = "CALLING" => /\ payment'[p].status = "CREATED"
                                /\ creating[p].stage = "BEGUN",
           stage = "OVER" => payment'[p].status \in {"CREATED", "FAILED"},
           stage = "RETURNED" => payment'[p].status # "NONE",
           \A q \in Payments \ {p} : payment'[q] = payment[q],
           UNCHANGED <<sent, statusVars, deciding, cancel, intent>>,
           \/ settling' = settling
           \/ /\ stage = "RETURNED" /\ creating[p].booking = "CONFIRMED"
              /\ settling' = settling \cup {Settlement("creation", p, "capture")}
    PROVE  PaymentsInv'
<1>1. RequestsTypeOK
  BY DEF PaymentsInv, Requests
<1>2. /\ creating' \in [Payments -> [stage : CreationStages,
                                     booking : BookingStatuses \cup {"NONE"}]]
      /\ creating'[p].stage = stage
      /\ \A q \in Payments : /\ creating'[q].booking = creating[q].booking
                             /\ q # p => creating'[q] = creating[q]
  BY <1>1, CreationTypes DEF CreationStages
<1>3. ASSUME NEW t \in settling', t \notin settling
      PROVE  /\ t \in Settlements /\ t.payment = p /\ t.stage = "check" /\ t.action = "capture"
             /\ creating[p].booking = "CONFIRMED" /\ stage = "RETURNED"
  BY <1>3 DEF Settlement, Settlements
<1>4. RequestsTypeOK'
  BY <1>1, <1>2, <1>3 DEF RequestsTypeOK, CreationStages, CancelTypes
<1>5. ASSUME NEW q \in Payments PROVE CreationMatches(q)'
  <2>1. CreationMatches(q) /\ CreationMatches(p)
    BY DEF PaymentsInv, Requests
  <2>2. CASE q = p
    BY <1>2, <1>3, <2>1, <2>2, AnswersAssumption DEF CreationMatches
  <2>3. CASE q # p
    BY <1>2, <1>3, <2>1, <2>3 DEF CreationMatches
  <2> QED
    BY <2>2, <2>3
<1>6. ASSUME NEW t \in settling' PROVE SettlementMatches(t)'
  BY <1>3 DEF PaymentsInv, Requests, SettlementMatches
<1>7. ChargesAreAgreed'
  BY <1>2, <1>3 DEF PaymentsInv, Requests, ChargesAreAgreed
<1> QED
  BY <1>4, <1>5, <1>6, <1>7 DEF PaymentsInv, Requests

LEMMA InsertKeepsInv ==
    ASSUME PaymentsInv, NEW p \in Payments, InsertPayment(p)
    PROVE  PaymentsInv'
<1>1. Ledgers'
  BY InsertKeepsLedgers
<1>2. /\ payment'[p].status = "CREATED"
      /\ \A q \in Payments \ {p} : payment'[q] = payment[q]
  BY DEF PaymentsInv, Ledgers, Rows, RefundsTypeOK, InsertPayment, PaymentRecords
<1> QED
  BY <1>1, <1>2, CreationWritesKeepInv DEF InsertPayment

LEMMA StoreAnswerKeepsInv ==
    ASSUME PaymentsInv, NEW p \in Payments, MarkUnreachable(p) \/ StoreAnswer(p)
    PROVE  PaymentsInv'
<1> DEFINE s == IF creating[p].stage = "UNREACHABLE" THEN "FAILED" ELSE creating[p].stage
<1>1. /\ creating[p].stage \in {"UNREACHABLE"} \cup Answers
      /\ UNCHANGED <<sent, seen, refundVars, statusVars, deciding, cancel, intent>>
      /\ s \in {"CREATED", "PROCESSING", "AUTHORIZED", "FAILED"}
      /\ payment[p].status = "CREATED"
  BY AnswersAssumption DEF MarkUnreachable, StoreAnswer, PaymentsInv, Requests, CreationMatches
<1>2. \/ UNCHANGED <<payment, bookingPayment>>
      \/ s # "CREATED" /\ ApplyIfAllowed(p, s)
  BY <1>1, AnswersAssumption DEF MarkUnreachable, StoreAnswer
<1> HIDE DEF s
<1>3. Ledgers'
  <2>1. CASE UNCHANGED <<payment, bookingPayment>>
    BY <1>1, <2>1, LedgersKept DEF refundVars, PaymentsInv, Ledgers, Rows, RefundsTypeOK
  <2>2. CASE s # "CREATED" /\ ApplyIfAllowed(p, s)
    BY <1>1, <2>2, ApplyKeepsLedgers DEF PaymentsInv, EventStatuses
  <2> QED
    BY <1>2, <2>1, <2>2
<1>4. /\ payment'[p].status \in {"CREATED", s}
      /\ \A q \in Payments \ {p} : payment'[q] = payment[q]
  <2>1. payment \in [Payments -> PaymentRecords]
    BY DEF PaymentsInv, Ledgers, Rows, RefundsTypeOK
  <2>2. CASE UNCHANGED <<payment, bookingPayment>>
    BY <1>1, <2>2
  <2>3. CASE s # "CREATED" /\ CanBecome(p, s) /\ ApplyProviderResult(p, s)
    <3>1. s \in EventStatuses \cup {"PROCESSING"} /\ payment[p].status # "NONE"
      BY <1>1, <2>3 DEF EventStatuses
    <3> QED
      BY <2>3, <3>1, ApplyWrites DEF PaymentsInv
  <2> QED
    BY <1>2, <2>2, <2>3 DEF ApplyIfAllowed
<1>5. CASE MarkUnreachable(p)
  <2>1. payment'[p].status \in {"CREATED", "FAILED"}
    BY <1>4, <1>5 DEF MarkUnreachable, s
  <2> QED
    BY <1>1, <1>3, <1>4, <1>5, <2>1, CreationWritesKeepInv DEF MarkUnreachable
<1>6. CASE StoreAnswer(p)
  <2>1. payment'[p].status # "NONE"
    BY <1>1, <1>4
  <2>2. \/ settling' = settling
        \/ /\ creating[p].booking = "CONFIRMED"
           /\ settling' = settling \cup {Settlement("creation", p, "capture")}
    BY <1>6 DEF StoreAnswer, Settlement
  <2> QED
    BY <1>1, <1>3, <1>4, <1>6, <2>1, <2>2, CreationWritesKeepInv DEF StoreAnswer
<1> QED
  BY <1>5, <1>6

LEMMA CallKeepsInv ==
    ASSUME PaymentsInv, NEW p \in Payments, ProviderCreatesIntent(p) \/ IntentCallFails(p)
    PROVE  PaymentsInv'
<1>1. /\ creating[p].stage = "CALLING" /\ intent[p] = "none" /\ CreationMatches(p)
      /\ payment[p].status = "CREATED" /\ RequestsTypeOK /\ intent \in [Payments -> IntentStates]
      /\ UNCHANGED <<vars, statusVars, settling, deciding, cancel>>
  BY DEF ProviderCreatesIntent, IntentCallFails, PaymentsInv, Ledgers, Requests, CreationMatches
<1>2. PICK stage \in {"UNREACHABLE"} \cup Answers,
           to \in IntentStates \ {"succeeded", "canceled"} :
         Stage(p, stage) /\ intent' = [intent EXCEPT ![p] = to]
  <2>1. CASE IntentCallFails(p)
    <3>1. intent' = [intent EXCEPT ![p] = "none"]
      BY <1>1, <2>1 DEF IntentCallFails
    <3> QED
      BY <2>1, <3>1 DEF IntentCallFails, IntentStates
  <2>2. CASE ProviderCreatesIntent(p)
    <3>1. PICK u \in Answers :
             /\ intent' = [intent EXCEPT ![p] = IntentAfter[u]]
             /\ Stage(p, u) \/ Stage(p, "UNREACHABLE")
      BY <2>2 DEF ProviderCreatesIntent
    <3>2. IntentAfter[u] \in IntentStates \ {"succeeded", "canceled"}
      BY AnswersAssumption DEF IntentAfter, IntentStates
    <3> QED
      BY <3>1, <3>2
  <2> QED
    BY <2>1, <2>2
<1>3. Ledgers'
  BY <1>1, <1>2, ProviderKeepsLedgers DEF PaymentsInv, vars, refundVars, EventStatuses
<1>4. /\ creating' \in [Payments -> [stage : CreationStages,
                                     booking : BookingStatuses \cup {"NONE"}]]
      /\ creating'[p].stage = stage
      /\ \A q \in Payments : /\ creating'[q].booking = creating[q].booking
                             /\ q # p => creating'[q] = creating[q]
  BY <1>1, <1>2, CreationTypes DEF CreationStages
<1>5. ASSUME NEW q \in Payments
      PROVE  intent'[q] = intent[q] \/ (q = p /\ intent'[q] = to)
  BY <1>1, <1>2
<1>6. RequestsTypeOK'
  BY <1>1, <1>4 DEF RequestsTypeOK, CreationStages, CancelTypes
<1>7. ASSUME NEW q \in Payments PROVE CreationMatches(q)'
  <2>1. CreationMatches(q)
    BY DEF PaymentsInv, Requests
  <2>2. CASE q = p
    BY <1>1, <1>2, <1>4, <2>2, AnswersAssumption DEF CreationMatches, vars
  <2>3. CASE q # p
    BY <1>1, <1>4, <1>5, <2>1, <2>3 DEF CreationMatches, vars
  <2> QED
    BY <2>2, <2>3
<1>8. ASSUME NEW t \in settling' PROVE SettlementMatches(t)'
  <2>1. t \in Settlements /\ SettlementMatches(t) /\ t.payment # p
    BY <1>1 DEF PaymentsInv, Requests, RequestsTypeOK, CreationMatches
  <2>2. t.payment \in Payments
    BY <2>1 DEF Settlements
  <2> QED
    BY <1>5, <2>1, <2>2 DEF SettlementMatches
<1>9. ChargesAreAgreed'
  BY <1>1, <1>2, <1>4, <1>5 DEF PaymentsInv, Requests, ChargesAreAgreed
<1> QED
  BY <1>3, <1>6, <1>7, <1>8, <1>9 DEF PaymentsInv, Requests

-----------------------------------------------------------------------------
(* The provider, its events, and settlements that reach it. *)

\* Steps about a payment whose creation has returned.
LEMMA ReturnedKeepsInv ==
    ASSUME PaymentsInv, Ledgers', NEW p \in Payments, creating[p].stage = "RETURNED",
           UNCHANGED <<statusVars, creating, deciding, cancel>>,
           payment'[p].status # "NONE",
           \A q \in Payments \ {p} :
              /\ payment'[q].status = payment[q].status /\ intent'[q] = intent[q]
              /\ \A s \in PaymentStatuses : <<q, s>> \in sent' => <<q, s>> \in sent,
           intent'[p] = "succeeded" =>
              intent[p] = "succeeded" \/ \E t \in settling : t.action = "capture",
           settling' \subseteq Settlements,
           \A t \in settling' :
              /\ SettlementMatches(t)'
              /\ \/ t \in settling
                 \/ /\ t.payment = p
                    /\ t.action = "capture" => \E u \in settling : u.action = "capture"
    PROVE  PaymentsInv'
<1>1. RequestsTypeOK'
  BY DEF PaymentsInv, Requests, RequestsTypeOK, CancelTypes
<1>2. ASSUME NEW q \in Payments PROVE CreationMatches(q)'
  <2>1. CreationMatches(q)
    BY DEF PaymentsInv, Requests
  <2>2. CASE q = p
    BY <2>2, AnswersAssumption DEF CreationMatches
  <2>3. CASE q # p
    BY <2>1, <2>3 DEF CreationMatches
  <2> QED
    BY <2>2, <2>3
<1>3. ChargesAreAgreed'
  BY DEF PaymentsInv, Requests, ChargesAreAgreed
<1> QED
  BY <1>1, <1>2, <1>3 DEF PaymentsInv, Requests

LEMMA ProviderMovesKeepsInv ==
    ASSUME PaymentsInv, NEW p \in Payments, NEW from \in SUBSET IntentStates,
           NEW to \in IntentStates, NEW s \in EventStatuses,
           "succeeded" \notin from, "canceled" \notin from, to # "succeeded",
           s # "SUCCEEDED", s = "CANCELLED" => to = "canceled",
           ProviderMoves(p, from, to, s)
    PROVE  PaymentsInv'
<1>1. /\ creating[p].stage = "RETURNED" /\ intent[p] \in from
      /\ intent' = [intent EXCEPT ![p] = to] /\ sent' = sent \cup {<<p, s>>}
      /\ UNCHANGED <<payment, bookingPayment, seen, refundVars, statusVars, creating, settling,
                     deciding, cancel>>
  BY DEF ProviderMoves, Emit
<1>2. Ledgers'
  BY <1>1, ProviderKeepsLedgers DEF PaymentsInv
<1>3. ASSUME NEW q \in Payments
      PROVE  intent'[q] = IF q = p THEN to ELSE intent[q]
  BY <1>1 DEF PaymentsInv, Ledgers
<1>4. ASSUME NEW t \in settling' PROVE SettlementMatches(t)'
  <2>1. t \in Settlements /\ SettlementMatches(t)
    BY <1>1 DEF PaymentsInv, Requests, RequestsTypeOK
  <2>2. t.payment \in Payments
    BY <2>1 DEF Settlements
  <2> QED
    BY <1>1, <1>3, <2>1, <2>2 DEF SettlementMatches
<1>5. payment'[p].status # "NONE" /\ settling' \subseteq Settlements
  BY <1>1 DEF PaymentsInv, Requests, RequestsTypeOK, CreationMatches
<1> QED
  BY <1>1, <1>2, <1>3, <1>4, <1>5, ReturnedKeepsInv

LEMMA CustomerKeepsInv ==
    ASSUME PaymentsInv, NEW p \in Payments, CustomerStep(p) \/ ProcessingSettles(p)
    PROVE  PaymentsInv'
<1>1. CASE BeginPayment(p)
  BY <1>1, BeginKeepsInv
<1>2. CASE CustomerPays(p)
  BY <1>2, ProviderMovesKeepsInv DEF CustomerPays, IntentStates, EventStatuses
<1>3. CASE CustomerIsChallenged(p)
  BY <1>3, ProviderMovesKeepsInv DEF CustomerIsChallenged, IntentStates, EventStatuses
<1>4. CASE CardIsDeclined(p)
  BY <1>4, ProviderMovesKeepsInv DEF CardIsDeclined, IntentStates, EventStatuses
<1>5. CASE ProcessingSettles(p)
  BY <1>5, ProviderMovesKeepsInv DEF ProcessingSettles, IntentStates, EventStatuses
<1>6. CASE AuthorisationLapses(p)
  BY <1>6, ProviderMovesKeepsInv DEF AuthorisationLapses, IntentStates, EventStatuses
<1> QED
  BY <1>1, <1>2, <1>3, <1>4, <1>5, <1>6 DEF CustomerStep

\* A write of the provider's word to a payment whose creation has returned.
LEMMA ApplyKeepsInv ==
    ASSUME PaymentsInv, NEW p \in Payments, NEW s \in EventStatuses,
           creating[p].stage = "RETURNED", ApplyIfAllowed(p, s),
           s = "SUCCEEDED" => intent[p] = "succeeded",
           s = "CANCELLED" => intent[p] = "canceled",
           UNCHANGED <<sent, refundVars, intent, statusVars, creating, deciding, cancel>>,
           settling' \subseteq settling \cup {Settlement("webhook", p, "sync")}
    PROVE  PaymentsInv'
<1>1. payment[p].status # "NONE"
  BY DEF PaymentsInv, Requests, CreationMatches
<1>2. Ledgers'
  BY <1>1, ApplyKeepsLedgers DEF PaymentsInv
<1>3. /\ payment'[p].status # "NONE"
      /\ \A q \in Payments \ {p} : payment'[q] = payment[q]
  <2>1. CASE CanBecome(p, s)
    <3>1. ApplyProviderResult(p, s)
      BY <2>1 DEF ApplyIfAllowed
    <3> QED
      BY <1>1, <2>1, <3>1, ApplyWrites DEF PaymentsInv, EventStatuses
  <2>2. CASE ~CanBecome(p, s)
    BY <1>1, <2>2 DEF ApplyIfAllowed
  <2> QED
    BY <2>1, <2>2
<1>4. ASSUME NEW t \in settling', t \notin settling
      PROVE  t \in Settlements /\ t.payment = p /\ t.action = "sync" /\ t.stage = "check"
  BY <1>4 DEF Settlement, Settlements
<1>5. settling' \subseteq Settlements
  BY <1>4 DEF PaymentsInv, Requests, RequestsTypeOK
<1>6. ASSUME NEW t \in settling' PROVE SettlementMatches(t)'
  BY <1>4 DEF PaymentsInv, Requests, SettlementMatches
<1> QED
  BY <1>2, <1>3, <1>4, <1>5, <1>6, ReturnedKeepsInv

LEMMA WebhookKeepsInv ==
    ASSUME PaymentsInv, NEW p \in Payments, NEW s \in PaymentStatuses, PaymentWebhook(p, s)
    PROVE  PaymentsInv'
<1>1. <<p, s>> \in sent
  BY DEF PaymentWebhook
<1>2. creating[p].stage = "RETURNED"
  BY <1>1 DEF PaymentsInv, Requests, CreationMatches
<1>3. /\ s \in EventStatuses
      /\ s = "SUCCEEDED" => intent[p] = "succeeded"
      /\ s = "CANCELLED" => intent[p] = "canceled"
  BY <1>1 DEF PaymentsInv, Ledgers, EventsTellTheTruth
<1>4. settling' \subseteq settling \cup {Settlement("webhook", p, "sync")}
  BY DEF PaymentWebhook
<1> QED
  BY <1>2, <1>3, <1>4, ApplyKeepsInv DEF PaymentWebhook

LEMMA StoreSettlementKeepsInv ==
    ASSUME PaymentsInv, NEW t \in settling, StoreSettlement(t)
    PROVE  PaymentsInv'
<1>1. t \in Settlements /\ SettlementMatches(t) /\ t.stage \in {"SUCCEEDED", "CANCELLED"}
  BY DEF PaymentsInv, Requests, RequestsTypeOK, StoreSettlement
<1>2. t.payment \in Payments
  BY <1>1 DEF Settlements
<1>3. creating[t.payment].stage = "RETURNED"
  BY <1>2 DEF PaymentsInv, Requests, CreationMatches
<1>4. /\ t.stage \in EventStatuses
      /\ t.stage = "SUCCEEDED" => intent[t.payment] = "succeeded"
      /\ t.stage = "CANCELLED" => intent[t.payment] = "canceled"
  BY <1>1 DEF SettlementMatches, EventStatuses
<1> QED
  BY <1>2, <1>3, <1>4, ApplyKeepsInv DEF StoreSettlement, Ends

LEMMA ProviderSettlesKeepsInv ==
    ASSUME PaymentsInv, NEW t \in settling, ProviderSettles(t)
    PROVE  PaymentsInv'
<1> DEFINE p == t.payment
           to == Target(t.action)
           s == Outcome(t.action)
           u == [t EXCEPT !.stage = s]
<1>1. t \in Settlements /\ SettlementMatches(t) /\ t.stage = "calling"
  BY DEF PaymentsInv, Requests, RequestsTypeOK, ProviderSettles
<1>2. p \in Payments /\ t.action \in {"capture", "void"}
  BY <1>1 DEF Settlements, SettlementMatches
<1>3. creating[p].stage = "RETURNED" /\ payment[p].status # "NONE"
  BY <1>2 DEF PaymentsInv, Requests, CreationMatches
<1>4. /\ to \in IntentStates /\ s \in EventStatuses /\ s \in {"SUCCEEDED", "CANCELLED"}
      /\ s = "SUCCEEDED" => to = "succeeded" /\ t.action = "capture"
      /\ s = "CANCELLED" => to = "canceled"
      /\ to = "succeeded" => t.action = "capture"
  BY <1>2 DEF Target, Outcome, IntentStates, EventStatuses
<1>5. /\ u \in Settlements /\ u.payment = p /\ u.action = t.action /\ u.stage = s
  BY <1>1, <1>4 DEF Settlements
<1>6. /\ intent[p] = "requires_capture" /\ intent' = [intent EXCEPT ![p] = to]
      /\ sent' = sent \cup {<<p, s>>}
      /\ settling' \in {(settling \ {t}) \cup {u}, settling \ {t}}
      /\ UNCHANGED <<payment, bookingPayment, seen, refundVars, statusVars, creating, deciding,
                     cancel>>
  BY DEF ProviderSettles, Emit, Becomes, Ends
<1> HIDE DEF p, to, s, u
<1>7. Ledgers'
  BY <1>2, <1>4, <1>6, ProviderKeepsLedgers DEF PaymentsInv
<1>8. ASSUME NEW q \in Payments
      PROVE  intent'[q] = IF q = p THEN to ELSE intent[q]
  BY <1>6 DEF PaymentsInv, Ledgers
<1>9. \A v \in settling' : v \in settling \/ v = u
  BY <1>6
<1>10. settling' \subseteq Settlements
  BY <1>5, <1>9 DEF PaymentsInv, Requests, RequestsTypeOK
<1>11. ASSUME NEW v \in settling' PROVE SettlementMatches(v)'
  <2>1. CASE v = u
    BY <1>2, <1>4, <1>5, <1>8, <2>1 DEF SettlementMatches
  <2>2. CASE v \in settling
    <3>1. SettlementMatches(v) /\ v.payment \in Payments
      BY <1>10, <2>2 DEF PaymentsInv, Requests, Settlements
    <3> QED
      BY <1>6, <1>8, <3>1 DEF SettlementMatches
  <2> QED
    BY <1>9, <2>1, <2>2
<1> QED
  BY <1>2, <1>3, <1>4, <1>5, <1>6, <1>7, <1>8, <1>9, <1>10, <1>11, ReturnedKeepsInv

-----------------------------------------------------------------------------
(* A cancellation's payment, refunds, and a server that stops. *)

LEMMA CancelLooksKeepsInv ==
    ASSUME PaymentsInv, CancelLooksForAuthorized \/ CancelLooksForRefundable
    PROVE  PaymentsInv'
<1>1. /\ CancelTypes /\ booking \in BookingStatuses /\ deciding \in {"none", "capture", "void"}
      /\ confirmed \in BOOLEAN /\ slaBatch \in BOOLEAN
  BY DEF PaymentsInv, Requests, RequestsTypeOK, CancelTypes
<1>2. UNCHANGED <<vars, creating, intent, statusVars, deciding>>
  BY DEF CancelLooksForAuthorized, CancelLooksForRefundable
<1>3. confirmed => confirmed'
  BY <1>2
<1>4. CASE CancelLooksForAuthorized
  <2>1. CancelTypes'
    BY <1>1, <1>4 DEF CancelLooksForAuthorized, CancelStage, CancelTypes
  <2>2. \/ settling' = settling
        \/ \E p \in AuthorizedPayments :
              settling' = settling \cup {Settlement("cancellation", p, "void")}
    BY <1>4 DEF CancelLooksForAuthorized
  <2> QED
    BY <1>1, <1>2, <1>3, <2>1, <2>2, DecisionsKeepInv
<1>5. CASE CancelLooksForRefundable
  <2>1. ASSUME NEW p \in RefundablePayments,
               cancel' = [cancel EXCEPT
                   !.stage = "REFUND", !.payment = p,
                   !.amount = payment[p].captured - payment[p].refunded]
        PROVE  CancelTypes'
    <3>1. p \in Payments
      BY DEF RefundablePayments
    <3>2. Rows /\ ReservationsMatch /\ CapturedCovers /\ CapturedInRange
      BY DEF PaymentsInv, Ledgers, Money
    <3>3. /\ payment[p].captured \in 0..Total /\ payment[p].refunded \in Nat
          /\ payment[p].refunded <= payment[p].captured
      <4>1. payment[p].refunded = Amount(Live, p) /\ Amount(Live, p) \in Nat
        BY <3>1, <3>2, UnitsFinite DEF ReservationsMatch, Live, Counted, InStatus
      <4> QED
        BY <3>1, <3>2, <4>1 DEF CapturedCovers, CapturedInRange
    <3>4. payment[p].captured - payment[p].refunded \in 0..Total
      BY <3>3, TotalAssumption
    <3> QED
      BY <1>1, <2>1, <3>1, <3>4 DEF CancelTypes
  <2>2. CancelTypes'
    BY <1>1, <1>5, <2>1 DEF CancelLooksForRefundable, CancelStage, CancelTypes
  <2> QED
    BY <1>1, <1>2, <1>3, <1>5, <2>2, DecisionsKeepInv DEF CancelLooksForRefundable
<1> QED
  BY <1>4, <1>5

\* A cancellation that writes what has become of the money.
LEMMA WriteKeepsInv ==
    ASSUME PaymentsInv, NEW s \in RefundStatuses \ {"MANUALLY_REFUNDED"}, WriteRefundStatus(s)
    PROVE  PaymentsInv'
<1>1. Ledgers'
  BY LedgersKept DEF PaymentsInv, WriteRefundStatus
<1>2. CancelTypes'
  BY DEF PaymentsInv, Requests, RequestsTypeOK, CancelTypes, WriteRefundStatus, CancelStage
<1>3. RefundWrites
  BY ElsewhereWrites DEF PaymentsInv, Ledgers, WriteRefundStatus
<1> QED
  BY <1>1, <1>2, <1>3, RefundsKeepRequests DEF PaymentsInv, WriteRefundStatus

\* A step of the refunds that are those of module Refunds.
LEMMA RefundsNextKeepsInv ==
    ASSUME PaymentsInv, [RefundsNext]_vars, CancelTypes',
           UNCHANGED <<statusVars, creating, settling, deciding, intent>>
    PROVE  PaymentsInv'
<1>1. Ledgers' /\ RefundWrites
  BY RefundsKeepLedgers DEF PaymentsInv
<1> QED
  BY <1>1, RefundsKeepRequests DEF PaymentsInv

LEMMA AutoRefundIsARefund ==
    ASSUME PaymentsInv, AutoRefundStarts
    PROVE  RefundsNext /\ CancelTypes'
<1>1. CancelTypes /\ cancel.stage = "REFUND"
  BY DEF PaymentsInv, Requests, RequestsTypeOK, CancelTypes, AutoRefundStarts
<1>2. cancel.payment \in Payments /\ cancel.amount \in 1..Total
  BY <1>1, TotalAssumption DEF CancelTypes, AutoRefundStarts, StartRefund
<1>3. RefundsNext
  BY <1>2, AutoRefundAssumption DEF AutoRefundStarts, RefundsNext, CreateRefund
<1>4. CancelTypes'
  BY <1>1 DEF AutoRefundStarts, CancelStage, CancelTypes
<1> QED
  BY <1>3, <1>4

LEMMA CancellationKeepsInv ==
    ASSUME PaymentsInv, CancellationStep
    PROVE  PaymentsInv'
<1>1. CASE CancelLooksForAuthorized \/ CancelLooksForRefundable
  BY <1>1, CancelLooksKeepsInv
<1>2. CASE CancellationNeedsReview \/ AutoRefundRefused \/ AutoRefundEnds
  BY <1>2, WriteKeepsInv DEF CancellationNeedsReview, AutoRefundRefused, AutoRefundEnds,
     RefundStatuses
<1>3. CASE AutoRefundStarts
  BY <1>3, AutoRefundIsARefund, RefundsNextKeepsInv DEF AutoRefundStarts
<1> QED
  BY <1>1, <1>2, <1>3 DEF CancellationStep

LEMMA RefundsStepKeepsInv ==
    ASSUME PaymentsInv, RefundsStep
    PROVE  PaymentsInv' /\ RefundsNext
<1>1. RefundsNext
  BY DEF RefundsStep, RefundsNext, AdminRefund, CreateRefund
<1>2. CancelTypes'
  BY DEF PaymentsInv, Requests, RequestsTypeOK, CancelTypes, RefundsStep, bookingVars
<1> QED
  BY <1>1, <1>2, RefundsNextKeepsInv DEF RefundsStep, bookingVars

LEMMA ServerStopsRefunds ==
    ASSUME PaymentsInv, ServerStops
    PROVE  [RefundsNext]_vars
<1>1. CASE RefundsInMemory # {}
  BY <1>1 DEF ServerStops, RefundsNext, RefundServerStops
<1>2. CASE RefundsInMemory = {}
  <2>1. request \in [Refunds -> Stages]
    BY DEF PaymentsInv, Ledgers, Rows, RefundsTypeOK
  <2>2. request' = request
    BY <1>2, <2>1 DEF ServerStops, RefundRequestsStop
  <2> QED
    BY <2>2 DEF ServerStops, vars, refundVars
<1> QED
  BY <1>1, <1>2

LEMMA ServerStopsKeepsInv ==
    ASSUME PaymentsInv, ServerStops
    PROVE  PaymentsInv'
<1>1. [RefundsNext]_vars
  BY ServerStopsRefunds
<1>2. intent' = intent /\ UNCHANGED <<payment, sent, booking, confirmed>>
  BY DEF ServerStops
<1>3. Ledgers'
  BY <1>1, <1>2, RefundsKeepLedgers DEF PaymentsInv
<1>4. ASSUME NEW p \in Payments
      PROVE  /\ creating'[p].booking = creating[p].booking
             /\ \/ /\ creating'[p].stage = "OVER"
                   /\ creating[p].stage \in {"BEGUN", "CALLING", "UNREACHABLE"} \cup Answers
                \/ creating'[p] = creating[p]
             /\ creating'[p] \in [stage : CreationStages, booking : BookingStatuses \cup {"NONE"}]
  BY DEF PaymentsInv, Requests, RequestsTypeOK, ServerStops, CreatingInMemory, CreationStages
<1>5. RequestsTypeOK'
  <2>1. creating' \in [Payments -> [stage : CreationStages,
                                    booking : BookingStatuses \cup {"NONE"}]]
    BY <1>4 DEF ServerStops
  <2>2. CancelTypes'
    BY DEF PaymentsInv, Requests, RequestsTypeOK, CancelTypes, ServerStops
  <2> QED
    BY <2>1, <2>2 DEF PaymentsInv, Requests, RequestsTypeOK, CancelTypes, ServerStops,
       CreationStages
<1>6. ASSUME NEW p \in Payments PROVE CreationMatches(p)'
  <2>1. CreationMatches(p) /\ settling' = {}
    BY DEF PaymentsInv, Requests, ServerStops
  <2> QED
    BY <1>2, <1>4, <2>1, AnswersAssumption DEF CreationMatches
<1>7. \A t \in settling' : SettlementMatches(t)'
  BY DEF ServerStops
<1>8. ChargesAreAgreed'
  BY <1>2, <1>4 DEF PaymentsInv, Requests, ChargesAreAgreed, ServerStops
<1> QED
  BY <1>3, <1>5, <1>6, <1>7, <1>8 DEF PaymentsInv, Requests

-----------------------------------------------------------------------------
(* The invariant. *)

LEMMA PaymentsInvInit == Init => PaymentsInv
<1> SUFFICES ASSUME Init PROVE PaymentsInv
  OBVIOUS
<1> USE DEF Init
<1>1. RefundsTypeOK
  BY TotalAssumption DEF RefundRowsInit, RefundsTypeOK, PaymentRecords, PaymentStatuses,
     BookingPaymentStatuses, RefundStatuses, RefundRecords, NoRefund, Stages
<1>2. Rows
  BY <1>1 DEF Rows, RefundRowsInit, RowMatchesRequest, RefundsInMemory, Outcomes, Final, NoRefund,
     LedgerMatchesRefunds, KnownRefundTellsTheTruth, ReviewClosedByMoney
<1>3. ASSUME NEW p \in Payments
      PROVE  payment[p].refunded = 0 /\ payment[p].captured = 0 /\ Amount(Live, p) = 0
  <2>1. Units(Live, p) = {}
    BY DEF RefundRowsInit, Units, Live, InStatus, Counted, NoRefund
  <2> QED
    BY <2>1, FS_EmptySet DEF Amount
<1>4. Money /\ CapturedInRange
  BY <1>3, TotalAssumption
     DEF Money, ReservationsMatch, CapturedCovers, CapturedInRange, Live, Counted
<1>5. intent \in [Payments -> IntentStates] /\ EventsTellTheTruth /\ RowsTellTheTruth
  BY DEF RefundRowsInit, IntentStates, EventsTellTheTruth, RowsTellTheTruth
<1>6. RefundsArePaidFor /\ OneOpenPayment
  BY DEF RefundRowsInit, RefundsArePaidFor, OneOpenPayment, Open, NoRefund
<1>7. RequestsTypeOK
  <2>1. CancelTypes
    BY TotalAssumption DEF CancelTypes, NotCancelled
  <2> QED
    BY <2>1 DEF RequestsTypeOK, CreationStages, BookingStatuses, Idle
<1>8. /\ \A p \in Payments : CreationMatches(p)
      /\ \A t \in settling : SettlementMatches(t)
      /\ ChargesAreAgreed
  BY AnswersAssumption DEF RefundRowsInit, CreationMatches, ChargesAreAgreed, Idle,
     CancelledStatuses
<1> QED
  BY <1>2, <1>4, <1>5, <1>6, <1>7, <1>8 DEF PaymentsInv, Ledgers, Requests

LEMMA PaymentsInvStep == PaymentsInv /\ [Next]_allVars => PaymentsInv'
<1> SUFFICES ASSUME PaymentsInv, [Next]_allVars PROVE PaymentsInv'
  OBVIOUS
<1>1. ASSUME NEW p \in Payments, PaymentRequestStep(p) PROVE PaymentsInv'
  BY <1>1, InsertKeepsInv, CallKeepsInv, StoreAnswerKeepsInv DEF PaymentRequestStep
<1>2. ASSUME NEW p \in Payments, CustomerStep(p) \/ ProcessingSettles(p) PROVE PaymentsInv'
  BY <1>2, CustomerKeepsInv
<1>3. ASSUME NEW p \in Payments, NEW s \in PaymentStatuses, PaymentWebhook(p, s)
      PROVE  PaymentsInv'
  BY <1>3, WebhookKeepsInv
<1>4. ASSUME NEW t \in settling, SettlementStep(t) PROVE PaymentsInv'
  BY <1>4, SyncKeepsInv, CheckKeepsInv, ProviderSettlesKeepsInv, StoreSettlementKeepsInv
     DEF SettlementStep
<1>5. CASE DecisionStep \/ LookAfterDecision
  BY <1>5, DecisionStepKeepsInv
<1>6. CASE CancellationStep
  BY <1>6, CancellationKeepsInv
<1>7. CASE RefundsStep
  BY <1>7, RefundsStepKeepsInv
<1>8. CASE ServerStops
  BY <1>8, ServerStopsKeepsInv
<1>9. CASE UNCHANGED allVars
  <2>1. CancelTypes' /\ UNCHANGED <<vars, statusVars, creating, settling, deciding, intent>>
    BY <1>9 DEF allVars, bookingVars, PaymentsInv, Requests, RequestsTypeOK, CancelTypes
  <2> QED
    BY <2>1, RefundsNextKeepsInv
<1> QED
  BY <1>1, <1>2, <1>3, <1>4, <1>5, <1>6, <1>7, <1>8, <1>9 DEF Next

LEMMA PaymentsInvariant == Spec => []PaymentsInv
BY PaymentsInvInit, PaymentsInvStep, PTL DEF Spec

-----------------------------------------------------------------------------
(* Who writes a payment's status, and the booking's summary of it. *)

SameRow(q) == payment'[q] = payment[q]

\* The statuses and the summary are left alone.
NobodyWrites ==
    /\ bookingPayment' = bookingPayment
    /\ \A q \in Payments : payment'[q].status = payment[q].status

InsertWrites(p) ==
    /\ \A q \in Payments : ~Active(q)
    /\ payment'[p].status = "CREATED"
    /\ bookingPayment' = "AWAITING_PAYMENT"
    /\ \A q \in Payments \ {p} : SameRow(q)

\* The provider's word s on payment p.
ProviderWrites(p, s) ==
    /\ payment[p].status \in Open
    /\ payment'[p].status = s
    /\ bookingPayment' = BookingPaymentStatus[s]
    /\ \A q \in Payments \ {p} : SameRow(q)

\* A refund of p that succeeds.
RefundPaysBack(p) ==
    /\ \E r \in Refunds : Pending(r) /\ refund[r].payment = p
    /\ payment[p].status \in Paid
    /\ \/ /\ payment'[p].status = "REFUNDED"
          /\ bookingPayment' = "REFUNDED_ONLINE"
       \/ /\ payment'[p].status = "PARTIALLY_REFUNDED"
          /\ bookingPayment' = "PARTIALLY_REFUNDED_ONLINE"
    /\ \A q \in Payments \ {p} : SameRow(q)

LEMMA RefundsWriteStatus ==
    ASSUME Rows, RefundsArePaidFor, [RefundsNext]_vars
    PROVE  NobodyWrites \/ \E p \in Payments : RefundPaysBack(p)
<1> USE DEF NobodyWrites
<1>1. /\ payment \in [Payments -> PaymentRecords] /\ refund \in [Refunds -> RefundRecords]
      /\ \A r \in Refunds : refund[r].amount \in Int
  BY TotalAssumption DEF Rows, RefundsTypeOK, RefundRecords
<1>2. ASSUME NEW r \in Refunds, NEW p \in Payments, NEW n \in 1..Total, StartRefund(r, p, n)
      PROVE  NobodyWrites
  BY <1>1, <1>2 DEF StartRefund, PaymentRecords
<1>3. ASSUME NEW r \in Refunds, NEW s \in Outcomes, refund[r].status # "NONE", CanApply(r, s),
             ApplyRefundResult(r, s)
      PROVE  NobodyWrites \/ \E p \in Payments : RefundPaysBack(p)
  <2>1. Pending(r) /\ refund[r].payment \in Payments /\ payment[refund[r].payment].status \in Paid
    BY <1>3, AppliedRow DEF Pending, RefundsArePaidFor
  <2>2. CASE s = "SUCCEEDED"
    <3> DEFINE p == refund[r].payment
               full == FullyRefunded(p)
    <3>1. /\ payment' = [payment EXCEPT ![p].status =
                            IF full THEN "REFUNDED" ELSE "PARTIALLY_REFUNDED"]
          /\ bookingPayment' = IF full THEN "REFUNDED_ONLINE" ELSE "PARTIALLY_REFUNDED_ONLINE"
      BY <1>3, <2>2 DEF ApplyRefundResult, RefundSucceeds
    <3>2. p \in Payments /\ payment[p].status \in Paid /\ Pending(r) /\ refund[r].payment = p
      BY <2>1
    <3> HIDE DEF p, full
    <3>3. RefundPaysBack(p)
      BY <1>1, <3>1, <3>2 DEF RefundPaysBack, SameRow, PaymentRecords
    <3> QED
      BY <3>2, <3>3
  <2>3. CASE s = "FAILED"
    BY <1>1, <1>3, <2>1, <2>3 DEF ApplyRefundResult, ReleaseRefundAmount, PaymentRecords
  <2>4. CASE s = "PROCESSING"
    BY <1>3, <2>4 DEF ApplyRefundResult
  <2> QED
    BY <2>2, <2>3, <2>4 DEF Outcomes
<1>4. ASSUME NEW r \in Refunds, FailRefund(r) PROVE NobodyWrites
  BY <1>1, <1>4 DEF FailRefund, ReleaseRefundAmount, PaymentRecords
<1> QED
  BY <1>2, <1>3, <1>4, RefundsCases

LEMMA ProviderWritesStatus ==
    ASSUME PaymentsInv, NEW p \in Payments, NEW s \in EventStatuses \cup {"PROCESSING"},
           creating[p].stage \notin {"NONE", "BEGUN", "OVER"}, ApplyIfAllowed(p, s)
    PROVE  \/ UNCHANGED <<payment, bookingPayment>>
           \/ ProviderWrites(p, s)
<1>1. payment[p].status # "NONE"
  BY DEF PaymentsInv, Requests, RequestsTypeOK, CreationStages, CreationMatches
<1>2. CASE CanBecome(p, s)
  <2>1. ApplyProviderResult(p, s)
    BY <1>2 DEF ApplyIfAllowed
  <2>2. bookingPayment' = BookingPaymentStatus[s]
    BY <2>1 DEF ApplyProviderResult
  <2> QED
    BY <1>1, <1>2, <2>1, <2>2, ApplyWrites DEF PaymentsInv, ProviderWrites, SameRow
<1>3. CASE ~CanBecome(p, s)
  BY <1>3 DEF ApplyIfAllowed
<1> QED
  BY <1>2, <1>3

\* Every step is one of the refunds', or writes at most one payment.
NextWrites ==
    \/ [RefundsNext]_vars
    \/ /\ refund' = refund
       /\ \/ UNCHANGED <<payment, bookingPayment>>
          \/ \E p \in Payments : InsertWrites(p)
          \/ \E p \in Payments, s \in EventStatuses \cup {"PROCESSING"} : ProviderWrites(p, s)

LEMMA NextWritesOnePayment ==
    ASSUME PaymentsInv, [Next]_allVars
    PROVE  NextWrites
<1>1. ASSUME NEW p \in Payments, InsertPayment(p) PROVE NextWrites
  <2>1. InsertWrites(p) /\ refund' = refund
    BY <1>1 DEF PaymentsInv, Ledgers, Rows, RefundsTypeOK, PaymentRecords, InsertPayment,
       InsertWrites, SameRow, refundVars
  <2> QED
    BY <2>1 DEF NextWrites
<1>2. ASSUME NEW p \in Payments, MarkUnreachable(p) PROVE NextWrites
  BY <1>2, AnswersAssumption, ProviderWritesStatus
     DEF MarkUnreachable, NextWrites, refundVars, EventStatuses
<1>3. ASSUME NEW p \in Payments, StoreAnswer(p) PROVE NextWrites
  <2>1. CASE UNCHANGED <<payment, bookingPayment>>
    BY <1>3, <2>1 DEF StoreAnswer, NextWrites, refundVars
  <2>2. CASE creating[p].stage # payment[p].status /\ ApplyIfAllowed(p, creating[p].stage)
    <3>1. creating[p].stage \in {"PROCESSING", "AUTHORIZED", "FAILED"}
      BY <1>3, <2>2, AnswersAssumption DEF StoreAnswer, PaymentsInv, Requests, CreationMatches
    <3> QED
      BY <1>3, <2>2, <3>1, ProviderWritesStatus
         DEF StoreAnswer, NextWrites, refundVars, EventStatuses
  <2> QED
    BY <1>3, <2>1, <2>2 DEF StoreAnswer
<1>4. ASSUME NEW p \in Payments, NEW s \in PaymentStatuses, PaymentWebhook(p, s)
      PROVE  NextWrites
  <2>1. creating[p].stage = "RETURNED" /\ s \in EventStatuses
    BY <1>4 DEF PaymentWebhook, PaymentsInv, Ledgers, Requests, CreationMatches,
       EventsTellTheTruth
  <2> QED
    BY <1>4, <2>1, ProviderWritesStatus DEF PaymentWebhook, NextWrites, refundVars
<1>5. ASSUME NEW t \in settling, StoreSettlement(t) PROVE NextWrites
  <2>1. t.payment \in Payments /\ t.stage \in EventStatuses
    BY <1>5 DEF StoreSettlement, PaymentsInv, Requests, RequestsTypeOK, Settlements, EventStatuses
  <2>2. creating[t.payment].stage = "RETURNED"
    BY <2>1 DEF PaymentsInv, Requests, CreationMatches
  <2> QED
    BY <1>5, <2>1, <2>2, ProviderWritesStatus DEF StoreSettlement, NextWrites, refundVars
<1>6. ASSUME NEW p \in Payments, \/ ProviderCreatesIntent(p) \/ IntentCallFails(p)
                                 \/ CustomerStep(p) \/ ProcessingSettles(p)
      PROVE  NextWrites
  BY <1>6 DEF ProviderCreatesIntent, IntentCallFails, CustomerStep, BeginPayment, CustomerPays,
     CustomerIsChallenged, CardIsDeclined, AuthorisationLapses, ProcessingSettles, ProviderMoves,
     NextWrites, vars, refundVars
<1>7. ASSUME NEW t \in settling,
             \/ SyncPaymentWithBookingDecision(t) \/ CheckAuthorized(t) \/ ProviderSettles(t)
             \/ ProviderRepeats(t) \/ SettlementFails(t)
      PROVE  NextWrites
  BY <1>7 DEF SyncPaymentWithBookingDecision, CheckAuthorized, ProviderSettles, ProviderRepeats,
     SettlementFails, NextWrites, vars, refundVars
<1>8. CASE DecisionStep \/ LookAfterDecision
  BY <1>8 DEF DecisionStep, ConfirmBooking, RejectBooking, BookingEnds, SlaSweepReads,
     SlaSweepExpires, CancelBooking,
     LookAfterDecision, NextWrites, vars, refundVars
<1>9. CASE CancellationStep
  <2>1. CASE AutoRefundStarts
    BY <2>1, AutoRefundIsARefund DEF NextWrites
  <2>2. CASE \/ CancelLooksForAuthorized \/ CancelLooksForRefundable \/ CancellationNeedsReview
             \/ AutoRefundRefused \/ AutoRefundEnds
    BY <2>2 DEF CancelLooksForAuthorized, CancelLooksForRefundable, CancellationNeedsReview,
       AutoRefundRefused, AutoRefundEnds, WriteRefundStatus, NextWrites, vars, refundVars
  <2> QED
    BY <1>9, <2>1, <2>2 DEF CancellationStep
<1>10. CASE RefundsStep
  BY <1>10, RefundsStepKeepsInv DEF NextWrites
<1>11. CASE ServerStops
  BY <1>11 DEF ServerStops, NextWrites
<1>12. CASE UNCHANGED allVars
  BY <1>12 DEF allVars, NextWrites
<1> QED
  BY <1>1, <1>2, <1>3, <1>4, <1>5, <1>6, <1>7, <1>8, <1>9, <1>10, <1>11, <1>12
     DEF Next, PaymentRequestStep, SettlementStep

-----------------------------------------------------------------------------
(* One live payment. *)

OneLive == \A p, q \in Payments : Active(p) /\ Active(q) => p = q

LEMMA LiveIsOneOrNone ==
    ASSUME OneLive
    PROVE  OneLivePayment
<1>1. CASE \E p \in Payments : Active(p)
  <2>1. PICK p \in Payments : Active(p)
    BY <1>1
  <2>2. {q \in Payments : Active(q)} = {p}
    BY <2>1 DEF OneLive
  <2>3. Cardinality({p}) = 1
    BY FS_Singleton
  <2> QED
    BY <2>2, <2>3 DEF OneLivePayment
<1>2. CASE ~\E p \in Payments : Active(p)
  <2>1. {q \in Payments : Active(q)} = {}
    BY <1>2
  <2>2. Cardinality({}) = 0
    BY FS_EmptySet
  <2> QED
    BY <2>1, <2>2 DEF OneLivePayment
<1> QED
  BY <1>1, <1>2

LivePaymentInv == Repaid /\ OneLive /\ BookingShowsItsPayment

LEMMA LivePaymentStep ==
    ASSUME PaymentsInv, LivePaymentInv, OneRefundAtATime, [Next]_allVars
    PROVE  LivePaymentInv'
<1> USE DEF LivePaymentInv
<1>1. NextWrites
  BY NextWritesOnePayment
<1>2. Rows /\ RefundsArePaidFor /\ \A p \in Payments : payment[p].status \in
          PaymentStatuses \cup {"NONE"}
  BY DEF PaymentsInv, Ledgers, Rows, RefundsTypeOK, PaymentRecords
<1>3. Repaid'
  <2>1. CASE [RefundsNext]_vars
    BY <1>2, <2>1, RepaidStep
  <2>2. ASSUME refund' = refund, NEW p \in Payments, payment'[p].status # "REFUNDED",
               \A q \in Payments \ {p} : SameRow(q)
        PROVE  Repaid'
    BY <2>2 DEF Repaid, Pending, FullyRefunded, SameRow
  <2>3. CASE refund' = refund /\ UNCHANGED <<payment, bookingPayment>>
    BY <2>3, QuietKeepsRepaid
  <2> QED
    BY <1>1, <2>1, <2>2, <2>3 DEF NextWrites, InsertWrites, ProviderWrites, EventStatuses
<1>4. OneLive' /\ BookingShowsItsPayment'
  <2>1. CASE NobodyWrites
    BY <2>1 DEF NobodyWrites, OneLive, BookingShowsItsPayment, Active
  <2>2. ASSUME NEW p \in Payments, InsertWrites(p)
        PROVE  OneLive' /\ BookingShowsItsPayment'
    BY <2>2 DEF InsertWrites, SameRow, OneLive, BookingShowsItsPayment, Active,
       BookingPaymentStatus
  <2>3. ASSUME NEW p \in Payments, NEW s \in EventStatuses \cup {"PROCESSING"},
               ProviderWrites(p, s)
        PROVE  OneLive' /\ BookingShowsItsPayment'
    <3>1. \A q \in Payments \ {p} : ~Active(q) /\ ~Active(q)'
      BY <2>3 DEF ProviderWrites, SameRow, OneLive, Active, Open
    <3>2. bookingPayment' = BookingPaymentStatus[payment'[p].status]
          /\ payment'[p].status # "PARTIALLY_REFUNDED"
      BY <2>3 DEF ProviderWrites, EventStatuses
    <3> QED
      BY <3>1, <3>2 DEF OneLive, BookingShowsItsPayment
  <2>4. ASSUME NEW p \in Payments, RefundPaysBack(p)
        PROVE  OneLive' /\ BookingShowsItsPayment'
    <3>1. Active(p)
      BY <2>4 DEF RefundPaysBack, Repaid, Paid, Active
    <3>2. \A q \in Payments \ {p} : ~Active(q) /\ ~Active(q)'
      BY <2>4, <3>1 DEF RefundPaysBack, SameRow, OneLive, Active
    <3> QED
      BY <2>4, <3>2 DEF RefundPaysBack, OneLive, BookingShowsItsPayment, Active
  <2> QED
    BY <1>1, <1>2, <2>1, <2>2, <2>3, <2>4, RefundsWriteStatus DEF NextWrites, NobodyWrites
<1> QED
  BY <1>3, <1>4

LEMMA LivePaymentInvariant == Spec /\ []OneRefundAtATime => []LivePaymentInv
<1>1. Init => LivePaymentInv
  BY DEF Init, LivePaymentInv, Repaid, OneLive, BookingShowsItsPayment, Active
<1>2. PaymentsInv /\ LivePaymentInv /\ OneRefundAtATime /\ [Next]_allVars => LivePaymentInv'
  BY LivePaymentStep
<1> QED
  BY <1>1, <1>2, PaymentsInvariant, PTL DEF Spec

-----------------------------------------------------------------------------
(* When every call arrives: authorisations are recorded, and settled. *)

\* No provider call fails and the server does not stop.
CallsArrive == ~CallsMayFail /\ ~ServerMayStop

\* A customer who pays is neither challenged nor declined: applyProviderResult
\* refuses the authorisation that follows either.
CardsAreGood == CustomerMay \subseteq {"lapse"}

\* No answer to a new intent says that it is authorised, which Stripe's never
\* does: the immediate capture then goes by a booking status that getBooking has
\* read before the call, and a confirmation in between is missed.  Nor does one
\* provider both answer PROCESSING, as the local one, and let an authorisation
\* lapse, as Stripe: PAYMENT_TRANSITIONS does not void what is PROCESSING.
AuthorisedByEvents ==
    "AUTHORIZED" \notin Answers /\ ("PROCESSING" \notin Answers \/ CustomerMay = {})

Unseen(p, s) == <<p, s>> \in sent \ seen

Authorised == {"requires_capture", "succeeded", "canceled"}

\* How a payment's row follows the provider's intent.
RowFollowsIntent(p) ==
    /\ creating[p].stage \notin {"UNREACHABLE", "OVER"}
    /\ creating[p].stage \in Answers => intent[p] = IntentAfter[creating[p].stage]
    /\ creating[p].stage = "RETURNED" =>
          /\ payment[p].status = "FAILED" <=> intent[p] = "none"
          /\ intent[p] = "requires_payment_method" => payment[p].status = "CREATED"
          /\ intent[p] = "processing" => payment[p].status = "PROCESSING"
          /\ intent[p] = "requires_capture" =>
                \/ payment[p].status = "AUTHORIZED"
                \/ payment[p].status \in {"CREATED", "PROCESSING"} /\ Unseen(p, "AUTHORIZED")
    /\ intent[p] # "requires_action" /\ payment[p].status # "REQUIRES_ACTION"
    /\ \A s \in PaymentStatuses :
          /\ <<p, s>> \in sent =>
                s \in {"AUTHORIZED", "SUCCEEDED", "CANCELLED"} /\ intent[p] \in Authorised
          /\ <<p, s>> \in seen => <<p, s>> \in sent

Decided == booking \in {"CONFIRMED", "REJECTED"} \cup CancelledStatuses

\* What is known of a payment whose events arrive, until they have.
FinalsArrive(p) ==
    /\ intent[p] = "succeeded" => payment[p].status \in Paid \/ Unseen(p, "SUCCEEDED")
    /\ intent[p] = "canceled" => payment[p].status = "CANCELLED" \/ Unseen(p, "CANCELLED")
    /\ payment[p].status = "AUTHORIZED" => intent[p] \in Authorised
    /\ payment[p].status = "PROCESSING" =>
          "PROCESSING" \in Answers /\ intent[p] # "canceled"

\* An authorisation on a booking that has been decided on is being looked for,
\* or settled, or has been settled and waits for the provider's event.
SomebodySettles(p) ==
    \/ deciding # "none"
    \/ cancel.stage = "AUTHORIZED?"
    \/ \E t \in settling : t.payment = p
    \/ Unseen(p, "SUCCEEDED") \/ Unseen(p, "CANCELLED")

\* A capture or a void is asked for when its payment reads AUTHORIZED.
SettledWereAuthorised ==
    \A t \in settling : t.stage # "check" =>
        payment[t.payment].status \notin {"NONE", "CREATED", "REQUIRES_ACTION", "PROCESSING"}

DecidedAreSettled ==
    \A p \in Payments : Decided /\ payment[p].status = "AUTHORIZED" => SomebodySettles(p)

SettlingInv ==
    /\ \A p \in Payments : FinalsArrive(p)
    /\ SettledWereAuthorised
    /\ DecidedAreSettled

\* What a step that is not about payment q leaves alone.
SameFate(q) ==
    /\ creating'[q] = creating[q] /\ intent'[q] = intent[q]
    /\ \/ payment'[q].status = payment[q].status
       \/ payment[q].status \in Paid /\ payment'[q].status \in Paid
    /\ \A s \in PaymentStatuses : /\ <<q, s>> \in sent' <=> <<q, s>> \in sent
                                  /\ <<q, s>> \in seen' <=> <<q, s>> \in seen

LEMMA FateKept ==
    ASSUME NEW q \in Payments, SameFate(q)
    PROVE  /\ RowFollowsIntent(q) => RowFollowsIntent(q)'
           /\ FinalsArrive(q) => FinalsArrive(q)'
<1>1. RowFollowsIntent(q) => RowFollowsIntent(q)'
  BY DEF SameFate, RowFollowsIntent, Unseen, Paid, PaymentStatuses
<1>2. FinalsArrive(q) => FinalsArrive(q)'
  BY DEF SameFate, FinalsArrive, Unseen, Paid, PaymentStatuses
<1> QED
  BY <1>1, <1>2

\* What is known of a payment before the provider has answered.
LEMMA BeforeTheAnswer ==
    ASSUME PaymentsInv, NEW p \in Payments, creating[p].stage # "RETURNED"
    PROVE  /\ payment[p].status \in {"NONE", "CREATED", "FAILED"}
           /\ \A s \in PaymentStatuses : <<p, s>> \notin sent
           /\ \A t \in settling : t.payment # p
           /\ creating[p].stage \in {"NONE", "BEGUN"} => payment[p].status = "NONE"
           /\ creating[p].stage \in {"NONE", "BEGUN", "CALLING"} => intent[p] = "none"
BY DEF PaymentsInv, Requests, CreationMatches

\* The steps of a creation, when calls arrive.
LEMMA CreationFate ==
    ASSUME PaymentsInv, NEW p \in Payments, RowFollowsIntent(p), CallsArrive,
           BeginPayment(p) \/ PaymentRequestStep(p)
    PROVE  /\ RowFollowsIntent(p)'
           /\ \A q \in Payments \ {p} : SameFate(q)
           /\ creating[p].stage # "RETURNED"
           /\ payment'[p].status \in {"NONE", "CREATED"} \cup Answers
           /\ payment'[p].status = "AUTHORIZED" => intent'[p] = "requires_capture"
           /\ intent'[p] \notin {"succeeded", "canceled"}
<1>1. /\ payment \in [Payments -> PaymentRecords] /\ intent \in [Payments -> IntentStates]
      /\ RequestsTypeOK /\ CreationMatches(p)
  BY DEF PaymentsInv, Ledgers, Rows, RefundsTypeOK, Requests
<1>2. CASE BeginPayment(p)
  <2>1. /\ UNCHANGED <<payment, sent, seen, intent>>
        /\ creating[p].stage = "NONE" /\ creating'[p].stage = "BEGUN"
        /\ \A q \in Payments \ {p} : creating'[q] = creating[q]
    BY <1>1, <1>2 DEF BeginPayment, RequestsTypeOK, Idle, vars
  <2> QED
    BY <1>1, <2>1, AnswersAssumption DEF RowFollowsIntent, SameFate, Unseen, CreationMatches
<1>3. CASE InsertPayment(p)
  <2>1. /\ UNCHANGED <<sent, seen, intent>>
        /\ creating[p].stage = "BEGUN" /\ creating'[p].stage = "CALLING"
        /\ payment'[p].status = "CREATED"
        /\ \A q \in Payments \ {p} : creating'[q] = creating[q] /\ payment'[q] = payment[q]
    BY <1>1, <1>3 DEF InsertPayment, Stage, RequestsTypeOK, PaymentRecords
  <2> QED
    BY <1>1, <2>1, AnswersAssumption DEF RowFollowsIntent, SameFate, Unseen, CreationMatches
<1>4. CASE ProviderCreatesIntent(p)
  <2>1. PICK s \in Answers : /\ intent' = [intent EXCEPT ![p] = IntentAfter[s]]
                             /\ Stage(p, s)
    BY <1>4 DEF ProviderCreatesIntent, CallsArrive
  <2>2. /\ UNCHANGED <<payment, sent, seen>>
        /\ creating[p].stage = "CALLING" /\ creating'[p].stage = s /\ intent'[p] = IntentAfter[s]
        /\ \A q \in Payments \ {p} : creating'[q] = creating[q] /\ intent'[q] = intent[q]
    BY <1>1, <1>4, <2>1 DEF ProviderCreatesIntent, Stage, RequestsTypeOK, vars
  <2>3. IntentAfter[s] \notin {"succeeded", "canceled", "requires_action"} /\ s # "RETURNED"
        /\ s \notin {"UNREACHABLE", "OVER"}
    BY AnswersAssumption DEF IntentAfter
  <2> QED
    BY <1>1, <2>2, <2>3, AnswersAssumption
       DEF RowFollowsIntent, SameFate, Unseen, CreationMatches
<1>5. CASE StoreAnswer(p)
  <2> DEFINE s == creating[p].stage
  <2>1. /\ s \in Answers /\ payment[p].status = "CREATED" /\ intent[p] = IntentAfter[s]
        /\ s \in {"CREATED", "PROCESSING", "AUTHORIZED", "FAILED"}
    BY <1>1, <1>5, AnswersAssumption DEF StoreAnswer, CreationMatches, RowFollowsIntent
  <2>2. /\ UNCHANGED <<sent, seen, intent>> /\ creating'[p].stage = "RETURNED"
        /\ \A q \in Payments \ {p} : creating'[q] = creating[q]
    BY <1>1, <1>5 DEF StoreAnswer, Stage, RequestsTypeOK
  <2>3. payment'[p].status = s /\ \A q \in Payments \ {p} : payment'[q] = payment[q]
    <3>1. CASE s = "CREATED"
      BY <1>5, <2>1, <3>1 DEF StoreAnswer
    <3>2. CASE s # "CREATED"
      <4>1. CanBecome(p, s)
        BY <2>1, <3>2 DEF CanBecome, PAYMENT_TRANSITIONS
      <4>2. ApplyProviderResult(p, s)
        BY <1>5, <2>1, <3>2, <4>1 DEF StoreAnswer, ApplyIfAllowed
      <4> QED
        BY <2>1, <3>2, <4>1, <4>2, ApplyWrites DEF PaymentsInv, EventStatuses
    <3> QED
      BY <3>1, <3>2
  <2> HIDE DEF s
  <2>4. \A u \in PaymentStatuses : <<p, u>> \notin sent
    BY <1>1, <1>5, AnswersAssumption DEF StoreAnswer, CreationMatches
  <2>5. RowFollowsIntent(p)'
    BY <2>1, <2>2, <2>3, <2>4, AnswersAssumption DEF RowFollowsIntent, IntentAfter, Unseen
  <2>6. s # "RETURNED" /\ (s = "AUTHORIZED" => intent[p] = "requires_capture")
        /\ intent[p] \notin {"succeeded", "canceled"}
    BY <2>1, AnswersAssumption DEF IntentAfter
  <2> QED
    BY <2>1, <2>2, <2>3, <2>5, <2>6 DEF SameFate, s
<1>6. ~IntentCallFails(p) /\ ~MarkUnreachable(p)
  BY DEF IntentCallFails, MarkUnreachable, CallsArrive, RowFollowsIntent
<1> QED
  BY <1>2, <1>3, <1>4, <1>5, <1>6 DEF PaymentRequestStep

\* The provider moves an intent, when cards are good.
LEMMA CustomerFate ==
    ASSUME PaymentsInv, NEW p \in Payments, RowFollowsIntent(p), CardsAreGood,
           \/ CustomerPays(p) \/ CustomerIsChallenged(p) \/ CardIsDeclined(p)
           \/ AuthorisationLapses(p) \/ ProcessingSettles(p)
    PROVE  /\ RowFollowsIntent(p)'
           /\ \A q \in Payments \ {p} : SameFate(q)
           /\ UNCHANGED <<payment, statusVars, creating, settling, deciding, cancel>>
           /\ \/ /\ intent[p] \in {"requires_payment_method", "processing"}
                 /\ intent'[p] = "requires_capture"
              \/ /\ intent[p] = "requires_capture" /\ intent'[p] = "canceled"
                 /\ Unseen(p, "CANCELLED")' /\ "lapse" \in CustomerMay
           /\ \A s \in PaymentStatuses : Unseen(p, s) => Unseen(p, s)'
<1>1. /\ payment \in [Payments -> PaymentRecords] /\ intent \in [Payments -> IntentStates]
  BY DEF PaymentsInv, Ledgers, Rows, RefundsTypeOK
<1>2. ~CustomerIsChallenged(p) /\ ~CardIsDeclined(p)
  BY DEF CustomerIsChallenged, CardIsDeclined, CardsAreGood
<1>3. PICK from, to, s :
         /\ creating[p].stage = "RETURNED" /\ intent[p] \in from
         /\ intent' = [intent EXCEPT ![p] = to] /\ sent' = sent \cup {<<p, s>>}
         /\ UNCHANGED <<payment, seen, statusVars, creating, settling, deciding, cancel>>
         /\ \/ /\ from \subseteq {"requires_payment_method", "requires_action", "processing"}
               /\ to = "requires_capture" /\ s = "AUTHORIZED"
            \/ /\ from = {"requires_capture"} /\ "lapse" \in CustomerMay
               /\ to = "canceled" /\ s = "CANCELLED"
  BY <1>2 DEF CustomerPays, ProcessingSettles, AuthorisationLapses, ProviderMoves, Emit
<1>4. intent'[p] = to /\ \A q \in Payments \ {p} : intent'[q] = intent[q]
  BY <1>1, <1>3
<1>5. \A q \in Payments \ {p} : SameFate(q)
  BY <1>3, <1>4 DEF SameFate
<1>6. <<p, s>> \notin sent /\ <<p, s>> \notin seen /\ s \in PaymentStatuses
  <2>1. s = "AUTHORIZED" => <<p, s>> \notin sent
    BY <1>3 DEF RowFollowsIntent, Authorised, PaymentStatuses
  <2>2. s = "CANCELLED" => <<p, s>> \notin sent
    BY <1>3 DEF PaymentsInv, Ledgers, EventsTellTheTruth
  <2> QED
    BY <1>3, <2>1, <2>2 DEF RowFollowsIntent, PaymentStatuses
<1>7. Unseen(p, s)' /\ \A u \in PaymentStatuses : Unseen(p, u) => Unseen(p, u)'
  BY <1>3, <1>6 DEF Unseen
<1>8. RowFollowsIntent(p)'
  BY <1>3, <1>4, <1>7, AnswersAssumption DEF RowFollowsIntent, Authorised
<1> QED
  BY <1>3, <1>4, <1>5, <1>7, <1>8 DEF RowFollowsIntent

\* An event about a payment is delivered.
LEMMA WebhookFate ==
    ASSUME PaymentsInv, NEW p \in Payments, NEW s \in PaymentStatuses, RowFollowsIntent(p),
           PaymentWebhook(p, s)
    PROVE  /\ RowFollowsIntent(p)'
           /\ FinalsArrive(p) => FinalsArrive(p)'
           /\ \A q \in Payments \ {p} : SameFate(q)
           /\ s \in {"AUTHORIZED", "SUCCEEDED", "CANCELLED"}
           /\ payment'[p].status \in {payment[p].status, s}
           /\ s = "AUTHORIZED" /\ payment'[p].status = "AUTHORIZED" =>
                 settling' = settling \cup {Settlement("webhook", p, "sync")}
           /\ s \in {"SUCCEEDED", "CANCELLED"} /\ FinalsArrive(p) =>
                 payment'[p].status # "AUTHORIZED"
           /\ \A u \in PaymentStatuses : u # s /\ Unseen(p, u) => Unseen(p, u)'
<1>1. /\ s \in {"AUTHORIZED", "SUCCEEDED", "CANCELLED"} /\ intent[p] \in Authorised
      /\ creating[p].stage = "RETURNED"
      /\ s = "SUCCEEDED" => intent[p] = "succeeded"
      /\ s = "CANCELLED" => intent[p] = "canceled"
  BY BeforeTheAnswer DEF RowFollowsIntent, PaymentWebhook, PaymentsInv, Ledgers,
     EventsTellTheTruth
<1>2. /\ payment[p].status \in PaymentStatuses \ {"FAILED", "REQUIRES_ACTION"}
      /\ payment[p].status \in Paid => intent[p] = "succeeded"
      /\ payment[p].status = "CANCELLED" => intent[p] = "canceled"
  <2>1. payment[p].status \in PaymentStatuses \cup {"NONE"} /\ payment[p].status # "NONE"
    BY <1>1 DEF PaymentsInv, Ledgers, Rows, RefundsTypeOK, PaymentRecords, Requests,
       CreationMatches
  <2> QED
    BY <1>1, <2>1 DEF PaymentsInv, Ledgers, RowsTellTheTruth, RowFollowsIntent, Authorised, Paid
<1>3. /\ UNCHANGED <<sent, intent, creating>>
      /\ seen' = seen \cup {<<p, s>>}
      /\ settling' = IF s = "AUTHORIZED" /\ (CanBecome(p, s) \/ payment[p].status = s)
                     THEN settling \cup {Settlement("webhook", p, "sync")} ELSE settling
  BY DEF PaymentWebhook
<1>4. /\ \A q \in Payments \ {p} : payment'[q] = payment[q]
      /\ payment'[p].status = IF s \in PAYMENT_TRANSITIONS[payment[p].status]
                              THEN s ELSE payment[p].status
  <2>1. CASE CanBecome(p, s)
    <3>1. ApplyProviderResult(p, s)
      BY <2>1 DEF PaymentWebhook, ApplyIfAllowed
    <3> QED
      BY <1>1, <1>2, <2>1, <3>1, ApplyWrites
         DEF PaymentsInv, EventStatuses, CanBecome, PaymentStatuses
  <2>2. CASE ~CanBecome(p, s)
    BY <2>2 DEF PaymentWebhook, ApplyIfAllowed, CanBecome
  <2> QED
    BY <2>1, <2>2
<1>5. \A q \in Payments \ {p} : SameFate(q)
  BY <1>3, <1>4 DEF SameFate
<1>6. \A u \in PaymentStatuses : u # s /\ Unseen(p, u) => Unseen(p, u)'
  BY <1>3 DEF Unseen
<1>7. RowFollowsIntent(p)'
  <2>1. payment[p].status \in {"CREATED", "PROCESSING"} /\ s = "AUTHORIZED" =>
           payment'[p].status = "AUTHORIZED"
    BY <1>4 DEF PAYMENT_TRANSITIONS
  <2>2. <<p, s>> \in sent
    BY DEF PaymentWebhook
  <2>3. payment'[p].status \in {payment[p].status, s}
    BY <1>4
  <2> QED
    BY <1>1, <1>2, <1>3, <1>6, <2>1, <2>2, <2>3, AnswersAssumption
       DEF RowFollowsIntent, Authorised, PaymentStatuses
<1>8. FinalsArrive(p) => /\ s = "SUCCEEDED" => payment'[p].status \in Paid
                         /\ s = "CANCELLED" => payment'[p].status = "CANCELLED"
  BY <1>1, <1>2, <1>4 DEF PAYMENT_TRANSITIONS, PaymentStatuses, Paid, FinalsArrive
<1>9. FinalsArrive(p) => FinalsArrive(p)'
  <2>1. payment[p].status \in Paid => payment'[p].status = payment[p].status
    BY <1>1, <1>4 DEF PAYMENT_TRANSITIONS, Paid
  <2>2. payment[p].status = "CANCELLED" => payment'[p].status = payment[p].status
    BY <1>4 DEF PAYMENT_TRANSITIONS
  <2> QED
    BY <1>1, <1>3, <1>4, <1>6, <1>8, <2>1, <2>2 DEF FinalsArrive, PaymentStatuses
<1>10. s = "AUTHORIZED" /\ payment'[p].status = "AUTHORIZED" =>
          settling' = settling \cup {Settlement("webhook", p, "sync")}
  BY <1>3, <1>4 DEF CanBecome
<1> QED
  BY <1>1, <1>4, <1>5, <1>6, <1>7, <1>8, <1>9, <1>10 DEF Paid

\* The answer to a capture or a void is stored.
LEMMA StoreFate ==
    ASSUME PaymentsInv, NEW t \in settling, RowFollowsIntent(t.payment), StoreSettlement(t)
    PROVE  /\ RowFollowsIntent(t.payment)'
           /\ FinalsArrive(t.payment) => FinalsArrive(t.payment)'
           /\ \A q \in Payments \ {t.payment} : SameFate(q)
           /\ payment'[t.payment].status # "AUTHORIZED"
           /\ payment'[t.payment].status \in {payment[t.payment].status, t.stage}
<1> DEFINE p == t.payment
           s == t.stage
<1>1. /\ p \in Payments /\ s \in {"SUCCEEDED", "CANCELLED"}
      /\ s = "SUCCEEDED" => intent[p] = "succeeded"
      /\ s = "CANCELLED" => intent[p] = "canceled"
  BY DEF PaymentsInv, Requests, RequestsTypeOK, Settlements, SettlementMatches, StoreSettlement
<1>2. creating[p].stage = "RETURNED"
  BY <1>1 DEF PaymentsInv, Requests, CreationMatches
<1>3. /\ payment[p].status \in PaymentStatuses \ {"FAILED", "REQUIRES_ACTION"}
  BY <1>1, <1>2 DEF PaymentsInv, Ledgers, Rows, RefundsTypeOK, PaymentRecords, Requests,
     CreationMatches, RowFollowsIntent
<1>4. UNCHANGED <<sent, seen, intent, creating>> /\ ApplyIfAllowed(p, s)
  BY DEF StoreSettlement
<1> HIDE DEF p, s
<1>5. /\ \A q \in Payments \ {p} : payment'[q] = payment[q]
      /\ payment'[p].status = IF s \in PAYMENT_TRANSITIONS[payment[p].status]
                              THEN s ELSE payment[p].status
  <2>1. CASE CanBecome(p, s)
    <3>1. ApplyProviderResult(p, s)
      BY <1>4, <2>1 DEF ApplyIfAllowed
    <3> QED
      BY <1>1, <1>3, <2>1, <3>1, ApplyWrites DEF PaymentsInv, EventStatuses, CanBecome,
         PaymentStatuses
  <2>2. CASE ~CanBecome(p, s)
    BY <1>4, <2>2 DEF ApplyIfAllowed, CanBecome
  <2> QED
    BY <2>1, <2>2
<1>6. \A q \in Payments \ {p} : SameFate(q)
  BY <1>4, <1>5 DEF SameFate
<1>7. RowFollowsIntent(p)'
  <2>1. RowFollowsIntent(p)
    BY DEF p
  <2> QED
    BY <1>1, <1>2, <1>3, <1>4, <1>5, <2>1, AnswersAssumption DEF RowFollowsIntent, Unseen
<1>8. FinalsArrive(p) => FinalsArrive(p)'
  <2>1. payment[p].status \in Paid => payment'[p].status \in Paid
    BY <1>1, <1>5 DEF PAYMENT_TRANSITIONS, Paid
  <2>2. payment[p].status = "CANCELLED" => payment'[p].status = payment[p].status
    BY <1>5 DEF PAYMENT_TRANSITIONS
  <2>3. payment'[p].status \in {payment[p].status, s}
    BY <1>5
  <2> QED
    BY <1>1, <1>4, <2>1, <2>2, <2>3 DEF FinalsArrive, Unseen
<1>9. payment'[p].status # "AUTHORIZED"
  BY <1>1, <1>3, <1>5 DEF PAYMENT_TRANSITIONS, PaymentStatuses
<1> QED
  BY <1>5, <1>6, <1>7, <1>8, <1>9 DEF p, s

\* The provider captures or voids.
LEMMA ProviderSettlesFate ==
    ASSUME PaymentsInv, NEW t \in settling, RowFollowsIntent(t.payment), ProviderSettles(t)
    PROVE  /\ RowFollowsIntent(t.payment)'
           /\ FinalsArrive(t.payment) /\ payment[t.payment].status # "PROCESSING" =>
                 FinalsArrive(t.payment)'
           /\ \A q \in Payments \ {t.payment} : SameFate(q)
           /\ Unseen(t.payment, "SUCCEEDED")' \/ Unseen(t.payment, "CANCELLED")'
           /\ \A q \in Payments, s \in PaymentStatuses : Unseen(q, s) => Unseen(q, s)'
<1> DEFINE p == t.payment
           s == Outcome(t.action)
           to == Target(t.action)
<1>1. /\ p \in Payments /\ t.action \in {"capture", "void"}
  BY DEF PaymentsInv, Requests, RequestsTypeOK, Settlements, SettlementMatches, ProviderSettles
<1>2. \/ s = "SUCCEEDED" /\ to = "succeeded"
      \/ s = "CANCELLED" /\ to = "canceled"
  BY DEF Outcome, Target
<1>3. /\ intent[p] = "requires_capture" /\ intent' = [intent EXCEPT ![p] = to]
      /\ sent' = sent \cup {<<p, s>>} /\ UNCHANGED <<payment, seen, creating>>
  BY DEF ProviderSettles, Emit
<1>4. creating[p].stage = "RETURNED" /\ intent \in [Payments -> IntentStates]
  BY <1>1 DEF PaymentsInv, Ledgers, Requests, CreationMatches
<1> HIDE DEF p, s, to
<1>5. intent'[p] = to /\ \A q \in Payments \ {p} : intent'[q] = intent[q]
  BY <1>1, <1>3, <1>4
<1>6. <<p, s>> \notin seen
  BY <1>1, <1>2, <1>3 DEF PaymentsInv, Ledgers, EventsTellTheTruth, RowFollowsIntent, p,
     PaymentStatuses
<1>7. \A q \in Payments \ {p} : SameFate(q)
  BY <1>3, <1>5 DEF SameFate
<1>8. Unseen(p, s)' /\ \A q \in Payments, u \in PaymentStatuses : Unseen(q, u) => Unseen(q, u)'
  BY <1>3, <1>6 DEF Unseen
<1>9. RowFollowsIntent(p)'
  <2>1. RowFollowsIntent(p)
    BY DEF p
  <2> QED
    BY <1>2, <1>3, <1>4, <1>5, <2>1, AnswersAssumption DEF RowFollowsIntent, Authorised
<1>10. FinalsArrive(p) /\ payment[p].status # "PROCESSING" => FinalsArrive(p)'
  BY <1>2, <1>3, <1>5, <1>8 DEF FinalsArrive, Authorised
<1> QED
  BY <1>2, <1>7, <1>8, <1>9, <1>10 DEF p

\* With a server that goes on, a refund acts on no event about a payment.
LEMMA RefundsFate ==
    ASSUME PaymentsInv, ~ServerMayStop, [RefundsNext]_vars, UNCHANGED <<creating, intent>>,
           NEW q \in Payments
    PROVE  SameFate(q) /\ \A s : <<q, s>> \in seen' <=> <<q, s>> \in seen
<1>1. seen' = seen \/ \E r \in Refunds, s \in Outcomes : seen' = seen \cup {<<r, s>>}
  <2>1. ASSUME NEW r \in Refunds, RefundStep(r)
        PROVE  seen' = seen \/ \E s \in Outcomes : seen' = seen \cup {<<r, s>>}
    BY <2>1 DEF RefundStep, ProviderRefunds, RefundCallFails, FinishRefund, FailRefund,
       ProviderSettlesRefund, RefundWebhook
  <2>2. CreateRefund => seen' = seen
    BY DEF CreateRefund, StartRefund
  <2> QED
    BY <2>1, <2>2 DEF RefundsNext, EventDiesWithServer, ResolveRefundReviewWithoutRefund,
       RefundServerStops, vars
<1>2. \A s : <<q, s>> \in seen' <=> <<q, s>> \in seen
  BY <1>1, EventsAssumption
<1>3. RefundWrites
  BY RefundsKeepLedgers DEF PaymentsInv
<1> QED
  BY <1>2, <1>3 DEF RefundWrites, SameFate

\* The steps that are about no payment in particular, or leave its fate alone.
LEMMA OtherStepsFate ==
    ASSUME PaymentsInv, CallsArrive,
           \/ \E t \in settling :
                 \/ SyncPaymentWithBookingDecision(t) \/ CheckAuthorized(t)
                 \/ ProviderRepeats(t) \/ SettlementFails(t)
           \/ DecisionStep \/ LookAfterDecision \/ CancellationStep \/ RefundsStep
           \/ UNCHANGED allVars
    PROVE  \A q \in Payments :
              SameFate(q) /\ \A s : Unseen(q, s) => Unseen(q, s)'
<1>1. ASSUME UNCHANGED <<payment, creating, intent, sent, seen>>
      PROVE  \A q \in Payments : SameFate(q) /\ \A s : Unseen(q, s) => Unseen(q, s)'
  BY <1>1 DEF SameFate, Unseen
<1>2. ASSUME [RefundsNext]_vars, UNCHANGED <<creating, intent>>
      PROVE  \A q \in Payments : SameFate(q) /\ \A s : Unseen(q, s) => Unseen(q, s)'
  <2>1. \A q \in Payments : SameFate(q) /\ \A s : <<q, s>> \in seen' <=> <<q, s>> \in seen
    BY <1>2, RefundsFate DEF CallsArrive
  <2>2. sent \subseteq sent'
    BY <1>2 DEF RefundsNext, CreateRefund, RefundStep, StartRefund, ProviderRefunds,
       RefundCallFails, FinishRefund, FailRefund, ProviderSettlesRefund, RefundWebhook,
       EventDiesWithServer, ResolveRefundReviewWithoutRefund, RefundServerStops, vars
  <2> QED
    BY <2>1, <2>2 DEF Unseen
<1>3. ASSUME NEW t \in settling,
             \/ SyncPaymentWithBookingDecision(t) \/ CheckAuthorized(t)
             \/ ProviderRepeats(t) \/ SettlementFails(t)
      PROVE  UNCHANGED <<payment, creating, intent, sent, seen>>
  BY <1>3 DEF SyncPaymentWithBookingDecision, CheckAuthorized, ProviderRepeats,
     SettlementFails, vars
<1>4. CASE DecisionStep \/ LookAfterDecision
  BY <1>1, <1>4 DEF DecisionStep, ConfirmBooking, RejectBooking, BookingEnds, SlaSweepReads,
     SlaSweepExpires, CancelBooking,
     LookAfterDecision, vars
<1>5. CASE CancellationStep
  <2>1. CASE AutoRefundStarts
    BY <1>2, <2>1, AutoRefundIsARefund DEF AutoRefundStarts
  <2>2. CASE ~AutoRefundStarts
    BY <1>1, <1>5, <2>2 DEF CancellationStep, CancelLooksForAuthorized,
       CancelLooksForRefundable, CancellationNeedsReview, AutoRefundRefused, AutoRefundEnds,
       WriteRefundStatus, vars
  <2> QED
    BY <2>1, <2>2
<1>6. CASE RefundsStep
  BY <1>2, <1>6, RefundsStepKeepsInv DEF RefundsStep, bookingVars
<1>7. CASE UNCHANGED allVars
  BY <1>1, <1>7 DEF allVars, vars, bookingVars
<1> QED
  BY <1>1, <1>3, <1>4, <1>5, <1>6, <1>7

\* When calls arrive and cards are good, no step fails a call or stops the server.
LEMMA NextCases ==
    ASSUME CallsArrive, CardsAreGood, [Next]_allVars
    PROVE  \/ \E p \in Payments :
                 \/ BeginPayment(p) \/ PaymentRequestStep(p)
                 \/ CustomerPays(p) \/ CustomerIsChallenged(p) \/ CardIsDeclined(p)
                 \/ AuthorisationLapses(p) \/ ProcessingSettles(p)
                 \/ \E s \in PaymentStatuses : PaymentWebhook(p, s)
           \/ \E t \in settling : ProviderSettles(t) \/ StoreSettlement(t)
           \/ \/ \E t \in settling :
                    \/ SyncPaymentWithBookingDecision(t) \/ CheckAuthorized(t)
                    \/ ProviderRepeats(t) \/ SettlementFails(t)
              \/ DecisionStep \/ LookAfterDecision \/ CancellationStep \/ RefundsStep
              \/ UNCHANGED allVars
BY DEF Next, CustomerStep, SettlementStep, ServerStops, CallsArrive

RowsFollowIntents == \A p \in Payments : RowFollowsIntent(p)

LEMMA RowsFollowIntentsStep ==
    ASSUME PaymentsInv, RowsFollowIntents, CallsArrive, CardsAreGood, [Next]_allVars
    PROVE  RowsFollowIntents'
<1>1. ASSUME NEW p \in Payments, RowFollowsIntent(p)', \A q \in Payments \ {p} : SameFate(q)
      PROVE  RowsFollowIntents'
  BY <1>1, FateKept DEF RowsFollowIntents
<1>2. ASSUME \A q \in Payments : SameFate(q)
      PROVE  RowsFollowIntents'
  BY <1>2, FateKept DEF RowsFollowIntents
<1>3. ASSUME NEW p \in Payments, BeginPayment(p) \/ PaymentRequestStep(p)
      PROVE  RowsFollowIntents'
  BY <1>1, <1>3, CreationFate DEF RowsFollowIntents
<1>4. ASSUME NEW p \in Payments,
             \/ CustomerPays(p) \/ CustomerIsChallenged(p) \/ CardIsDeclined(p)
             \/ AuthorisationLapses(p) \/ ProcessingSettles(p)
      PROVE  RowsFollowIntents'
  BY <1>1, <1>4, CustomerFate DEF RowsFollowIntents
<1>5. ASSUME NEW p \in Payments, NEW s \in PaymentStatuses, PaymentWebhook(p, s)
      PROVE  RowsFollowIntents'
  BY <1>1, <1>5, WebhookFate DEF RowsFollowIntents
<1>6. ASSUME NEW t \in settling, ProviderSettles(t) \/ StoreSettlement(t)
      PROVE  RowsFollowIntents'
  <2>1. t.payment \in Payments
    BY DEF PaymentsInv, Requests, RequestsTypeOK, Settlements
  <2> QED
    BY <1>1, <1>6, <2>1, ProviderSettlesFate, StoreFate DEF RowsFollowIntents
<1> QED
  BY <1>2, <1>3, <1>4, <1>5, <1>6, NextCases, OtherStepsFate

LEMMA RowsFollowIntentsInvariant ==
    CallsArrive /\ CardsAreGood => (Spec => [](PaymentsInv /\ RowsFollowIntents))
<1> SUFFICES ASSUME CallsArrive, CardsAreGood
             PROVE  Spec => [](PaymentsInv /\ RowsFollowIntents)
  OBVIOUS
<1>1. Init => RowsFollowIntents
  BY AnswersAssumption
     DEF Init, RefundRowsInit, RowsFollowIntents, RowFollowsIntent, Idle, IntentStates
<1>2. PaymentsInv /\ RowsFollowIntents /\ [Next]_allVars => RowsFollowIntents'
  BY RowsFollowIntentsStep
<1> QED
  BY <1>1, <1>2, PaymentsInvariant, PTL DEF Spec

-----------------------------------------------------------------------------
(* Authorisations on bookings that have been decided on. *)

\* Steps that are about no payment in particular.
LEMMA OthersKeepSettling ==
    ASSUME SettlingInv, settling' \subseteq Settlements,
           \A q \in Payments : SameFate(q) /\ \A s : Unseen(q, s) => Unseen(q, s)',
           \A t \in settling' : t.stage # "check" =>
              \E u \in settling : /\ u.payment = t.payment
                                  /\ u.stage # "check" \/ payment[t.payment].status = "AUTHORIZED",
           \A q \in Payments :
              /\ Decided' /\ payment[q].status = "AUTHORIZED"
              /\ Decided => SomebodySettles(q)
              => SomebodySettles(q)'
    PROVE  SettlingInv'
<1>1. \A q \in Payments : FinalsArrive(q)'
  BY FateKept DEF SettlingInv
<1>2. SettledWereAuthorised'
  <2> SUFFICES ASSUME NEW t \in settling', t.stage # "check"
               PROVE  payment'[t.payment].status
                         \notin {"NONE", "CREATED", "REQUIRES_ACTION", "PROCESSING"}
    BY DEF SettledWereAuthorised
  <2>1. t.payment \in Payments
    BY DEF Settlements
  <2>2. payment[t.payment].status \notin {"NONE", "CREATED", "REQUIRES_ACTION", "PROCESSING"}
    BY DEF SettlingInv, SettledWereAuthorised
  <2> QED
    BY <2>1, <2>2 DEF SameFate, Paid
<1>3. DecidedAreSettled'
  BY DEF SettlingInv, DecidedAreSettled, SameFate, Paid
<1> QED
  BY <1>1, <1>2, <1>3 DEF SettlingInv

\* Steps about payment p that neither start nor end a settlement of another one.
LEMMA OneKeepsSettling ==
    ASSUME SettlingInv, settling' \subseteq Settlements, NEW p \in Payments,
           FinalsArrive(p)', \A q \in Payments \ {p} : SameFate(q),
           UNCHANGED <<statusVars, deciding, cancel>>,
           \A q \in Payments \ {p}, s \in PaymentStatuses : Unseen(q, s) => Unseen(q, s)',
           \A t \in settling' : t.stage # "check" /\ t.payment # p =>
              t \in settling,
           \A t \in settling : t.payment # p => t \in settling',
           \A t \in settling' : t.stage # "check" /\ t.payment = p => payment'[p].status
                   \notin {"NONE", "CREATED", "REQUIRES_ACTION", "PROCESSING"},
           Decided /\ payment'[p].status = "AUTHORIZED" => SomebodySettles(p)'
    PROVE  SettlingInv'
<1>1. \A q \in Payments : FinalsArrive(q)'
  BY FateKept DEF SettlingInv
<1>2. SettledWereAuthorised'
  <2> SUFFICES ASSUME NEW t \in settling', t.stage # "check", t.payment # p
               PROVE  payment'[t.payment].status
                         \notin {"NONE", "CREATED", "REQUIRES_ACTION", "PROCESSING"}
    BY DEF SettledWereAuthorised
  <2>1. t.payment \in Payments
    BY DEF Settlements
  <2>2. payment[t.payment].status \notin {"NONE", "CREATED", "REQUIRES_ACTION", "PROCESSING"}
    BY DEF SettlingInv, SettledWereAuthorised
  <2> QED
    BY <2>1, <2>2 DEF SameFate, Paid
<1>3. DecidedAreSettled'
  <2> SUFFICES ASSUME NEW q \in Payments, q # p, Decided, payment'[q].status = "AUTHORIZED"
               PROVE  SomebodySettles(q)'
    BY DEF DecidedAreSettled, Decided
  <2>1. payment[q].status = "AUTHORIZED"
    BY DEF SameFate, Paid
  <2>2. SomebodySettles(q)
    BY <2>1 DEF SettlingInv, DecidedAreSettled
  <2> QED
    BY <2>2 DEF SomebodySettles, PaymentStatuses
<1> QED
  BY <1>1, <1>2, <1>3 DEF SettlingInv

LEMMA CreationKeepsSettling ==
    ASSUME PaymentsInv, SettlingInv, AuthorisedByEvents, CallsArrive, PaymentsInv',
           NEW p \in Payments, RowFollowsIntent(p), BeginPayment(p) \/ PaymentRequestStep(p)
    PROVE  SettlingInv'
<1>1. /\ \A q \in Payments \ {p} : SameFate(q)
      /\ creating[p].stage # "RETURNED"
      /\ payment'[p].status \in {"NONE", "CREATED"} \cup Answers
      /\ intent'[p] \notin {"succeeded", "canceled"}
  BY CreationFate
<1>2. /\ UNCHANGED <<statusVars, deciding, cancel, sent, seen>>
      /\ settling' = settling
  BY DEF BeginPayment, PaymentRequestStep, InsertPayment, ProviderCreatesIntent, IntentCallFails,
     MarkUnreachable, StoreAnswer, AuthorisedByEvents, vars
<1>3. payment'[p].status # "AUTHORIZED" /\ (payment'[p].status = "PROCESSING" =>
         "PROCESSING" \in Answers)
  BY <1>1 DEF AuthorisedByEvents
<1>4. FinalsArrive(p)'
  BY <1>1, <1>3 DEF FinalsArrive
<1>5. \A t \in settling : t.payment # p
  BY <1>1, BeforeTheAnswer
<1>6. settling' \subseteq Settlements
  BY DEF PaymentsInv, Requests, RequestsTypeOK
<1>7. \A q, s : Unseen(q, s) => Unseen(q, s)'
  BY <1>2 DEF Unseen
<1> QED
  BY <1>1, <1>2, <1>3, <1>4, <1>5, <1>6, <1>7, OneKeepsSettling

LEMMA CustomerKeepsSettling ==
    ASSUME PaymentsInv, SettlingInv, AuthorisedByEvents, CardsAreGood, PaymentsInv',
           NEW p \in Payments, RowFollowsIntent(p),
           \/ CustomerPays(p) \/ CustomerIsChallenged(p) \/ CardIsDeclined(p)
           \/ AuthorisationLapses(p) \/ ProcessingSettles(p)
    PROVE  SettlingInv'
<1>1. /\ \A q \in Payments \ {p} : SameFate(q)
      /\ UNCHANGED <<payment, statusVars, creating, settling, deciding, cancel>>
      /\ \/ /\ intent[p] \in {"requires_payment_method", "processing"}
            /\ intent'[p] = "requires_capture"
         \/ /\ intent[p] = "requires_capture" /\ intent'[p] = "canceled"
            /\ Unseen(p, "CANCELLED")' /\ "lapse" \in CustomerMay
      /\ \A s \in PaymentStatuses : Unseen(p, s) => Unseen(p, s)'
  BY CustomerFate
<1>2. \A q \in Payments \ {p}, s \in PaymentStatuses : Unseen(q, s) => Unseen(q, s)'
  BY <1>1 DEF SameFate, Unseen
<1>3. FinalsArrive(p)
  BY DEF SettlingInv
<1>4. FinalsArrive(p)'
  BY <1>1, <1>3 DEF FinalsArrive, Authorised, AuthorisedByEvents
<1>5. settling' \subseteq Settlements
  BY DEF PaymentsInv, Requests, RequestsTypeOK
<1>6. Decided /\ payment'[p].status = "AUTHORIZED" => SomebodySettles(p)'
  BY <1>1 DEF SettlingInv, DecidedAreSettled, SomebodySettles, PaymentStatuses
<1>7. \A t \in settling' : t.stage # "check" /\ t.payment = p => payment'[p].status
                   \notin {"NONE", "CREATED", "REQUIRES_ACTION", "PROCESSING"}
  BY <1>1 DEF SettlingInv, SettledWereAuthorised
<1> QED
  BY <1>1, <1>2, <1>4, <1>5, <1>6, <1>7, OneKeepsSettling

LEMMA WebhookKeepsSettling ==
    ASSUME PaymentsInv, SettlingInv, PaymentsInv', NEW p \in Payments,
           NEW s \in PaymentStatuses, RowFollowsIntent(p), PaymentWebhook(p, s)
    PROVE  SettlingInv'
<1>1. FinalsArrive(p)
  BY DEF SettlingInv
<1>2. /\ FinalsArrive(p)'
      /\ \A q \in Payments \ {p} : SameFate(q)
      /\ s \in {"AUTHORIZED", "SUCCEEDED", "CANCELLED"}
      /\ payment'[p].status \in {payment[p].status, s}
      /\ s = "AUTHORIZED" /\ payment'[p].status = "AUTHORIZED" =>
            settling' = settling \cup {Settlement("webhook", p, "sync")}
      /\ s \in {"SUCCEEDED", "CANCELLED"} => payment'[p].status # "AUTHORIZED"
  BY <1>1, WebhookFate
<1>3. /\ UNCHANGED <<statusVars, deciding, cancel, sent>>
      /\ seen' = seen \cup {<<p, s>>}
      /\ settling' = settling \/ settling' = settling \cup {Settlement("webhook", p, "sync")}
  BY DEF PaymentWebhook
<1>4. Settlement("webhook", p, "sync").payment = p
      /\ Settlement("webhook", p, "sync").stage = "check"
  BY DEF Settlement
<1>5. settling' \subseteq Settlements
  BY DEF PaymentsInv, Requests, RequestsTypeOK
<1>6. \A q \in Payments \ {p}, u \in PaymentStatuses : Unseen(q, u) => Unseen(q, u)'
  BY <1>3 DEF Unseen
<1>7. \A t \in settling' : t \in settling \/ (t.stage = "check" /\ t.payment = p)
  BY <1>3, <1>4
<1>8. \A t \in settling' : t.stage # "check" /\ t.payment = p => payment'[p].status
                   \notin {"NONE", "CREATED", "REQUIRES_ACTION", "PROCESSING"}
  BY <1>2, <1>7 DEF SettlingInv, SettledWereAuthorised
<1>9. payment'[p].status = "AUTHORIZED" => SomebodySettles(p)'
  BY <1>2, <1>4 DEF SomebodySettles
<1>10. \A t \in settling : t \in settling'
  BY <1>3
<1> QED
  BY <1>2, <1>3, <1>5, <1>6, <1>7, <1>8, <1>9, <1>10, OneKeepsSettling

LEMMA ProviderSettlesKeepsSettling ==
    ASSUME PaymentsInv, SettlingInv, CallsArrive, PaymentsInv', NEW t \in settling,
           RowFollowsIntent(t.payment), ProviderSettles(t)
    PROVE  SettlingInv'
<1> DEFINE p == t.payment
           u == [t EXCEPT !.stage = Outcome(t.action)]
<1>1. /\ settling' = (settling \ {t}) \cup {u}
      /\ UNCHANGED <<payment, statusVars, deciding, cancel>>
      /\ t.stage = "calling"
  BY DEF ProviderSettles, CallsArrive, Becomes
<1>2. /\ p \in Payments /\ u.payment = p
      /\ payment[p].status \notin {"NONE", "CREATED", "REQUIRES_ACTION", "PROCESSING"}
      /\ FinalsArrive(p)
  BY <1>1 DEF SettlingInv, SettledWereAuthorised, PaymentsInv, Requests, RequestsTypeOK,
     Settlements
<1>3. /\ FinalsArrive(t.payment)'
      /\ \A q \in Payments \ {t.payment} : SameFate(q)
      /\ Unseen(t.payment, "SUCCEEDED")' \/ Unseen(t.payment, "CANCELLED")'
      /\ \A q \in Payments, s \in PaymentStatuses : Unseen(q, s) => Unseen(q, s)'
  BY <1>2, ProviderSettlesFate
<1>4. settling' \subseteq Settlements
  BY DEF PaymentsInv, Requests, RequestsTypeOK
<1> HIDE DEF u
<1>5. \A v \in settling' : v.stage # "check" /\ v.payment # p => v \in settling
  BY <1>1, <1>2
<1>6. \A v \in settling : v.payment # p => v \in settling'
  BY <1>1
<1>7. \A v \in settling' : v.stage # "check" /\ v.payment = p => payment'[p].status
         \notin {"NONE", "CREATED", "REQUIRES_ACTION", "PROCESSING"}
  BY <1>1, <1>2
<1>8. SomebodySettles(t.payment)'
  BY <1>3 DEF SomebodySettles
<1> QED
  BY <1>1, <1>2, <1>3, <1>4, <1>5, <1>6, <1>7, <1>8, OneKeepsSettling

LEMMA StoreKeepsSettling ==
    ASSUME PaymentsInv, SettlingInv, PaymentsInv', NEW t \in settling,
           RowFollowsIntent(t.payment), StoreSettlement(t)
    PROVE  SettlingInv'
<1> DEFINE p == t.payment
<1>1. /\ settling' = settling \ {t}
      /\ UNCHANGED <<sent, seen, statusVars, deciding, cancel>>
      /\ t.stage \in {"SUCCEEDED", "CANCELLED"}
  BY DEF StoreSettlement, Ends
<1>2. p \in Payments /\ FinalsArrive(p)
  BY DEF SettlingInv, PaymentsInv, Requests, RequestsTypeOK, Settlements
<1>3. /\ FinalsArrive(t.payment)'
      /\ \A q \in Payments \ {p} : SameFate(q)
      /\ payment'[p].status # "AUTHORIZED"
      /\ payment'[p].status \in {payment[p].status, t.stage}
  BY <1>2, StoreFate
<1>4. settling' \subseteq Settlements
  BY DEF PaymentsInv, Requests, RequestsTypeOK
<1>5. payment'[p].status \notin {"NONE", "CREATED", "REQUIRES_ACTION", "PROCESSING"}
  BY <1>1, <1>3 DEF SettlingInv, SettledWereAuthorised
<1>6. \A q \in Payments \ {p}, s \in PaymentStatuses : Unseen(q, s) => Unseen(q, s)'
  BY <1>1 DEF Unseen
<1> QED
  BY <1>1, <1>2, <1>3, <1>4, <1>5, <1>6, OneKeepsSettling

\* A settlement that goes on, or ends when there is nothing to settle.
LEMMA SettlementsKeepSettling ==
    ASSUME PaymentsInv, SettlingInv, CallsArrive, PaymentsInv', NEW t \in settling,
           \/ SyncPaymentWithBookingDecision(t) \/ CheckAuthorized(t)
           \/ ProviderRepeats(t) \/ SettlementFails(t)
    PROVE  SettlingInv'
<1>1. \A q \in Payments : SameFate(q) /\ \A s : Unseen(q, s) => Unseen(q, s)'
  BY OtherStepsFate
<1>2. /\ UNCHANGED <<statusVars, deciding, cancel>>
      /\ settling' \subseteq Settlements
  BY DEF PaymentsInv, Requests, RequestsTypeOK, SyncPaymentWithBookingDecision,
     CheckAuthorized, ProviderRepeats, SettlementFails
<1>3. t.payment \in Payments
  BY DEF PaymentsInv, Requests, RequestsTypeOK, Settlements
<1>4. ASSUME NEW u, settling' = (settling \ {t}) \cup {u}, u.payment = t.payment,
             u.stage # "check" => t.stage # "check" \/ payment[t.payment].status = "AUTHORIZED"
      PROVE  SettlingInv'
  <2>1. \A v \in settling' : v.stage # "check" =>
           \E w \in settling : /\ w.payment = v.payment
                               /\ w.stage # "check" \/ payment[v.payment].status = "AUTHORIZED"
    BY <1>4
  <2>2. \A q \in Payments : SomebodySettles(q) => SomebodySettles(q)'
    BY <1>1, <1>2, <1>4 DEF SomebodySettles
  <2> QED
    BY <1>1, <1>2, <2>1, <2>2, OthersKeepSettling DEF Decided
<1>5. ASSUME settling' = settling \ {t},
             ~Decided \/ payment[t.payment].status # "AUTHORIZED"
                \/ Unseen(t.payment, "SUCCEEDED") \/ Unseen(t.payment, "CANCELLED")
      PROVE  SettlingInv'
  <2>1. \A v \in settling' : v.stage # "check" =>
           \E w \in settling : w.payment = v.payment /\ w.stage # "check"
    BY <1>5
  <2>2. ASSUME NEW q \in Payments, Decided, payment[q].status = "AUTHORIZED",
               SomebodySettles(q)
        PROVE  SomebodySettles(q)'
    <3>1. CASE q = t.payment
      BY <1>1, <1>5, <2>2, <3>1 DEF SomebodySettles
    <3>2. CASE q # t.payment
      BY <1>1, <1>2, <1>5, <2>2, <3>2 DEF SomebodySettles
    <3> QED
      BY <3>1, <3>2
  <2> QED
    BY <1>1, <1>2, <2>1, <2>2, OthersKeepSettling DEF Decided
<1>6. CASE SyncPaymentWithBookingDecision(t)
  <2>1. t.action = "sync" /\ t.stage = "check"
    BY <1>6 DEF SyncPaymentWithBookingDecision, PaymentsInv, Requests, SettlementMatches
  <2>2. ASSUME NEW a \in {"capture", "void"}, settling' =
                  (settling \ {t}) \cup {[t EXCEPT !.action = a]}
        PROVE  SettlingInv'
    <3> DEFINE u == [t EXCEPT !.action = a]
    <3>1. u.payment = t.payment /\ u.stage = t.stage
      BY DEF PaymentsInv, Requests, RequestsTypeOK, Settlements
    <3>2. settling' = (settling \ {t}) \cup {u}
      BY <2>2
    <3> HIDE DEF u
    <3> QED
      BY <1>4, <3>1, <3>2
  <2>3. CASE settling' = settling \ {t} /\ ~Decided
    BY <1>5, <2>3
  <2> QED
    BY <1>6, <2>2, <2>3 DEF SyncPaymentWithBookingDecision, Becomes, Ends, Decided,
       CancelledStatuses
<1>7. CASE CheckAuthorized(t)
  <2>1. CASE payment[t.payment].status = "AUTHORIZED"
    <3> DEFINE u == [t EXCEPT !.stage = "calling"]
    <3>1. u.payment = t.payment
      BY DEF PaymentsInv, Requests, RequestsTypeOK, Settlements
    <3>2. settling' = (settling \ {t}) \cup {u}
      BY <1>7, <2>1 DEF CheckAuthorized, Becomes
    <3> HIDE DEF u
    <3> QED
      BY <1>4, <2>1, <3>1, <3>2
  <2>2. CASE payment[t.payment].status # "AUTHORIZED"
    BY <1>5, <1>7, <2>2 DEF CheckAuthorized, Ends
  <2> QED
    BY <2>1, <2>2
<1>8. CASE ProviderRepeats(t)
  <2> DEFINE u == [t EXCEPT !.stage = Outcome(t.action)]
  <2>1. u.payment = t.payment /\ t.stage # "check"
    BY <1>8 DEF PaymentsInv, Requests, RequestsTypeOK, Settlements, ProviderRepeats
  <2>2. settling' = (settling \ {t}) \cup {u}
    BY <1>8 DEF ProviderRepeats, Becomes
  <2> HIDE DEF u
  <2> QED
    BY <1>4, <2>1, <2>2
<1>9. CASE SettlementFails(t)
  <2>1. settling' = settling \ {t} /\ intent[t.payment] # "requires_capture"
    BY <1>9 DEF SettlementFails, Ends, CallsArrive
  <2>2. payment[t.payment].status = "AUTHORIZED" =>
           Unseen(t.payment, "SUCCEEDED") \/ Unseen(t.payment, "CANCELLED")
    BY <1>3, <2>1 DEF SettlingInv, FinalsArrive, Authorised, Paid
  <2> QED
    BY <1>5, <2>1, <2>2
<1> QED
  BY <1>6, <1>7, <1>8, <1>9

\* The only payment that reads AUTHORIZED is the one that a look finds.
LEMMA LooksKeepSettling ==
    ASSUME PaymentsInv, SettlingInv, CallsArrive, PaymentsInv',
           LookAfterDecision \/ CancelLooksForAuthorized
    PROVE  SettlingInv'
<1>1. \A q \in Payments : SameFate(q) /\ \A s : Unseen(q, s) => Unseen(q, s)'
  BY OtherStepsFate DEF CancellationStep
<1>2. settling' \subseteq Settlements /\ booking' = booking
  BY DEF PaymentsInv, Requests, RequestsTypeOK, LookAfterDecision, CancelLooksForAuthorized
<1>3. ASSUME NEW p \in AuthorizedPayments, NEW origin, NEW action,
             settling' = settling \cup {Settlement(origin, p, action)}
      PROVE  SettlingInv'
  <2> DEFINE u == Settlement(origin, p, action)
  <2>1. u.payment = p /\ u.stage = "check" /\ settling' = settling \cup {u}
    BY <1>3 DEF Settlement
  <2> HIDE DEF u
  <2>2. \A v \in settling' : v.stage # "check" => v \in settling
    BY <2>1
  <2>3. \A q \in Payments : payment[q].status = "AUTHORIZED" => q = p
    BY DEF AuthorizedPayments, PaymentsInv, Ledgers, OneOpenPayment, Open
  <2>4. \A q \in Payments : payment[q].status = "AUTHORIZED" => SomebodySettles(q)'
    BY <2>1, <2>3 DEF SomebodySettles
  <2> QED
    BY <1>1, <1>2, <2>2, <2>4, OthersKeepSettling
<1>4. CASE AuthorizedPayments = {} /\ settling' = settling
  BY <1>1, <1>2, <1>4, OthersKeepSettling DEF AuthorizedPayments
<1> QED
  BY <1>3, <1>4 DEF LookAfterDecision, CancelLooksForAuthorized

\* A decision sets out to look for the payment, the end of a booking is none,
\* and the other steps leave everything as it was.
LEMMA OtherStepsKeepSettling ==
    ASSUME PaymentsInv, SettlingInv, CallsArrive, PaymentsInv',
           DecisionStep \/ CancellationStep \/ RefundsStep \/ UNCHANGED allVars,
           ~CancelLooksForAuthorized
    PROVE  SettlingInv'
<1>1. \A q \in Payments : SameFate(q) /\ \A s : Unseen(q, s) => Unseen(q, s)'
  BY OtherStepsFate
<1>2. settling' \subseteq Settlements
  BY DEF PaymentsInv, Requests, RequestsTypeOK
<1>3. settling' = settling
  BY DEF DecisionStep, ConfirmBooking, RejectBooking, BookingEnds, SlaSweepReads,
     SlaSweepExpires, CancelBooking,
     CancellationStep, CancelLooksForRefundable, CancellationNeedsReview, AutoRefundStarts,
     AutoRefundRefused, AutoRefundEnds, WriteRefundStatus, RefundsStep, bookingVars, allVars
<1>4. \/ deciding' # "none"
      \/ ~Decided'
      \/ cancel'.stage = "AUTHORIZED?"
      \/ UNCHANGED <<booking, deciding>> /\ cancel.stage # "AUTHORIZED?"
      \/ UNCHANGED <<booking, deciding, cancel>>
  <2>1. CASE DecisionStep
    <3>1. CancelBooking => cancel'.stage = "AUTHORIZED?"
      BY DEF CancelBooking, PaymentsInv, Requests, RequestsTypeOK
    <3> QED
      BY <2>1, <3>1 DEF DecisionStep, ConfirmBooking, RejectBooking, BookingEnds, SlaSweepReads,
         SlaSweepExpires, Decided,
         CancelledStatuses
  <2>2. CASE CancellationStep
    BY <2>2 DEF CancellationStep, CancelLooksForRefundable, CancellationNeedsReview,
       AutoRefundStarts, AutoRefundRefused, AutoRefundEnds, WriteRefundStatus
  <2>3. CASE RefundsStep \/ UNCHANGED allVars
    BY <2>3 DEF RefundsStep, bookingVars, allVars
  <2> QED
    BY <2>1, <2>2, <2>3
<1>5. ASSUME NEW q \in Payments, Decided', Decided => SomebodySettles(q)
      PROVE  SomebodySettles(q)'
  BY <1>1, <1>3, <1>4, <1>5 DEF SomebodySettles, Decided
<1> QED
  BY <1>1, <1>2, <1>3, <1>5, OthersKeepSettling

LEMMA SettlingStep ==
    ASSUME PaymentsInv, RowsFollowIntents, SettlingInv, CallsArrive, CardsAreGood,
           AuthorisedByEvents, [Next]_allVars
    PROVE  SettlingInv'
<1>1. PaymentsInv'
  BY PaymentsInvStep
<1>2. \A t \in settling : t.payment \in Payments /\ RowFollowsIntent(t.payment)
  BY DEF PaymentsInv, Requests, RequestsTypeOK, Settlements, RowsFollowIntents
<1>3. \A p \in Payments : RowFollowsIntent(p)
  BY DEF RowsFollowIntents
<1> QED
  BY <1>1, <1>2, <1>3, NextCases, CreationKeepsSettling, CustomerKeepsSettling,
     WebhookKeepsSettling, ProviderSettlesKeepsSettling, StoreKeepsSettling,
     SettlementsKeepSettling, LooksKeepSettling, OtherStepsKeepSettling DEF CancellationStep

LEMMA SettlingInvariant ==
    CallsArrive /\ CardsAreGood /\ AuthorisedByEvents =>
        (Spec => [](RowsFollowIntents /\ SettlingInv))
<1> SUFFICES ASSUME CallsArrive, CardsAreGood, AuthorisedByEvents
             PROVE  Spec => [](RowsFollowIntents /\ SettlingInv)
  OBVIOUS
<1>1. Init => SettlingInv
  BY DEF Init, RefundRowsInit, SettlingInv, FinalsArrive, SettledWereAuthorised,
     DecidedAreSettled
<1>2. PaymentsInv /\ RowsFollowIntents /\ SettlingInv /\ [Next]_allVars => SettlingInv'
  BY SettlingStep
<1>3. Spec => [](PaymentsInv /\ RowsFollowIntents)
  BY RowsFollowIntentsInvariant
<1> QED
  BY <1>1, <1>2, <1>3, PTL DEF Spec

LEMMA QuietIsSettled ==
    ASSUME SettlingInv, Quiet, Decided
    PROVE  AuthorizedPayments = {}
BY DEF SettlingInv, DecidedAreSettled, Quiet, SomebodySettles, Unseen, AuthorizedPayments

LEMMA QuietIsRecorded ==
    ASSUME PaymentsInv, RowsFollowIntents
    PROVE  HeldMoneyIsOnRecord
<1> SUFFICES ASSUME Quiet, NEW p \in Payments, intent[p] = "requires_capture"
             PROVE  payment[p].status = "AUTHORIZED"
  BY DEF HeldMoneyIsOnRecord
<1>1. RowFollowsIntent(p) /\ ~Unseen(p, "AUTHORIZED")
  BY DEF RowsFollowIntents, Quiet, Unseen
<1>2. creating[p].stage = "RETURNED"
  BY <1>1, BeforeTheAnswer DEF Quiet, RowFollowsIntent
<1> QED
  BY <1>1, <1>2 DEF RowFollowsIntent

-----------------------------------------------------------------------------
(* The theorems: whatever fails. *)

\* Rows, requests and the provider's intents keep their types, however calls
\* fail, cards are declined and servers stop.
THEOREM PaymentsTypeCorrect == Spec => []PaymentsTypeOK
<1>1. PaymentsInv => PaymentsTypeOK
  BY AnswersAssumption DEF PaymentsInv, Ledgers, Rows, Requests, RequestsTypeOK, CancelTypes,
     CreationStages, PaymentsTypeOK, PaymentStatuses
<1> QED
  BY <1>1, PaymentsInvariant, PTL

\* Nobody is charged before the vendor has confirmed: every capture goes back to
\* a confirmation that confirmBooking, syncPaymentWithBookingDecision or
\* createPaymentIntent has read, even when the SLA sweep writes over it.
THEOREM ChargesFollowConfirmation == Spec => []NoChargeBeforeConfirmation
<1>1. PaymentsInv => NoChargeBeforeConfirmation
  BY DEF PaymentsInv, Requests, ChargesAreAgreed, NoChargeBeforeConfirmation
<1> QED
  BY <1>1, PaymentsInvariant, PTL

\* A payment reads as captured or voided only when the provider's intent is,
\* whichever of executeCaptureOrVoid and handleProviderWebhook wrote it, and
\* however late (applyProviderResult).
THEOREM PaymentRowsTellTheTruth == Spec => []RowsTellTheTruth
<1>1. PaymentsInv => RowsTellTheTruth
  BY DEF PaymentsInv, Ledgers
<1> QED
  BY <1>1, PaymentsInvariant, PTL

\* What RefundsProofs shows of refunds alone holds beside captures, voids,
\* cancellations and their automatic refunds: no payment has more reserved for
\* refunds than was captured (validateRefund), and refunded_amount is what the
\* refunds not given up amount to.
THEOREM BookingRefundsNeverExceedCapture == Spec => [](NeverOverRefunded /\ ReservationsMatch)
<1>1. PaymentsInv => NeverOverRefunded /\ ReservationsMatch
  BY NeverMoreThanCaptured DEF PaymentsInv, Ledgers, Money
<1> QED
  BY <1>1, PaymentsInvariant, PTL

\* The money ledger, the refunds with a provider_refund_id and the reviews closed
\* as refunded tell the truth here too (applyRefundResult).
THEOREM BookingRefundsTellTheTruth ==
    Spec => [](LedgerMatchesRefunds /\ KnownRefundTellsTheTruth /\ ReviewClosedByMoney)
<1>1. PaymentsInv => LedgerMatchesRefunds /\ KnownRefundTellsTheTruth /\ ReviewClosedByMoney
  BY DEF PaymentsInv, Ledgers, Rows
<1> QED
  BY <1>1, PaymentsInvariant, PTL

-----------------------------------------------------------------------------
(* The theorems: when refunds of a payment do not overlap. *)

\* A booking has one live payment at most: findActiveForBooking holds its lock
\* until the new row is committed, and no row comes back to life beside it.
THEOREM OneLivePaymentOneByOne == Spec /\ []OneRefundAtATime => []OneLivePayment
<1>1. LivePaymentInv => OneLivePayment
  BY LiveIsOneOrNone DEF LivePaymentInv
<1> QED
  BY <1>1, LivePaymentInvariant, PTL

\* The booking's payment status is that of its live payment, whichever request,
\* webhook or refund wrote last (applyProviderResult, applyRefundResult).
THEOREM BookingShowsPaymentOneByOne == Spec /\ []OneRefundAtATime => []BookingShowsItsPayment
<1>1. LivePaymentInv => BookingShowsItsPayment
  BY DEF LivePaymentInv
<1> QED
  BY <1>1, LivePaymentInvariant, PTL

\* With the cancellation's automatic refund and no other, the two need nothing
\* more: however many attempts a customer makes.
THEOREM OneLivePaymentWithoutAdmin ==
    Refunds = {AutoRefund} => (Spec => [](OneLivePayment /\ BookingShowsItsPayment))
<1> SUFFICES ASSUME Refunds = {AutoRefund}
             PROVE  Spec => [](OneLivePayment /\ BookingShowsItsPayment)
  OBVIOUS
<1>1. OneRefundAtATime
  BY DEF OneRefundAtATime
<1> QED
  BY <1>1, OneLivePaymentOneByOne, BookingShowsPaymentOneByOne, PTL

-----------------------------------------------------------------------------
(* The theorems: when calls arrive and cards are good. *)

\* When all is quiet, money held at the provider is on record: no order of the
\* provider's answer (createPaymentIntent's second transaction), its webhooks and
\* the captures, voids and lapses that follow loses an authorisation.
THEOREM HeldMoneyIsRecorded ==
    CallsArrive /\ CardsAreGood => (Spec => []HeldMoneyIsOnRecord)
<1> SUFFICES ASSUME CallsArrive, CardsAreGood PROVE Spec => []HeldMoneyIsOnRecord
  OBVIOUS
<1>1. Spec => [](PaymentsInv /\ RowsFollowIntents)
  BY RowsFollowIntentsInvariant
<1>2. PaymentsInv /\ RowsFollowIntents => HeldMoneyIsOnRecord
  BY QuietIsRecorded
<1> QED
  BY <1>1, <1>2, PTL

\* When all is quiet a confirmed booking has no authorisation left to capture:
\* confirmBooking finds one that is there, and syncPaymentWithBookingDecision
\* captures one that comes later.
THEOREM ConfirmedBookingsAreCaptured ==
    CallsArrive /\ CardsAreGood /\ AuthorisedByEvents =>
        (Spec => []ConfirmedBookingIsCaptured)
<1>1. SettlingInv => ConfirmedBookingIsCaptured
  BY QuietIsSettled DEF ConfirmedBookingIsCaptured, Decided
<1> QED
  BY <1>1, SettlingInvariant, PTL

\* When all is quiet a rejected or cancelled booking holds nobody's money
\* (rejectBooking, cancelBooking, syncPaymentWithBookingDecision).
THEOREM DecidedBookingsReleaseCards ==
    CallsArrive /\ CardsAreGood /\ AuthorisedByEvents =>
        (Spec => []DecidedBookingReleasesCard)
<1>1. SettlingInv => DecidedBookingReleasesCard
  BY QuietIsSettled DEF DecidedBookingReleasesCard, Decided
<1> QED
  BY <1>1, SettlingInvariant, PTL
=============================================================================
