--------------------------- MODULE RefundsProofs ---------------------------
(***************************************************************************)
(* Proofs about Refunds, for every number of payments and refunds and      *)
(* every total: what is reserved for refunds is what the refunds not given *)
(* up amount to, and never more than was captured; each success enters the *)
(* ledger once; a known refund tells the truth; money closes a review.     *)
(***************************************************************************)
EXTENDS Refunds, FiniteSetTheorems, TLAPS

-----------------------------------------------------------------------------
(* Counting the money that refunds stand for. *)

Counted == {"CREATED", "PROCESSING", "SUCCEEDED"}

\* The units of money that refund row f, of refund r, stands for at payment p.
UnitsOf(f, r, p) == {u \in {r} \X (1..Total) : f.payment = p /\ u[2] <= f.amount}

LEMMA UpTo ==
    ASSUME NEW k \in Nat
    PROVE  IsFiniteSet(1..k) /\ Cardinality(1..k) = k
<1>1. IsFiniteSet(1..k) /\ Cardinality(1..k) = IF 1 > k THEN 0 ELSE k - 1 + 1
  BY FS_Interval
<1> QED
  BY <1>1

LEMMA UnitsOfFinite ==
    ASSUME NEW f \in RefundRecords, NEW r, NEW p
    PROVE  /\ IsFiniteSet(UnitsOf(f, r, p))
           /\ Cardinality(UnitsOf(f, r, p)) = IF f.payment = p THEN f.amount ELSE 0
<1>1. CASE f.payment # p
  <2>1. UnitsOf(f, r, p) = {}
    BY <1>1 DEF UnitsOf
  <2> QED
    BY <1>1, <2>1, FS_EmptySet
<1>2. CASE f.payment = p
  <2> DEFINE n == f.amount
             g == [i \in 1..n |-> <<r, i>>]
  <2>1. n \in 0..Total /\ n \in Nat /\ Total \in Nat
    BY TotalAssumption DEF RefundRecords
  <2>2. IsFiniteSet(1..n) /\ Cardinality(1..n) = n
    BY <2>1, UpTo
  <2>3. g \in Bijection(1..n, UnitsOf(f, r, p))
    <3>1. \A i \in 1..n : g[i] \in UnitsOf(f, r, p)
      BY <1>2, <2>1 DEF UnitsOf
    <3>2. \A u \in UnitsOf(f, r, p) : u[2] \in 1..n /\ g[u[2]] = u
      BY <1>2, <2>1 DEF UnitsOf
    <3>3. \A i, j \in 1..n : g[i] = g[j] => i = j
      OBVIOUS
    <3> QED
      BY <3>1, <3>2, <3>3 DEF Bijection, Injection, Surjection, IsInjective
  <2> QED
    BY <1>2, <2>2, <2>3, FS_Bijection DEF ExistsBijection
<1> QED
  BY <1>1, <1>2

LEMMA UnitsFinite ==
    ASSUME NEW R \in SUBSET Refunds, NEW p
    PROVE  IsFiniteSet(Units(R, p)) /\ Amount(R, p) \in Nat
<1>1. Total \in Nat /\ IsFiniteSet(R)
  BY TotalAssumption, RefundsAssumption, FS_Subset
<1>2. IsFiniteSet(1..Total)
  BY <1>1, FS_Interval
<1>3. IsFiniteSet(R \X (1..Total))
  BY <1>1, <1>2, FS_Product
<1>4. Units(R, p) \in SUBSET (R \X (1..Total))
  BY DEF Units
<1> QED
  BY <1>3, <1>4, FS_Subset, FS_CardinalityType DEF Amount

LEMMA DisjointUnion ==
    ASSUME NEW S, IsFiniteSet(S), NEW T, IsFiniteSet(T), S \cap T = {}
    PROVE  Cardinality(S \cup T) = Cardinality(S) + Cardinality(T)
<1>1. Cardinality(S \cup T) = Cardinality(S) + Cardinality(T) - 0
  BY FS_Union, FS_EmptySet
<1>2. Cardinality(S) \in Nat /\ Cardinality(T) \in Nat
  BY FS_CardinalityType
<1> QED
  BY <1>1, <1>2

Live == InStatus(Counted)
Weight(f, p) == IF f.status \in Counted /\ f.payment = p THEN f.amount ELSE 0

\* What the live refunds of a payment amount to when one row changes.
LEMMA AmountChanges ==
    ASSUME NEW r \in Refunds, NEW p, NEW f \in RefundRecords,
           refund \in [Refunds -> RefundRecords],
           refund' = [refund EXCEPT ![r] = f]
    PROVE  Amount(Live, p)' = Amount(Live, p) - Weight(refund[r], p) + Weight(f, p)
<1> DEFINE A == IF refund[r].status \in Counted THEN UnitsOf(refund[r], r, p) ELSE {}
           B == IF f.status \in Counted THEN UnitsOf(f, r, p) ELSE {}
           C == Units(Live, p)
           D == Units(Live \ {r}, p)
<1>1. C = D \cup A /\ D \cap A = {}
  BY DEF Units, UnitsOf, Live, InStatus
<1>2. Units(Live, p)' = D \cup B /\ D \cap B = {}
  BY DEF Units, UnitsOf, Live, InStatus
<1>3. Live \in SUBSET Refunds
  BY DEF Live, InStatus
<1>4. IsFiniteSet(D) /\ Cardinality(D) \in Nat
  BY <1>3, UnitsFinite DEF Amount
<1>5. IsFiniteSet(A) /\ Cardinality(A) = Weight(refund[r], p)
  BY UnitsOfFinite, FS_EmptySet DEF Weight
<1>6. IsFiniteSet(B) /\ Cardinality(B) = Weight(f, p)
  BY UnitsOfFinite, FS_EmptySet DEF Weight
<1> HIDE DEF A, B, C, D
<1>7. Cardinality(C) = Cardinality(D) + Cardinality(A)
  BY <1>1, <1>4, <1>5, DisjointUnion
<1>8. Cardinality(D \cup B) = Cardinality(D) + Cardinality(B)
  BY <1>2, <1>4, <1>6, DisjointUnion
<1>9. Weight(refund[r], p) \in Int /\ Weight(f, p) \in Int
  BY TotalAssumption DEF Weight, RefundRecords
<1>10. Amount(Live, p) = Cardinality(C) /\ Amount(Live, p)' = Cardinality(D \cup B)
  BY <1>2 DEF Amount, C
<1> QED
  BY <1>4, <1>5, <1>6, <1>7, <1>8, <1>9, <1>10

LEMMA AmountKept ==
    ASSUME NEW p, refund' = refund
    PROVE  Amount(Live, p)' = Amount(Live, p)
BY DEF Amount, Units, Live, InStatus

-----------------------------------------------------------------------------
(* The inductive invariant. *)

Final == {"SUCCEEDED", "FAILED"}

\* How the row of a refund, the request that made it, and the provider go
\* together.
RowMatchesRequest(r) ==
    /\ refund[r].status = "NONE" =>
          refund[r] = NoRefund /\ request[r] = "NONE" /\ atProvider[r] = "NONE"
    /\ refund[r].status # "NONE" => refund[r].payment \in Payments
    /\ r \in RefundsInMemory => refund[r].status = "CREATED" /\ ~refund[r].known
    /\ request[r] = "CALLING" => atProvider[r] = "NONE"
    /\ request[r] \in Final => atProvider[r] = request[r]
    /\ \A s \in Final : <<r, s>> \in sent => atProvider[r] = s

Rows ==
    /\ RefundsTypeOK
    /\ \A r \in Refunds : RowMatchesRequest(r)
    /\ LedgerMatchesRefunds
    /\ KnownRefundTellsTheTruth
    /\ ReviewClosedByMoney

CapturedCovers == \A p \in Payments : payment[p].refunded <= payment[p].captured

RefundsInv == Rows /\ ReservationsMatch /\ CapturedCovers

LEMMA InvInit == RefundsInit => RefundsInv
<1> SUFFICES ASSUME RefundsInit PROVE RefundsInv
  OBVIOUS
<1> USE DEF RefundsInit, RefundRowsInit
<1>1. RefundsTypeOK
  BY TotalAssumption DEF RefundsTypeOK, PaymentRecords, PaymentStatuses, BookingPaymentStatuses,
     RefundStatuses, RefundRecords, NoRefund, Stages
<1>2. /\ \A r \in Refunds : RowMatchesRequest(r)
      /\ LedgerMatchesRefunds /\ KnownRefundTellsTheTruth /\ ReviewClosedByMoney
  BY DEF RowMatchesRequest, RefundsInMemory, Outcomes, Final, NoRefund, LedgerMatchesRefunds,
     KnownRefundTellsTheTruth, ReviewClosedByMoney
<1>3. ASSUME NEW p \in Payments
      PROVE  payment[p].refunded = 0 /\ 0 <= payment[p].captured /\ Amount(Live, p) = 0
  <2>1. Units(Live, p) = {}
    BY DEF Units, Live, InStatus, Counted, NoRefund
  <2> QED
    BY <2>1, TotalAssumption, FS_EmptySet DEF Amount
<1> QED
  BY <1>1, <1>2, <1>3 DEF RefundsInv, Rows, ReservationsMatch, CapturedCovers, Live, Counted

-----------------------------------------------------------------------------
(* Rows, requests and the provider. *)

LEMMA StartKeepsRows ==
    ASSUME Rows, NEW r \in Refunds, NEW p \in Payments, NEW n \in 1..Total,
           StartRefund(r, p, n)
    PROVE  Rows'
<1> DEFINE f == [status |-> "CREATED", payment |-> p, amount |-> n, known |-> FALSE]
<1> USE DEF Rows, StartRefund
<1>1. f \in RefundRecords
  BY TotalAssumption DEF RefundRecords, REFUND_TRANSITIONS
<1>2. RefundsTypeOK'
  <2>1. refund' \in [Refunds -> RefundRecords]
    BY <1>1 DEF RefundsTypeOK
  <2>2. payment' \in [Payments -> PaymentRecords]
    BY TotalAssumption DEF RefundsTypeOK, PaymentRecords
  <2> QED
    BY <2>1, <2>2 DEF RefundsTypeOK, Stages
<1>3. ASSUME NEW q \in Refunds PROVE RowMatchesRequest(q)'
  BY DEF RowMatchesRequest, RefundsInMemory, Outcomes, Final, NoRefund, RefundsTypeOK
<1>4. LedgerMatchesRefunds'
  BY DEF LedgerMatchesRefunds, RefundsTypeOK, NoRefund
<1>5. KnownRefundTellsTheTruth'
  BY DEF KnownRefundTellsTheTruth, RefundsTypeOK
<1>6. ReviewClosedByMoney'
  BY DEF ReviewClosedByMoney, InStatus, RefundsTypeOK, NoRefund
<1> QED
  BY <1>2, <1>3, <1>4, <1>5, <1>6

\* Steps that leave the refund rows alone: the provider's and the server's.
LEMMA QuietKeepsRows ==
    ASSUME Rows, UNCHANGED <<payment, bookingPayment, refund, issued>>,
           refundStatus' \in {refundStatus, "RESOLVED_NO_REFUND"},
           request' \in [Refunds -> Stages],
           atProvider' \in [Refunds -> Outcomes \cup {"NONE"}],
           \A r \in Refunds : RowMatchesRequest(r)',
           \A r \in Refunds : atProvider[r] \in Final => atProvider'[r] = atProvider[r]
    PROVE  Rows'
<1>1. RefundsTypeOK'
  BY DEF Rows, RefundsTypeOK, RefundStatuses
<1>2. LedgerMatchesRefunds'
  BY DEF Rows, LedgerMatchesRefunds
<1>3. KnownRefundTellsTheTruth'
  BY DEF Rows, KnownRefundTellsTheTruth, Final
<1>4. ReviewClosedByMoney'
  BY DEF Rows, ReviewClosedByMoney, InStatus
<1> QED
  BY <1>1, <1>2, <1>3, <1>4 DEF Rows

LEMMA ProviderRefundsKeepsRows ==
    ASSUME Rows, NEW r \in Refunds, ProviderRefunds(r)
    PROVE  Rows'
<1> USE DEF ProviderRefunds, Rows
<1>1. PICK s \in Outcomes : /\ atProvider' = [atProvider EXCEPT ![r] = s]
                            /\ sent' = sent \cup {<<r, s>>}
                            /\ request' \in {[request EXCEPT ![r] = s],
                                              [request EXCEPT ![r] = "UNREACHABLE"]}
  OBVIOUS
<1>2. request' \in [Refunds -> Stages]
  BY <1>1 DEF RefundsTypeOK, Stages
<1>3. atProvider' \in [Refunds -> Outcomes \cup {"NONE"}]
  BY <1>1 DEF RefundsTypeOK
<1>4. ASSUME NEW q \in Refunds PROVE RowMatchesRequest(q)'
  BY <1>1 DEF RowMatchesRequest, RefundsInMemory, Outcomes, Final, NoRefund, RefundsTypeOK
<1>5. ASSUME NEW q \in Refunds, atProvider[q] \in Final PROVE atProvider'[q] = atProvider[q]
  BY <1>1, <1>5 DEF RowMatchesRequest, Final, RefundsTypeOK
<1> QED
  BY <1>2, <1>3, <1>4, <1>5, QuietKeepsRows

LEMMA ProviderSettlesKeepsRows ==
    ASSUME Rows, NEW r \in Refunds, ProviderSettlesRefund(r)
    PROVE  Rows'
<1> USE DEF ProviderSettlesRefund, Rows
<1>1. PICK s \in Final : /\ atProvider' = [atProvider EXCEPT ![r] = s]
                         /\ sent' = sent \cup {<<r, s>>}
  BY DEF Final
<1>2. atProvider' \in [Refunds -> Outcomes \cup {"NONE"}]
  BY <1>1 DEF RefundsTypeOK, Outcomes, Final
<1>3. ASSUME NEW q \in Refunds PROVE RowMatchesRequest(q)'
  BY <1>1 DEF RowMatchesRequest, RefundsInMemory, Outcomes, Final, NoRefund, RefundsTypeOK
<1>4. ASSUME NEW q \in Refunds, atProvider[q] \in Final PROVE atProvider'[q] = atProvider[q]
  BY <1>1, <1>4 DEF Final, RefundsTypeOK
<1> QED
  BY <1>2, <1>3, <1>4, QuietKeepsRows DEF RefundsTypeOK

LEMMA ServerKeepsRows ==
    ASSUME Rows, \/ RefundServerStops
                 \/ \E e \in sent : EventDiesWithServer(e)
                 \/ ResolveRefundReviewWithoutRefund
                 \/ \E r \in Refunds : RefundCallFails(r)
    PROVE  Rows'
<1> USE DEF Rows
<1>1. /\ UNCHANGED <<payment, bookingPayment, refund, issued, sent, atProvider>>
      /\ refundStatus' \in {refundStatus, "RESOLVED_NO_REFUND"}
  BY DEF RefundServerStops, EventDiesWithServer, ResolveRefundReviewWithoutRefund,
     RefundCallFails, refundVars
<1>2. \/ request' = request
      \/ request' = [r \in Refunds |-> IF r \in RefundsInMemory THEN "GONE" ELSE request[r]]
      \/ \E r \in RefundsInMemory : request' = [request EXCEPT ![r] = "UNREACHABLE"]
  BY DEF RefundServerStops, EventDiesWithServer, ResolveRefundReviewWithoutRefund,
     RefundCallFails, refundVars, RefundRequestsStop, RefundsInMemory
<1>3. request' \in [Refunds -> Stages]
  BY <1>2 DEF RefundsTypeOK, Stages
<1>4. ASSUME NEW q \in Refunds PROVE RowMatchesRequest(q)'
  BY <1>1, <1>2 DEF RowMatchesRequest, RefundsInMemory, Outcomes, Final, RefundsTypeOK
<1> QED
  BY <1>1, <1>3, <1>4, QuietKeepsRows DEF RefundsTypeOK

\* The row that the answer to the request and a webhook both write.
LEMMA AppliedRow ==
    ASSUME Rows, NEW r \in Refunds, NEW s \in Outcomes,
           refund[r].status # "NONE", CanApply(r, s), ApplyRefundResult(r, s)
    PROVE  /\ refund' = [refund EXCEPT ![r] = [@ EXCEPT !.status = s, !.known = TRUE]]
           /\ refund[r].status \in {"CREATED", "PROCESSING"}
           /\ refund[r].payment \in Payments
<1> USE DEF Rows
<1>1. refund[r] \in RefundRecords
  BY DEF RefundsTypeOK
<1>2. refund' = [refund EXCEPT ![r] = [@ EXCEPT !.status = s, !.known = TRUE]]
  BY <1>1 DEF RefundsTypeOK, ApplyRefundResult
<1>3. refund[r].status \in DOMAIN REFUND_TRANSITIONS
  BY <1>1 DEF RefundRecords
<1>4. refund[r].status \in {"CREATED", "PROCESSING"}
  BY <1>3 DEF CanApply, REFUND_TRANSITIONS
<1> QED
  BY <1>2, <1>4 DEF RowMatchesRequest

\* What the answer to the request and a webhook have in common.
LEMMA ApplyKeepsRows ==
    ASSUME Rows, NEW r \in Refunds, NEW s \in Outcomes,
           refund[r].status # "NONE", CanApply(r, s), ApplyRefundResult(r, s),
           UNCHANGED <<sent, atProvider>>, s \in Final => atProvider[r] = s,
           request' \in {request, [request EXCEPT ![r] = "RETURNED"]},
           r \notin RefundsInMemory'
    PROVE  Rows'
<1> USE DEF Rows
<1>1. /\ refund' = [refund EXCEPT ![r] = [@ EXCEPT !.status = s, !.known = TRUE]]
      /\ refund[r].status \in {"CREATED", "PROCESSING"} /\ refund[r].payment \in Payments
  BY AppliedRow
<1>2. /\ refund' \in [Refunds -> RefundRecords] /\ request' \in [Refunds -> Stages]
      /\ refund'[r].status = s /\ refund'[r].known /\ refund'[r].payment = refund[r].payment
      /\ \A q \in Refunds \ {r} : refund'[q] = refund[q]
  BY <1>1 DEF RefundsTypeOK, RefundRecords, REFUND_TRANSITIONS, Outcomes, Stages
<1>3. RefundsTypeOK'
  <2> USE DEF RefundsTypeOK
  <2>1. CASE s = "SUCCEEDED"
    BY <1>1, <1>2, <2>1 DEF ApplyRefundResult, RefundSucceeds, PaymentRecords, PaymentStatuses,
       BookingPaymentStatuses, RefundStatuses
  <2>2. CASE s = "FAILED"
    <3>1. refund[r].amount \in Int
      BY TotalAssumption DEF RefundRecords
    <3>2. payment' \in [Payments -> PaymentRecords]
      BY <1>1, <2>2, <3>1 DEF ApplyRefundResult, ReleaseRefundAmount, PaymentRecords
    <3> QED
      BY <1>2, <2>2, <3>2 DEF ApplyRefundResult
  <2>3. CASE s = "PROCESSING"
    BY <1>2, <2>3 DEF ApplyRefundResult
  <2> QED
    BY <2>1, <2>2, <2>3 DEF Outcomes
<1>4. ASSUME NEW q \in Refunds PROVE RowMatchesRequest(q)'
  <2>1. CASE q = r
    BY <1>1, <1>2, <2>1 DEF RowMatchesRequest, Outcomes, Final, RefundsInMemory, RefundsTypeOK
  <2>2. CASE q # r
    BY <1>2, <2>2 DEF RowMatchesRequest, RefundsInMemory, RefundsTypeOK, Final
  <2> QED
    BY <2>1, <2>2
<1>5. LedgerMatchesRefunds'
  BY <1>1, <1>2 DEF LedgerMatchesRefunds, ApplyRefundResult, Outcomes, RefundsTypeOK
<1>6. KnownRefundTellsTheTruth'
  BY <1>2 DEF KnownRefundTellsTheTruth, Final, Outcomes
<1>7. ReviewClosedByMoney'
  BY <1>1, <1>2 DEF ReviewClosedByMoney, InStatus, ApplyRefundResult, RefundSucceeds
<1> QED
  BY <1>3, <1>4, <1>5, <1>6, <1>7

LEMMA FinishKeepsRows ==
    ASSUME Rows, NEW r \in Refunds, FinishRefund(r)
    PROVE  Rows'
<1>1. /\ request[r] \in Outcomes /\ refund[r].status # "NONE"
      /\ request[r] \in Final => atProvider[r] = request[r]
  BY DEF Rows, FinishRefund, RowMatchesRequest, RefundsInMemory
<1>2. r \notin RefundsInMemory'
  BY DEF Rows, RefundsTypeOK, FinishRefund, RefundsInMemory, Outcomes
<1> QED
  BY <1>1, <1>2, ApplyKeepsRows DEF FinishRefund

LEMMA WebhookKeepsRows ==
    ASSUME Rows, NEW r \in Refunds, NEW s \in Outcomes, RefundWebhook(r, s)
    PROVE  Rows'
<1>1. CASE refund[r].known /\ CanApply(r, s)
  <2>1. refund[r].status # "NONE" /\ r \notin RefundsInMemory
    BY <1>1 DEF Rows, RowMatchesRequest, NoRefund
  <2>2. s \in Final => atProvider[r] = s
    BY DEF Rows, RowMatchesRequest, RefundWebhook
  <2>3. r \notin RefundsInMemory'
    BY <2>1 DEF RefundWebhook, RefundsInMemory
  <2> QED
    BY <1>1, <2>1, <2>2, <2>3, ApplyKeepsRows DEF RefundWebhook
<1>2. CASE ~(refund[r].known /\ CanApply(r, s))
  <2>1. UNCHANGED <<payment, bookingPayment, refundStatus, refund, request, issued, sent,
                    atProvider>>
    BY <1>2 DEF RefundWebhook
  <2>2. ASSUME NEW q \in Refunds PROVE RowMatchesRequest(q)'
    BY <2>1 DEF Rows, RowMatchesRequest, RefundsInMemory
  <2> QED
    BY <2>1, <2>2, QuietKeepsRows DEF Rows, RefundsTypeOK
<1> QED
  BY <1>1, <1>2

LEMMA FailKeepsRows ==
    ASSUME Rows, NEW r \in Refunds, FailRefund(r)
    PROVE  Rows'
<1> USE DEF Rows, FailRefund
<1>1. /\ refund[r].status = "CREATED" /\ ~refund[r].known /\ refund[r].payment \in Payments
      /\ refund[r].amount \in Int
  BY TotalAssumption DEF RowMatchesRequest, RefundsInMemory, RefundsTypeOK, RefundRecords
<1>2. RefundsTypeOK'
  <2>1. refund' \in [Refunds -> RefundRecords]
    BY DEF RefundsTypeOK, RefundRecords, REFUND_TRANSITIONS
  <2>2. payment' \in [Payments -> PaymentRecords]
    BY <1>1 DEF RefundsTypeOK, PaymentRecords, ReleaseRefundAmount
  <2> QED
    BY <2>1, <2>2 DEF RefundsTypeOK, Stages
<1>3. ASSUME NEW q \in Refunds PROVE RowMatchesRequest(q)'
  BY <1>1 DEF RowMatchesRequest, RefundsInMemory, Outcomes, Final, RefundsTypeOK
<1>4. LedgerMatchesRefunds'
  BY <1>1 DEF LedgerMatchesRefunds, RefundsTypeOK
<1>5. KnownRefundTellsTheTruth'
  BY <1>1 DEF KnownRefundTellsTheTruth, RefundsTypeOK
<1>6. ReviewClosedByMoney'
  BY <1>1 DEF ReviewClosedByMoney, InStatus, RefundsTypeOK
<1> QED
  BY <1>2, <1>3, <1>4, <1>5, <1>6

LEMMA RowsStep == Rows /\ [RefundsNext]_vars => Rows'
<1> SUFFICES ASSUME Rows, [RefundsNext]_vars PROVE Rows'
  OBVIOUS
<1>1. CASE CreateRefund
  BY <1>1, StartKeepsRows DEF CreateRefund
<1>2. ASSUME NEW r \in Refunds, RefundStep(r) PROVE Rows'
  <2>1. CASE ProviderRefunds(r)
    BY <2>1, ProviderRefundsKeepsRows
  <2>2. CASE RefundCallFails(r)
    BY <2>2, ServerKeepsRows
  <2>3. CASE FinishRefund(r)
    BY <2>3, FinishKeepsRows
  <2>4. CASE FailRefund(r)
    BY <2>4, FailKeepsRows
  <2>5. CASE ProviderSettlesRefund(r)
    BY <2>5, ProviderSettlesKeepsRows
  <2>6. CASE \E s \in Outcomes : RefundWebhook(r, s)
    BY <2>6, WebhookKeepsRows
  <2> QED
    BY <1>2, <2>1, <2>2, <2>3, <2>4, <2>5, <2>6 DEF RefundStep
<1>3. CASE \/ RefundServerStops
           \/ \E e \in sent : EventDiesWithServer(e)
           \/ ResolveRefundReviewWithoutRefund
  BY <1>3, ServerKeepsRows
<1>4. CASE UNCHANGED vars
  BY <1>4 DEF vars, refundVars, Rows, RefundsTypeOK, RowMatchesRequest, RefundsInMemory,
     LedgerMatchesRefunds, KnownRefundTellsTheTruth, ReviewClosedByMoney, InStatus
<1> QED
  BY <1>1, <1>2, <1>3, <1>4 DEF RefundsNext

\* What a step does to the rows of payments and refunds: it reserves, it writes
\* an outcome, it gives up a request that failed, or nothing.
LEMMA RefundsCases ==
    ASSUME Rows, [RefundsNext]_vars
    PROVE  \/ \E r \in Refunds, p \in Payments, n \in 1..Total : StartRefund(r, p, n)
           \/ \E r \in Refunds, s \in Outcomes :
                 /\ refund[r].status # "NONE" /\ CanApply(r, s) /\ ApplyRefundResult(r, s)
                 /\ sent' = sent
           \/ \E r \in Refunds : FailRefund(r)
           \/ /\ UNCHANGED <<payment, bookingPayment, refund, issued>>
              /\ \/ sent' = sent
                 \/ \E r \in Refunds, s \in Outcomes : sent' = sent \cup {<<r, s>>}
<1> DEFINE Applies == \E r \in Refunds, s \in Outcomes :
                         /\ refund[r].status # "NONE" /\ CanApply(r, s) /\ ApplyRefundResult(r, s)
                         /\ sent' = sent
           Elsewhere == /\ UNCHANGED <<payment, bookingPayment, refund, issued>>
                        /\ \/ sent' = sent
                           \/ \E r \in Refunds, s \in Outcomes : sent' = sent \cup {<<r, s>>}
<1>1. ASSUME NEW r \in Refunds, RefundStep(r) PROVE Applies \/ Elsewhere \/ FailRefund(r)
  <2>1. CASE ProviderRefunds(r) \/ RefundCallFails(r) \/ ProviderSettlesRefund(r)
    BY <2>1 DEF ProviderRefunds, RefundCallFails, ProviderSettlesRefund, Outcomes
  <2>2. CASE FinishRefund(r)
    <3>1. refund[r].status # "NONE"
      BY <2>2 DEF Rows, RowMatchesRequest, RefundsInMemory, FinishRefund
    <3> QED
      BY <2>2, <3>1 DEF FinishRefund
  <2>3. ASSUME NEW s \in Outcomes, RefundWebhook(r, s) PROVE Applies \/ Elsewhere
    <3>1. refund[r].known => refund[r].status # "NONE"
      BY DEF Rows, RowMatchesRequest, NoRefund
    <3> QED
      BY <2>3, <3>1 DEF RefundWebhook
  <2> QED
    BY <1>1, <2>1, <2>2, <2>3 DEF RefundStep
<1>2. CASE \/ \E e \in sent : EventDiesWithServer(e)
           \/ ResolveRefundReviewWithoutRefund
           \/ RefundServerStops
           \/ UNCHANGED vars
  BY <1>2 DEF EventDiesWithServer, ResolveRefundReviewWithoutRefund, RefundServerStops, vars,
     refundVars
<1> QED
  BY <1>1, <1>2 DEF RefundsNext, CreateRefund

-----------------------------------------------------------------------------
(* What is reserved, and what was captured. *)

Money == ReservationsMatch /\ CapturedCovers

LEMMA QuietKeepsMoney ==
    ASSUME Money, UNCHANGED <<payment, refund>>
    PROVE  Money'
<1>1. ASSUME NEW p PROVE Amount(Live, p)' = Amount(Live, p)
  BY AmountKept
<1> QED
  BY <1>1 DEF Money, ReservationsMatch, CapturedCovers, Live, Counted

\* A step that writes row f for refund r and moves what is reserved at each
\* payment by as much as the row's weight.
LEMMA RowChangeKeepsMoney ==
    ASSUME Rows, Money, NEW r \in Refunds, NEW f \in RefundRecords,
           refund' = [refund EXCEPT ![r] = f],
           \A p \in Payments :
              /\ payment'[p].refunded = payment[p].refunded - Weight(refund[r], p) + Weight(f, p)
              /\ payment'[p].captured = payment[p].captured
              /\ payment'[p].refunded <= payment'[p].captured
    PROVE  Money'
<1>1. refund \in [Refunds -> RefundRecords]
  BY DEF Rows, RefundsTypeOK
<1>2. ASSUME NEW p \in Payments
      PROVE  Amount(Live, p)' = Amount(Live, p) - Weight(refund[r], p) + Weight(f, p)
  BY <1>1, AmountChanges
<1> QED
  BY <1>2 DEF Money, ReservationsMatch, CapturedCovers, Live, Counted

LEMMA StartKeepsMoney ==
    ASSUME Rows, Money, NEW r \in Refunds, NEW p \in Payments, NEW n \in 1..Total,
           StartRefund(r, p, n)
    PROVE  Money'
<1> DEFINE f == [status |-> "CREATED", payment |-> p, amount |-> n, known |-> FALSE]
<1>1. f \in RefundRecords /\ n \in Int
  BY TotalAssumption DEF RefundRecords, REFUND_TRANSITIONS
<1>2. refund' = [refund EXCEPT ![r] = f]
  BY DEF StartRefund
<1>3. ASSUME NEW q \in Payments
      PROVE  /\ Weight(refund[r], q) = 0
             /\ Weight(f, q) = IF q = p THEN n ELSE 0
  BY DEF Weight, Counted, StartRefund, NoRefund
<1>4. ASSUME NEW q \in Payments
      PROVE  /\ payment[q].refunded \in Int /\ payment[q].captured \in Int
             /\ payment'[q].refunded = payment[q].refunded + (IF q = p THEN n ELSE 0)
             /\ payment'[q].captured = payment[q].captured
  BY <1>1 DEF StartRefund, Rows, RefundsTypeOK, PaymentRecords
<1>5. ASSUME NEW q \in Payments PROVE payment'[q].refunded <= payment'[q].captured
  BY <1>1, <1>4 DEF StartRefund, Money, CapturedCovers
<1> HIDE DEF f
<1>6. ASSUME NEW q \in Payments
      PROVE  payment'[q].refunded = payment[q].refunded - Weight(refund[r], q) + Weight(f, q)
  BY <1>1, <1>3, <1>4
<1> QED
  BY <1>1, <1>2, <1>4, <1>5, <1>6, RowChangeKeepsMoney

\* A refund that is given up releases what it reserved.
LEMMA ReleaseKeepsMoney ==
    ASSUME Rows, Money, NEW r \in Refunds, NEW f \in RefundRecords,
           refund' = [refund EXCEPT ![r] = f],
           refund[r].status \in Counted, f.status = "FAILED", ReleaseRefundAmount(r)
    PROVE  Money'
<1>1. refund[r].amount \in Int /\ 0 <= refund[r].amount
  BY TotalAssumption DEF Rows, RefundsTypeOK, RefundRecords
<1>2. ASSUME NEW q \in Payments
      PROVE  /\ Weight(refund[r], q) = IF refund[r].payment = q THEN refund[r].amount ELSE 0
             /\ Weight(f, q) = 0
  BY DEF Weight, Counted
<1>3. ASSUME NEW q \in Payments
      PROVE  /\ payment[q].refunded \in Int /\ payment[q].captured \in Int
             /\ payment'[q].refunded =
                   payment[q].refunded
                   - (IF refund[r].payment = q THEN refund[r].amount ELSE 0)
             /\ payment'[q].captured = payment[q].captured
  BY <1>1 DEF ReleaseRefundAmount, Rows, RefundsTypeOK, PaymentRecords
<1>4. ASSUME NEW q \in Payments PROVE payment'[q].refunded <= payment'[q].captured
  BY <1>1, <1>3 DEF Money, CapturedCovers
<1>5. ASSUME NEW q \in Payments
      PROVE  payment'[q].refunded = payment[q].refunded - Weight(refund[r], q) + Weight(f, q)
  BY <1>1, <1>2, <1>3
<1> QED
  BY <1>3, <1>4, <1>5, RowChangeKeepsMoney

LEMMA ApplyKeepsMoney ==
    ASSUME Rows, Money, NEW r \in Refunds, NEW s \in Outcomes,
           refund[r].status # "NONE", CanApply(r, s), ApplyRefundResult(r, s)
    PROVE  Money'
<1> DEFINE f == [refund[r] EXCEPT !.status = s, !.known = TRUE]
<1>1. refund' = [refund EXCEPT ![r] = f] /\ refund[r].status \in {"CREATED", "PROCESSING"}
  BY AppliedRow
<1>2. refund[r] \in RefundRecords
  BY DEF Rows, RefundsTypeOK
<1>3. /\ f \in RefundRecords /\ f.status = s
      /\ f.payment = refund[r].payment /\ f.amount = refund[r].amount
  BY <1>2 DEF RefundRecords, REFUND_TRANSITIONS, Outcomes
<1> HIDE DEF f
<1>4. CASE s = "FAILED"
  <2>1. ReleaseRefundAmount(r)
    BY <1>4 DEF ApplyRefundResult
  <2> QED
    BY <1>1, <1>3, <1>4, <2>1, ReleaseKeepsMoney DEF Counted
<1>5. CASE s # "FAILED"
  <2>1. ASSUME NEW q \in Payments
        PROVE  /\ payment[q].refunded \in Int /\ payment[q].captured \in Int
               /\ payment'[q].refunded = payment[q].refunded
               /\ payment'[q].captured = payment[q].captured
    BY <1>5 DEF ApplyRefundResult, RefundSucceeds, Rows, RefundsTypeOK, PaymentRecords
  <2>2. ASSUME NEW q \in Payments
        PROVE  Weight(f, q) = Weight(refund[r], q) /\ Weight(f, q) \in Int
    BY <1>1, <1>2, <1>3, <1>5, TotalAssumption
       DEF Weight, Counted, Outcomes, RefundRecords
  <2>3. ASSUME NEW q \in Payments PROVE payment'[q].refunded <= payment'[q].captured
    BY <2>1 DEF Money, CapturedCovers
  <2>4. ASSUME NEW q \in Payments
        PROVE  payment'[q].refunded = payment[q].refunded - Weight(refund[r], q) + Weight(f, q)
    BY <2>1, <2>2
  <2> QED
    BY <1>1, <1>3, <2>1, <2>3, <2>4, RowChangeKeepsMoney
<1> QED
  BY <1>4, <1>5

LEMMA FailKeepsMoney ==
    ASSUME Rows, Money, NEW r \in Refunds, FailRefund(r)
    PROVE  Money'
<1> DEFINE f == [refund[r] EXCEPT !.status = "FAILED"]
<1>1. refund[r] \in RefundRecords /\ refund[r].status = "CREATED"
  BY DEF Rows, RefundsTypeOK, RowMatchesRequest, RefundsInMemory, FailRefund
<1>2. f \in RefundRecords /\ f.status = "FAILED"
  BY <1>1 DEF RefundRecords, REFUND_TRANSITIONS
<1>3. refund' = [refund EXCEPT ![r] = f]
  BY DEF FailRefund
<1> HIDE DEF f
<1> QED
  BY <1>1, <1>2, <1>3, ReleaseKeepsMoney DEF FailRefund, Counted

LEMMA MoneyStep == Rows /\ Money /\ [RefundsNext]_vars => Money'
BY RefundsCases, StartKeepsMoney, ApplyKeepsMoney, FailKeepsMoney, QuietKeepsMoney

LEMMA NeverMoreThanCaptured ==
    ASSUME Money
    PROVE  NeverOverRefunded
<1> SUFFICES ASSUME NEW p \in Payments
             PROVE  0 <= payment[p].refunded /\ payment[p].refunded <= payment[p].captured
  BY DEF NeverOverRefunded
<1>1. Live \in SUBSET Refunds
  BY DEF Live, InStatus
<1>2. payment[p].refunded = Amount(Live, p) /\ Amount(Live, p) \in Nat
  BY <1>1, UnitsFinite DEF Money, ReservationsMatch, Live, Counted
<1> QED
  BY <1>2 DEF Money, CapturedCovers

LEMMA RefundsInvariant == RefundsSpec => []RefundsInv
<1>1. RefundsInv /\ [RefundsNext]_vars => RefundsInv'
  BY RowsStep, MoneyStep DEF RefundsInv, Money
<1> QED
  BY <1>1, InvInit, PTL DEF RefundsSpec

-----------------------------------------------------------------------------
(* Refunds of a payment that do not overlap. *)

Pending(r) == refund[r].status \in {"CREATED", "PROCESSING"}

\* Nobody asks for a refund of a payment while another one of it is not over.
OneRefundAtATime ==
    \A r, q \in Refunds :
        Pending(r) /\ Pending(q) /\ refund[r].payment = refund[q].payment => r = q

\* A payment that reads REFUNDED has nothing left and nothing under way.
Repaid ==
    \A p \in Payments : payment[p].status = "REFUNDED" =>
        /\ FullyRefunded(p)
        /\ \A r \in Refunds : Pending(r) => refund[r].payment # p

\* What REFUNDED means while refunds do not overlap, and that it stays.
StaysRefunded ==
    \A p \in Payments : payment[p].status = "REFUNDED" => payment'[p].status = "REFUNDED"

LEMMA RepaidMeansPaidBack ==
    ASSUME Rows, Money, Repaid
    PROVE  RefundedMeansPaidBack
<1> SUFFICES ASSUME NEW p \in Payments, payment[p].status = "REFUNDED"
             PROVE  Amount(InStatus({"SUCCEEDED"}), p) = payment[p].captured
  BY DEF RefundedMeansPaidBack
<1>1. Units(InStatus({"SUCCEEDED"}), p) = Units(Live, p)
  BY DEF Units, InStatus, Live, Counted, Repaid, Pending
<1>2. Amount(InStatus({"SUCCEEDED"}), p) = Amount(Live, p)
  BY <1>1 DEF Amount
<1> QED
  BY <1>2 DEF Money, ReservationsMatch, Live, Counted, Repaid, FullyRefunded

LEMMA ApplyKeepsRepaid ==
    ASSUME Rows, Repaid, OneRefundAtATime, NEW r \in Refunds, NEW s \in Outcomes,
           refund[r].status # "NONE", CanApply(r, s), ApplyRefundResult(r, s)
    PROVE  Repaid' /\ StaysRefunded
<1> DEFINE p == refund[r].payment
<1>1. /\ refund' = [refund EXCEPT ![r] = [@ EXCEPT !.status = s, !.known = TRUE]]
      /\ Pending(r) /\ p \in Payments
  BY AppliedRow DEF Pending
<1>2. /\ payment \in [Payments -> PaymentRecords] /\ refund \in [Refunds -> RefundRecords]
      /\ refund[r].amount \in Int
  BY TotalAssumption DEF Rows, RefundsTypeOK, RefundRecords
<1>3. /\ \A q \in Refunds : refund'[q].payment = refund[q].payment
      /\ \A q \in Refunds \ {r} : refund'[q] = refund[q]
      /\ refund'[r].status = s
  BY <1>1, <1>2 DEF RefundRecords
<1>4. payment[p].status # "REFUNDED"
  BY <1>1 DEF Repaid
<1>5. ASSUME NEW q \in Payments, q # p PROVE payment'[q] = payment[q]
  BY <1>1, <1>2, <1>5 DEF ApplyRefundResult, RefundSucceeds, ReleaseRefundAmount
<1>6. ASSUME payment'[p].status = "REFUNDED"
      PROVE  s = "SUCCEEDED" /\ payment'[p].refunded = payment'[p].captured
  <2>1. CASE s = "SUCCEEDED"
    <3>1. payment' = [payment EXCEPT ![p].status =
             IF FullyRefunded(p) THEN "REFUNDED" ELSE "PARTIALLY_REFUNDED"]
      BY <2>1 DEF ApplyRefundResult, RefundSucceeds
    <3> QED
      BY <1>1, <1>2, <1>6, <2>1, <3>1 DEF FullyRefunded, PaymentRecords
  <2>2. CASE s = "FAILED"
    BY <1>1, <1>2, <1>4, <1>6, <2>2
       DEF ApplyRefundResult, ReleaseRefundAmount, PaymentRecords
  <2>3. CASE s = "PROCESSING"
    BY <1>4, <1>6, <2>3 DEF ApplyRefundResult
  <2> QED
    BY <2>1, <2>2, <2>3 DEF Outcomes
<1> HIDE DEF p
<1>7. StaysRefunded
  BY <1>4, <1>5 DEF StaysRefunded
<1>8. ASSUME NEW q \in Payments, payment'[q].status = "REFUNDED"
      PROVE  FullyRefunded(q)' /\ \A x \in Refunds : Pending(x)' => refund'[x].payment # q
  <2>1. CASE q = p
    <3>1. s = "SUCCEEDED" /\ FullyRefunded(q)'
      BY <1>6, <1>8, <2>1 DEF FullyRefunded
    <3>2. ASSUME NEW x \in Refunds, Pending(x)' PROVE refund'[x].payment # q
      BY <1>1, <1>3, <2>1, <3>1, <3>2 DEF OneRefundAtATime, Pending, p
    <3> QED
      BY <3>1, <3>2
  <2>2. CASE q # p
    <3>1. payment'[q] = payment[q]
      BY <1>5, <2>2
    <3> QED
      BY <1>3, <1>8, <2>2, <3>1 DEF Repaid, FullyRefunded, Pending, p
  <2> QED
    BY <2>1, <2>2
<1> QED
  BY <1>7, <1>8 DEF Repaid

LEMMA StartKeepsRepaid ==
    ASSUME Rows, Repaid, NEW r \in Refunds, NEW p \in Payments, NEW n \in 1..Total,
           StartRefund(r, p, n)
    PROVE  Repaid' /\ StaysRefunded
<1>1. /\ payment \in [Payments -> PaymentRecords] /\ refund \in [Refunds -> RefundRecords]
      /\ payment[p].status # "REFUNDED"
  BY DEF Rows, RefundsTypeOK, StartRefund, Refundable
<1>2. /\ payment'[p].status = payment[p].status
      /\ \A q \in Payments \ {p} : payment'[q] = payment[q]
  BY <1>1 DEF StartRefund, PaymentRecords
<1>3. /\ refund'[r].payment = p
      /\ \A q \in Refunds \ {r} : refund'[q] = refund[q]
  BY <1>1 DEF StartRefund
<1> QED
  BY <1>1, <1>2, <1>3 DEF Repaid, StaysRefunded, FullyRefunded, Pending

LEMMA FailKeepsRepaid ==
    ASSUME Rows, Repaid, NEW r \in Refunds, FailRefund(r)
    PROVE  Repaid' /\ StaysRefunded
<1>1. /\ payment \in [Payments -> PaymentRecords] /\ refund \in [Refunds -> RefundRecords]
      /\ Pending(r) /\ refund[r].payment \in Payments
  BY DEF Rows, RefundsTypeOK, RowMatchesRequest, RefundsInMemory, FailRefund, Pending
<1>2. payment[refund[r].payment].status # "REFUNDED"
  BY <1>1 DEF Repaid
<1>3. /\ payment'[refund[r].payment].status = payment[refund[r].payment].status
      /\ \A q \in Payments : q # refund[r].payment => payment'[q] = payment[q]
  BY <1>1 DEF FailRefund, ReleaseRefundAmount, PaymentRecords
<1>4. ASSUME NEW q \in Refunds
      PROVE  refund'[q].payment = refund[q].payment /\ (Pending(q)' => Pending(q))
  BY <1>1 DEF FailRefund, RefundRecords, Pending
<1> QED
  BY <1>1, <1>2, <1>3, <1>4 DEF Repaid, StaysRefunded, FullyRefunded

LEMMA QuietKeepsRepaid ==
    ASSUME Repaid, UNCHANGED <<payment, refund>>
    PROVE  Repaid' /\ StaysRefunded
BY DEF Repaid, StaysRefunded, FullyRefunded, Pending

LEMMA RepaidStep ==
    ASSUME Rows, Repaid, OneRefundAtATime, [RefundsNext]_vars
    PROVE  Repaid' /\ StaysRefunded
BY RefundsCases, StartKeepsRepaid, ApplyKeepsRepaid, FailKeepsRepaid, QuietKeepsRepaid

LEMMA RepaidInvariant == RefundsSpec /\ []OneRefundAtATime => []Repaid /\ [][StaysRefunded]_vars
<1>1. RefundsInit => Repaid
  BY DEF RefundsInit, Repaid
<1>2. RefundsInv /\ Repaid /\ OneRefundAtATime /\ [RefundsNext]_vars => Repaid' /\ StaysRefunded
  BY RepaidStep DEF RefundsInv
<1>3. [RefundsNext]_vars /\ StaysRefunded => [StaysRefunded]_vars
  OBVIOUS
<1> QED
  BY <1>1, <1>2, <1>3, RefundsInvariant, PTL DEF RefundsSpec

-----------------------------------------------------------------------------
(* The theorems. *)

\* Payment, booking and refund rows keep their types, whatever refunds are
\* asked for and however answers, webhooks and crashes interleave.
THEOREM RefundsTypeCorrect == RefundsSpec => []RefundsTypeOK
<1>1. RefundsInv => RefundsTypeOK
  BY DEF RefundsInv, Rows
<1> QED
  BY <1>1, RefundsInvariant, PTL

\* refunded_amount is what the refunds not given up amount to: a reservation is
\* made once and released once (reserveRefundAmount, releaseRefundAmount).
THEOREM ReservationsCorrect == RefundsSpec => []ReservationsMatch
<1>1. RefundsInv => ReservationsMatch
  BY DEF RefundsInv
<1> QED
  BY <1>1, RefundsInvariant, PTL

\* Refunds that run at once never reserve more than was captured, and releases
\* never take refunded_amount below zero (validateRefund).
THEOREM RefundsNeverExceedCapture == RefundsSpec => []NeverOverRefunded
<1>1. RefundsInv => NeverOverRefunded
  BY NeverMoreThanCaptured DEF RefundsInv, Money
<1> QED
  BY <1>1, RefundsInvariant, PTL

\* The money ledger has one entry of a refund that succeeded and none of any
\* other, though the request and webhooks may all report the success.
THEOREM LedgerCorrect == RefundsSpec => []LedgerMatchesRefunds
<1>1. RefundsInv => LedgerMatchesRefunds
  BY DEF RefundsInv, Rows
<1> QED
  BY <1>1, RefundsInvariant, PTL

\* A row with a provider_refund_id that says SUCCEEDED or FAILED says what
\* happened at the provider.
THEOREM RefundsTellTheTruth == RefundsSpec => []KnownRefundTellsTheTruth
<1>1. RefundsInv => KnownRefundTellsTheTruth
  BY DEF RefundsInv, Rows
<1> QED
  BY <1>1, RefundsInvariant, PTL

\* A review closed as refunded has seen a refund succeed, whichever of the
\* admin's request and the provider's webhook closes it.
THEOREM ReviewsCloseWithMoney == RefundsSpec => []ReviewClosedByMoney
<1>1. RefundsInv => ReviewClosedByMoney
  BY DEF RefundsInv, Rows
<1> QED
  BY <1>1, RefundsInvariant, PTL

\* A payment that reads REFUNDED has been paid back in full by refunds that
\* succeeded (header of refundStatusTransitions.js), as long as refunds of it
\* do not overlap.
THEOREM RefundedIsPaidBackOneByOne ==
    RefundsSpec /\ []OneRefundAtATime => []RefundedMeansPaidBack
<1>1. RefundsInv /\ Repaid => RefundedMeansPaidBack
  BY RepaidMeansPaidBack DEF RefundsInv, Money
<1> QED
  BY <1>1, RefundsInvariant, RepaidInvariant, PTL

\* REFUNDED is terminal (paymentStatusTransitions.js), as long as refunds of a
\* payment do not overlap.
THEOREM RefundedIsFinalOneByOne ==
    RefundsSpec /\ []OneRefundAtATime => RefundedIsFinal
<1>1. RefundedIsFinal <=> [][StaysRefunded]_vars
  BY PTL DEF RefundedIsFinal, StaysRefunded
<1> QED
  BY <1>1, RepaidInvariant, PTL
=============================================================================
