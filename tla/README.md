# Desavii: verification project

Desavii is a travel marketplace. Customers search listings (rooms, tours, cars, tables, events),
hold capacity, turn holds into bookings and pay; partners keep a calendar per bookable unit,
decide on bookings, block dates and import reservations made elsewhere. This directory holds TLA+
models of the parts of `apps/api` where the order of steps of several actors matters, the TLC
configurations that check them, and proofs checked by TLAPS.

Run, in this directory: `tlc -workers 2 -config MCInventory_nightly.cfg MCInventory`,
`tlc -workers 2 -config MCBookingPayments_settled.cfg MCBookingPayments`, `tlapm InventoryProofs.tla`.
A configuration that section 3 does not list as a run belongs to one of the disagreements it lists.

## 1. Inventory of the system

All paths are under `src/apps/api/src` unless they start with `docs/`.

| Part | State | Operations | Hard behaviour |
|---|---|---|---|
| **Unit inventory** (`modules/availability`, `modules/booking-holds`) | `availability_calendar` (remaining quantity and status per unit and date), `inventory_ledger`, `reservation_holds`, `hourly_inventory_reservations`, `inventory_blocks` | hold, release, consume; consume/restore of a range; manual blocks; saved totals; row removal; hold-expiry sweep (30 s) | many writers of one date; rows materialised on demand; two units of account (nights, hours); sweeps that read before they lock |
| **Booking lifecycle** (`modules/bookings`) | `bookings.status`, items, status history | create from holds, confirm, reject, cancel, complete, no-show; SLA sweep (15 min) | decisions racing the sweep; capacity returned once |
| **Payments** (`modules/payments`) | payment intents, attempts, transactions, provider events, booking payment status | create intent, capture, void, provider webhooks, settlement job | provider calls between two transactions; duplicated, reordered, lost webhooks; booking decided meanwhile |
| **Refunds and money ledger** | refunds, `refunded_amount`, ledger entries, booking refund status | refund, manual review, provider refund webhooks | concurrent refunds of one payment; answers that come late or twice |
| **External reservations, connectors** | `external_reservations`, connections, sync runs | manual entry, CSV import, iCal reconciliation, cancel | partial failure of a batch; events that disappear, move and come back; a partner cancelling during a sync |
| **Unit catalogue, blackouts** | units (capacity), blackout ranges | register, update, retire; blackout CRUD | capacity changed under existing rows |
| **Listings** (`modules/listings`) | `listings`: status, period, `expires_at`, `frozen_at`, `purge_after`, reminder and renewal marks, `deleted_at` | submit, moderate, publish, unpublish, archive, renew, edit, delete; hourly freeze and reminder sweep, daily retention purge | requests that read without a lock and write later; sweeps against renewals and moderators |
| **Authentication** | refresh tokens, login attempts | login, refresh, logout, revoke | rotation under concurrent refreshes |
| **Notifications** (`modules/notifications`) | notification rows, BullMQ delivery jobs, `email_deliveries` log | create from a domain event, deliver, retry, delete | at-least-once delivery: a mail that went out and a run that did not end |
| **Advertising** | campaigns | lifecycle, sweep | sweep against partner actions |
| Reviews, messaging, blog, users, partners, managers, search, AI, FX, analytics, admin, CMS, contact, favourites, media | single-table CRUD, read models | | little or none |
| Infrastructure (`infrastructure`, `middleware`) | MySQL transactions, Redis cache, BullMQ queues, storage, rate limits | | gives the atomicity the models assume |
| `apps/web`, `packages`, `docs`, `docker`, `scripts` | user interface, shared constants | | none |

How the parts interact: `BookingHoldsService` and `BookingService` call `AvailabilityService` inside
their own transaction; `PaymentService` reads and writes booking payment state through
`BookingService`, and `BookingService` calls back into it, after its own commit, to capture, void or
refund; jobs are BullMQ repeatables that call the same services; providers call back over webhooks.

What makes each part correct: *inventory* - capacity is conserved, no hour is oversold, the ledger
tells the truth; *bookings* - the state machine, a standing booking holds its rooms, decisions
happen once; *payments* - at most one live payment per booking, money taken only for a booking that
stands, a decided booking's authorisation ends; *refunds* - never more than was paid, a claim is
settled once; *connectors* - a night is given back once and the calendar
converges to the feed; *listings* - one period per publication or renewal, one reminder per period, what is approved is what was reviewed, what is purged
stays offline; *notifications* - every mail beyond the first has a cause and every job ends; *auth* - one refresh token, one
successor.

## 2. Modules

| Module | What it is |
|---|---|
| `UnitCapacity` | abstract: what the calendar of a unit promises to everybody who uses it, a counter per date |
| `Inventory` | one unit's capacity: calendar rows, ledger, holds, bookings as takers of capacity, manual blocks, both sweeps; implements `UnitCapacity` |
| `ExternalReservations` | reservations made elsewhere, by hand, CSV and iCal synchronisation, on the same calendar; implements `UnitCapacity` except where the code misjudges a night |
| `Refunds` | the refunds of one booking's payments: reservation, provider call, answer, webhooks, review |
| `BookingPayments` | extends `Refunds` with the payments themselves: attempts, captures, voids, webhooks, and what a decision or cancellation does to them |
| `ListingLifecycle` | one listing from draft through review, publication, expiry and renewal to its purge |
| `NotificationDelivery` | notifications, their delivery jobs, the mail provider and the log |
| `InventoryProofs`, `SweepProofs`, `CapacityProofs` | proofs about `Inventory` |
| `ReservationProofs` | proofs about `ExternalReservations` |
| `RefundsProofs`, `PaymentsProofs` | proofs about `Refunds`, and about `BookingPayments`, which extends it |
| `ListingProofs`, `NotificationProofs` | proofs about `ListingLifecycle` and `NotificationDelivery` |
| `MCInventory`, `MCExternalReservations`, `MCRefunds`, `MCBookingPayments`, `MCListingLifecycle`, `MCNotificationDelivery` | their instances for TLC |

### `UnitCapacity`

Per date a total on offer, the units taken and the count left. `Trade` takes on some dates and gives back on others, never more
than is left, and moves the count by exactly as much; `Offer` changes totals, down to what is taken at most. `Inventory`
implements it with `taken` as the live nightly claims that cover a date and `left` as `quantity_available`;
`ExternalReservations` with everybody else's units and the active reservations. Each of the two is, to the other, an environment
that trades (`OthersTake` and `OthersReturn` in `ExternalReservations`); that both keep this one contract is what justifies
checking them apart. Each keeps it under a condition (section 4): the code has steps on either side that break it, and the run `resale` and
the configurations `returned` and `csv` show them.

### `Inventory`

A **claim** is one unit of quantity that somebody has taken: a `reservation_holds` row (a request for
q rooms inserts q rows), one of the `quantity` units of a `booking_items` row, or one of those of an
`inventory_blocks` row. A claim with `hours = {}` takes nights and is subtracted from
`quantity_available`; an hourly claim is a row of `hourly_inventory_reservations` and is not.

| Variable | Code |
|---|---|
| `claim` | the rows above; `expired` is `expires_at <= now`; RELEASED items keep their row |
| `rowStatus`, `remaining` | `availability_calendar.status_id`, `quantity_available`; no row reads as the unit's capacity |
| `consumed` | minus the sum of the date's ledger entries that are not ADJUSTMENT (`sumConsumedForDate`) |
| `offered` | history: the total the partner's writes amount to |
| `booking`, `block` | `bookings.status_id`; a block is active, or released |
| `candidates`, `slaBatch` | what a run of a sweep has read and not yet written |

Each action is one operation of `AvailabilityService`, `BookingHoldsService` or `BookingService`,
from its guards to its commit. The code locks the calendar rows of a range in ascending order and the
hold, booking or block row before it reads them, inside one `withTransaction`, so an operation is one
step; a refusal rolls everything back and is a step that does not happen. The two reads that are
*not* under a lock - `findExpired` and `findPendingVendorPastSla` - are steps of their own, and what
they returned is used later as the code uses it: the hold sweep locks its candidates and keeps those
that are still expired holds, the SLA sweep uses its batch as it is.

Left out of it: prices and quotes, who may act (the action is the authorised request), blackouts (they only
refuse requests), external reservations (the next module), changes of `bookable_units.capacity`, the batch limits (200 holds, 100
bookings), `SKIP LOCKED` (a locked hold is being deleted or stays as it was). Whether an item's stay has ended, so that
its capacity is not returned, is a free choice (`ended`). The rows of one hold request may lapse one by one.

### `ExternalReservations`

| Variable | Code |
|---|---|
| `remaining`, `others` | `quantity_available` of the unit's dates; what holds, bookings and blocks have taken of them |
| `reservation` | `external_reservations` rows: an event's row is found by connection and UID, a `Rows` entry is one entered by hand or by CSV; CHECKED is a CSV row between its duplicate check and its insert |
| `feed` | what the iCal feed says of an event now: absent, cancelled, or booked on some nights |
| `sync` | `#executeSync` in progress: the UIDs it has listed, the feed it has fetched and the rows its transaction's snapshot shows |
| `changes` | how often the feed has changed, a bound |

A run of `#executeSync` is three steps: it lists the connection's active reservations, begins its transaction and
fetches the feed (from here ordinary reads show the snapshot), and writes. Its writes are one step, since they lock what
they touch and commit together; within it `ImportAvailability` takes the events in the feed's order, each in its savepoint
(`ApplySystemExternalReservation`), then the vanished ones. A row's cancellation is claimed by a guarded
UPDATE and sees the row as it is by then. `SyncFails` undoes everything from any of these steps.

An event's row is found by its UID, cancelled or not (`findByConnectionAndUid`), and nothing a sync does makes a cancelled row
active again. So a cancelled row whose event is on the same nights is left alone, and one whose event is on other nights has its
old nights restored once more and new ones taken. A CSV row that does not fit is stored with the nights before the
conflict. The model does all of this: no guard and no constant keeps it out. Left out: quantities above one, hourly peaks, the
connection's status and log, parsing, mapping, a feed that lists one UID twice, who may act.

### `ListingLifecycle`

One row of `listings`; every statement of the code is about one row. `status`, `frozen`, `purge`, `deleted` are the columns
`status_id`, `frozen_at`, `purge_after`, `deleted_at` (and by whom it was set); `expires` is `expires_at` as the
code's three questions see it (none, far, within the two days of a reminder, past); `period`, `reminded` and `renewed` say whether
`publication_period_days` and `expiry_reminder_sent_at` are set and whether `renewed_at` is within the three
seconds of the renewal's debounce. `edited` and `contentEdited` are history: have the fields that `updateListing` (PATCH) writes, and have the media,
highlights, itinerary, included items, guest notes or FAQs changed since the last submission for review? They are two because the
code treats them differently: `UpdateListing` locks the row and refuses a listing under review or published, the writes
of the others (`UpdateContent`) look at no status. `request` is what
publish, unpublish, archive, delete and renew have read without a lock; `sweep` is where a run of the hourly job stands;
`reminders` counts the reminders of this period.

`submitForReview` and `updateModerationStatus` lock the row: one step each. The others are a read and a write (`PublishReads`,
..., `Writes`), and anything may happen in between. The hourly job freezes, lists and claims in three statements (`SweepFreezes`,
`SweepListsDue`, `SweepClaims`), and may fail between them. Time is assumed in two places: a publication that has read the row
writes before the month or more of a period, or the six months of the retention, have gone by.
Left out: what the content is (only whether it has changed), translations, readiness, moderation notes (a refused request changes nothing), and the moderation
status, which no decision reads.

### `NotificationDelivery`

| Variable | Code |
|---|---|
| `row`, `job` | the `notifications` row; its BullMQ job, which is queued after the row has committed |
| `run` | `deliverViaChannel` in progress: the row read, the provider's answer, the log written |
| `attempts`, `stalls` | runs that threw; runs that a stop of the server cut off |
| `mails`, `log` | mails the provider has accepted (external); `email_deliveries` rows by status |
| `up`, `stops` | the server, and how often it may stop, a bound |

`send` of `ResendEmailProvider` never throws: a refusal, a timeout and a lost answer are all `delivered: false`. A run throws
when the database fails, before the mail or after it, and is tried again up to `DELIVERY_JOB_ATTEMPTS` times; a job whose
worker died is given out once more (BullMQ's `maxStalledCount`). Left out: the recipient's preferences, languages
and templates, the delay between tries, several recipients of one event.

### `Refunds` and `BookingPayments`

`PaymentService` never keeps a transaction open while it calls the provider. Every operation is thus a
short transaction, a call, and another short transaction, and other requests, webhooks and decisions
come in between. A transaction that locks the rows it reads is one action; a request is a record that
says how far it has come (`creating`, `request`, an element of `settling`, `deciding`, `cancel`) and
what it has read. An ordinary read that is used later is a step of its own.

| Variable | Code |
|---|---|
| `payment`, `bookingPayment` | `payments` rows (status, `captured_amount`, `refunded_amount`), `bookings.payment_status_id` |
| `refund`, `issued` | `refunds` rows, found by idempotency key (UNIQUE; `createRefund` makes one up when none is given); their REFUND_ISSUED ledger entries |
| `refundStatus`, `booking` | `bookings.refund_status`, `bookings.status_id` |
| `confirmed` | the booking's status history has a CONFIRMED entry |
| `slaBatch` | the SLA sweep has read the booking as stale and not yet written |
| `sent`, `seen` | events the provider emits; events that have their row in `payment_provider_events` |
| `creating`, `request`, `settling` | `createPaymentIntent`, `#executeRefund`, `#executeCaptureOrVoid` in progress |
| `deciding`, `cancel` | `BookingService` after its commit: the capture or void it has still to look for, `#resolvePaymentForCancelledBooking` |
| `intent`, `atProvider` | the provider's own state of a payment and of a refund (external) |

An event is delivered in any order, and a second delivery does nothing, since the event's row exists.
That row commits *before* the event is acted on; so an event that is refused by the state machine, that
finds no row, or whose processing dies with the server is lost (`PaymentWebhook`, `RefundWebhook`,
`EventDiesWithServer`). The SLA sweep reads its batch without a lock and later writes EXPIRED whatever the booking has become
(`SlaSweepReads`, `SlaSweepExpires`): a booking confirmed and captured in between reads EXPIRED with the customer charged, which
`ExpiredBookingIsNotCharged` of section 3 shows; what is proved and checked of charges (`NoChargeBeforeConfirmation`) therefore speaks of the confirmation in the history and not of
the status. `CallsMayFail` lets a call fail before or after the provider has acted,
`ServerMayStop` lets the server stop with everything its requests had in memory, `Answers` and
`CustomerMay` say which provider and customer take part.

Left out of them: who may act; amounts other than one total for the booking; payments' own idempotency keys
(a repeated request returns the first payment); one event per payment and status, so that a
card is declined once; the local provider's REQUIRES_ACTION scenario and its stateless capture and
void, which accept any payment; failures of a refund after the provider called it succeeded;
`charge.refunded` events; the domain events published after each commit. What the provider answers to a repeated
capture or void is left open (`ProviderRepeats` or `SettlementFails`).

## 3. Runs

`MaxOffered` bounds what repeated saves of a total add up to; it is a bound of the model. Every other
bound is a set of model values in the cfg. `SweepOverlaps` says whether a decision on a booking may
fall between the SLA sweep's read of it and its write.

| Run | Bounds | Shows |
|---|---|---|
| `nightly` | 2 dates, 1 hour, 3 claims, 1 customer, 1 booking, 1 block, capacity 2, saved total 1 | types; the ledger is the sum of the claims; nothing for sale is taken; no hour is oversold, nightly and hourly stays together; a missing row means free; the calendar implements `UnitCapacity`. Three claims against a capacity of two make every refusal happen, two dates make partial overlap happen |
| `overlap` | 1 date, 2 claims, 2 bookings, 1 customer, 1 block, 2 hold sweeps, decisions inside the SLA sweep, fairness | no capacity is lost, a standing booking keeps its rooms, claims do not change hands; holds end; no booking waits for ever |
| `resale` (violation) | 1 booking | reject and sweep both return the booking's rooms |

The payments runs add:

| Run | Bounds | Shows |
|---|---|---|
| `refunds_concurrent` | 1 payment of total 3, 3 refunds of 1 to 3, calls fail, server stops | a reservation is made and released once, the ledger has each success once, known refunds tell the truth, a review is closed only by money |
| `attempts` | 2 payments of total 1, the automatic refund, declines, intents the provider refuses | one live payment, and the booking shows it; two attempts are enough for a race, and the second may start after the first failed |
| `failures` | 1 payment, all answers, challenge, decline, lapse, calls fail, server stops | no charge before confirmation; no row claims what did not happen |
| `settled` | 1 payment of total 2, Stripe's answers, lapse, automatic and admin refund, nothing fails | decision and authorisation meet, whichever is first; authorisations end |
| `challenge` (violation) | 1 payment, challenges | an authorisation that follows a 3DS challenge is refused and lost |

And those of the other parts:

| Run | Bounds | Shows |
|---|---|---|
| `synced` | 2 dates, capacity 1, 1 event, 1 manual or CSV row, 2 syncs at once, 2 changes of the feed, fairness | the units of every night are kept by every step but two, the commit of a sync that moves an event by a stale or cancelled row and the storing of a CSV row that does not fit, and by these on every night they do not misjudge; what the feed drops is released; what there is room for, and nobody has cancelled, arrives. With two changes an event appears and then moves, vanishes or is called cancelled, behind either sync; its row may be cancelled in between, so cancelled rows are moved too; with capacity 1 every conflict happens |
| `listings` | 2 requests, 2 runs of the hourly job, fairness | one reminder per period; a purged listing stays offline; periods are given once; edits of the fields of PATCH go through review; expired listings are frozen and purged |
| `deliveries` | 2 events, 3 tries, the server stops twice, fairness | mails and log agree up to the runs that failed, the tries are bounded, every queued job ends. Two stops are one more than a job survives |
| `archived` (violation) | 1 request at a time | an archived listing is renewed and online again |

Several of the safety properties speak of a *quiet* system (`Quiet`: no request in memory, no event
undelivered): in between, a state in which the decision has committed and its capture has not is
normal. The violation runs are kept apart from the
passing ones by the environment they need: `settled` has neither challenges nor declines and starts from
Stripe's asynchronous answer; `challenge` changes exactly one thing of it.

**Other disagreements.** These come from what a comment, a document or the client says, stated as definitions of the
modules, and TLC finds each of them violated when the named configuration is changed as said. They are not kept as
runs.

| Definition | Configuration | What happens | What is said |
|---|---|---|---|
| `FollowsStateMachine` | `resale` | the sweep expires a booking the vendor has confirmed between its read and its write | `bookingStatusTransitions.js`: no edge from CONFIRMED to EXPIRED |
| `SavedTotalIsOffered` | `resale`, capacity 3, `Totals = {2}`, `MaxOffered = 3`, no bookings | saving total 2 twice leaves 1 on offer | `availabilityService.js:1059`: "reinterpreted as the desired TOTAL capacity" |
| `NoOversell` | `resale`, capacity 1, `Totals = {2}`, `Hours <- MCOneHour`, no bookings | a row whose total was raised is removed under hourly stays, which are not in the ledger | `docs/API_SPECIFICATION.md:1571`: "409 CALENDAR_ENTRY_IN_USE" |
| `FailedRefundMovedNothing` | `MCRefunds_lost_answer.cfg` as it is | the provider makes a refund whose answer is lost; it is marked FAILED and its amount is free to be refunded again | `mysqlPaymentRepository.js:247`: a release "undoes a reservation that never actually succeeded with the provider" |
| `CancelledBookingHasRefundStatus` | `MCBookingPayments_cancelled_paid.cfg` as it is | a cancellation meets a capture between the provider's call and its second transaction: the booking is charged, its refund status NOT_APPLICABLE | `bookingService.js:1279`: "A refund outcome [...] must never be silent" |
| `RefundedMeansPaidBack` | `lost_answer` | the first of two partial refunds to succeed makes the payment REFUNDED, since the other's reservation counts | `refundStatusTransitions.js:6`: `refunded_amount` is "only ever updated [...] once a refund reaches SUCCEEDED" |
| `RefundedIsFinal` | `refunds_concurrent` without symmetry | that payment goes back to PARTIALLY_REFUNDED when the other refund fails and a third succeeds | `paymentStatusTransitions.js:32`: REFUNDED is terminal |
| `PendingRefundsAreResolved` | `lost_answer` with `FairRefundsSpec`, no failing calls, no symmetry | a webhook that overtakes the storing of `provider_refund_id` is lost | `paymentService.js:1007`: "a later webhook [...] resolves it" |
| `HeldMoneyIsOnRecord` | `challenge` with `{"decline"}` | a declined intent is FAILED for good, its later authorisation is lost | `StripeConfirmForm.jsx:11`: "the customer can simply retry [...] no new PaymentIntent needed" |
| `ConfirmedBookingIsCaptured` | `challenge` with `Answers = {"AUTHORIZED"}` | a confirmation between `getBooking` and the answer leaves an authorisation nobody captures | `paymentService.js:569`: "captured immediately" |
| `OneSettlementAtATime` | `challenge` | a webhook and a decision call the provider for one payment at once | `paymentService.js:1257`: "no concurrent second capture/void attempt can race this one" |
| `ExpiredBookingReleasesCard` | `challenge` | the SLA sweep looks at no payment | `docs/BOOKING_ENGINE_ARCHITECTURE.md:309`: "the authorization is voided with the payment gateway" |
| `ExpiredBookingIsNotCharged` | `MCBookingPayments_expired_paid.cfg` as it is | the SLA sweep has read the booking, its vendor confirms it and its payment is captured, the sweep writes EXPIRED | `docs/SPRINT_5_DATABASE_FOUNDATION.md:197`: "PENDING_VENDOR --> EXPIRED: vendor does not respond in time", the one way to EXPIRED |
| `AutoRefundedIsRefunded` | `challenge` | AUTO_REFUNDED is written when the call returns, although the refund is pending or has failed | `bookingService.js:1279`: an outcome "must never be silent" |
| `NoDoubleSale` of `ExternalReservations` | `MCExternalReservations_returned.cfg` as it is | a row is cancelled, by the partner or by a sync when its event vanished; its event is on other nights; the next sync finds the cancelled row by the UID, restores its old nights a second time and takes the new ones for it | `availabilityService.js:3486`: "a re-run of the same feed never double-consumes capacity"; `docs/API_SPECIFICATION.md:1659`: "can never oversell" |
| `NoDoubleSale` of `ExternalReservations` | `MCExternalReservations_csv.cfg` as it is | the conflict of a CSV row is caught inside its transaction: the row, reported FAILED, and the nights before the conflict are committed, and its cancellation gives back nights it never took | `availabilityService.js:3276`: a partner "wants to know exactly which ones failed" |
| `CapacityAccounted` | `synced` | as the two rows above, or a sync moves an event by the nights its snapshot shows, though another sync has moved its row since | `availabilityService.js:3488`: a known event "never double-consumes" |
| `ReturnedArrives` | `MCExternalReservations_stays_cancelled.cfg` as it is | an event vanishes, a sync cancels it, it returns on the same nights: `unchanged`, so it stays cancelled and its nights stay on sale | `docs/BOOKING_ENGINE_ARCHITECTURE.md:633`: "maps each imported busy period onto `blackout_dates`" |
| `ApprovedIsWhatWasReviewed` | `MCListingLifecycle_unreviewed.cfg` as it is | media, highlights, itinerary, included items, guest notes and FAQs are written with no look at the status, so what is approved may differ from what was submitted | `listingService.js:1661`: "the Moderator must see exactly what they reviewed" |

Some are seen in the actions, without a property of their own:

- CSV: two uploads of one file at once both find no duplicate (`BulkRowIsNew` twice) and both are written
  ("Idempotent within a batch and across re-uploads", `availabilityService.js:3277`).
- Feeds: two events that exchange their nights while there is room for one never find room for each other; each sync records the
  same conflict again. `FeedArrives` speaks of an event there is room for.
- Listings: publish, unpublish, archive and delete write without looking again (`Writes`). A stale unpublish takes an archived
  listing out of ARCHIVED; a publication that read the listing before the sweep froze it leaves it PUBLISHED and frozen; one that read it
  before its owner deleted it leaves it PUBLISHED and deleted (so does `deleteListing` alone, whatever the status).
- Listings: media and collections are changed while a listing is published, without any review (`UpdateContent`; `ApprovedIsWhatWasReviewed` is about the
  approval). A frozen listing's fields may be edited, and its renewal puts them online unreviewed (`EditsGoThroughReview`
  leaves it out, as it does an administrator's publication). An approval after the period has run out publishes a listing nobody can see. A
  listing that a partner unpublished is never frozen, so it is never purged.
- Listings: the reminder is claimed before it is published; a server that stops in between sends none.
- Notifications: `notificationDeliveryQueue.js:27` says of the time before retries that "a transient failure (email provider timeout
  [...]) was a silent, permanent drop with no second attempt"; as `send` never throws, a timeout still has no
  second attempt (`Logs`, `Completes`). A mail whose answer was lost is logged FAILED though it was sent. A row whose
  job could not be queued has no mail, and nothing looks for it.

Fairness. `overlap`: both jobs repeat for ever (BullMQ repeatables, every 30 s and 15 min), so
their steps are weakly fair; a hold lapses once its time has come; a booking that stays PENDING_VENDOR
passes its SLA and is then in every batch, since the batch is ordered by age. No fairness is assumed of
customers or vendors. `settled`: a server that does not stop goes on with every request it has
begun, and the provider delivers every event at least once; customers, vendors and
admins need do nothing. Since a server that stops gives up its requests, nothing is claimed to happen in the end
where it may stop. `synced`: the job starts a sync every 15 minutes; a sync may fail, but not every time it could go on
(strong fairness of its read and its commit); partner and feed need do nothing. `listings`: a request under way ends, the jobs
repeat, and the retention does run out; nobody need renew or moderate. `deliveries`: the server is started again, a run
under way ends one way or another, an idle worker takes what waits, and BullMQ returns stalled jobs.

The inventory runs keep the deadlock check, and so do those of external reservations. The payments runs disable it: a booking whose
payment is settled has nothing left to do; so do those of listings and deliveries, a deleted listing and a delivered mail being at rest.

## 4. Proofs

`TypeCorrect`: `Spec => []TypeOK`, by induction over the actions.

`NothingIsSoldTwice`: `~SweepOverlaps => (Spec => []NoDoubleSale)`.
The inductive invariant `Inv` adds to the balance of calendar, ledger and claims that a standing
booking has all of its items taken (`ItemsMatch`; otherwise a cancellation could return capacity
twice), that what the SLA sweep has read is still pending (`BatchPending`; this is where
`~SweepOverlaps` is needed, and `resale` shows that it is) and that a date without a row is untouched
(`AbsentRowIsFree`; otherwise materialising the row would invent capacity). The counting rests on one lemma, `Exchange`:
what `Committed(d)` becomes when some claims stop covering a date and others start.

`SweepProofs` says what a sweep that acts on what it read too early can break and what it cannot. Without `~SweepOverlaps`:
`StandingBookingsAreHeld` (`StandingBookingIsHeld`), `CapacityNeverLeaks` (`NoLeak`) and `ClaimsKeepTheirOwner`
(`NoClaimChangesHands`), the safety properties of the run `overlap`. `NoLeak` is inductive with the types alone: a second return
of a booking's capacity raises what is left by at least what ceases to be taken (`RestoreNoLeak`), so the error is always
in the direction of selling twice. The three rest on `Moves`: every step moves only claims no booking has, creates a booking, decides on one
that goes on standing, or ends some. With `~SweepOverlaps`: `LedgerCountsClaims` (`LedgerAgrees`).
That statuses follow the state machine (`FollowsStateMachine`) is not claimed: every write but the SLA sweep's has that guard, and the sweep's breaks it.

`NeverOversold`: `~SweepOverlaps /\ ModestTotals => (Spec => []NoOversell)`. On top of `Inv`, `Headroom`
says that the remaining count is never below the hourly load of any hour and that no date offers more
than the unit's capacity; the second half needs `ModestTotals` (no saved total above the capacity), and
the third row of the disagreements in section 3 shows that it is needed.

`RefundsProofs` proves of `RefundsSpec`, with or without failing calls and server stops, the
invariants of the run `refunds_concurrent`: `RefundsTypeOK` (`RefundsTypeCorrect`), `ReservationsMatch`
(`ReservationsCorrect`), `NeverOverRefunded` (`RefundsNeverExceedCapture`), `LedgerMatchesRefunds`
(`LedgerCorrect`), `KnownRefundTellsTheTruth` (`RefundsTellTheTruth`) and `ReviewClosedByMoney` (`ReviewsCloseWithMoney`).
The inductive invariant `RefundsInv` adds `RowMatchesRequest`: a refund whose request is still in
memory is `CREATED` and unknown to webhooks, so that request and webhook cannot both end it, and
what an answer or event reports is what happened at the provider. The money rests on one lemma,
`AmountChanges`: what the refunds of a payment that count amount to when one row is written. `NeverOverRefunded`
is not inductive alone, a release could take the amount below zero; with `ReservationsMatch` the amount
is a cardinality. `RefundedIsPaidBackOneByOne` and `RefundedIsFinalOneByOne` are about the two properties that section 3 shows
violated by overlapping refunds: `RefundedMeansPaidBack` and `RefundedIsFinal` hold of every behaviour in which refunds of a payment do not overlap
(`[]OneRefundAtATime`). What is inductive then is `Repaid`: a payment that reads REFUNDED
is paid back in full, and no refund of it is pending.

`PaymentsProofs` is about `Spec` of `BookingPayments`, with any number of attempts, refunds and settlements. Its theorems come in three
groups, by what they assume.

*Whatever fails.* `PaymentsTypeCorrect` (`PaymentsTypeOK`), `ChargesFollowConfirmation` (`NoChargeBeforeConfirmation`) and `PaymentRowsTellTheTruth`
(`RowsTellTheTruth`) hold however calls fail, cards are declined and servers stop, and whatever the SLA sweep makes of a booking meanwhile (`confirmed` is
its history, not its status); `BookingRefundsNeverExceedCapture` and
`BookingRefundsTellTheTruth` carry the invariants of `RefundsProofs` over to the composition. The inductive invariant `PaymentsInv` has two
halves. `Ledgers` is what is committed: the refund invariants, that events tell the truth (`EventsTellTheTruth`; a webhook writes what its event says),
that only captured payments have refunds (`RefundsArePaidFor`; otherwise a capture could write over a refunded row)
and that two attempts are never open at once. `Requests` is what is in memory: how far a creation has come bounds what row,
intent and other requests can be (`CreationMatches`), an answer not yet stored is still true when it is (`SettlementMatches`), and before a
confirmation no request has read one (`ChargesAreAgreed`).

*When refunds of a payment do not overlap.* `OneLivePaymentOneByOne` (`OneLivePayment`) and `BookingShowsPaymentOneByOne`
(`BookingShowsItsPayment`), by `LivePaymentInv`; `OneLivePaymentWithoutAdmin` states both without a condition for the cancellation's
automatic refund alone, which is what `attempts` checks. The condition is needed for the reason `RefundedIsFinal` is violated: of overlapping
refunds, one takes a payment out of REFUNDED, beside the attempt a customer has made since.

*When calls arrive and cards are good.* `HeldMoneyIsRecorded` (`HeldMoneyIsOnRecord`), and where an authorisation is reported by an event
(`AuthorisedByEvents`) also `ConfirmedBookingsAreCaptured` (`ConfirmedBookingIsCaptured`) and `DecidedBookingsReleaseCards` (`DecidedBookingReleasesCard`).
They speak of quiet states; the invariants say what holds until then. `RowFollowsIntent`: an authorisation is on its row, or its event has
yet to be delivered. `SettlingInv`: likewise for captures and voids (`FinalsArrive`), and an authorisation of a decided booking is being looked for, being settled,
or settled at the provider (`SomebodySettles`). Each condition is one the runs show to be needed: failing calls and stops lose what a request knew (`failures`
claims no more than the first group); after a challenge or a decline the authorisation is refused (`challenge`, and the row of `HeldMoneyIsOnRecord` in section 3); with
`Answers = {"AUTHORIZED"}` a confirmation falls between a read and the answer (the row of `ConfirmedBookingIsCaptured`). The last part of `AuthorisedByEvents`, no
answer PROCESSING where authorisations lapse, excludes no provider of the code: the local one answers PROCESSING, Stripe's authorisations lapse.

`ReservationProofs`: `TypesAreKept` (`TypeOK`) and `OnlyMisjudgedNightsChange` (`NightsAreAccounted`) need no condition: they are about the code
as it is, stale syncs, cancelled rows and CSV conflicts included. `EveryUnitIsAccounted` (`CapacityAccounted`), `NothingIsSoldTwice` (`NoDoubleSale`) and
`UnitIsImplemented` (`ImplementsUnitCapacity`) hold of every behaviour in which no step moves an event by a stale or cancelled row and
none stores a CSV row that does not fit (`[][NoMisjudgedStep]_vars`); that is a condition on the behaviour, not on the model, and the configurations `returned` and `csv` show
that neither half can be left out. Nothing in the code prevents such a step.

A commit is the import of a whole feed, so its effect on a night is shown event by event and for one night at a time (`ImportKeepsTotal`): what is
for sale and held of it together stays what it was, as long as no event of the import misjudges that night, because the events still to come have the row
they had before the import (no event is imported twice, `OrderIsInjective`). That needs an induction over the order of the import, which is had from the
well-foundedness of `<` on `Nat`, on sets of numbers instead of predicates (`Least`, `Induction`, `ImportIsRun`). The count of the reservations that hold a
night rests on one lemma, `OneRowTotal`: what it becomes when one row is written. `ReservationsInv` is then no more than `TypeOK` and `CapacityAccounted`. With
`InventoryImplementsUnitCapacity`, both sides of a unit's calendar keep the contract `UnitCapacity` each relies on in the other, each under the condition its
theorem names.

`InventoryImplementsUnitCapacity`: `~SweepOverlaps => (Spec => Unit!Spec)`. Every step of `Inventory` is a `Trade`, an
`Offer` or a stutter (`UnitStep`). A step that moves claims must be shown to change `Committed` and `remaining` by the same
amounts, which `Inv` gives as the difference of two balances, and never to take more than is left, which is the guard of each
operation that takes (the lemmas `...Above`: those that give back only raise what is left).

`ListingProofs` proves `ListingTypeOK`, `ReminderOncePerCycle`, `PurgedStaysOffline`, `PeriodsAreGrantedOnce` and
`EditsGoThroughReview` for any number of requests and sweeps. The inductive invariant `LifecycleInv` adds what a request or
row may rely on: a reminder that went out is marked on the row (`RemindersAreMarked`; a count alone is not inductive); a
publication under way has read an `expires_at`, and a retention, that time has not overtaken (`PublicationsAreFresh`;
without it a stale publication could revive a purged listing, or give a second period); a purged row is due and not
published (`PurgedRow`); the fields of PATCH of a listing under review are what was submitted, and it has its period (`UnderReview`, without which
an approval could publish such edits, or a listing that never expires). `EditsGoThroughReview` is about these fields only; of media and collections
it would be false (`ApprovedIsWhatWasReviewed` in section 3).

`NotificationProofs` proves `MailsAreAccountedFor` for any number of events, tries and stops. `DeliveryInv` adds to it the
bookkeeping of tries (`TriesAreCounted`: a run exists exactly while its job is active, and a job that may still run has tries
left) and bounds the mails by the runs that can have sent them (`MailsAreOfRuns`).

Assumptions on constants: finite sets of claims, dates, hours, refunds, feed events and reservations entered by hand, the last two disjoint (`RowsAssumption`; a
row has a connection and a UID or neither); payments that are no refunds (`EventsAssumption`, an event is about one or the other); natural capacity and totals; at
least one try.

Every safety property that a passing run checks is a theorem, under the conditions named. Model-checked only: liveness (`HoldsEnd`, `PendingBookingsAreDecided`,
`AuthorisationsAreSettled`, `GoneIsReleased`, `FeedArrives`, `ExpiredListingsRetire`, `DeliveriesEnd`), since the provers here reason about neither `ENABLED` nor fairness; and the
properties the violation runs and the table in section 3 refute (of which some are proved under a condition).

## 5. Not modelled

- `updateUnit`: it changes `bookable_units.capacity` and no calendar row. `Capacity` is a constant of `Inventory`, and rows that
  were never written read as it; making it a variable changes the meaning of every materialised row.
- A lock-level model of the calendar (row locks in ascending order, hold rows, booking rows) that implements `Inventory` and is free
  of deadlock. The models take each transaction as one step because it locks what it reads.
- The composition of `Inventory` with `ExternalReservations` in one state space: the contract `UnitCapacity` stands between them.
- Payments: the local provider's REQUIRES_ACTION scenario and its stateless settlement, several events of one kind per payment,
  `charge.refunded`, payments' own idempotency keys.
- Authentication (rotation of refresh tokens) and advertising (campaigns against the hourly sweep): they keep rows of their own which no
  modelled part reads, and no module has been written for them.
- Reviews, messaging, blog, users, partners, managers, search, AI, exchange rates, analytics, administration, CMS, contact,
  favourites, media: single-row reads and writes, queries, or calls to other systems.
- `apps/web`, `packages`, seeds, migrations and tests: user interface, data and shared constants.
