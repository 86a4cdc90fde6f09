----------------------------- MODULE Inventory -----------------------------
(***************************************************************************)
(* The capacity of one bookable unit: the calendar rows, the inventory     *)
(* ledger, the customers' holds, the bookings that hold turn into, the     *)
(* partner's manual blocks, and the two sweeps (expired holds, bookings    *)
(* past the vendor's SLA).  Sources: AvailabilityService and the parts of  *)
(* BookingService and BookingHoldsService that move capacity.              *)
(*                                                                         *)
(* A database transaction that takes its row locks before it reads is one  *)
(* action.  What the code reads WITHOUT a lock and uses later is a step of *)
(* its own: the candidates of the hold sweep and the batch of the SLA      *)
(* sweep.                                                                  *)
(*                                                                         *)
(* A claim is one unit of quantity somebody has taken: a row of            *)
(* reservation_holds (a request for q rooms inserts q of them), one of the *)
(* `quantity` units of a booking_items row, or one of the `quantity` units *)
(* of an inventory_blocks row.  A nightly claim (hours = {}) is subtracted *)
(* from quantity_available on each of its dates; an hourly claim is a row  *)
(* of hourly_inventory_reservations and leaves quantity_available alone.   *)
(***************************************************************************)
EXTENDS Integers, FiniteSets

CONSTANTS
    Dates,         \* the calendar dates, an interval of integers
    Hours,         \* the hours of a day; {} for a unit without hourly stays
    Claims,        \* identities of claims; their number bounds the model
    Users,         \* customers
    Bookings,      \* booking ids
    Blocks,        \* manual block ids
    Sweepers,      \* concurrent runs of the hold-expiry job
    Nobody,        \* the owner of a free claim
    Capacity,      \* bookable_units.capacity
    Totals,        \* the totals a partner saves for a date
    MaxOffered,    \* bound of the model on what repeated saves add up to
    SweepOverlaps  \* may a vendor decide on a booking between the SLA
                   \* sweep's read and its writes?

ASSUME DatesAssumption ==
    /\ Dates \subseteq Int /\ IsFiniteSet(Dates)
    /\ Hours \subseteq Int /\ IsFiniteSet(Hours)
ASSUME ClaimsAssumption == IsFiniteSet(Claims)
ASSUME CapacityAssumption == Capacity \in Nat /\ MaxOffered \in Nat /\ Totals \subseteq Nat
ASSUME SweepAssumption == SweepOverlaps \in BOOLEAN

VARIABLES
    claim,      \* the claims
    rowStatus,  \* availability_calendar.status per date, "NONE" without a row
    remaining,  \* quantity_available per date; Capacity without a row
    consumed,   \* -SUM(delta) of the ledger's entries other than ADJUSTMENT
    offered,    \* history: the total the partner's writes amount to, per date
    booking,    \* bookings.status per booking
    block,      \* "NONE", "ACTIVE" or "RELEASED" per manual block
    candidates, \* what each run of the hold sweep has read, not yet locked
    slaBatch    \* what the SLA sweep has read, not yet written

calendarVars == <<rowStatus, remaining, consumed, offered>>
sweepVars == <<candidates, slaBatch>>
vars == <<claim, calendarVars, booking, block, sweepVars>>

-----------------------------------------------------------------------------
(* Statuses and their transitions. *)

TRANSITIONS ==
    [ DRAFT                 |-> {"PENDING_VENDOR"},
      PENDING_VENDOR        |-> {"CONFIRMED", "REJECTED", "EXPIRED"},
      CONFIRMED             |-> {"CANCELLED_BY_CUSTOMER", "CANCELLED_BY_VENDOR",
                                 "COMPLETED", "NO_SHOW"},
      REJECTED              |-> {},
      CANCELLED_BY_CUSTOMER |-> {},
      CANCELLED_BY_VENDOR   |-> {},
      COMPLETED             |-> {},
      NO_SHOW               |-> {},
      EXPIRED               |-> {} ]

\* createBooking inserts a booking as PENDING_VENDOR: no row is ever a DRAFT.
BookingStatuses == (DOMAIN TRANSITIONS \ {"DRAFT"}) \cup {"NONE"}

\* The statuses in which the customer still has, or has had, the stay.
StandingStatuses == {"PENDING_VENDOR", "CONFIRMED", "COMPLETED", "NO_SHOW"}

Ranges(S) == {{x \in S : lo <= x /\ x <= hi} : lo, hi \in S} \ {{}}

\* A field a partner's request leaves out.
Unset == -1

FreeClaim == [kind |-> "FREE", owner |-> Nobody, dates |-> {}, hours |-> {},
              expired |-> FALSE]

ClaimRecords ==
    [kind : {"FREE", "HOLD", "BOOKED", "BLOCK", "RELEASED"},
     owner : Users \cup Bookings \cup Blocks \cup {Nobody},
     dates : SUBSET Dates, hours : SUBSET Hours, expired : BOOLEAN]

TypeOK ==
    /\ claim \in [Claims -> ClaimRecords]
    /\ rowStatus \in [Dates -> {"NONE", "AVAILABLE", "BLOCKED"}]
    /\ remaining \in [Dates -> Int]
    /\ consumed \in [Dates -> Int]
    /\ offered \in [Dates -> Int]
    /\ booking \in [Bookings -> BookingStatuses]
    /\ block \in [Blocks -> {"NONE", "ACTIVE", "RELEASED"}]
    /\ candidates \in [Sweepers -> SUBSET Claims]
    /\ slaBatch \in SUBSET Bookings

Init ==
    /\ claim = [c \in Claims |-> FreeClaim]
    /\ rowStatus = [d \in Dates |-> "NONE"]
    /\ remaining = [d \in Dates |-> Capacity]
    /\ consumed = [d \in Dates |-> 0]
    /\ offered = [d \in Dates |-> Capacity]
    /\ booking = [b \in Bookings |-> "NONE"]
    /\ block = [k \in Blocks |-> "NONE"]
    /\ candidates = [s \in Sweepers |-> {}]
    /\ slaBatch = {}

-----------------------------------------------------------------------------
(* What is taken, and the capacity arithmetic every operation shares. *)

Free == {c \in Claims : claim[c].kind = "FREE"}
Live == {c \in Claims : claim[c].kind \in {"HOLD", "BOOKED", "BLOCK"}}

ActiveHolds(u) ==
    {c \in Claims : /\ claim[c].kind = "HOLD"
                    /\ claim[c].owner = u
                    /\ ~claim[c].expired}
ExpiredHolds == {c \in Claims : claim[c].kind = "HOLD" /\ claim[c].expired}

\* The units of quantity the items of booking b stand for; they keep their
\* rows after the booking is cancelled.
Items(b) ==
    {c \in Claims : claim[c].kind \in {"BOOKED", "RELEASED"} /\ claim[c].owner = b}

BlockClaims(k) == {c \in Claims : claim[c].kind = "BLOCK" /\ claim[c].owner = k}

\* How many nightly claims of S cover date d.
Nights(S, d) == Cardinality({c \in S : claim[c].hours = {} /\ d \in claim[c].dates})

Committed(d) == Nights(Live, d)

\* Rooms taken by hourly stays on date d during hour h.
HourLoad(d, h) ==
    Cardinality({c \in Live : d \in claim[c].dates /\ h \in claim[c].hours})

\* Mutant of Fits: the hourly stays of the date are forgotten.
FitsBesideNights(left, d, hs, q) == left >= q

\* left - peakOccupiedQuantity(hs) >= q: the peak is the greatest load of an
\* hour of hs, and 0 when there is none.
Fits(left, d, hs, q) ==
    left >= q /\ \A h \in hs : left - HourLoad(d, h) >= q

\* Taking the lock on a date without a row inserts the row at full capacity.
LockForCapacity(ds) ==
    rowStatus' = [d \in Dates |-> IF d \in ds /\ rowStatus[d] = "NONE"
                                  THEN "AVAILABLE" ELSE rowStatus[d]]

NightlyDates(S) == UNION {claim[c].dates : c \in {x \in S : claim[x].hours = {}}}

\* Mutant of RestoreCapacity: no ledger entry.
RestoreWithoutLedger(S) ==
    /\ LockForCapacity(NightlyDates(S))
    /\ remaining' = [d \in Dates |-> remaining[d] + Nights(S, d)]
    /\ UNCHANGED <<consumed, offered>>

\* Give back the nights of S: remaining and the ledger, date by date.
RestoreCapacity(S) ==
    /\ LockForCapacity(NightlyDates(S))
    /\ remaining' = [d \in Dates |-> remaining[d] + Nights(S, d)]
    /\ consumed' = [d \in Dates |-> consumed[d] - Nights(S, d)]
    /\ UNCHANGED offered

\* Take q units on every date of ds.
ConsumeCapacity(ds, q) ==
    /\ LockForCapacity(ds)
    /\ remaining' = [d \in Dates |-> IF d \in ds THEN remaining[d] - q ELSE remaining[d]]
    /\ consumed' = [d \in Dates |-> IF d \in ds THEN consumed[d] + q ELSE consumed[d]]
    /\ UNCHANGED offered

Assign(S, r) == claim' = [c \in Claims |-> IF c \in S THEN r ELSE claim[c]]

-----------------------------------------------------------------------------
(* Holds. *)

Hold(u, ds, hs) ==
    [kind |-> "HOLD", owner |-> u, dates |-> ds, hours |-> hs, expired |-> FALSE]

\* Mutant of ReserveCapacity: one date of the stay is checked.
ReserveCheckingOneDate(u, ds, S) ==
    /\ S # {} /\ S \subseteq Free
    /\ \E d \in ds : /\ rowStatus[d] # "BLOCKED"
                     /\ Fits(remaining[d], d, Hours, Cardinality(S))
    /\ ConsumeCapacity(ds, Cardinality(S))
    /\ Assign(S, Hold(u, ds, {}))
    /\ UNCHANGED <<booking, block, sweepVars>>

\* reserveCapacity for a nightly stay of Cardinality(S) rooms.
ReserveCapacity(u, ds, S) ==
    /\ S # {} /\ S \subseteq Free
    /\ \A d \in ds : /\ rowStatus[d] # "BLOCKED"
                     /\ Fits(remaining[d], d, Hours, Cardinality(S))
    /\ ConsumeCapacity(ds, Cardinality(S))
    /\ Assign(S, Hold(u, ds, {}))
    /\ UNCHANGED <<booking, block, sweepVars>>

\* reserveCapacity for an hourly stay: the row of the date is locked and
\* read, quantity_available and the ledger stay as they are.
ReserveHourlyCapacity(u, d, hs, S) ==
    /\ S # {} /\ S \subseteq Free
    /\ rowStatus[d] # "BLOCKED"
    /\ Fits(remaining[d], d, hs, Cardinality(S))
    /\ LockForCapacity({d})
    /\ Assign(S, Hold(u, {d}, hs))
    /\ UNCHANGED <<remaining, consumed, offered, booking, block, sweepVars>>

\* Mutant of HoldLapses: a lapse is a status of its own.
HoldLapsesByStatus(c) ==
    /\ claim[c].kind = "HOLD" /\ ~claim[c].expired
    /\ claim' = [claim EXCEPT ![c].kind = "EXPIRED"]
    /\ UNCHANGED <<calendarVars, booking, block, sweepVars>>

\* expires_at passes.  (The rows of one request share it; letting them lapse
\* one by one only adds behaviours.)
HoldLapses(c) ==
    /\ claim[c].kind = "HOLD" /\ ~claim[c].expired
    /\ claim' = [claim EXCEPT ![c].expired = TRUE]
    /\ UNCHANGED <<calendarVars, booking, block, sweepVars>>

\* The customer gives holds back: all of them active and the customer's own,
\* or none is touched.
ReleaseHold(u, S) ==
    /\ S # {} /\ S \subseteq ActiveHolds(u)
    /\ RestoreCapacity(S)
    /\ Assign(S, FreeClaim)
    /\ UNCHANGED <<booking, block, sweepVars>>

\* Mutant of SweepFindsExpired: the holds of a blocked date are not found.
SweepFindsSellable(s) ==
    /\ candidates[s] = {} /\ ExpiredHolds # {}
    /\ candidates' = [candidates EXCEPT ![s] =
                        {c \in ExpiredHolds : \A d \in claim[c].dates : rowStatus[d] # "BLOCKED"}]
    /\ UNCHANGED <<claim, calendarVars, booking, block, slaBatch>>

\* A run of the expiry job reads its candidates without a lock ...
SweepFindsExpired(s) ==
    /\ candidates[s] = {} /\ ExpiredHolds # {}
    /\ candidates' = [candidates EXCEPT ![s] = ExpiredHolds]
    /\ UNCHANGED <<claim, calendarVars, booking, block, slaBatch>>

\* Mutant of SweepReleasesExpired: what was read is not read again once locked.
SweepTrustsCandidates(s) ==
    /\ candidates[s] # {}
    /\ RestoreCapacity(candidates[s])
    /\ Assign(candidates[s], FreeClaim)
    /\ candidates' = [candidates EXCEPT ![s] = {}]
    /\ UNCHANGED <<booking, block, slaBatch>>

\* Mutant of SweepReleasesExpired: the rows go, their capacity does not return.
SweepDeletesExpired(s) ==
    /\ candidates[s] # {}
    /\ Assign(candidates[s] \cap ExpiredHolds, FreeClaim)
    /\ candidates' = [candidates EXCEPT ![s] = {}]
    /\ UNCHANGED <<calendarVars, booking, block, slaBatch>>

\* ... and releases those that are still expired holds once locked.
SweepReleasesExpired(s) ==
    LET expired == candidates[s] \cap ExpiredHolds IN
    /\ candidates[s] # {}
    /\ RestoreCapacity(expired)
    /\ Assign(expired, FreeClaim)
    /\ candidates' = [candidates EXCEPT ![s] = {}]
    /\ UNCHANGED <<booking, block, slaBatch>>

-----------------------------------------------------------------------------
(* Bookings. *)

\* Mutant of CreateBooking: the holds are released instead of consumed.
CreateBookingReleasingHolds(u, b, S) ==
    /\ booking[b] = "NONE"
    /\ S # {} /\ S \subseteq ActiveHolds(u)
    /\ booking' = [booking EXCEPT ![b] = "PENDING_VENDOR"]
    /\ RestoreCapacity(S)
    /\ claim' = [c \in Claims |-> IF c \in S
                                  THEN [claim[c] EXCEPT !.kind = "BOOKED", !.owner = b]
                                  ELSE claim[c]]
    /\ UNCHANGED <<block, sweepVars>>

\* Mutant of CreateBooking: holds that have lapsed are taken too.
CreateBookingFromLapsed(u, b, S) ==
    /\ booking[b] = "NONE"
    /\ S # {} /\ \A c \in S : claim[c].kind = "HOLD" /\ claim[c].owner = u
    /\ booking' = [booking EXCEPT ![b] = "PENDING_VENDOR"]
    /\ claim' = [c \in Claims |-> IF c \in S
                                  THEN [claim[c] EXCEPT !.kind = "BOOKED", !.owner = b]
                                  ELSE claim[c]]
    /\ UNCHANGED <<calendarVars, block, sweepVars>>

\* createBooking: active holds of the customer are deleted without giving
\* their capacity back, which is the booking's from now on.
CreateBooking(u, b, S) ==
    /\ booking[b] = "NONE"
    /\ S # {} /\ S \subseteq ActiveHolds(u)
    /\ booking' = [booking EXCEPT ![b] = "PENDING_VENDOR"]
    /\ claim' = [c \in Claims |-> IF c \in S
                                  THEN [claim[c] EXCEPT !.kind = "BOOKED", !.owner = b]
                                  ELSE claim[c]]
    /\ UNCHANGED <<calendarVars, block, sweepVars>>

\* The release of booked capacity.  The items in `ended` (check-out before
\* today) are skipped.  Calendar rows are incremented whatever happened to
\* the booking before; the rows of an hourly stay are released once only.
ReleaseBookedCapacity(S) ==
    \E ended \in SUBSET S :
        /\ RestoreCapacity(S \ ended)
        /\ claim' = [c \in Claims |-> IF c \in S \ ended
                                      THEN [claim[c] EXCEPT !.kind = "RELEASED"]
                                      ELSE claim[c]]

\* A decision on a locked booking.  It may fall between the SLA sweep's read
\* and its writes only when SweepOverlaps.
Decide(b, to) ==
    /\ SweepOverlaps \/ b \notin slaBatch
    /\ booking[b] # "NONE" /\ to \in TRANSITIONS[booking[b]]
    /\ booking' = [booking EXCEPT ![b] = to]
    /\ UNCHANGED <<block, sweepVars>>

ConfirmBooking(b) == Decide(b, "CONFIRMED") /\ UNCHANGED <<claim, calendarVars>>
RejectBooking(b) == Decide(b, "REJECTED") /\ ReleaseBookedCapacity(Items(b))
CancelBooking(b) ==
    /\ Decide(b, "CANCELLED_BY_CUSTOMER") \/ Decide(b, "CANCELLED_BY_VENDOR")
    /\ ReleaseBookedCapacity(Items(b))
CompleteBooking(b) == Decide(b, "COMPLETED") /\ UNCHANGED <<claim, calendarVars>>
MarkNoShow(b) == Decide(b, "NO_SHOW") /\ UNCHANGED <<claim, calendarVars>>

\* expireStaleBookings reads the bookings past their SLA without a lock ...
SlaSweepReads(B) ==
    /\ slaBatch = {} /\ B # {}
    /\ \A b \in B : booking[b] = "PENDING_VENDOR"
    /\ slaBatch' = B
    /\ UNCHANGED <<claim, calendarVars, booking, block, candidates>>

\* Mutant of SlaSweepExpires: the status is not saved.
SlaSweepReleasesOnly ==
    /\ slaBatch # {}
    /\ ReleaseBookedCapacity(UNION {Items(b) : b \in slaBatch})
    /\ slaBatch' = {}
    /\ UNCHANGED <<booking, block, candidates>>

\* ... and expires every one of them: the transition it checks is from the
\* status it read, PENDING_VENDOR.
SlaSweepExpires ==
    /\ slaBatch # {}
    /\ "EXPIRED" \in TRANSITIONS["PENDING_VENDOR"]
    /\ booking' = [b \in Bookings |-> IF b \in slaBatch THEN "EXPIRED" ELSE booking[b]]
    /\ ReleaseBookedCapacity(UNION {Items(b) : b \in slaBatch})
    /\ slaBatch' = {}
    /\ UNCHANGED <<block, candidates>>

-----------------------------------------------------------------------------
(* The partner: manual blocks and calendar rows. *)

BlockClaim(k, ds) ==
    [kind |-> "BLOCK", owner |-> k, dates |-> ds, hours |-> {}, expired |-> FALSE]

CreateManualBlock(k, ds, S) ==
    /\ block[k] = "NONE"
    /\ S # {} /\ S \subseteq Free
    /\ \A d \in ds : Fits(remaining[d], d, Hours, Cardinality(S))
    /\ ConsumeCapacity(ds, Cardinality(S))
    /\ Assign(S, BlockClaim(k, ds))
    /\ block' = [block EXCEPT ![k] = "ACTIVE"]
    /\ UNCHANGED <<booking, sweepVars>>

\* The block's old dates are given back and the new ones taken, under the
\* locks of both: the new dates may use what the old ones return.
UpdateManualBlock(k, ds, T) ==
    LET old == BlockClaims(k)
        left(d) == remaining[d] + Nights(old, d)
        used(d) == IF d \in ds THEN Cardinality(T) ELSE 0
    IN  /\ block[k] = "ACTIVE"
        /\ T # {} /\ T \subseteq Free \cup old
        /\ \A d \in ds : Fits(left(d), d, Hours, Cardinality(T))
        /\ LockForCapacity(ds \cup NightlyDates(old))
        /\ remaining' = [d \in Dates |-> left(d) - used(d)]
        /\ consumed' = [d \in Dates |-> consumed[d] - Nights(old, d) + used(d)]
        /\ claim' = [c \in Claims |-> IF c \in T THEN BlockClaim(k, ds)
                                      ELSE IF c \in old THEN FreeClaim ELSE claim[c]]
        /\ UNCHANGED <<offered, booking, block, sweepVars>>

ReleaseManualBlock(k) ==
    /\ block[k] = "ACTIVE"
    /\ block' = [block EXCEPT ![k] = "RELEASED"]
    /\ RestoreCapacity(BlockClaims(k))
    /\ Assign(BlockClaims(k), FreeClaim)
    /\ UNCHANGED <<booking, sweepVars>>

\* What #writeCalendarRow writes as the remaining count for a saved total q.
RemainingForTotal(d, q) == IF q = Unset THEN remaining[d]
                           ELSE q - (Capacity - remaining[d])

\* setAvailability and updateCalendarEntry: the total q and the status are
\* each saved or left alone, on every date of ds or on none.
SetAvailability(ds, q, status) ==
    /\ q # Unset => \A d \in ds : Fits(RemainingForTotal(d, q), d, Hours, 0)
    /\ \A d \in ds : offered[d] + (RemainingForTotal(d, q) - remaining[d]) <= MaxOffered
    /\ IF status = "KEEP" THEN LockForCapacity(ds)
       ELSE rowStatus' = [d \in Dates |-> IF d \in ds THEN status ELSE rowStatus[d]]
    /\ remaining' = [d \in Dates |-> IF d \in ds THEN RemainingForTotal(d, q)
                                     ELSE remaining[d]]
    /\ offered' = [d \in Dates |-> offered[d] + (remaining'[d] - remaining[d])]
    /\ UNCHANGED <<claim, consumed, booking, block, sweepVars>>

\* Mutant of RemoveCalendarEntry: the ledger is not consulted.
RemoveAnyEntry(d) ==
    /\ rowStatus[d] # "NONE"
    /\ rowStatus' = [rowStatus EXCEPT ![d] = "NONE"]
    /\ remaining' = [remaining EXCEPT ![d] = Capacity]
    /\ offered' = [offered EXCEPT ![d] = Capacity]
    /\ UNCHANGED <<claim, consumed, booking, block, sweepVars>>

\* removeCalendarEntry: the date falls back to the unit's capacity, unless
\* the ledger says that somebody has consumed some of it.
RemoveCalendarEntry(d) ==
    /\ rowStatus[d] # "NONE"
    /\ consumed[d] <= 0
    /\ rowStatus' = [rowStatus EXCEPT ![d] = "NONE"]
    /\ remaining' = [remaining EXCEPT ![d] = Capacity]
    /\ offered' = [offered EXCEPT ![d] = Capacity]
    /\ UNCHANGED <<claim, consumed, booking, block, sweepVars>>

-----------------------------------------------------------------------------
CustomerNext ==
    \/ \E u \in Users, ds \in Ranges(Dates), S \in SUBSET Claims : ReserveCapacity(u, ds, S)
    \/ \E u \in Users, d \in Dates, hs \in Ranges(Hours), S \in SUBSET Claims :
          ReserveHourlyCapacity(u, d, hs, S)
    \/ \E u \in Users, S \in SUBSET Claims : ReleaseHold(u, S)
    \/ \E u \in Users, b \in Bookings, S \in SUBSET Claims : CreateBooking(u, b, S)

VendorNext ==
    \/ \E b \in Bookings : \/ ConfirmBooking(b) \/ RejectBooking(b) \/ CancelBooking(b)
                           \/ CompleteBooking(b) \/ MarkNoShow(b)
    \/ \E k \in Blocks, ds \in Ranges(Dates), S \in SUBSET Claims :
          CreateManualBlock(k, ds, S) \/ UpdateManualBlock(k, ds, S)
    \/ \E k \in Blocks : ReleaseManualBlock(k)
    \/ \E ds \in Ranges(Dates), q \in Totals \cup {Unset},
          status \in {"KEEP", "AVAILABLE", "BLOCKED"} : SetAvailability(ds, q, status)
    \/ \E d \in Dates : RemoveCalendarEntry(d)

SystemNext ==
    \/ \E c \in Claims : HoldLapses(c)
    \/ \E s \in Sweepers : SweepFindsExpired(s) \/ SweepReleasesExpired(s)
    \/ \E B \in SUBSET Bookings : SlaSweepReads(B)
    \/ SlaSweepExpires

Next == CustomerNext \/ VendorNext \/ SystemNext

Spec == Init /\ [][Next]_vars

\* The two jobs repeat for ever (every 30 seconds, every 15 minutes), holds
\* do lapse, and a booking nobody decides on passes its SLA and is then part
\* of every batch the SLA sweep reads (oldest first).
Fairness ==
    /\ \A c \in Claims : WF_vars(HoldLapses(c))
    /\ \A s \in Sweepers : WF_vars(SweepFindsExpired(s)) /\ WF_vars(SweepReleasesExpired(s))
    /\ \A b \in Bookings : WF_vars(\E B \in SUBSET Bookings : b \in B /\ SlaSweepReads(B))
    /\ WF_vars(SlaSweepExpires)

FairSpec == Spec /\ Fairness

-----------------------------------------------------------------------------
(* Properties. *)

\* The ledger's sum for a date, which removeCalendarEntry takes for "somebody
\* has consumed this date", is what live holds, bookings and blocks cover.
LedgerAgrees == \A d \in Dates : consumed[d] = Committed(d)

\* No unit of capacity is lost: what is neither taken nor for sale on a date
\* is nothing (a hold that ends without giving its capacity back would be).
NoLeak == \A d \in Dates : remaining[d] + Committed(d) >= offered[d]

\* No unit is for sale while it is taken (the restores of reject, cancel,
\* expiry and release each happen once).
NoDoubleSale == \A d \in Dates : remaining[d] + Committed(d) <= offered[d]

\* At every hour of every date the rooms taken by nightly claims and by
\* hourly stays fit in what the partner offers on that date.
NoOversell ==
    \A d \in Dates : /\ Committed(d) <= offered[d]
                     /\ \A h \in Hours : Committed(d) + HourLoad(d, h) <= offered[d]

\* A date without a calendar row is read as free at full capacity by every
\* view: nobody has consumed any of it.
AbsentRowIsFree ==
    \A d \in Dates : rowStatus[d] = "NONE" => remaining[d] = Capacity /\ Committed(d) = 0

\* A booking that stands has every unit of its items taken in the inventory.
StandingBookingIsHeld ==
    \A b \in Bookings : booking[b] \in StandingStatuses =>
        /\ Items(b) # {}
        /\ \A c \in Items(b) : claim[c].kind = "BOOKED"

\* A booking changes status along the edges of the state machine only,
\* whichever of the vendor, the customer and the sweep acts.  Not so when a
\* decision falls inside the SLA sweep, which looks at no status: a booking
\* just confirmed becomes EXPIRED.
FollowsStateMachine ==
    [][\A b \in Bookings : booking'[b] # booking[b] =>
          booking'[b] \in IF booking[b] = "NONE" THEN TRANSITIONS["DRAFT"]
                          ELSE TRANSITIONS[booking[b]]]_vars

\* A claim that a hold or a booking had is for sale again or belongs to the
\* booking: it never passes to another customer, booking or block directly.
NoClaimChangesHands ==
    [][\A c \in Claims : claim[c].kind # "FREE" /\ claim'[c].owner # claim[c].owner =>
          \/ claim'[c] = FreeClaim
          \/ /\ claim[c].kind = "HOLD" /\ ~claim[c].expired
             /\ claim'[c].kind = "BOOKED" /\ claim'[c].dates = claim[c].dates]_vars

\* A saved quantity is the date's total from then on (the comment of
\* #writeCalendarRow: "reinterpreted as the desired TOTAL capacity").
SavedTotalIsOffered ==
    [][\A ds \in Ranges(Dates), q \in Totals :
          SetAvailability(ds, q, "KEEP") => \A d \in ds : offered'[d] = q]_vars

\* A hold ends: it becomes a booking, is given back, or lapses and is swept.
HoldsEnd == \A c \in Claims : claim[c].kind = "HOLD" ~> claim[c].kind # "HOLD"

\* No booking waits for its vendor for ever.
PendingBookingsAreDecided ==
    \A b \in Bookings : booking[b] = "PENDING_VENDOR" ~> booking[b] # "PENDING_VENDOR"

\* The calendar of UnitCapacity: what a date has left is what new requests are
\* checked against, what is taken of it is what live claims cover.
Unit == INSTANCE UnitCapacity WITH
            taken <- [d \in Dates |-> Committed(d)],
            left <- remaining

\* Every operation takes only what is left, moves the count by exactly what it
\* takes or gives back, and changes a total without touching what is taken.
ImplementsUnitCapacity == Unit!Spec
=============================================================================
