---------------------------- MODULE SweepProofs ----------------------------
(***************************************************************************)
(* What the two sweeps of Inventory can break and what they cannot.        *)
(* Without ~SweepOverlaps: a sweep that acts on what it read too early may *)
(* expire a booking that was decided on and return its capacity twice, but *)
(* it loses no capacity, takes nothing from a booking that stands and      *)
(* hands nobody's claim to another.  With it: the ledger counts the claims. *)
(***************************************************************************)
EXTENDS InventoryProofs

-----------------------------------------------------------------------------
(* Which claims a step touches. *)

\* Claims of bookings stay as they are, no other claim becomes one, and who
\* loses a claim loses it to nobody.
OnlyUnbookedMove ==
    /\ booking' = booking
    /\ \A c \in Claims : \/ claim'[c] = claim[c]
                         \/ /\ claim[c].kind \notin {"BOOKED", "RELEASED"}
                            /\ claim'[c].kind \notin {"BOOKED", "RELEASED"}
    /\ \A c \in Claims : claim[c].kind # "FREE" /\ claim'[c].owner # claim[c].owner
                            => claim'[c] = FreeClaim

\* The bookings B end, and what their items had is given back.
BookingsEnd(B) ==
    /\ \A b \in B : booking'[b] \notin StandingStatuses \cup {"NONE"}
    /\ \A b \in Bookings \ B : booking'[b] = booking[b]
    /\ ReleaseBookedCapacity(UNION {Items(b) : b \in B})

\* Booking b is decided on and goes on standing.
BookingGoesOn(b) ==
    /\ booking[b] \in StandingStatuses /\ booking'[b] \in StandingStatuses
    /\ \A x \in Bookings \ {b} : booking'[x] = booking[x]
    /\ claim' = claim

LEMMA CustomerMoves ==
    ASSUME TypeOK, CustomerNext
    PROVE  \/ OnlyUnbookedMove
           \/ \E u \in Users, b \in Bookings, S \in SUBSET Claims : CreateBooking(u, b, S)
<1>1. ASSUME NEW u \in Users, NEW ds \in Ranges(Dates), NEW S \in SUBSET Claims,
             ReserveCapacity(u, ds, S)
      PROVE  OnlyUnbookedMove
  BY <1>1 DEF ReserveCapacity, Assign, Free, Hold, OnlyUnbookedMove
<1>2. ASSUME NEW u \in Users, NEW d \in Dates, NEW hs \in Ranges(Hours),
             NEW S \in SUBSET Claims, ReserveHourlyCapacity(u, d, hs, S)
      PROVE  OnlyUnbookedMove
  BY <1>2 DEF ReserveHourlyCapacity, Assign, Free, Hold, OnlyUnbookedMove
<1>3. ASSUME NEW u \in Users, NEW S \in SUBSET Claims, ReleaseHold(u, S)
      PROVE  OnlyUnbookedMove
  BY <1>3 DEF ReleaseHold, Assign, ActiveHolds, FreeClaim, OnlyUnbookedMove
<1> QED
  BY <1>1, <1>2, <1>3 DEF CustomerNext

LEMMA VendorMoves ==
    ASSUME TypeOK, VendorNext
    PROVE  \/ OnlyUnbookedMove
           \/ \E b \in Bookings : BookingGoesOn(b)
           \/ \E B \in SUBSET Bookings : BookingsEnd(B)
<1>1. ASSUME NEW b \in Bookings, ConfirmBooking(b) \/ CompleteBooking(b) \/ MarkNoShow(b)
      PROVE  BookingGoesOn(b)
  <2>1. PICK to \in StandingStatuses : Decide(b, to) /\ UNCHANGED <<claim, calendarVars>>
    BY <1>1 DEF ConfirmBooking, CompleteBooking, MarkNoShow, StandingStatuses
  <2> QED
    BY <2>1, DecideFrom DEF BookingGoesOn
<1>2. ASSUME NEW b \in Bookings, RejectBooking(b) \/ CancelBooking(b)
      PROVE  BookingsEnd({b})
  <2>1. PICK to : /\ Decide(b, to) /\ to \notin StandingStatuses
                  /\ ReleaseBookedCapacity(Items(b))
    BY <1>2 DEF RejectBooking, CancelBooking, StandingStatuses
  <2>2. Items(b) = UNION {Items(x) : x \in {b}}
    OBVIOUS
  <2> QED
    BY <2>1, <2>2, DecideFrom DEF BookingsEnd
<1>3. ASSUME NEW k \in Blocks, NEW ds \in Ranges(Dates), NEW S \in SUBSET Claims,
             CreateManualBlock(k, ds, S)
      PROVE  OnlyUnbookedMove
  BY <1>3 DEF CreateManualBlock, Assign, Free, BlockClaim, OnlyUnbookedMove
<1>4. ASSUME NEW k \in Blocks, NEW ds \in Ranges(Dates), NEW T \in SUBSET Claims,
             UpdateManualBlock(k, ds, T)
      PROVE  OnlyUnbookedMove
  <2>1. /\ \A c \in T : /\ claim'[c] = BlockClaim(k, ds)
                        /\ \/ claim[c].kind = "FREE"
                           \/ claim[c].kind = "BLOCK" /\ claim[c].owner = k
        /\ \A c \in BlockClaims(k) \ T : claim'[c] = FreeClaim /\ claim[c].kind = "BLOCK"
        /\ \A c \in Claims \ (BlockClaims(k) \cup T) : claim'[c] = claim[c]
        /\ booking' = booking
    BY <1>4 DEF UpdateManualBlock, Free, BlockClaims
  <2>2. /\ BlockClaim(k, ds).kind = "BLOCK" /\ BlockClaim(k, ds).owner = k
        /\ FreeClaim.kind = "FREE"
    BY DEF BlockClaim, FreeClaim
  <2> HIDE DEF BlockClaim, FreeClaim
  <2>3. \A c \in T : /\ claim[c].kind \notin {"BOOKED", "RELEASED"}
                     /\ claim'[c].kind \notin {"BOOKED", "RELEASED"}
                     /\ (claim[c].kind = "FREE" \/ claim'[c].owner = claim[c].owner)
    BY <2>1, <2>2
  <2>4. \A c \in BlockClaims(k) \ T : claim[c].kind = "BLOCK" /\ claim'[c] = FreeClaim
    BY <2>1
  <2>5. \A c \in Claims : c \in T \/ c \in BlockClaims(k) \ T \/ claim'[c] = claim[c]
    BY <2>1
  <2> QED
    BY <2>1, <2>2, <2>3, <2>4, <2>5 DEF OnlyUnbookedMove
<1>5. ASSUME NEW k \in Blocks, ReleaseManualBlock(k)
      PROVE  OnlyUnbookedMove
  BY <1>5 DEF ReleaseManualBlock, Assign, BlockClaims, FreeClaim, OnlyUnbookedMove
<1>6. ASSUME NEW ds \in Ranges(Dates), NEW q \in Totals \cup {Unset},
             NEW status \in {"KEEP", "AVAILABLE", "BLOCKED"}, SetAvailability(ds, q, status)
      PROVE  OnlyUnbookedMove
  BY <1>6 DEF SetAvailability, OnlyUnbookedMove
<1>7. ASSUME NEW d \in Dates, RemoveCalendarEntry(d)
      PROVE  OnlyUnbookedMove
  BY <1>7 DEF RemoveCalendarEntry, OnlyUnbookedMove
<1> QED
  BY <1>1, <1>2, <1>3, <1>4, <1>5, <1>6, <1>7 DEF VendorNext

LEMMA SystemMoves ==
    ASSUME TypeOK, SystemNext
    PROVE  OnlyUnbookedMove \/ \E B \in SUBSET Bookings : BookingsEnd(B)
<1>1. ASSUME NEW c \in Claims, HoldLapses(c)
      PROVE  OnlyUnbookedMove
  <2>1. claim[c] \in ClaimRecords
    BY DEF TypeOK
  <2>2. /\ claim[c].kind = "HOLD" /\ claim'[c].kind = "HOLD"
        /\ claim'[c].owner = claim[c].owner
        /\ \A x \in Claims \ {c} : claim'[x] = claim[x]
    BY <1>1, <2>1 DEF TypeOK, HoldLapses, ClaimRecords
  <2> QED
    BY <1>1, <2>2 DEF HoldLapses, OnlyUnbookedMove
<1>2. ASSUME NEW s \in Sweepers, SweepFindsExpired(s)
      PROVE  OnlyUnbookedMove
  BY <1>2 DEF SweepFindsExpired, OnlyUnbookedMove
<1>3. ASSUME NEW s \in Sweepers, SweepReleasesExpired(s)
      PROVE  OnlyUnbookedMove
  BY <1>3 DEF SweepReleasesExpired, Assign, ExpiredHolds, FreeClaim, OnlyUnbookedMove
<1>4. ASSUME NEW B \in SUBSET Bookings, SlaSweepReads(B)
      PROVE  OnlyUnbookedMove
  BY <1>4 DEF SlaSweepReads, OnlyUnbookedMove
<1>5. ASSUME SlaSweepExpires
      PROVE  BookingsEnd(slaBatch)
  BY <1>5 DEF TypeOK, SlaSweepExpires, StandingStatuses, BookingsEnd
<1>6. slaBatch \in SUBSET Bookings
  BY DEF TypeOK
<1> QED
  BY <1>1, <1>2, <1>3, <1>4, <1>5, <1>6 DEF SystemNext

\* Every step is one of these.
LEMMA Moves ==
    ASSUME TypeOK, [Next]_vars
    PROVE  \/ OnlyUnbookedMove
           \/ \E u \in Users, b \in Bookings, S \in SUBSET Claims : CreateBooking(u, b, S)
           \/ \E b \in Bookings : BookingGoesOn(b)
           \/ \E B \in SUBSET Bookings : BookingsEnd(B)
<1>1. CASE UNCHANGED vars
  BY <1>1 DEF vars, OnlyUnbookedMove
<1> QED
  BY <1>1, CustomerMoves, VendorMoves, SystemMoves DEF Next

-----------------------------------------------------------------------------
(* Bookings and their items. *)

\* The claims a booking's new holder takes over: holds that are still active.
LEMMA CreateBookingClaims ==
    ASSUME TypeOK, NEW u \in Users, NEW b \in Bookings, NEW S \in SUBSET Claims,
           CreateBooking(u, b, S)
    PROVE  /\ \A c \in S : /\ claim[c].kind = "HOLD" /\ ~claim[c].expired
                           /\ claim'[c].kind = "BOOKED" /\ claim'[c].owner = b
                           /\ claim'[c].hours = claim[c].hours
                           /\ claim'[c].dates = claim[c].dates
           /\ \A c \in Claims \ S : claim'[c] = claim[c]
<1>1. \A c \in Claims : claim[c] \in ClaimRecords
  BY DEF TypeOK
<1> QED
  BY <1>1 DEF CreateBooking, ActiveHolds, ClaimRecords

\* The items a release returns keep their owner and nothing else moves.
LEMMA ReleasedClaims ==
    ASSUME TypeOK, NEW B \in SUBSET Bookings, BookingsEnd(B)
    PROVE  \E R \in SUBSET UNION {Items(b) : b \in B} :
              /\ RestoreCapacity(R)
              /\ \A c \in R : claim'[c].kind = "RELEASED" /\ claim'[c].owner = claim[c].owner
              /\ \A c \in Claims \ R : claim'[c] = claim[c]
<1> DEFINE S == UNION {Items(b) : b \in B}
<1>1. PICK ended \in SUBSET S :
        /\ RestoreCapacity(S \ ended)
        /\ claim' = [c \in Claims |-> IF c \in S \ ended
                                      THEN [claim[c] EXCEPT !.kind = "RELEASED"]
                                      ELSE claim[c]]
  BY DEF BookingsEnd, ReleaseBookedCapacity
<1>2. \A c \in S : c \in Claims /\ claim[c] \in ClaimRecords
  BY DEF TypeOK, Items
<1>3. \A c \in S \ ended : claim'[c].kind = "RELEASED" /\ claim'[c].owner = claim[c].owner
  BY <1>1, <1>2 DEF ClaimRecords
<1>4. \A c \in Claims \ (S \ ended) : claim'[c] = claim[c]
  BY <1>1
<1> DEFINE R == S \ ended
<1>5. R \in SUBSET S /\ RestoreCapacity(R)
  BY <1>1
<1>6. \A c \in R : claim'[c].kind = "RELEASED" /\ claim'[c].owner = claim[c].owner
  BY <1>3
<1>7. \A c \in Claims \ R : claim'[c] = claim[c]
  BY <1>4
<1> HIDE DEF R
<1> QED
  BY <1>5, <1>6, <1>7

LEMMA ItemsStep ==
    ASSUME TypeOK, ItemsMatch, [Next]_vars
    PROVE  ItemsMatch'
<1>1. ASSUME OnlyUnbookedMove
      PROVE  ItemsMatch'
  BY <1>1, SameItems DEF OnlyUnbookedMove
<1>2. ASSUME NEW u \in Users, NEW b \in Bookings, NEW S \in SUBSET Claims,
             CreateBooking(u, b, S)
      PROVE  ItemsMatch'
  <2>1. Items(b) = {}
    BY <1>2 DEF ItemsMatch, CreateBooking
  <2>2. Items(b)' = S
    BY <1>2, <2>1, CreateBookingClaims DEF Items
  <2>3. \A x \in Bookings \ {b} : /\ Items(x)' = Items(x)
                                  /\ \A c \in Items(x) : claim'[c] = claim[c]
    BY <1>2, CreateBookingClaims DEF Items
  <2>4. /\ booking'[b] = "PENDING_VENDOR" /\ S # {}
        /\ \A x \in Bookings \ {b} : booking'[x] = booking[x]
    BY <1>2 DEF TypeOK, CreateBooking
  <2> QED
    BY <1>2, <2>2, <2>3, <2>4, CreateBookingClaims DEF ItemsMatch
<1>3. ASSUME NEW b \in Bookings, BookingGoesOn(b)
      PROVE  ItemsMatch'
  <2>1. \A x \in Bookings : Items(x)' = Items(x)
    BY <1>3 DEF Items, BookingGoesOn
  <2>2. booking'[b] # "NONE"
    BY <1>3 DEF BookingGoesOn, StandingStatuses
  <2> QED
    BY <1>3, <2>1, <2>2 DEF ItemsMatch, BookingGoesOn
<1>4. ASSUME NEW B \in SUBSET Bookings, BookingsEnd(B)
      PROVE  ItemsMatch'
  <2>1. PICK R \in SUBSET UNION {Items(b) : b \in B} :
              /\ \A c \in R : claim'[c].kind = "RELEASED" /\ claim'[c].owner = claim[c].owner
              /\ \A c \in Claims \ R : claim'[c] = claim[c]
    BY <1>4, ReleasedClaims
  <2>2. \A c \in R : /\ c \in Claims /\ claim[c].owner \in B
                     /\ claim[c].kind \in {"BOOKED", "RELEASED"}
    BY <2>1 DEF Items
  <2>3. \A x \in Bookings : Items(x)' = Items(x)
    BY <2>1, <2>2 DEF Items
  <2>4. \A x \in Bookings \ B : \A c \in Items(x) : claim'[c] = claim[c]
    BY <2>1, <2>2 DEF Items
  <2> QED
    BY <1>4, <2>3, <2>4 DEF ItemsMatch, BookingsEnd
<1> QED
  BY <1>1, <1>2, <1>3, <1>4, Moves

LEMMA ItemsInit == Init => ItemsMatch
BY InvInit DEF Inv

\* The customer of a booking that stands has every unit of it, whenever the
\* sweeps run: neither of them releases the items of such a booking
\* (findStaleBookings, releaseExpiredHolds).
THEOREM StandingBookingsAreHeld == Spec => []StandingBookingIsHeld
<1>1. ItemsMatch => StandingBookingIsHeld
  BY DEF ItemsMatch, StandingBookingIsHeld
<1>2. TypeOK /\ ItemsMatch /\ [Next]_vars => TypeOK' /\ ItemsMatch'
  BY TypeStep, ItemsStep
<1> QED
  BY <1>1, <1>2, TypeInit, ItemsInit, PTL DEF Spec

\* The owner of a claim changes only when the claim becomes free or goes with
\* its customer's booking.
OwnersKept ==
    \A c \in Claims : claim[c].kind # "FREE" /\ claim'[c].owner # claim[c].owner =>
        \/ claim'[c] = FreeClaim
        \/ /\ claim[c].kind = "HOLD" /\ ~claim[c].expired
           /\ claim'[c].kind = "BOOKED" /\ claim'[c].dates = claim[c].dates

LEMMA OwnersStep ==
    ASSUME TypeOK, [Next]_vars
    PROVE  OwnersKept
<1>1. ASSUME OnlyUnbookedMove
      PROVE  OwnersKept
  BY <1>1 DEF OnlyUnbookedMove, OwnersKept
<1>2. ASSUME NEW u \in Users, NEW b \in Bookings, NEW S \in SUBSET Claims,
             CreateBooking(u, b, S)
      PROVE  OwnersKept
  BY <1>2, CreateBookingClaims DEF OwnersKept
<1>3. ASSUME NEW b \in Bookings, BookingGoesOn(b)
      PROVE  OwnersKept
  BY <1>3 DEF BookingGoesOn, OwnersKept
<1>4. ASSUME NEW B \in SUBSET Bookings, BookingsEnd(B)
      PROVE  OwnersKept
  BY <1>4, ReleasedClaims DEF OwnersKept
<1> QED
  BY <1>1, <1>2, <1>3, <1>4, Moves

\* No operation hands a claim of one customer, booking or block to another:
\* what a sweep that read it too early could do (releaseExpiredHolds,
\* createBooking, updateManualBlock).
THEOREM ClaimsKeepTheirOwner == Spec => NoClaimChangesHands
<1>1. TypeOK /\ [Next]_vars => OwnersKept
  BY OwnersStep
<1>2. NoClaimChangesHands <=> [][OwnersKept]_vars
  BY PTL DEF NoClaimChangesHands, OwnersKept
<1> QED
  BY <1>1, <1>2, TypeCorrect, PTL DEF Spec

-----------------------------------------------------------------------------
(* Capacity is not lost. *)

\* Fewer claims cover fewer nights.
LEMMA NightsMonotone ==
    ASSUME NEW S \in SUBSET Claims, NEW A \in SUBSET S, NEW d
    PROVE  Nights(A, d) <= Nights(S, d)
<1> DEFINE TS == {c \in S : claim[c].hours = {} /\ d \in claim[c].dates}
           TA == {c \in A : claim[c].hours = {} /\ d \in claim[c].dates}
<1>1. TS \in SUBSET Claims /\ TA \in SUBSET TS
  OBVIOUS
<1>2. IsFiniteSet(TS)
  BY <1>1, ClaimsAssumption, FS_Subset
<1>3. Cardinality(TA) <= Cardinality(TS)
  BY <1>1, <1>2, FS_Subset
<1> QED
  BY <1>3 DEF Nights

\* A step that changes no nightly claim and moves what is left and what is
\* offered by the same amount.
LEMMA UnmovedNoLeak ==
    ASSUME TypeOK, TypeOK', NoLeak,
           \A d \in Dates : remaining'[d] - remaining[d] = offered'[d] - offered[d],
           \A c \in Claims, d \in Dates : Covers(c, d)' <=> Covers(c, d)
    PROVE  NoLeak'
<1>1. \A d \in Dates : Committed(d)' = Committed(d) /\ Committed(d) \in Int
  BY SameCommitted, CommittedNat
<1> QED
  BY <1>1 DEF TypeOK, NoLeak

\* Giving back the nights of S, some of which may have been given back
\* before, returns at least what ceases to be taken.
LEMMA RestoreNoLeak ==
    ASSUME TypeOK, NoLeak, NEW S \in SUBSET Claims, RestoreCapacity(S),
           \A c \in S : claim'[c].kind \notin LiveKinds,
           \A c \in Claims \ S : claim'[c] = claim[c]
    PROVE  NoLeak'
<1> DEFINE A == S \cap Live
<1> SUFFICES ASSUME NEW d \in Dates
             PROVE  remaining'[d] + Committed(d)' >= offered'[d]
  BY DEF NoLeak
<1>1. \A c \in Claims \ A : Covers(c, d)' <=> Covers(c, d)
  BY DEF Covers, Live, LiveKinds
<1>2. \A c \in A : ~Covers(c, d)'
  BY DEF Covers, LiveKinds
<1>3. A \in SUBSET Live /\ A \in SUBSET S
  OBVIOUS
<1>4. Committed(d)' = Committed(d) - Nights(A, d) + 0
  <2> DEFINE none == {}
  <2>1. /\ none \in SUBSET Claims
        /\ \A c \in none : c \in A \/ c \notin Live
        /\ \A c \in none : Covers(c, d)' <=> d \in none
    OBVIOUS
  <2>2. \A c \in A \ none : ~Covers(c, d)'
    BY <1>2
  <2>3. \A c \in Claims \ (A \cup none) : Covers(c, d)' <=> Covers(c, d)
    BY <1>1
  <2>4. d \notin none
    OBVIOUS
  <2> HIDE DEF A, none
  <2>5. Committed(d)' = Committed(d) - Nights(A, d)
                          + (IF d \in none THEN Cardinality(none) ELSE 0)
    BY <1>3, <2>1, <2>2, <2>3, Exchange
  <2> QED
    BY <2>4, <2>5
<1>5. /\ Nights(A, d) <= Nights(S, d)
      /\ Nights(A, d) \in Int /\ Nights(S, d) \in Int /\ Committed(d) \in Int
  BY <1>3, NightsMonotone, NightsType, CommittedNat
<1>6. remaining'[d] = remaining[d] + Nights(S, d) /\ offered'[d] = offered[d]
  BY DEF RestoreCapacity
<1>7. remaining[d] + Committed(d) >= offered[d] /\ remaining[d] \in Int /\ offered[d] \in Int
  BY DEF NoLeak, TypeOK
<1> QED
  BY <1>4, <1>5, <1>6, <1>7

\* Free claims that take their dates take what the count is lowered by.
LEMMA ConsumeNoLeak ==
    ASSUME TypeOK, NoLeak, NEW S \in SUBSET Free, NEW ds,
           ConsumeCapacity(ds, Cardinality(S)),
           \A c \in S : /\ claim'[c].kind \in LiveKinds
                        /\ claim'[c].hours = {} /\ claim'[c].dates = ds,
           \A c \in Claims \ S : claim'[c] = claim[c]
    PROVE  NoLeak'
<1> SUFFICES ASSUME NEW d \in Dates
             PROVE  remaining'[d] + Committed(d)' >= offered'[d]
  BY DEF NoLeak
<1>1. S \in SUBSET Claims /\ \A c \in S : c \notin Live
  BY DEF Free, Live
<1>2. Committed(d)' = Committed(d) - Nights({}, d)
                        + (IF d \in ds THEN Cardinality(S) ELSE 0)
  <2>1. \A c \in S : Covers(c, d)' <=> d \in ds
    BY DEF Covers, LiveKinds
  <2>2. \A c \in Claims \ S : Covers(c, d)' <=> Covers(c, d)
    BY DEF Covers
  <2> QED
    BY <1>1, <2>1, <2>2, Exchange
<1>3. Nights({}, d) = 0
  <2>1. {c \in {} : claim[c].hours = {} /\ d \in claim[c].dates} = {}
    OBVIOUS
  <2> QED
    BY <2>1, FS_EmptySet DEF Nights
<1>4. Cardinality(S) \in Nat /\ Committed(d) \in Int
  BY <1>1, CardType, CommittedNat
<1>5. /\ remaining'[d] = remaining[d] - (IF d \in ds THEN Cardinality(S) ELSE 0)
      /\ offered'[d] = offered[d]
  BY <1>4 DEF ConsumeCapacity, TypeOK
<1>6. remaining[d] + Committed(d) >= offered[d] /\ remaining[d] \in Int /\ offered[d] \in Int
  BY DEF NoLeak, TypeOK
<1> QED
  BY <1>2, <1>3, <1>4, <1>5, <1>6

LEMMA CustomerNoLeak == ASSUME TypeOK, TypeOK', NoLeak, CustomerNext PROVE NoLeak'
<1>1. ASSUME NEW u \in Users, NEW ds \in Ranges(Dates), NEW S \in SUBSET Claims,
             ReserveCapacity(u, ds, S)
      PROVE  NoLeak'
  <2>1. /\ \A c \in S : /\ claim'[c].kind \in LiveKinds
                        /\ claim'[c].hours = {} /\ claim'[c].dates = ds
        /\ \A c \in Claims \ S : claim'[c] = claim[c]
    BY <1>1 DEF ReserveCapacity, Assign, Hold, LiveKinds
  <2>2. S \in SUBSET Free /\ ConsumeCapacity(ds, Cardinality(S))
    BY <1>1 DEF ReserveCapacity
  <2> QED
    BY <2>1, <2>2, ConsumeNoLeak
<1>2. ASSUME NEW u \in Users, NEW d \in Dates, NEW hs \in Ranges(Hours),
             NEW S \in SUBSET Claims, ReserveHourlyCapacity(u, d, hs, S)
      PROVE  NoLeak'
  <2>1. /\ \A c \in S : claim'[c] = Hold(u, {d}, hs) /\ claim[c].kind = "FREE"
        /\ \A c \in Claims \ S : claim'[c] = claim[c]
    BY <1>2 DEF ReserveHourlyCapacity, Assign, Free
  <2>2. hs # {}
    BY DEF Ranges
  <2>3. \A c \in Claims, x \in Dates : Covers(c, x)' <=> Covers(c, x)
    BY <2>1, <2>2 DEF Covers, Hold
  <2>4. \A x \in Dates : remaining'[x] - remaining[x] = offered'[x] - offered[x]
    BY <1>2 DEF TypeOK, ReserveHourlyCapacity
  <2> QED
    BY <2>3, <2>4, UnmovedNoLeak
<1>3. ASSUME NEW u \in Users, NEW S \in SUBSET Claims, ReleaseHold(u, S)
      PROVE  NoLeak'
  <2>1. /\ \A c \in S : claim'[c].kind \notin LiveKinds
        /\ \A c \in Claims \ S : claim'[c] = claim[c]
        /\ RestoreCapacity(S)
    BY <1>3 DEF ReleaseHold, Assign, ActiveHolds, FreeClaim, LiveKinds
  <2> QED
    BY <2>1, RestoreNoLeak
<1>4. ASSUME NEW u \in Users, NEW b \in Bookings, NEW S \in SUBSET Claims,
             CreateBooking(u, b, S)
      PROVE  NoLeak'
  <2>1. \A c \in Claims, d \in Dates : Covers(c, d)' <=> Covers(c, d)
    BY <1>4, CreateBookingClaims DEF Covers
  <2>2. UNCHANGED calendarVars
    BY <1>4 DEF CreateBooking
  <2>3. \A d \in Dates : remaining'[d] - remaining[d] = offered'[d] - offered[d]
    BY <2>2 DEF TypeOK, calendarVars
  <2> QED
    BY <2>1, <2>3, UnmovedNoLeak
<1> QED
  BY <1>1, <1>2, <1>3, <1>4 DEF CustomerNext

LEMMA EndNoLeak ==
    ASSUME TypeOK, NoLeak, NEW B \in SUBSET Bookings, BookingsEnd(B)
    PROVE  NoLeak'
<1>1. PICK R \in SUBSET UNION {Items(b) : b \in B} :
            /\ RestoreCapacity(R)
            /\ \A c \in R : claim'[c].kind = "RELEASED"
            /\ \A c \in Claims \ R : claim'[c] = claim[c]
  BY ReleasedClaims
<1>2. R \in SUBSET Claims /\ \A c \in R : claim'[c].kind \notin LiveKinds
  BY <1>1 DEF Items, LiveKinds
<1> QED
  BY <1>1, <1>2, RestoreNoLeak

LEMMA VendorNoLeak == ASSUME TypeOK, TypeOK', NoLeak, VendorNext PROVE NoLeak'
<1>1. ASSUME NEW b \in Bookings, ConfirmBooking(b) \/ CompleteBooking(b) \/ MarkNoShow(b)
      PROVE  NoLeak'
  <2>1. UNCHANGED <<claim, calendarVars>>
    BY <1>1 DEF ConfirmBooking, CompleteBooking, MarkNoShow
  <2> QED
    BY <2>1, UnmovedNoLeak DEF TypeOK, calendarVars, Covers
<1>2. ASSUME NEW b \in Bookings, RejectBooking(b) \/ CancelBooking(b)
      PROVE  NoLeak'
  <2>1. PICK to : /\ Decide(b, to) /\ to \notin StandingStatuses
                  /\ ReleaseBookedCapacity(Items(b))
    BY <1>2 DEF RejectBooking, CancelBooking, StandingStatuses
  <2>2. Items(b) = UNION {Items(x) : x \in {b}}
    OBVIOUS
  <2>3. BookingsEnd({b})
    BY <2>1, <2>2, DecideFrom DEF BookingsEnd
  <2> QED
    BY <2>3, EndNoLeak
<1>3. ASSUME NEW k \in Blocks, NEW ds \in Ranges(Dates), NEW S \in SUBSET Claims,
             CreateManualBlock(k, ds, S)
      PROVE  NoLeak'
  <2>1. /\ \A c \in S : /\ claim'[c].kind \in LiveKinds
                        /\ claim'[c].hours = {} /\ claim'[c].dates = ds
        /\ \A c \in Claims \ S : claim'[c] = claim[c]
    BY <1>3 DEF CreateManualBlock, Assign, BlockClaim, LiveKinds
  <2>2. S \in SUBSET Free /\ ConsumeCapacity(ds, Cardinality(S))
    BY <1>3 DEF CreateManualBlock
  <2> QED
    BY <2>1, <2>2, ConsumeNoLeak
<1>4. ASSUME NEW k \in Blocks, NEW ds \in Ranges(Dates), NEW T \in SUBSET Claims,
             UpdateManualBlock(k, ds, T)
      PROVE  NoLeak'
  <2> DEFINE old == BlockClaims(k)
  <2>1. /\ \A c \in T : claim'[c] = BlockClaim(k, ds) /\ (c \in old \/ c \notin Live)
        /\ \A c \in old \ T : claim'[c] = FreeClaim
        /\ \A c \in Claims \ (old \cup T) : claim'[c] = claim[c]
    BY <1>4 DEF UpdateManualBlock, Free, BlockClaims, Live
  <2>2. old \in SUBSET Live /\ old \in SUBSET Claims
    BY DEF BlockClaims, Live
  <2>3. ASSUME NEW d \in Dates
        PROVE  Committed(d)' = Committed(d) - Nights(old, d)
                                 + (IF d \in ds THEN Cardinality(T) ELSE 0)
    <3>1. \A c \in T : Covers(c, d)' <=> d \in ds
      BY <2>1 DEF Covers, BlockClaim
    <3>2. \A c \in old \ T : ~Covers(c, d)'
      BY <2>1 DEF Covers, FreeClaim
    <3>3. \A c \in Claims \ (old \cup T) : Covers(c, d)' <=> Covers(c, d)
      BY <2>1 DEF Covers
    <3>4. \A c \in T : c \in old \/ c \notin Live
      BY <2>1
    <3> HIDE DEF old
    <3> QED
      BY <2>2, <3>1, <3>2, <3>3, <3>4, Exchange
  <2>4. ASSUME NEW d \in Dates
        PROVE  /\ Cardinality(T) \in Nat /\ Nights(old, d) \in Int
               /\ Committed(d) \in Int /\ remaining[d] \in Int /\ offered[d] \in Int
               /\ remaining[d] + Committed(d) >= offered[d]
    BY <2>2, CardType, NightsType, CommittedNat DEF TypeOK, NoLeak
  <2>5. ASSUME NEW d \in Dates
        PROVE  remaining'[d] = remaining[d] + Nights(old, d)
                                 - (IF d \in ds THEN Cardinality(T) ELSE 0)
    BY <1>4, <2>4 DEF TypeOK, UpdateManualBlock
  <2>6. offered' = offered
    BY <1>4 DEF UpdateManualBlock
  <2> HIDE DEF old
  <2> QED
    BY <2>3, <2>4, <2>5, <2>6 DEF NoLeak
<1>5. ASSUME NEW k \in Blocks, ReleaseManualBlock(k)
      PROVE  NoLeak'
  <2>1. /\ \A c \in BlockClaims(k) : claim'[c].kind \notin LiveKinds
        /\ \A c \in Claims \ BlockClaims(k) : claim'[c] = claim[c]
        /\ RestoreCapacity(BlockClaims(k))
    BY <1>5 DEF ReleaseManualBlock, Assign, FreeClaim, LiveKinds, BlockClaims
  <2> QED
    BY <2>1, ClaimSets, RestoreNoLeak
<1>6. ASSUME NEW ds \in Ranges(Dates), NEW q \in Totals \cup {Unset},
             NEW status \in {"KEEP", "AVAILABLE", "BLOCKED"}, SetAvailability(ds, q, status)
      PROVE  NoLeak'
  <2>1. \A d \in Dates : remaining'[d] - remaining[d] = offered'[d] - offered[d]
    BY <1>6 DEF TypeOK, SetAvailability
  <2> QED
    BY <1>6, <2>1, UnmovedNoLeak DEF SetAvailability, Covers
<1>7. ASSUME NEW d \in Dates, RemoveCalendarEntry(d)
      PROVE  NoLeak'
  <2>1. \A x \in Dates : Committed(x)' = Committed(x) /\ Committed(x) \in Nat
    BY <1>7, SameCommitted, CommittedNat DEF RemoveCalendarEntry, Covers
  <2> QED
    BY <1>7, <2>1, CapacityAssumption DEF TypeOK, NoLeak, RemoveCalendarEntry
<1> QED
  BY <1>1, <1>2, <1>3, <1>4, <1>5, <1>6, <1>7 DEF VendorNext

LEMMA SystemNoLeak == ASSUME TypeOK, TypeOK', NoLeak, SystemNext PROVE NoLeak'
<1>1. ASSUME NEW c \in Claims, HoldLapses(c)
      PROVE  NoLeak'
  <2>1. claim[c] \in ClaimRecords
    BY DEF TypeOK
  <2>2. \A x \in Claims, d \in Dates : Covers(x, d)' <=> Covers(x, d)
    BY <1>1, <2>1 DEF TypeOK, HoldLapses, ClaimRecords, Covers
  <2>3. \A d \in Dates : remaining'[d] - remaining[d] = offered'[d] - offered[d]
    BY <1>1 DEF TypeOK, HoldLapses, calendarVars
  <2> QED
    BY <2>2, <2>3, UnmovedNoLeak
<1>2. ASSUME UNCHANGED <<claim, calendarVars>>
      PROVE  NoLeak'
  BY <1>2, UnmovedNoLeak DEF TypeOK, calendarVars, Covers
<1>3. ASSUME NEW s \in Sweepers, SweepReleasesExpired(s)
      PROVE  NoLeak'
  <2> DEFINE S == candidates[s] \cap ExpiredHolds
  <2>1. /\ \A c \in S : claim'[c].kind \notin LiveKinds
        /\ \A c \in Claims \ S : claim'[c] = claim[c]
        /\ RestoreCapacity(S)
        /\ S \in SUBSET Claims
    BY <1>3 DEF SweepReleasesExpired, Assign, ExpiredHolds, FreeClaim, LiveKinds
  <2> HIDE DEF S
  <2> QED
    BY <2>1, RestoreNoLeak
<1>4. ASSUME SlaSweepExpires
      PROVE  NoLeak'
  <2>1. slaBatch \in SUBSET Bookings /\ BookingsEnd(slaBatch)
    BY <1>4 DEF TypeOK, SlaSweepExpires, StandingStatuses, BookingsEnd
  <2> QED
    BY <2>1, EndNoLeak
<1> QED
  BY <1>1, <1>2, <1>3, <1>4 DEF SystemNext, SweepFindsExpired, SlaSweepReads

\* No unit is lost by any sequence of operations, even when the SLA sweep
\* returns the capacity of a booking twice: a hold, a booking or a block never
\* ends without what it took (restoreCapacity, findStaleBookings).
THEOREM CapacityNeverLeaks == Spec => []NoLeak
<1>1. TypeOK /\ NoLeak /\ [Next]_vars => TypeOK' /\ NoLeak'
  <2> SUFFICES ASSUME TypeOK, NoLeak, [Next]_vars PROVE TypeOK' /\ NoLeak'
    OBVIOUS
  <2>1. TypeOK'
    BY TypeStep
  <2>2. CASE UNCHANGED vars
    BY <2>1, <2>2, UnmovedNoLeak DEF vars, TypeOK, calendarVars, Covers
  <2>3. CASE Next
    BY <2>1, <2>3, CustomerNoLeak, VendorNoLeak, SystemNoLeak DEF Next
  <2> QED
    BY <2>1, <2>2, <2>3
<1>2. Init => NoLeak
  BY InvInit, CommittedNat DEF Inv, TypeOK, Balanced, NoLeak
<1> QED
  BY <1>1, <1>2, TypeInit, PTL DEF Spec

-----------------------------------------------------------------------------
(* The ledger, when no decision falls inside an SLA sweep. *)

\* The ledger's sum, by which removeCalendarEntry decides that a date is
\* untouched, is what holds, bookings and blocks have taken of it.
THEOREM LedgerCountsClaims == ~SweepOverlaps => (Spec => []LedgerAgrees)
<1> SUFFICES ASSUME ~SweepOverlaps PROVE Spec => []LedgerAgrees
  OBVIOUS
<1>1. Inv => LedgerAgrees
  BY DEF Inv, Balanced, LedgerAgrees
<1>2. Inv /\ [Next]_vars => Inv'
  BY InvStep
<1> QED
  BY <1>1, <1>2, InvInit, PTL DEF Spec
============================================================================
