-------------------------- MODULE InventoryProofs --------------------------
(***************************************************************************)
(* Proofs about Inventory: types, and the conservation of capacity, for    *)
(* every number of dates, claims, customers, bookings, blocks and sweeps.  *)
(***************************************************************************)
EXTENDS Inventory, FiniteSetTheorems, TLAPS

-----------------------------------------------------------------------------
(* Counting. *)

\* Replacing the part A of a finite set by B changes its size by the
\* difference of theirs.  (What a request, a release or an edit of a block
\* does to the claims that cover a date.)
LEMMA CardExchange ==
    ASSUME NEW C, IsFiniteSet(C), NEW A \in SUBSET C,
           NEW B, IsFiniteSet(B), B \cap (C \ A) = {}
    PROVE  Cardinality((C \ A) \cup B) = Cardinality(C) - Cardinality(A) + Cardinality(B)
<1>1. IsFiniteSet(A) /\ IsFiniteSet(C \ A)
  BY FS_Subset, C \ A \in SUBSET C
<1>2. /\ Cardinality(A) \in Nat /\ Cardinality(B) \in Nat
      /\ Cardinality(C) \in Nat /\ Cardinality(C \ A) \in Nat
  BY <1>1, FS_CardinalityType
<1>3. Cardinality(C \ A) = Cardinality(C) - Cardinality(A)
  BY FS_Difference, C \cap A = A
<1>4. Cardinality((C \ A) \cup B) = Cardinality(C \ A) + Cardinality(B) - 0
  BY <1>1, FS_Union, FS_EmptySet
<1> QED
  BY <1>2, <1>3, <1>4

\* The nights of a set of claims are counted by a natural number.
LEMMA NightsNat ==
    ASSUME NEW S \in SUBSET Claims, NEW d
    PROVE  Nights(S, d) \in Nat
<1> DEFINE T == {c \in S : claim[c].hours = {} /\ d \in claim[c].dates}
<1>1. T \in SUBSET Claims
  OBVIOUS
<1>2. IsFiniteSet(T)
  BY <1>1, ClaimsAssumption, FS_Subset
<1> QED
  BY <1>2, FS_CardinalityType DEF Nights

LEMMA ClaimSets ==
    /\ Free \in SUBSET Claims
    /\ Live \in SUBSET Claims
    /\ ExpiredHolds \in SUBSET Claims
    /\ \A u : ActiveHolds(u) \in SUBSET Claims
    /\ \A b : Items(b) \in SUBSET Claims
    /\ \A k : BlockClaims(k) \in SUBSET Claims
BY DEF Free, Live, ExpiredHolds, ActiveHolds, Items, BlockClaims

\* Claim c takes a unit of quantity_available on date d.
Covers(c, d) ==
    claim[c].kind \in {"HOLD", "BOOKED", "BLOCK"} /\ claim[c].hours = {}
        /\ d \in claim[c].dates

LEMMA CommittedIsCovers ==
    ASSUME NEW d
    PROVE  Committed(d) = Cardinality({c \in Claims : Covers(c, d)})
<1>1. {c \in Live : claim[c].hours = {} /\ d \in claim[c].dates}
        = {c \in Claims : Covers(c, d)}
  BY DEF Live, Covers
<1> QED
  BY <1>1 DEF Committed, Nights

\* What a step does to the units committed on date d, when the claims A stop
\* covering their nights and the claims T start covering the dates ds.
LEMMA Exchange ==
    ASSUME NEW A \in SUBSET Live, NEW T \in SUBSET Claims, NEW ds, NEW d,
           \A c \in T : c \in A \/ c \notin Live,
           \A c \in T : Covers(c, d)' <=> d \in ds,
           \A c \in A \ T : ~Covers(c, d)',
           \A c \in Claims \ (A \cup T) : Covers(c, d)' <=> Covers(c, d)
    PROVE  Committed(d)' = Committed(d) - Nights(A, d)
                             + (IF d \in ds THEN Cardinality(T) ELSE 0)
<1> DEFINE C == {c \in Claims : Covers(c, d)}
           CA == {c \in A : claim[c].hours = {} /\ d \in claim[c].dates}
           CT == IF d \in ds THEN T ELSE {}
<1>1. CA \in SUBSET C
  BY DEF Live, Covers
<1>2. C \in SUBSET Claims /\ CT \in SUBSET Claims
  OBVIOUS
<1>3. IsFiniteSet(C) /\ IsFiniteSet(CT)
  BY <1>2, ClaimsAssumption, FS_Subset
<1>4. CT \cap (C \ CA) = {}
  BY DEF Live, Covers
<1>5. {c \in Claims : Covers(c, d)'} = (C \ CA) \cup CT
  BY DEF Live, Covers
<1>6. Cardinality((C \ CA) \cup CT) = Cardinality(C) - Cardinality(CA) + Cardinality(CT)
  BY <1>1, <1>3, <1>4, CardExchange
<1>7. Committed(d)' = Cardinality({c \in Claims : Covers(c, d)'})
  <2>1. {c \in Live : claim[c].hours = {} /\ d \in claim[c].dates}'
          = {c \in Claims : Covers(c, d)'}
    BY DEF Live, Covers
  <2> QED
    BY <2>1 DEF Committed, Nights
<1>8. Cardinality(CT) = IF d \in ds THEN Cardinality(T) ELSE 0
  BY FS_EmptySet
<1>9. Committed(d) = Cardinality(C) /\ Nights(A, d) = Cardinality(CA)
  BY CommittedIsCovers DEF Nights
<1> QED
  BY <1>5, <1>6, <1>7, <1>8, <1>9

-----------------------------------------------------------------------------
(* Types. *)

LiveKinds == {"HOLD", "BOOKED", "BLOCK"}

LEMMA RangesSubset == \A S : Ranges(S) \subseteq SUBSET S
BY DEF Ranges

LEMMA NightsType == \A S \in SUBSET Claims : \A d : Nights(S, d) \in Int
<1> TAKE S \in SUBSET Claims
<1> TAKE d
<1> QED
  BY NightsNat

LEMMA CardType == \A S \in SUBSET Claims : Cardinality(S) \in Nat
BY ClaimsAssumption, FS_Subset, FS_CardinalityType

LEMMA TypeInit == Init => TypeOK
BY CapacityAssumption DEF Init, TypeOK, ClaimRecords, FreeClaim, BookingStatuses

\* The calendar arithmetic keeps the types of the calendar.
LEMMA RestoreType ==
    ASSUME TypeOK, NEW S \in SUBSET Claims, RestoreCapacity(S)
    PROVE  /\ rowStatus' \in [Dates -> {"NONE", "AVAILABLE", "BLOCKED"}]
           /\ remaining' \in [Dates -> Int]
           /\ consumed' \in [Dates -> Int]
           /\ offered' \in [Dates -> Int]
<1>1. \A d \in Dates : Nights(S, d) \in Int
  BY NightsType
<1> QED
  BY <1>1 DEF TypeOK, RestoreCapacity, LockForCapacity

LEMMA ConsumeType ==
    ASSUME TypeOK, NEW ds, NEW q \in Int, ConsumeCapacity(ds, q)
    PROVE  /\ rowStatus' \in [Dates -> {"NONE", "AVAILABLE", "BLOCKED"}]
           /\ remaining' \in [Dates -> Int]
           /\ consumed' \in [Dates -> Int]
           /\ offered' \in [Dates -> Int]
BY DEF TypeOK, ConsumeCapacity, LockForCapacity

LEMMA AssignType ==
    ASSUME TypeOK, NEW S, NEW r \in ClaimRecords, Assign(S, r)
    PROVE  claim' \in [Claims -> ClaimRecords]
BY DEF TypeOK, Assign

LEMMA RecordTypes ==
    /\ FreeClaim \in ClaimRecords
    /\ \A u \in Users, ds \in SUBSET Dates, hs \in SUBSET Hours :
          Hold(u, ds, hs) \in ClaimRecords
    /\ \A k \in Blocks, ds \in SUBSET Dates : BlockClaim(k, ds) \in ClaimRecords
BY DEF FreeClaim, Hold, BlockClaim, ClaimRecords

LEMMA UpdatedRecords ==
    ASSUME NEW r \in ClaimRecords
    PROVE  /\ \A b \in Bookings : [r EXCEPT !.kind = "BOOKED", !.owner = b] \in ClaimRecords
           /\ [r EXCEPT !.kind = "RELEASED"] \in ClaimRecords
           /\ [r EXCEPT !.expired = TRUE] \in ClaimRecords
BY DEF ClaimRecords

\* A customer's request keeps the types.
LEMMA CustomerType == ASSUME TypeOK, CustomerNext PROVE TypeOK'
<1>1. ASSUME NEW u \in Users, NEW ds \in Ranges(Dates), NEW S \in SUBSET Claims,
             ReserveCapacity(u, ds, S)
      PROVE  TypeOK'
  <2>1. Cardinality(S) \in Int /\ Hold(u, ds, {}) \in ClaimRecords
    BY CardType, RecordTypes, RangesSubset
  <2>2. claim' \in [Claims -> ClaimRecords]
    BY <1>1, <2>1, AssignType DEF ReserveCapacity
  <2> QED
    BY <1>1, <2>1, <2>2, ConsumeType DEF TypeOK, ReserveCapacity, sweepVars
<1>2. ASSUME NEW u \in Users, NEW d \in Dates, NEW hs \in Ranges(Hours),
             NEW S \in SUBSET Claims, ReserveHourlyCapacity(u, d, hs, S)
      PROVE  TypeOK'
  <2>1. Hold(u, {d}, hs) \in ClaimRecords
    BY RecordTypes, RangesSubset
  <2>2. claim' \in [Claims -> ClaimRecords]
    BY <1>2, <2>1, AssignType DEF ReserveHourlyCapacity
  <2> QED
    BY <1>2, <2>2 DEF TypeOK, ReserveHourlyCapacity, LockForCapacity, sweepVars
<1>3. ASSUME NEW u \in Users, NEW S \in SUBSET Claims, ReleaseHold(u, S)
      PROVE  TypeOK'
  <2>1. claim' \in [Claims -> ClaimRecords]
    BY <1>3, RecordTypes, AssignType DEF ReleaseHold
  <2> QED
    BY <1>3, <2>1, RestoreType DEF TypeOK, ReleaseHold, sweepVars
<1>4. ASSUME NEW u \in Users, NEW b \in Bookings, NEW S \in SUBSET Claims,
             CreateBooking(u, b, S)
      PROVE  TypeOK'
  <2>1. claim' \in [Claims -> ClaimRecords]
    BY <1>4, UpdatedRecords DEF TypeOK, CreateBooking
  <2>2. booking' \in [Bookings -> BookingStatuses]
    BY <1>4 DEF TypeOK, CreateBooking, BookingStatuses, TRANSITIONS
  <2> QED
    BY <1>4, <2>1, <2>2 DEF TypeOK, CreateBooking, calendarVars, sweepVars
<1> QED
  BY <1>1, <1>2, <1>3, <1>4 DEF CustomerNext

\* Giving booked capacity back keeps the types of claims and calendar.
LEMMA ReleaseBookedType ==
    ASSUME TypeOK, NEW S \in SUBSET Claims, ReleaseBookedCapacity(S)
    PROVE  /\ claim' \in [Claims -> ClaimRecords]
           /\ rowStatus' \in [Dates -> {"NONE", "AVAILABLE", "BLOCKED"}]
           /\ remaining' \in [Dates -> Int]
           /\ consumed' \in [Dates -> Int]
           /\ offered' \in [Dates -> Int]
<1>1. PICK ended \in SUBSET S :
        /\ RestoreCapacity(S \ ended)
        /\ claim' = [c \in Claims |-> IF c \in S \ ended
                                      THEN [claim[c] EXCEPT !.kind = "RELEASED"]
                                      ELSE claim[c]]
  BY DEF ReleaseBookedCapacity
<1>2. S \ ended \in SUBSET Claims
  OBVIOUS
<1>3. claim' \in [Claims -> ClaimRecords]
  BY <1>1, UpdatedRecords DEF TypeOK
<1> QED
  BY <1>1, <1>2, <1>3, RestoreType

LEMMA DecideType ==
    ASSUME TypeOK, NEW b \in Bookings, NEW to, Decide(b, to)
    PROVE  /\ booking' \in [Bookings -> BookingStatuses]
           /\ block' = block /\ candidates' = candidates /\ slaBatch' = slaBatch
<1>1. to \in BookingStatuses
  BY DEF TypeOK, Decide, BookingStatuses, TRANSITIONS
<1> QED
  BY <1>1 DEF TypeOK, Decide, sweepVars

\* A decision of the vendor or customer keeps the types.
LEMMA VendorType == ASSUME TypeOK, VendorNext PROVE TypeOK'
<1>1. ASSUME NEW b \in Bookings, ConfirmBooking(b) \/ CompleteBooking(b) \/ MarkNoShow(b)
      PROVE  TypeOK'
  BY <1>1, DecideType DEF TypeOK, ConfirmBooking, CompleteBooking, MarkNoShow, calendarVars
<1>2. ASSUME NEW b \in Bookings, RejectBooking(b) \/ CancelBooking(b)
      PROVE  TypeOK'
  <2>1. PICK to : Decide(b, to) /\ ReleaseBookedCapacity(Items(b))
    BY <1>2 DEF RejectBooking, CancelBooking
  <2>2. Items(b) \in SUBSET Claims
    BY ClaimSets
  <2> QED
    BY <2>1, <2>2, DecideType, ReleaseBookedType DEF TypeOK
<1>3. ASSUME NEW k \in Blocks, NEW ds \in Ranges(Dates), NEW S \in SUBSET Claims,
             CreateManualBlock(k, ds, S)
      PROVE  TypeOK'
  <2>1. Cardinality(S) \in Int /\ BlockClaim(k, ds) \in ClaimRecords
    BY CardType, RecordTypes, RangesSubset
  <2>2. claim' \in [Claims -> ClaimRecords]
    BY <1>3, <2>1, AssignType DEF CreateManualBlock
  <2> QED
    BY <1>3, <2>1, <2>2, ConsumeType DEF TypeOK, CreateManualBlock, sweepVars
<1>4. ASSUME NEW k \in Blocks, NEW ds \in Ranges(Dates), NEW T \in SUBSET Claims,
             UpdateManualBlock(k, ds, T)
      PROVE  TypeOK'
  <2>1. Cardinality(T) \in Int /\ BlockClaim(k, ds) \in ClaimRecords
           /\ FreeClaim \in ClaimRecords
    BY CardType, RecordTypes, RangesSubset
  <2>2. \A d \in Dates : Nights(BlockClaims(k), d) \in Int
    BY ClaimSets, NightsType
  <2>3. claim' \in [Claims -> ClaimRecords]
    BY <1>4, <2>1 DEF TypeOK, UpdateManualBlock
  <2>4. remaining' \in [Dates -> Int] /\ consumed' \in [Dates -> Int]
    BY <1>4, <2>1, <2>2 DEF TypeOK, UpdateManualBlock
  <2> QED
    BY <1>4, <2>3, <2>4 DEF TypeOK, UpdateManualBlock, LockForCapacity, sweepVars
<1>5. ASSUME NEW k \in Blocks, ReleaseManualBlock(k)
      PROVE  TypeOK'
  <2>1. BlockClaims(k) \in SUBSET Claims
    BY ClaimSets
  <2>2. claim' \in [Claims -> ClaimRecords]
    BY <1>5, RecordTypes, AssignType DEF ReleaseManualBlock
  <2> QED
    BY <1>5, <2>1, <2>2, RestoreType DEF TypeOK, ReleaseManualBlock, sweepVars
<1>6. ASSUME NEW ds \in Ranges(Dates), NEW q \in Totals \cup {Unset},
             NEW status \in {"KEEP", "AVAILABLE", "BLOCKED"}, SetAvailability(ds, q, status)
      PROVE  TypeOK'
  <2>1. \A d \in Dates : RemainingForTotal(d, q) \in Int
    BY CapacityAssumption DEF TypeOK, RemainingForTotal, Unset
  <2>2. remaining' \in [Dates -> Int]
    BY <1>6, <2>1 DEF TypeOK, SetAvailability
  <2>3. offered' \in [Dates -> Int]
    BY <1>6, <2>2 DEF TypeOK, SetAvailability
  <2>4. rowStatus' \in [Dates -> {"NONE", "AVAILABLE", "BLOCKED"}]
    BY <1>6 DEF TypeOK, SetAvailability, LockForCapacity
  <2> QED
    BY <1>6, <2>2, <2>3, <2>4 DEF TypeOK, SetAvailability, sweepVars
<1>7. ASSUME NEW d \in Dates, RemoveCalendarEntry(d)
      PROVE  TypeOK'
  BY <1>7, CapacityAssumption DEF TypeOK, RemoveCalendarEntry, sweepVars
<1> QED
  BY <1>1, <1>2, <1>3, <1>4, <1>5, <1>6, <1>7 DEF VendorNext

\* Time and the two jobs keep the types.
LEMMA SystemType == ASSUME TypeOK, SystemNext PROVE TypeOK'
<1>1. ASSUME NEW c \in Claims, HoldLapses(c)
      PROVE  TypeOK'
  <2>1. claim' \in [Claims -> ClaimRecords]
    BY <1>1, UpdatedRecords DEF TypeOK, HoldLapses
  <2> QED
    BY <1>1, <2>1 DEF TypeOK, HoldLapses, calendarVars, sweepVars
<1>2. ASSUME NEW s \in Sweepers, SweepFindsExpired(s)
      PROVE  TypeOK'
  BY <1>2, ClaimSets DEF TypeOK, SweepFindsExpired, calendarVars
<1>3. ASSUME NEW s \in Sweepers, SweepReleasesExpired(s)
      PROVE  TypeOK'
  <2>1. candidates[s] \cap ExpiredHolds \in SUBSET Claims
    BY ClaimSets
  <2>2. claim' \in [Claims -> ClaimRecords]
    BY <1>3, RecordTypes, AssignType DEF SweepReleasesExpired
  <2> QED
    BY <1>3, <2>1, <2>2, RestoreType DEF TypeOK, SweepReleasesExpired
<1>4. ASSUME NEW B \in SUBSET Bookings, SlaSweepReads(B)
      PROVE  TypeOK'
  BY <1>4 DEF TypeOK, SlaSweepReads, calendarVars
<1>5. ASSUME SlaSweepExpires
      PROVE  TypeOK'
  <2>1. UNION {Items(b) : b \in slaBatch} \in SUBSET Claims
    BY ClaimSets
  <2>2. booking' \in [Bookings -> BookingStatuses]
    BY <1>5 DEF TypeOK, SlaSweepExpires, BookingStatuses, TRANSITIONS
  <2> QED
    BY <1>5, <2>1, <2>2, ReleaseBookedType DEF TypeOK, SlaSweepExpires
<1> QED
  BY <1>1, <1>2, <1>3, <1>4, <1>5 DEF SystemNext

LEMMA TypeStep == TypeOK /\ [Next]_vars => TypeOK'
<1> SUFFICES ASSUME TypeOK, [Next]_vars PROVE TypeOK'
  OBVIOUS
<1>1. CASE UNCHANGED vars
  BY <1>1 DEF vars, calendarVars, sweepVars, TypeOK
<1> QED
  BY <1>1, CustomerType, VendorType, SystemType DEF Next

\* Every reachable state is well typed.
THEOREM TypeCorrect == Spec => []TypeOK
BY TypeInit, TypeStep, PTL DEF Spec

-----------------------------------------------------------------------------
(* Conservation of capacity, when no decision falls inside an SLA sweep. *)

\* What the calendar and the ledger say agrees with the claims.
Balanced ==
    \A d \in Dates : /\ consumed[d] = Committed(d)
                     /\ remaining[d] + Committed(d) = offered[d]

\* The items of a booking: none before it exists, all of them taken while it
\* stands.  Without the second part a cancellation could give back twice.
ItemsMatch ==
    \A b \in Bookings :
        /\ booking[b] = "NONE" => Items(b) = {}
        /\ booking[b] \in StandingStatuses => Items(b) # {}
        /\ booking[b] \in StandingStatuses => \A c \in Items(b) : claim[c].kind = "BOOKED"

\* Nobody has decided on what the SLA sweep has read.
BatchPending == \A b \in slaBatch : booking[b] = "PENDING_VENDOR"

Inv == TypeOK /\ Balanced /\ AbsentRowIsFree /\ ItemsMatch /\ BatchPending

LEMMA CommittedNat == \A d : Committed(d) \in Nat /\ Committed(d)' \in Nat
<1> TAKE d
<1>1. Committed(d) \in Nat
  BY ClaimSets, NightsNat DEF Committed
<1> DEFINE T == {c \in Claims : Covers(c, d)'}
<1>2. T \in SUBSET Claims
  OBVIOUS
<1>3. Cardinality(T) \in Nat
  BY <1>2, ClaimsAssumption, FS_Subset, FS_CardinalityType
<1>4. {c \in Live : claim[c].hours = {} /\ d \in claim[c].dates}' = T
  BY DEF Live, Covers
<1> QED
  BY <1>1, <1>3, <1>4 DEF Committed, Nights

\* Giving the nights of the live claims S back, as they cease to be live,
\* keeps the balance.
LEMMA RestoreBalance ==
    ASSUME TypeOK, TypeOK', Balanced, AbsentRowIsFree,
           NEW S \in SUBSET Live, RestoreCapacity(S),
           \A c \in S : claim'[c].kind \notin LiveKinds,
           \A c \in Claims \ S : claim'[c] = claim[c]
    PROVE  Balanced' /\ AbsentRowIsFree'
<1>1. ASSUME NEW d \in Dates
      PROVE  Committed(d)' = Committed(d) - Nights(S, d)
  <2>1. S \in SUBSET Claims
    BY ClaimSets
  <2> DEFINE none == {}
  <2>2. /\ none \in SUBSET Claims
        /\ \A c \in none : c \in S \/ c \notin Live
        /\ \A c \in none : Covers(c, d)' <=> d \in none
    OBVIOUS
  <2>3. \A c \in S \ none : ~Covers(c, d)'
    BY DEF Covers, LiveKinds
  <2>4. \A c \in Claims \ (S \cup none) : Covers(c, d)' <=> Covers(c, d)
    BY DEF Covers
  <2>5. d \notin none
    OBVIOUS
  <2> HIDE DEF none
  <2>6. Committed(d)' = Committed(d) - Nights(S, d)
                          + (IF d \in none THEN Cardinality(none) ELSE 0)
    BY <2>2, <2>3, <2>4, Exchange
  <2> QED
    BY <2>1, <2>5, <2>6, CommittedNat, NightsType
<1>2. \A d \in Dates : Nights(S, d) \in Nat /\ Committed(d) \in Nat /\ Committed(d)' \in Nat
  <2> SUFFICES ASSUME NEW d \in Dates
               PROVE  Nights(S, d) \in Nat /\ Committed(d) \in Nat /\ Committed(d)' \in Nat
    OBVIOUS
  <2>1. Nights(S, d) \in Nat
    BY ClaimSets, NightsNat
  <2> QED
    BY <2>1, CommittedNat
<1>3. Balanced'
  BY <1>1, <1>2 DEF TypeOK, Balanced, RestoreCapacity
<1>4. AbsentRowIsFree'
  BY <1>1, <1>2 DEF TypeOK, AbsentRowIsFree, RestoreCapacity, LockForCapacity
<1> QED
  BY <1>3, <1>4

\* Taking one unit on each date of ds for each free claim of T, as they
\* become nightly claims of those dates, keeps the balance.
LEMMA ConsumeBalance ==
    ASSUME TypeOK, TypeOK', Balanced, AbsentRowIsFree,
           NEW ds, NEW T \in SUBSET Free, ConsumeCapacity(ds, Cardinality(T)),
           \A c \in T : /\ claim'[c].kind \in LiveKinds
                        /\ claim'[c].hours = {}
                        /\ claim'[c].dates = ds,
           \A c \in Claims \ T : claim'[c] = claim[c]
    PROVE  Balanced' /\ AbsentRowIsFree'
<1>1. T \in SUBSET Claims /\ Cardinality(T) \in Nat
  BY ClaimSets, CardType
<1>2. ASSUME NEW d \in Dates
      PROVE  Committed(d)' = Committed(d) + (IF d \in ds THEN Cardinality(T) ELSE 0)
  <2> DEFINE none == {}
  <2>1. /\ none \in SUBSET Live
        /\ \A c \in T : c \in none \/ c \notin Live
        /\ \A c \in none \ T : ~Covers(c, d)'
    BY DEF Free, Live
  <2>2. \A c \in T : Covers(c, d)' <=> d \in ds
    BY DEF Covers, LiveKinds
  <2>3. \A c \in Claims \ (none \cup T) : Covers(c, d)' <=> Covers(c, d)
    BY DEF Covers
  <2>4. Nights(none, d) = 0
    BY FS_EmptySet DEF Nights
  <2> HIDE DEF none
  <2>5. Committed(d)' = Committed(d) - Nights(none, d)
                          + (IF d \in ds THEN Cardinality(T) ELSE 0)
    BY <1>1, <2>1, <2>2, <2>3, Exchange
  <2> QED
    BY <1>1, <2>4, <2>5, CommittedNat
<1>3. \A d \in Dates : Committed(d) \in Nat /\ Committed(d)' \in Nat
  BY CommittedNat
<1>4. Balanced'
  BY <1>1, <1>2, <1>3 DEF TypeOK, Balanced, ConsumeCapacity
<1>5. AbsentRowIsFree'
  BY <1>1, <1>2, <1>3 DEF TypeOK, AbsentRowIsFree, ConsumeCapacity, LockForCapacity
<1> QED
  BY <1>4, <1>5

\* A step that leaves the nightly claims as they are leaves what they cover.
LEMMA SameCommitted ==
    ASSUME NEW d, \A c \in Claims : Covers(c, d)' <=> Covers(c, d)
    PROVE  Committed(d)' = Committed(d)
<1>1. {c \in Live : claim[c].hours = {} /\ d \in claim[c].dates}'
        = {c \in Live : claim[c].hours = {} /\ d \in claim[c].dates}
  BY DEF Live, Covers
<1> QED
  BY <1>1 DEF Committed, Nights

LEMMA UnmovedBalance ==
    ASSUME Balanced, AbsentRowIsFree, UNCHANGED calendarVars,
           \A c \in Claims, d \in Dates : Covers(c, d)' <=> Covers(c, d)
    PROVE  Balanced' /\ AbsentRowIsFree'
<1>1. \A d \in Dates : Committed(d)' = Committed(d)
  BY SameCommitted
<1> QED
  BY <1>1 DEF Balanced, AbsentRowIsFree, calendarVars

\* The items of every booking are the same when the claims of bookings are,
\* and no other claim becomes one.
LEMMA SameItems ==
    ASSUME TypeOK, ItemsMatch, booking' = booking,
           \A c \in Claims : \/ claim'[c] = claim[c]
                             \/ /\ claim[c].kind \notin {"BOOKED", "RELEASED"}
                                /\ claim'[c].kind \notin {"BOOKED", "RELEASED"}
    PROVE  ItemsMatch'
<1>1. \A b \in Bookings : Items(b)' = Items(b)
  BY DEF Items
<1>2. \A b \in Bookings : \A c \in Items(b) : claim'[c] = claim[c]
  BY DEF Items
<1> QED
  BY <1>1, <1>2 DEF ItemsMatch

\* Bookings B that stand end, and what they had that is still to come is
\* given back.
LEMMA ReleaseBookedBalance ==
    ASSUME Inv, TypeOK', NEW B \in SUBSET Bookings,
           \A b \in B : booking[b] \in StandingStatuses,
           \A b \in B : booking'[b] \notin StandingStatuses \cup {"NONE"},
           \A b \in Bookings \ B : booking'[b] = booking[b],
           NEW S, S = UNION {Items(b) : b \in B},
           ReleaseBookedCapacity(S)
    PROVE  Balanced' /\ AbsentRowIsFree' /\ ItemsMatch'
<1>1. PICK ended \in SUBSET S :
        /\ RestoreCapacity(S \ ended)
        /\ claim' = [c \in Claims |-> IF c \in S \ ended
                                      THEN [claim[c] EXCEPT !.kind = "RELEASED"]
                                      ELSE claim[c]]
  BY DEF ReleaseBookedCapacity
<1> DEFINE R == S \ ended
<1>2. \A c \in S : c \in Claims /\ claim[c].kind = "BOOKED" /\ claim[c].owner \in B
  BY DEF Inv, ItemsMatch, Items
<1>3. R \in SUBSET Live
  BY <1>2 DEF Live
<1>4. \A c \in Claims : claim[c] \in ClaimRecords
  BY DEF Inv, TypeOK
<1>5. \A c \in R : /\ claim'[c].kind = "RELEASED"
                   /\ claim'[c].owner = claim[c].owner
  BY <1>1, <1>2, <1>4 DEF ClaimRecords
<1>6. \A c \in Claims \ R : claim'[c] = claim[c]
  BY <1>1
<1>7. RestoreCapacity(R)
  BY <1>1
<1>8. Balanced' /\ AbsentRowIsFree'
  <2>1. \A c \in R : claim'[c].kind \notin LiveKinds
    BY <1>5 DEF LiveKinds
  <2> HIDE DEF R
  <2> QED
    BY <1>3, <1>6, <1>7, <2>1, RestoreBalance DEF Inv
<1>9. ItemsMatch'
  <2>1. \A b \in Bookings : Items(b)' = Items(b)
    BY <1>2, <1>5, <1>6 DEF Items
  <2>2. \A b \in Bookings \ B : \A c \in Items(b) : claim'[c] = claim[c]
    BY <1>2, <1>6 DEF Items
  <2> QED
    BY <2>1, <2>2 DEF Inv, ItemsMatch
<1> QED
  BY <1>8, <1>9

LEMMA CustomerKeepsInv ==
    ASSUME Inv, TypeOK', CustomerNext
    PROVE  Inv'
<1>1. ASSUME NEW u \in Users, NEW ds \in Ranges(Dates), NEW S \in SUBSET Claims,
             ReserveCapacity(u, ds, S)
      PROVE  Inv'
  <2>1. /\ \A c \in S : claim'[c] = Hold(u, ds, {}) /\ claim[c].kind = "FREE"
        /\ \A c \in Claims \ S : claim'[c] = claim[c]
    BY <1>1 DEF ReserveCapacity, Assign, Free
  <2>2. Balanced' /\ AbsentRowIsFree'
    <3>1. \A c \in S : /\ claim'[c].kind \in LiveKinds
                       /\ claim'[c].hours = {}
                       /\ claim'[c].dates = ds
      BY <2>1 DEF Hold, LiveKinds
    <3>2. S \in SUBSET Free /\ ConsumeCapacity(ds, Cardinality(S))
      BY <1>1 DEF ReserveCapacity
    <3> QED
      BY <2>1, <3>1, <3>2, ConsumeBalance DEF Inv
  <2>3. ItemsMatch'
    BY <1>1, <2>1, SameItems DEF Inv, ReserveCapacity, Hold
  <2> QED
    BY <1>1, <2>2, <2>3 DEF Inv, ReserveCapacity, BatchPending, sweepVars
<1>2. ASSUME NEW u \in Users, NEW d \in Dates, NEW hs \in Ranges(Hours),
             NEW S \in SUBSET Claims, ReserveHourlyCapacity(u, d, hs, S)
      PROVE  Inv'
  <2>1. /\ \A c \in S : claim'[c] = Hold(u, {d}, hs) /\ claim[c].kind = "FREE"
        /\ \A c \in Claims \ S : claim'[c] = claim[c]
    BY <1>2 DEF ReserveHourlyCapacity, Assign, Free
  <2>2. hs # {}
    BY DEF Ranges
  <2>3. \A c \in Claims, x \in Dates : Covers(c, x)' <=> Covers(c, x)
    BY <2>1, <2>2 DEF Covers, Hold
  <2>4. \A x \in Dates : Committed(x)' = Committed(x)
    BY <2>3, SameCommitted
  <2>5. Balanced' /\ AbsentRowIsFree'
    BY <1>2, <2>4 DEF Inv, TypeOK, Balanced, AbsentRowIsFree, ReserveHourlyCapacity, LockForCapacity
  <2>6. ItemsMatch'
    BY <1>2, <2>1, SameItems DEF Inv, ReserveHourlyCapacity, Hold
  <2> QED
    BY <1>2, <2>5, <2>6 DEF Inv, ReserveHourlyCapacity, BatchPending, sweepVars
<1>3. ASSUME NEW u \in Users, NEW S \in SUBSET Claims, ReleaseHold(u, S)
      PROVE  Inv'
  <2>1. /\ \A c \in S : claim'[c] = FreeClaim /\ claim[c].kind = "HOLD"
        /\ \A c \in Claims \ S : claim'[c] = claim[c]
    BY <1>3 DEF ReleaseHold, Assign, ActiveHolds
  <2>2. Balanced' /\ AbsentRowIsFree'
    <3>1. S \in SUBSET Live /\ RestoreCapacity(S)
      BY <1>3, <2>1 DEF ReleaseHold, Live
    <3>2. \A c \in S : claim'[c].kind \notin LiveKinds
      BY <2>1 DEF FreeClaim, LiveKinds
    <3> QED
      BY <2>1, <3>1, <3>2, RestoreBalance DEF Inv
  <2>3. ItemsMatch'
    BY <1>3, <2>1, SameItems DEF Inv, ReleaseHold, FreeClaim
  <2> QED
    BY <1>3, <2>2, <2>3 DEF Inv, ReleaseHold, BatchPending, sweepVars
<1>4. ASSUME NEW u \in Users, NEW b \in Bookings, NEW S \in SUBSET Claims,
             CreateBooking(u, b, S)
      PROVE  Inv'
  <2>0. \A c \in Claims : claim[c] \in ClaimRecords
    BY DEF Inv, TypeOK
  <2>1. /\ \A c \in S : /\ claim'[c].kind = "BOOKED" /\ claim'[c].owner = b
                        /\ claim'[c].hours = claim[c].hours
                        /\ claim'[c].dates = claim[c].dates
                        /\ claim[c].kind = "HOLD"
        /\ \A c \in Claims \ S : claim'[c] = claim[c]
    BY <1>4, <2>0 DEF CreateBooking, ActiveHolds, ClaimRecords
  <2>2. \A c \in Claims, d \in Dates : Covers(c, d)' <=> Covers(c, d)
    BY <2>1 DEF Covers
  <2>3. Balanced' /\ AbsentRowIsFree'
    BY <1>4, <2>2, UnmovedBalance DEF Inv, CreateBooking
  <2>4. ItemsMatch'
    <3>0. Items(b) = {} /\ S \subseteq Claims
      BY <1>4 DEF Inv, ItemsMatch, CreateBooking
    <3>1. Items(b)' = S
      BY <2>1, <3>0 DEF Items
    <3>2. \A x \in Bookings \ {b} : /\ Items(x)' = Items(x)
                                    /\ \A c \in Items(x) : claim'[c] = claim[c]
      BY <2>1 DEF Items
    <3>3. /\ booking'[b] = "PENDING_VENDOR" /\ S # {}
          /\ \A x \in Bookings \ {b} : booking'[x] = booking[x]
      BY <1>4 DEF Inv, TypeOK, CreateBooking
    <3> QED
      BY <2>1, <3>1, <3>2, <3>3 DEF Inv, ItemsMatch
  <2>5. BatchPending'
    BY <1>4 DEF Inv, TypeOK, BatchPending, CreateBooking, sweepVars
  <2> QED
    BY <2>3, <2>4, <2>5 DEF Inv
<1> QED
  BY <1>1, <1>2, <1>3, <1>4 DEF CustomerNext

\* The state machine lets nothing end twice: what is confirmed, rejected or
\* cancelled by a decision was standing.
LEMMA DecideFrom ==
    ASSUME TypeOK, NEW b \in Bookings, NEW to, Decide(b, to)
    PROVE  /\ booking[b] \in StandingStatuses
           /\ to # "NONE"
           /\ booking'[b] = to
           /\ \A x \in Bookings \ {b} : booking'[x] = booking[x]
<1>1. booking[b] \in BookingStatuses /\ booking[b] # "NONE" /\ to \in TRANSITIONS[booking[b]]
  BY DEF TypeOK, Decide
<1>2. TRANSITIONS[booking[b]] # {} => booking[b] \in {"PENDING_VENDOR", "CONFIRMED"}
  BY <1>1 DEF TRANSITIONS, BookingStatuses
<1>3. to # "NONE"
  BY <1>1 DEF TRANSITIONS, BookingStatuses
<1>4. /\ booking'[b] = to
      /\ \A x \in Bookings \ {b} : booking'[x] = booking[x]
  BY DEF TypeOK, Decide
<1> QED
  BY <1>1, <1>2, <1>3, <1>4 DEF StandingStatuses

LEMMA DecideKeepsBatch ==
    ASSUME TypeOK, BatchPending, ~SweepOverlaps, NEW b \in Bookings, NEW to, Decide(b, to)
    PROVE  BatchPending'
<1>1. b \notin slaBatch /\ slaBatch' = slaBatch
  BY DEF Decide, sweepVars
<1>2. \A x \in slaBatch : booking'[x] = booking[x]
  BY <1>1, DecideFrom DEF TypeOK
<1> QED
  BY <1>1, <1>2 DEF BatchPending

LEMMA VendorKeepsInv ==
    ASSUME Inv, TypeOK', ~SweepOverlaps, VendorNext
    PROVE  Inv'
<1>1. ASSUME NEW b \in Bookings, ConfirmBooking(b) \/ CompleteBooking(b) \/ MarkNoShow(b)
      PROVE  Inv'
  <2>1. PICK to \in StandingStatuses : Decide(b, to) /\ UNCHANGED <<claim, calendarVars>>
    BY <1>1 DEF ConfirmBooking, CompleteBooking, MarkNoShow, StandingStatuses
  <2>2. Balanced' /\ AbsentRowIsFree'
    BY <2>1, UnmovedBalance DEF Inv, Covers
  <2>3. ItemsMatch'
    <3>1. \A x \in Bookings : Items(x)' = Items(x)
      BY <2>1 DEF Items
    <3>2. booking'[b] = to /\ booking[b] \in StandingStatuses /\ to # "NONE"
      BY <2>1, DecideFrom DEF Inv
    <3>3. \A x \in Bookings \ {b} : booking'[x] = booking[x]
      BY <2>1, DecideFrom DEF Inv
    <3> QED
      BY <2>1, <3>1, <3>2, <3>3 DEF Inv, ItemsMatch
  <2>4. BatchPending'
    BY <2>1, DecideKeepsBatch DEF Inv
  <2> QED
    BY <2>2, <2>3, <2>4 DEF Inv
<1>2. ASSUME NEW b \in Bookings, RejectBooking(b) \/ CancelBooking(b)
      PROVE  Inv'
  <2>1. PICK to : /\ Decide(b, to) /\ to \notin StandingStatuses
                  /\ ReleaseBookedCapacity(Items(b))
    BY <1>2 DEF RejectBooking, CancelBooking, StandingStatuses
  <2>2. /\ booking[b] \in StandingStatuses
        /\ booking'[b] \notin StandingStatuses \cup {"NONE"}
        /\ \A x \in Bookings \ {b} : booking'[x] = booking[x]
    BY <2>1, DecideFrom DEF Inv
  <2>3. Items(b) = UNION {Items(x) : x \in {b}}
    OBVIOUS
  <2>4. Balanced' /\ AbsentRowIsFree' /\ ItemsMatch'
    BY <2>1, <2>2, <2>3, ReleaseBookedBalance
  <2>5. BatchPending'
    BY <2>1, DecideKeepsBatch DEF Inv
  <2> QED
    BY <2>4, <2>5 DEF Inv
<1>3. ASSUME NEW k \in Blocks, NEW ds \in Ranges(Dates), NEW S \in SUBSET Claims,
             CreateManualBlock(k, ds, S)
      PROVE  Inv'
  <2>1. /\ \A c \in S : claim'[c] = BlockClaim(k, ds) /\ claim[c].kind = "FREE"
        /\ \A c \in Claims \ S : claim'[c] = claim[c]
    BY <1>3 DEF CreateManualBlock, Assign, Free
  <2>2. Balanced' /\ AbsentRowIsFree'
    <3>1. \A c \in S : /\ claim'[c].kind \in LiveKinds
                       /\ claim'[c].hours = {}
                       /\ claim'[c].dates = ds
      BY <2>1 DEF BlockClaim, LiveKinds
    <3>2. S \in SUBSET Free /\ ConsumeCapacity(ds, Cardinality(S))
      BY <1>3 DEF CreateManualBlock
    <3> QED
      BY <2>1, <3>1, <3>2, ConsumeBalance DEF Inv
  <2>3. ItemsMatch'
    BY <1>3, <2>1, SameItems DEF Inv, CreateManualBlock, BlockClaim
  <2> QED
    BY <1>3, <2>2, <2>3 DEF Inv, CreateManualBlock, BatchPending, sweepVars
<1>4. ASSUME NEW k \in Blocks, NEW ds \in Ranges(Dates), NEW T \in SUBSET Claims,
             UpdateManualBlock(k, ds, T)
      PROVE  Inv'
  <2> DEFINE old == BlockClaims(k)
  <2>1. /\ \A c \in T : /\ claim'[c] = BlockClaim(k, ds)
                        /\ claim[c].kind \in {"FREE", "BLOCK"}
                        /\ c \in old \/ c \notin Live
        /\ \A c \in old \ T : claim'[c] = FreeClaim
        /\ \A c \in Claims \ (old \cup T) : claim'[c] = claim[c]
    BY <1>4 DEF UpdateManualBlock, Free, BlockClaims, Live
  <2>2. old \in SUBSET Live /\ \A c \in old : claim[c].kind = "BLOCK"
    BY DEF BlockClaims, Live
  <2>3. Cardinality(T) \in Nat
    BY CardType
  <2>4. ASSUME NEW d \in Dates
        PROVE  Committed(d)' = Committed(d) - Nights(old, d)
                                 + (IF d \in ds THEN Cardinality(T) ELSE 0)
    <3>1. \A c \in T : Covers(c, d)' <=> d \in ds
      BY <2>1 DEF Covers, BlockClaim
    <3>2. \A c \in old \ T : ~Covers(c, d)'
      BY <2>1 DEF Covers, FreeClaim
    <3>3. \A c \in Claims \ (old \cup T) : Covers(c, d)' <=> Covers(c, d)
      BY <2>1 DEF Covers
    <3> HIDE DEF old
    <3> QED
      BY <2>1, <2>2, <3>1, <3>2, <3>3, Exchange
  <2>5. \A d \in Dates : Nights(old, d) \in Int /\ Committed(d) \in Int
    <3>1. \A d \in Dates : Nights(old, d) \in Int
      BY ClaimSets, NightsType
    <3> QED
      BY <3>1, CommittedNat
  <2>6. \A d \in Dates :
          /\ remaining'[d] = remaining[d] + Nights(old, d)
                               - (IF d \in ds THEN Cardinality(T) ELSE 0)
          /\ consumed'[d] = consumed[d] - Nights(old, d)
                               + (IF d \in ds THEN Cardinality(T) ELSE 0)
          /\ offered'[d] = offered[d]
    <3> SUFFICES ASSUME NEW d \in Dates
                 PROVE  /\ remaining'[d] = remaining[d] + Nights(old, d)
                                - (IF d \in ds THEN Cardinality(T) ELSE 0)
                        /\ consumed'[d] = consumed[d] - Nights(old, d)
                                + (IF d \in ds THEN Cardinality(T) ELSE 0)
                        /\ offered'[d] = offered[d]
      OBVIOUS
    <3>1. remaining'[d] = remaining[d] + Nights(old, d)
                                - (IF d \in ds THEN Cardinality(T) ELSE 0)
      BY <1>4, <2>3, <2>5 DEF Inv, TypeOK, UpdateManualBlock
    <3>2. consumed'[d] = consumed[d] - Nights(old, d)
                                + (IF d \in ds THEN Cardinality(T) ELSE 0)
      BY <1>4 DEF UpdateManualBlock
    <3>3. offered'[d] = offered[d]
      BY <1>4 DEF UpdateManualBlock
    <3> QED
      BY <3>1, <3>2, <3>3
  <2>7. Balanced'
    <3> HIDE DEF old
    <3> QED
      BY <2>3, <2>4, <2>5, <2>6 DEF Inv, TypeOK, Balanced
  <2>8. AbsentRowIsFree'
    <3>1. \A d \in Dates : rowStatus'[d] = "NONE" =>
            rowStatus[d] = "NONE" /\ d \notin ds \cup NightlyDates(old)
      BY <1>4 DEF Inv, TypeOK, UpdateManualBlock, LockForCapacity
    <3>2. \A d \in Dates \ NightlyDates(old) : Nights(old, d) = 0
      <4> SUFFICES ASSUME NEW d \in Dates \ NightlyDates(old)
                   PROVE  Nights(old, d) = 0
        OBVIOUS
      <4>1. {c \in old : claim[c].hours = {} /\ d \in claim[c].dates} = {}
        BY DEF NightlyDates
      <4> QED
        BY <4>1, FS_EmptySet DEF Nights
    <3> HIDE DEF old
    <3> QED
      BY <2>3, <2>4, <2>5, <2>6, <3>1, <3>2 DEF Inv, TypeOK, AbsentRowIsFree
  <2>9. ItemsMatch'
    BY <1>4, <2>1, <2>2, SameItems DEF Inv, UpdateManualBlock, BlockClaim, FreeClaim
  <2> QED
    BY <1>4, <2>7, <2>8, <2>9 DEF Inv, UpdateManualBlock, BatchPending, sweepVars
<1>5. ASSUME NEW k \in Blocks, ReleaseManualBlock(k)
      PROVE  Inv'
  <2> DEFINE S == BlockClaims(k)
  <2>1. /\ \A c \in S : claim'[c] = FreeClaim /\ claim[c].kind = "BLOCK"
        /\ \A c \in Claims \ S : claim'[c] = claim[c]
    BY <1>5 DEF ReleaseManualBlock, Assign, BlockClaims
  <2>2. Balanced' /\ AbsentRowIsFree'
    <3>1. S \in SUBSET Live /\ RestoreCapacity(S)
      BY <1>5 DEF ReleaseManualBlock, BlockClaims, Live
    <3>2. \A c \in S : claim'[c].kind \notin LiveKinds
      BY <2>1 DEF FreeClaim, LiveKinds
    <3> HIDE DEF S
    <3> QED
      BY <2>1, <3>1, <3>2, RestoreBalance DEF Inv
  <2>3. ItemsMatch'
    BY <1>5, <2>1, SameItems DEF Inv, ReleaseManualBlock, FreeClaim
  <2> QED
    BY <1>5, <2>2, <2>3 DEF Inv, ReleaseManualBlock, BatchPending, sweepVars
<1>6. ASSUME NEW ds \in Ranges(Dates), NEW q \in Totals \cup {Unset},
             NEW status \in {"KEEP", "AVAILABLE", "BLOCKED"}, SetAvailability(ds, q, status)
      PROVE  Inv'
  <2>1. \A d \in Dates : Committed(d)' = Committed(d)
    BY <1>6, SameCommitted DEF SetAvailability, Covers
  <2>2. \A d \in Dates : remaining'[d] - remaining[d] = offered'[d] - offered[d]
    BY <1>6 DEF Inv, TypeOK, SetAvailability
  <2>3. Balanced'
    BY <1>6, <2>1, <2>2, CommittedNat DEF Inv, TypeOK, Balanced, SetAvailability
  <2>4. AbsentRowIsFree'
    BY <1>6, <2>1 DEF Inv, TypeOK, AbsentRowIsFree, SetAvailability, LockForCapacity
  <2>5. ItemsMatch'
    BY <1>6, SameItems DEF Inv, SetAvailability
  <2> QED
    BY <1>6, <2>3, <2>4, <2>5 DEF Inv, SetAvailability, BatchPending, sweepVars
<1>7. ASSUME NEW d \in Dates, RemoveCalendarEntry(d)
      PROVE  Inv'
  <2>1. \A x \in Dates : Committed(x)' = Committed(x)
    BY <1>7, SameCommitted DEF RemoveCalendarEntry, Covers
  <2>2. Committed(d) = 0
    BY <1>7, CommittedNat DEF Inv, Balanced, RemoveCalendarEntry
  <2>3. Balanced'
    BY <1>7, <2>1, <2>2, CapacityAssumption DEF Inv, TypeOK, Balanced, RemoveCalendarEntry
  <2>4. AbsentRowIsFree'
    BY <1>7, <2>1, <2>2 DEF Inv, TypeOK, AbsentRowIsFree, RemoveCalendarEntry
  <2>5. ItemsMatch'
    BY <1>7, SameItems DEF Inv, RemoveCalendarEntry
  <2> QED
    BY <1>7, <2>3, <2>4, <2>5 DEF Inv, RemoveCalendarEntry, BatchPending, sweepVars
<1> QED
  BY <1>1, <1>2, <1>3, <1>4, <1>5, <1>6, <1>7 DEF VendorNext

LEMMA SystemKeepsInv ==
    ASSUME Inv, TypeOK', SystemNext
    PROVE  Inv'
<1>1. ASSUME NEW c \in Claims, HoldLapses(c)
      PROVE  Inv'
  <2>0. claim[c] \in ClaimRecords
    BY DEF Inv, TypeOK
  <2>1. /\ claim[c].kind = "HOLD" /\ claim'[c].kind = "HOLD"
        /\ claim'[c].hours = claim[c].hours /\ claim'[c].dates = claim[c].dates
        /\ \A x \in Claims \ {c} : claim'[x] = claim[x]
    BY <1>1, <2>0 DEF Inv, TypeOK, HoldLapses, ClaimRecords
  <2>2. Balanced' /\ AbsentRowIsFree'
    <3>1. \A x \in Claims, d \in Dates : Covers(x, d)' <=> Covers(x, d)
      BY <2>1 DEF Covers
    <3> QED
      BY <1>1, <3>1, UnmovedBalance DEF Inv, HoldLapses
  <2>3. ItemsMatch'
    BY <1>1, <2>1, SameItems DEF Inv, HoldLapses
  <2> QED
    BY <1>1, <2>2, <2>3 DEF Inv, HoldLapses, BatchPending, sweepVars
<1>2. ASSUME NEW s \in Sweepers, SweepFindsExpired(s)
      PROVE  Inv'
  <2>1. Balanced' /\ AbsentRowIsFree'
    BY <1>2, UnmovedBalance DEF Inv, SweepFindsExpired, Covers
  <2>2. ItemsMatch'
    BY <1>2, SameItems DEF Inv, SweepFindsExpired
  <2> QED
    BY <1>2, <2>1, <2>2 DEF Inv, SweepFindsExpired, BatchPending
<1>3. ASSUME NEW s \in Sweepers, SweepReleasesExpired(s)
      PROVE  Inv'
  <2> DEFINE S == candidates[s] \cap ExpiredHolds
  <2>1. /\ \A c \in S : claim'[c] = FreeClaim /\ claim[c].kind = "HOLD"
        /\ \A c \in Claims \ S : claim'[c] = claim[c]
    BY <1>3 DEF SweepReleasesExpired, Assign, ExpiredHolds
  <2>2. Balanced' /\ AbsentRowIsFree'
    <3>1. S \in SUBSET Live /\ RestoreCapacity(S)
      BY <1>3 DEF SweepReleasesExpired, ExpiredHolds, Live
    <3>2. \A c \in S : claim'[c].kind \notin LiveKinds
      BY <2>1 DEF FreeClaim, LiveKinds
    <3> HIDE DEF S
    <3> QED
      BY <2>1, <3>1, <3>2, RestoreBalance DEF Inv
  <2>3. ItemsMatch'
    BY <1>3, <2>1, SameItems DEF Inv, SweepReleasesExpired, FreeClaim
  <2> QED
    BY <1>3, <2>2, <2>3 DEF Inv, SweepReleasesExpired, BatchPending
<1>4. ASSUME NEW B \in SUBSET Bookings, SlaSweepReads(B)
      PROVE  Inv'
  <2>1. Balanced' /\ AbsentRowIsFree'
    BY <1>4, UnmovedBalance DEF Inv, SlaSweepReads, Covers
  <2>2. ItemsMatch'
    BY <1>4, SameItems DEF Inv, SlaSweepReads
  <2> QED
    BY <1>4, <2>1, <2>2 DEF Inv, SlaSweepReads, BatchPending
<1>5. ASSUME SlaSweepExpires
      PROVE  Inv'
  <2>1. slaBatch \in SUBSET Bookings /\ slaBatch' = {}
    BY <1>5 DEF Inv, TypeOK, SlaSweepExpires
  <2>2. \A b \in slaBatch : booking[b] \in StandingStatuses
    BY DEF Inv, BatchPending, StandingStatuses
  <2>3. /\ \A b \in slaBatch : booking'[b] \notin StandingStatuses \cup {"NONE"}
        /\ \A b \in Bookings \ slaBatch : booking'[b] = booking[b]
    BY <1>5, <2>1 DEF SlaSweepExpires, StandingStatuses
  <2>4. ReleaseBookedCapacity(UNION {Items(b) : b \in slaBatch})
    BY <1>5 DEF SlaSweepExpires
  <2>5. Balanced' /\ AbsentRowIsFree' /\ ItemsMatch'
    BY <2>1, <2>2, <2>3, <2>4, ReleaseBookedBalance
  <2> QED
    BY <2>1, <2>5 DEF Inv, BatchPending
<1> QED
  BY <1>1, <1>2, <1>3, <1>4, <1>5 DEF SystemNext

LEMMA InvInit == Init => Inv
<1> SUFFICES ASSUME Init PROVE Inv
  OBVIOUS
<1>1. \A c \in Claims : claim[c].kind = "FREE"
  BY DEF Init, FreeClaim
<1>2. Live = {} /\ \A b : Items(b) = {}
  BY <1>1 DEF Live, Items
<1>3. \A d : Committed(d) = 0
  <2> TAKE d
  <2>1. {c \in Live : claim[c].hours = {} /\ d \in claim[c].dates} = {}
    BY <1>2
  <2> QED
    BY <2>1, FS_EmptySet DEF Committed, Nights
<1>4. Balanced /\ AbsentRowIsFree
  BY <1>3, CapacityAssumption DEF Init, Balanced, AbsentRowIsFree
<1>5. ItemsMatch /\ BatchPending
  BY <1>2 DEF Init, ItemsMatch, BatchPending, StandingStatuses
<1> QED
  BY <1>4, <1>5, TypeInit DEF Inv

LEMMA InvStep ==
    ASSUME ~SweepOverlaps, Inv, [Next]_vars
    PROVE  Inv'
<1>1. TypeOK'
  BY TypeStep DEF Inv
<1>2. CASE UNCHANGED vars
  <2>1. Balanced' /\ AbsentRowIsFree'
    BY <1>2, UnmovedBalance DEF Inv, vars, Covers
  <2>2. ItemsMatch'
    BY <1>2, SameItems DEF Inv, vars
  <2> QED
    BY <1>1, <1>2, <2>1, <2>2 DEF Inv, BatchPending, vars, sweepVars
<1>3. CASE Next
  BY <1>1, <1>3, CustomerKeepsInv, VendorKeepsInv, SystemKeepsInv DEF Next
<1> QED
  BY <1>2, <1>3

\* Nothing is sold twice by any sequence of holds, bookings, decisions, blocks,
\* saves and sweeps, as long as no decision on a booking falls between the SLA
\* sweep's read of it and its write: what the calendar offers and what is
\* taken fit in the unit.
THEOREM NothingIsSoldTwice == ~SweepOverlaps => (Spec => []NoDoubleSale)
<1> SUFFICES ASSUME ~SweepOverlaps PROVE Spec => []NoDoubleSale
  OBVIOUS
<1>1. Inv => NoDoubleSale
  BY CommittedNat DEF Inv, TypeOK, Balanced, NoDoubleSale
<1>2. Inv /\ [Next]_vars => Inv'
  BY InvStep
<1> QED
  BY <1>1, <1>2, InvInit, PTL DEF Spec

\* Under the same condition a date whose row was removed, or never written,
\* really is free: the views that fall back to the unit's capacity are right.
THEOREM AbsentRowsAreFree == ~SweepOverlaps => (Spec => []AbsentRowIsFree)
<1> SUFFICES ASSUME ~SweepOverlaps PROVE Spec => []AbsentRowIsFree
  OBVIOUS
<1>1. Inv => AbsentRowIsFree
  BY DEF Inv
<1>2. Inv /\ [Next]_vars => Inv'
  BY InvStep
<1> QED
  BY <1>1, <1>2, InvInit, PTL DEF Spec
=============================================================================
