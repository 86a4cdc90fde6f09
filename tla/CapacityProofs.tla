-------------------------- MODULE CapacityProofs --------------------------
(***************************************************************************)
(* Two results about Inventory that rest on the conservation proved in     *)
(* InventoryProofs, for every number of dates, hours, claims, customers,   *)
(* bookings, blocks and sweeps, when no decision on a booking falls inside *)
(* an SLA sweep: nothing is oversold as long as no partner offers more     *)
(* than the unit's capacity, and UnitCapacity is implemented.              *)
(***************************************************************************)
EXTENDS InventoryProofs

\* Claim c takes a room during hour h of date d.
Occupies(c, d, h) ==
    /\ claim[c].kind \in LiveKinds
    /\ d \in claim[c].dates /\ h \in claim[c].hours

\* What the conservation of capacity leaves open: the count left for nightly
\* stays is never below what hourly stays take at any hour, and never above
\* what a removed row falls back to.
Headroom ==
    \A d \in Dates : /\ offered[d] <= Capacity
                     /\ remaining[d] >= 0
                     /\ \A h \in Hours : HourLoad(d, h) <= remaining[d]

\* The condition of the theorem.
ModestTotals == \A q \in Totals : q <= Capacity

-----------------------------------------------------------------------------
(* Counting the hourly stays. *)

LEMMA LoadIsOccupies ==
    ASSUME NEW d, NEW h
    PROVE  /\ HourLoad(d, h) = Cardinality({c \in Claims : Occupies(c, d, h)})
           /\ HourLoad(d, h)' = Cardinality({c \in Claims : Occupies(c, d, h)'})
           /\ HourLoad(d, h) \in Nat
           /\ HourLoad(d, h)' \in Nat
<1>1. {c \in Live : d \in claim[c].dates /\ h \in claim[c].hours}
        = {c \in Claims : Occupies(c, d, h)}
  BY DEF Live, Occupies, LiveKinds
<1>2. {c \in Live : d \in claim[c].dates /\ h \in claim[c].hours}'
        = {c \in Claims : Occupies(c, d, h)'}
  BY DEF Live, Occupies, LiveKinds
<1>3. /\ HourLoad(d, h) = Cardinality({c \in Claims : Occupies(c, d, h)})
      /\ HourLoad(d, h)' = Cardinality({c \in Claims : Occupies(c, d, h)'})
  BY <1>1, <1>2 DEF HourLoad
<1>4. /\ {c \in Claims : Occupies(c, d, h)} \in SUBSET Claims
      /\ {c \in Claims : Occupies(c, d, h)'} \in SUBSET Claims
  OBVIOUS
<1> QED
  BY <1>3, <1>4, CardType

\* A step after which nobody occupies an hour who did not before.
LEMMA LoadFalls ==
    ASSUME NEW d, NEW h, \A c \in Claims : Occupies(c, d, h)' => Occupies(c, d, h)
    PROVE  HourLoad(d, h)' <= HourLoad(d, h)
<1> DEFINE A == {c \in Claims : Occupies(c, d, h)}
           B == {c \in Claims : Occupies(c, d, h)'}
<1>1. B \in SUBSET A /\ A \in SUBSET Claims
  OBVIOUS
<1>2. IsFiniteSet(A)
  BY <1>1, ClaimsAssumption, FS_Subset
<1>3. Cardinality(B) <= Cardinality(A)
  BY <1>1, <1>2, FS_Subset
<1> QED
  BY <1>3, LoadIsOccupies

\* A step after which at most the claims S occupy an hour on top.
LEMMA LoadGrows ==
    ASSUME NEW d, NEW h, NEW S \in SUBSET Claims,
           \A c \in Claims \ S : Occupies(c, d, h)' => Occupies(c, d, h)
    PROVE  HourLoad(d, h)' <= HourLoad(d, h) + Cardinality(S)
<1> DEFINE A == {c \in Claims : Occupies(c, d, h)}
           B == {c \in Claims : Occupies(c, d, h)'}
<1>1. B \in SUBSET (A \cup S) /\ A \in SUBSET Claims
  OBVIOUS
<1>2. IsFiniteSet(A) /\ IsFiniteSet(S) /\ IsFiniteSet(A \cap S)
  BY <1>1, A \cap S \in SUBSET Claims, ClaimsAssumption, FS_Subset
<1>3. /\ IsFiniteSet(A \cup S)
      /\ Cardinality(A \cup S) = Cardinality(A) + Cardinality(S) - Cardinality(A \cap S)
  BY <1>2, FS_Union
<1>4. Cardinality(B) <= Cardinality(A \cup S)
  BY <1>1, <1>3, FS_Subset
<1>5. /\ Cardinality(A) \in Nat /\ Cardinality(S) \in Nat /\ Cardinality(A \cap S) \in Nat
      /\ Cardinality(B) \in Nat
  BY <1>1, <1>2, CardType
<1>6. Cardinality(B) <= Cardinality(A) + Cardinality(S)
  BY <1>3, <1>4, <1>5
<1>7. HourLoad(d, h) = Cardinality(A) /\ HourLoad(d, h)' = Cardinality(B)
  BY LoadIsOccupies
<1> QED
  BY <1>6, <1>7

-----------------------------------------------------------------------------
(* How a step keeps the headroom: nobody occupies a new hour, and on every *)
(* date the count either does not fall or stays above the hourly stays.    *)
LEMMA HeadroomKept ==
    ASSUME TypeOK, TypeOK', Headroom,
           \A c \in Claims, d \in Dates, h \in Hours : Occupies(c, d, h)' => Occupies(c, d, h),
           \A d \in Dates :
              /\ offered'[d] <= Capacity
              /\ \/ remaining'[d] >= remaining[d]
                 \/ /\ remaining'[d] >= 0
                    /\ \A h \in Hours : remaining'[d] - HourLoad(d, h) >= 0
    PROVE  Headroom'
<1> SUFFICES ASSUME NEW d \in Dates
             PROVE  /\ offered'[d] <= Capacity
                    /\ remaining'[d] >= 0
                    /\ \A h \in Hours : HourLoad(d, h)' <= remaining'[d]
  BY DEF Headroom
<1>1. remaining[d] \in Int /\ remaining'[d] \in Int
  BY DEF TypeOK
<1>2. remaining[d] >= 0 /\ \A h \in Hours : HourLoad(d, h) <= remaining[d]
  BY DEF Headroom
<1>3. \A h \in Hours : /\ HourLoad(d, h)' <= HourLoad(d, h)
                       /\ HourLoad(d, h) \in Nat /\ HourLoad(d, h)' \in Nat
  BY LoadFalls, LoadIsOccupies
<1> QED
  BY <1>1, <1>2, <1>3

LEMMA RestoreHeadroom ==
    ASSUME TypeOK, TypeOK', Headroom, NEW S \in SUBSET Claims, RestoreCapacity(S),
           \A c \in Claims, d \in Dates, h \in Hours : Occupies(c, d, h)' => Occupies(c, d, h)
    PROVE  Headroom'
<1>1. \A d \in Dates : remaining'[d] >= remaining[d] /\ offered'[d] <= Capacity
  <2> SUFFICES ASSUME NEW d \in Dates
               PROVE  remaining'[d] >= remaining[d] /\ offered'[d] <= Capacity
    OBVIOUS
  <2>1. Nights(S, d) \in Nat
    BY NightsNat
  <2> QED
    BY <2>1 DEF TypeOK, Headroom, RestoreCapacity
<1> QED
  BY <1>1, HeadroomKept

LEMMA UnmovedHeadroom ==
    ASSUME TypeOK, TypeOK', Headroom, UNCHANGED <<remaining, offered>>,
           \A c \in Claims, d \in Dates, h \in Hours : Occupies(c, d, h)' => Occupies(c, d, h)
    PROVE  Headroom'
<1>1. \A d \in Dates : remaining'[d] >= remaining[d] /\ offered'[d] <= Capacity
  BY DEF TypeOK, Headroom
<1> QED
  BY <1>1, HeadroomKept

LEMMA ReleaseBookedHeadroom ==
    ASSUME TypeOK, TypeOK', Headroom, NEW S \in SUBSET Claims, ReleaseBookedCapacity(S)
    PROVE  Headroom'
<1>1. PICK ended \in SUBSET S :
        /\ RestoreCapacity(S \ ended)
        /\ claim' = [c \in Claims |-> IF c \in S \ ended
                                      THEN [claim[c] EXCEPT !.kind = "RELEASED"]
                                      ELSE claim[c]]
  BY DEF ReleaseBookedCapacity
<1>2. \A c \in Claims : claim[c] \in ClaimRecords
  BY DEF TypeOK
<1>3. \A c \in Claims : claim'[c] = claim[c] \/ claim'[c].kind = "RELEASED"
  BY <1>1, <1>2 DEF ClaimRecords
<1>4. \A c \in Claims, d \in Dates, h \in Hours : Occupies(c, d, h)' => Occupies(c, d, h)
  BY <1>3 DEF Occupies, LiveKinds
<1> QED
  BY <1>1, <1>4, RestoreHeadroom, S \ ended \in SUBSET Claims

-----------------------------------------------------------------------------
LEMMA CustomerKeepsHeadroom ==
    ASSUME Inv, TypeOK', Headroom, CustomerNext
    PROVE  Headroom'
<1> USE DEF Inv
<1>1. ASSUME NEW u \in Users, NEW ds \in Ranges(Dates), NEW S \in SUBSET Claims,
             ReserveCapacity(u, ds, S)
      PROVE  Headroom'
  <2>1. \A c \in Claims, d \in Dates, h \in Hours : Occupies(c, d, h)' => Occupies(c, d, h)
    BY <1>1 DEF ReserveCapacity, Assign, Hold, Occupies
  <2>2. Cardinality(S) \in Nat
    BY CardType
  <2>3. \A d \in Dates : remaining'[d] = IF d \in ds THEN remaining[d] - Cardinality(S)
                                         ELSE remaining[d]
    BY <1>1 DEF ReserveCapacity, ConsumeCapacity
  <2>4. \A d \in Dates : d \in ds =>
            /\ remaining[d] >= Cardinality(S)
            /\ \A h \in Hours : remaining[d] - HourLoad(d, h) >= Cardinality(S)
    BY <1>1 DEF ReserveCapacity, Fits
  <2>5. \A d \in Dates, h \in Hours : HourLoad(d, h) \in Nat
    BY LoadIsOccupies
  <2>6. \A d \in Dates : offered'[d] <= Capacity
    BY <1>1 DEF ReserveCapacity, ConsumeCapacity, Headroom
  <2>7. \A d \in Dates :
              \/ remaining'[d] >= remaining[d]
              \/ /\ remaining'[d] >= 0
                 /\ \A h \in Hours : remaining'[d] - HourLoad(d, h) >= 0
    BY <2>2, <2>3, <2>4, <2>5 DEF TypeOK
  <2> QED
    BY <2>1, <2>6, <2>7, HeadroomKept
<1>2. ASSUME NEW u \in Users, NEW d \in Dates, NEW hs \in Ranges(Hours),
             NEW S \in SUBSET Claims, ReserveHourlyCapacity(u, d, hs, S)
      PROVE  Headroom'
  <2>1. /\ \A c \in S : claim'[c] = Hold(u, {d}, hs)
        /\ \A c \in Claims \ S : claim'[c] = claim[c]
    BY <1>2 DEF ReserveHourlyCapacity, Assign
  <2>2. UNCHANGED <<remaining, offered>>
    BY <1>2 DEF ReserveHourlyCapacity
  <2>3. \A h \in hs : remaining[d] - HourLoad(d, h) >= Cardinality(S)
    BY <1>2 DEF ReserveHourlyCapacity, Fits
  <2>4. ASSUME NEW x \in Dates, NEW h \in Hours
        PROVE  HourLoad(x, h)' <= remaining[x]
    <3>1. /\ HourLoad(x, h) <= remaining[x] /\ remaining[x] \in Int
          /\ HourLoad(x, h) \in Nat /\ HourLoad(x, h)' \in Nat /\ Cardinality(S) \in Nat
      BY LoadIsOccupies, CardType DEF Headroom, TypeOK
    <3>2. CASE x = d /\ h \in hs
      <4>1. \A c \in Claims \ S : Occupies(c, x, h)' => Occupies(c, x, h)
        BY <2>1 DEF Occupies
      <4>2. HourLoad(x, h)' <= HourLoad(x, h) + Cardinality(S)
        BY <4>1, LoadGrows
      <4>3. remaining[x] - HourLoad(x, h) >= Cardinality(S)
        BY <2>3, <3>2
      <4> QED
        BY <3>1, <4>2, <4>3
    <3>3. CASE ~(x = d /\ h \in hs)
      <4>1. \A c \in Claims : Occupies(c, x, h)' => Occupies(c, x, h)
        BY <2>1, <3>3 DEF Occupies, Hold
      <4>2. HourLoad(x, h)' <= HourLoad(x, h)
        BY <4>1, LoadFalls
      <4> QED
        BY <3>1, <4>2
    <3> QED
      BY <3>2, <3>3
  <2> QED
    BY <2>2, <2>4 DEF Headroom
<1>3. ASSUME NEW u \in Users, NEW S \in SUBSET Claims, ReleaseHold(u, S)
      PROVE  Headroom'
  <2>1. \A c \in Claims, d \in Dates, h \in Hours : Occupies(c, d, h)' => Occupies(c, d, h)
    BY <1>3 DEF ReleaseHold, Assign, FreeClaim, Occupies
  <2> QED
    BY <1>3, <2>1, RestoreHeadroom DEF ReleaseHold
<1>4. ASSUME NEW u \in Users, NEW b \in Bookings, NEW S \in SUBSET Claims,
             CreateBooking(u, b, S)
      PROVE  Headroom'
  <2>0. \A c \in Claims : claim[c] \in ClaimRecords
    BY DEF TypeOK
  <2>1. \A c \in Claims, d \in Dates, h \in Hours : Occupies(c, d, h)' => Occupies(c, d, h)
    BY <1>4, <2>0 DEF CreateBooking, ActiveHolds, ClaimRecords, Occupies, LiveKinds
  <2> QED
    BY <1>4, <2>1, UnmovedHeadroom DEF CreateBooking, calendarVars
<1> QED
  BY <1>1, <1>2, <1>3, <1>4 DEF CustomerNext

LEMMA VendorKeepsHeadroom ==
    ASSUME Inv, TypeOK', Headroom, ModestTotals, VendorNext
    PROVE  Headroom'
<1> USE DEF Inv
<1>1. ASSUME NEW b \in Bookings, ConfirmBooking(b) \/ CompleteBooking(b) \/ MarkNoShow(b)
      PROVE  Headroom'
  <2>1. UNCHANGED <<claim, calendarVars>>
    BY <1>1 DEF ConfirmBooking, CompleteBooking, MarkNoShow
  <2> QED
    BY <2>1, UnmovedHeadroom DEF calendarVars, Occupies
<1>2. ASSUME NEW b \in Bookings, RejectBooking(b) \/ CancelBooking(b)
      PROVE  Headroom'
  <2>1. ReleaseBookedCapacity(Items(b)) /\ Items(b) \in SUBSET Claims
    BY <1>2, ClaimSets DEF RejectBooking, CancelBooking
  <2> QED
    BY <2>1, ReleaseBookedHeadroom
<1>3. ASSUME NEW k \in Blocks, NEW ds \in Ranges(Dates), NEW S \in SUBSET Claims,
             CreateManualBlock(k, ds, S)
      PROVE  Headroom'
  <2>1. \A c \in Claims, d \in Dates, h \in Hours : Occupies(c, d, h)' => Occupies(c, d, h)
    BY <1>3 DEF CreateManualBlock, Assign, BlockClaim, Occupies
  <2>2. Cardinality(S) \in Nat
    BY CardType
  <2>3. \A d \in Dates : remaining'[d] = IF d \in ds THEN remaining[d] - Cardinality(S)
                                         ELSE remaining[d]
    BY <1>3 DEF CreateManualBlock, ConsumeCapacity
  <2>4. \A d \in Dates : d \in ds =>
            /\ remaining[d] >= Cardinality(S)
            /\ \A h \in Hours : remaining[d] - HourLoad(d, h) >= Cardinality(S)
    BY <1>3 DEF CreateManualBlock, Fits
  <2>5. \A d \in Dates, h \in Hours : HourLoad(d, h) \in Nat
    BY LoadIsOccupies
  <2>6. \A d \in Dates : offered'[d] <= Capacity
    BY <1>3 DEF CreateManualBlock, ConsumeCapacity, Headroom
  <2>7. \A d \in Dates :
              \/ remaining'[d] >= remaining[d]
              \/ /\ remaining'[d] >= 0
                 /\ \A h \in Hours : remaining'[d] - HourLoad(d, h) >= 0
    BY <2>2, <2>3, <2>4, <2>5 DEF TypeOK
  <2> QED
    BY <2>1, <2>6, <2>7, HeadroomKept
<1>4. ASSUME NEW k \in Blocks, NEW ds \in Ranges(Dates), NEW T \in SUBSET Claims,
             UpdateManualBlock(k, ds, T)
      PROVE  Headroom'
  <2> DEFINE back(d) == Nights(BlockClaims(k), d)
  <2>1. \A c \in Claims, d \in Dates, h \in Hours : Occupies(c, d, h)' => Occupies(c, d, h)
    BY <1>4 DEF UpdateManualBlock, BlockClaim, FreeClaim, Occupies
  <2>2. Cardinality(T) \in Nat
    BY CardType
  <2>3. \A d \in Dates : remaining'[d] = (remaining[d] + back(d))
                                          - (IF d \in ds THEN Cardinality(T) ELSE 0)
    BY <1>4 DEF UpdateManualBlock
  <2>4. \A d \in Dates : d \in ds =>
            /\ remaining[d] + back(d) >= Cardinality(T)
            /\ \A h \in Hours : (remaining[d] + back(d)) - HourLoad(d, h) >= Cardinality(T)
    BY <1>4 DEF UpdateManualBlock, Fits
  <2>5. \A d \in Dates, h \in Hours : HourLoad(d, h) \in Nat
    BY LoadIsOccupies
  <2>6. \A d \in Dates : back(d) \in Nat
    BY ClaimSets, NightsNat
  <2>7. \A d \in Dates : offered'[d] <= Capacity
    BY <1>4 DEF UpdateManualBlock, Headroom
  <2>8. \A d \in Dates :
              \/ remaining'[d] >= remaining[d]
              \/ /\ remaining'[d] >= 0
                 /\ \A h \in Hours : remaining'[d] - HourLoad(d, h) >= 0
    <3> HIDE DEF back
    <3> QED
      BY <2>2, <2>3, <2>4, <2>5, <2>6 DEF TypeOK
  <2> QED
    BY <2>1, <2>7, <2>8, HeadroomKept
<1>5. ASSUME NEW k \in Blocks, ReleaseManualBlock(k)
      PROVE  Headroom'
  <2>1. \A c \in Claims, d \in Dates, h \in Hours : Occupies(c, d, h)' => Occupies(c, d, h)
    BY <1>5 DEF ReleaseManualBlock, Assign, FreeClaim, Occupies
  <2> QED
    BY <1>5, <2>1, ClaimSets, RestoreHeadroom DEF ReleaseManualBlock
<1>6. ASSUME NEW ds \in Ranges(Dates), NEW q \in Totals \cup {Unset},
             NEW status \in {"KEEP", "AVAILABLE", "BLOCKED"}, SetAvailability(ds, q, status)
      PROVE  Headroom'
  <2>1. \A c \in Claims, d \in Dates, h \in Hours : Occupies(c, d, h)' => Occupies(c, d, h)
    BY <1>6 DEF SetAvailability, Occupies
  <2>2. \A d \in Dates, h \in Hours : HourLoad(d, h) \in Nat
    BY LoadIsOccupies
  <2>3. ASSUME NEW d \in Dates
        PROVE  \/ /\ remaining'[d] = remaining[d]
                  /\ offered'[d] = offered[d]
               \/ /\ remaining'[d] >= 0
                  /\ \A h \in Hours : remaining'[d] - HourLoad(d, h) >= 0
                  /\ offered'[d] <= offered[d]
    <3>1. remaining[d] \in Int /\ offered[d] \in Int /\ Capacity \in Int
      BY CapacityAssumption DEF TypeOK
    <3>2. offered'[d] = offered[d] + (remaining'[d] - remaining[d])
      BY <1>6 DEF SetAvailability
    <3>3. CASE q = Unset \/ d \notin ds
      <4>1. remaining'[d] = remaining[d]
        BY <1>6, <3>3 DEF SetAvailability, RemainingForTotal
      <4> QED
        BY <3>1, <3>2, <4>1
    <3>4. CASE q # Unset /\ d \in ds
      <4>1. q \in Int /\ q <= Capacity
        BY <3>4, CapacityAssumption DEF ModestTotals
      <4>2. remaining'[d] = q - (Capacity - remaining[d])
        BY <1>6, <3>4 DEF SetAvailability, RemainingForTotal
      <4>3. /\ remaining'[d] >= 0
            /\ \A h \in Hours : remaining'[d] - HourLoad(d, h) >= 0
        BY <1>6, <3>4, <4>2 DEF SetAvailability, Fits, RemainingForTotal
      <4> QED
        BY <3>1, <3>2, <4>1, <4>2, <4>3
    <3> QED
      BY <3>3, <3>4
  <2>4. \A d \in Dates : offered'[d] <= Capacity
    BY <2>3, CapacityAssumption DEF TypeOK, Headroom
  <2>5. \A d \in Dates :
              \/ remaining'[d] >= remaining[d]
              \/ /\ remaining'[d] >= 0
                 /\ \A h \in Hours : remaining'[d] - HourLoad(d, h) >= 0
    BY <2>3 DEF TypeOK
  <2> QED
    BY <2>1, <2>4, <2>5, HeadroomKept
<1>7. ASSUME NEW d \in Dates, RemoveCalendarEntry(d)
      PROVE  Headroom'
  <2>1. \A c \in Claims, x \in Dates, h \in Hours : Occupies(c, x, h)' => Occupies(c, x, h)
    BY <1>7 DEF RemoveCalendarEntry, Occupies
  <2>2. Committed(d) \in Nat
    BY CommittedNat
  <2>3. remaining[d] <= Capacity
    BY <1>7, <2>2, CapacityAssumption DEF Balanced, Headroom, TypeOK
  <2>4. /\ remaining'[d] = Capacity /\ offered'[d] = Capacity
        /\ \A x \in Dates \ {d} : remaining'[x] = remaining[x] /\ offered'[x] = offered[x]
    BY <1>7 DEF RemoveCalendarEntry, TypeOK
  <2>5. \A x \in Dates : remaining'[x] >= remaining[x] /\ offered'[x] <= Capacity
    BY <2>3, <2>4, CapacityAssumption DEF TypeOK, Headroom
  <2> QED
    BY <2>1, <2>5, HeadroomKept
<1> QED
  BY <1>1, <1>2, <1>3, <1>4, <1>5, <1>6, <1>7 DEF VendorNext

LEMMA SystemKeepsHeadroom ==
    ASSUME Inv, TypeOK', Headroom, SystemNext
    PROVE  Headroom'
<1> USE DEF Inv
<1>1. ASSUME NEW c \in Claims, HoldLapses(c)
      PROVE  Headroom'
  <2>0. \A x \in Claims : claim[x] \in ClaimRecords
    BY DEF TypeOK
  <2>1. \A x \in Claims, d \in Dates, h \in Hours : Occupies(x, d, h)' => Occupies(x, d, h)
    BY <1>1, <2>0 DEF TypeOK, HoldLapses, ClaimRecords, Occupies
  <2> QED
    BY <1>1, <2>1, UnmovedHeadroom DEF HoldLapses, calendarVars
<1>2. ASSUME NEW s \in Sweepers, SweepFindsExpired(s)
      PROVE  Headroom'
  BY <1>2, UnmovedHeadroom DEF SweepFindsExpired, calendarVars, Occupies
<1>3. ASSUME NEW s \in Sweepers, SweepReleasesExpired(s)
      PROVE  Headroom'
  <2>1. \A c \in Claims, d \in Dates, h \in Hours : Occupies(c, d, h)' => Occupies(c, d, h)
    BY <1>3 DEF SweepReleasesExpired, Assign, FreeClaim, Occupies
  <2>2. candidates[s] \cap ExpiredHolds \in SUBSET Claims
    BY ClaimSets
  <2> QED
    BY <1>3, <2>1, <2>2, RestoreHeadroom DEF SweepReleasesExpired
<1>4. ASSUME NEW B \in SUBSET Bookings, SlaSweepReads(B)
      PROVE  Headroom'
  BY <1>4, UnmovedHeadroom DEF SlaSweepReads, calendarVars, Occupies
<1>5. ASSUME SlaSweepExpires
      PROVE  Headroom'
  <2>1. UNION {Items(b) : b \in slaBatch} \in SUBSET Claims
    BY ClaimSets
  <2> QED
    BY <1>5, <2>1, ReleaseBookedHeadroom DEF SlaSweepExpires
<1> QED
  BY <1>1, <1>2, <1>3, <1>4, <1>5 DEF SystemNext

LEMMA HeadroomInit == Init => Headroom
<1> SUFFICES ASSUME Init PROVE Headroom
  OBVIOUS
<1>1. Live = {}
  BY DEF Init, FreeClaim, Live
<1>2. \A d, h : HourLoad(d, h) = 0
  <2> TAKE d, h
  <2>1. {c \in Live : d \in claim[c].dates /\ h \in claim[c].hours} = {}
    BY <1>1
  <2> QED
    BY <2>1, FS_EmptySet DEF HourLoad
<1> QED
  BY <1>2, CapacityAssumption DEF Init, Headroom

\* No hour of any date is ever taken by more rooms than its partner offers,
\* nightly and hourly stays together, provided that nobody offers more than
\* the unit's capacity and no decision falls inside an SLA sweep.
THEOREM NeverOversold == ~SweepOverlaps /\ ModestTotals => (Spec => []NoOversell)
<1> SUFFICES ASSUME ~SweepOverlaps, ModestTotals PROVE Spec => []NoOversell
  OBVIOUS
<1>1. Init => Inv /\ Headroom
  BY InvInit, HeadroomInit
<1>2. Inv /\ Headroom /\ [Next]_vars => (Inv /\ Headroom)'
  <2> SUFFICES ASSUME Inv, Headroom, [Next]_vars PROVE (Inv /\ Headroom)'
    OBVIOUS
  <2>1. Inv'
    BY InvStep
  <2>2. CASE UNCHANGED vars
    BY <2>1, <2>2, UnmovedHeadroom DEF Inv, vars, calendarVars, Occupies
  <2>3. CASE Next
    BY <2>1, <2>3, CustomerKeepsHeadroom, VendorKeepsHeadroom, SystemKeepsHeadroom
       DEF Next, Inv
  <2> QED
    BY <2>1, <2>2, <2>3
<1>3. Inv /\ Headroom => NoOversell
  <2> SUFFICES ASSUME Inv, Headroom, NEW d \in Dates
               PROVE  /\ Committed(d) <= offered[d]
                      /\ \A h \in Hours : Committed(d) + HourLoad(d, h) <= offered[d]
    BY DEF NoOversell
  <2>1. /\ Committed(d) \in Nat /\ remaining[d] \in Int /\ offered[d] \in Int
        /\ \A h \in Hours : HourLoad(d, h) \in Nat
    BY CommittedNat, LoadIsOccupies DEF Inv, TypeOK
  <2>2. remaining[d] + Committed(d) = offered[d]
    BY DEF Inv, Balanced
  <2>3. remaining[d] >= 0 /\ \A h \in Hours : HourLoad(d, h) <= remaining[d]
    BY DEF Headroom
  <2> QED
    BY <2>1, <2>2, <2>3
<1> QED
  BY <1>1, <1>2, <1>3, PTL DEF Spec

-----------------------------------------------------------------------------
(***************************************************************************)
(* UnitCapacity.  What an operation takes of a date is what the date's     *)
(* count loses.  So it takes no more than was left exactly if it leaves    *)
(* the count at zero or more: which is what the operations that lower a    *)
(* count check, under the locks, before they do.                           *)
(***************************************************************************)

\* A step that lowers the count of a date leaves it at zero or more.
NoneBelowZero ==
    \A d \in Dates : remaining'[d] >= remaining[d] \/ remaining'[d] >= 0

-----------------------------------------------------------------------------
(* Steps that leave the totals alone trade units. *)

LEMMA TradeStep ==
    ASSUME Inv, Inv', offered' = offered, NoneBelowZero
    PROVE  Unit!Trade
<1> DEFINE taken == [d \in Dates |-> Committed(d)]
<1>1. \A d \in Dates : /\ Committed(d) \in Nat /\ Committed(d)' \in Nat
                       /\ remaining[d] \in Int /\ remaining'[d] \in Int
                       /\ offered[d] \in Int
                       /\ remaining[d] + Committed(d) = offered[d]
                       /\ remaining'[d] + Committed(d)' = offered[d]
  BY CommittedNat DEF Inv, TypeOK, Balanced
<1>2. /\ taken' \in [Dates -> Nat]
      /\ \A d \in Dates : taken[d] = Committed(d) /\ taken'[d] = Committed(d)'
  BY <1>1
<1>3. \A d \in Dates : taken'[d] > taken[d] => taken'[d] - taken[d] <= remaining[d]
  BY <1>1, <1>2 DEF NoneBelowZero
<1>4. \A d \in Dates : remaining'[d] = remaining[d] - (taken'[d] - taken[d])
  BY <1>1, <1>2
<1>5. remaining' = [d \in Dates |-> remaining[d] - (taken'[d] - taken[d])]
  BY <1>4 DEF Inv, TypeOK
<1> QED
  BY <1>2, <1>3, <1>5 DEF Unit!Trade

\* Giving back never lowers a count.
LEMMA RestoreAbove ==
    ASSUME TypeOK, NEW S \in SUBSET Claims, RestoreCapacity(S)
    PROVE  offered' = offered /\ NoneBelowZero
<1>1. \A d \in Dates : Nights(S, d) \in Nat /\ remaining[d] \in Int
  BY NightsNat DEF TypeOK
<1> QED
  BY <1>1 DEF RestoreCapacity, NoneBelowZero

LEMMA ReleaseBookedAbove ==
    ASSUME TypeOK, NEW S \in SUBSET Claims, ReleaseBookedCapacity(S)
    PROVE  offered' = offered /\ NoneBelowZero
<1>1. PICK ended \in SUBSET S : RestoreCapacity(S \ ended)
  BY DEF ReleaseBookedCapacity
<1> QED
  BY <1>1, RestoreAbove

\* Taking lowers the counts of dates it was found to fit on.
LEMMA ConsumeAbove ==
    ASSUME TypeOK, NEW ds \in SUBSET Dates, NEW q \in Nat, ConsumeCapacity(ds, q),
           \A d \in ds : Fits(remaining[d], d, Hours, q)
    PROVE  offered' = offered /\ NoneBelowZero
<1>1. \A d \in Dates : remaining[d] \in Int
  BY DEF TypeOK
<1> QED
  BY <1>1 DEF ConsumeCapacity, Fits, NoneBelowZero

LEMMA UnmovedAbove ==
    ASSUME TypeOK, UNCHANGED <<remaining, offered>>
    PROVE  offered' = offered /\ NoneBelowZero
BY DEF TypeOK, NoneBelowZero

-----------------------------------------------------------------------------
(* The operations, by who performs them. *)

\* What a customer's request does to the calendar is a trade.
LEMMA CustomerTrades ==
    ASSUME TypeOK, CustomerNext
    PROVE  offered' = offered /\ NoneBelowZero
<1>1. ASSUME NEW u \in Users, NEW ds \in Ranges(Dates), NEW S \in SUBSET Claims,
             ReserveCapacity(u, ds, S)
      PROVE  offered' = offered /\ NoneBelowZero
  <2>1. Cardinality(S) \in Nat /\ ds \in SUBSET Dates
    BY CardType, RangesSubset
  <2> QED
    BY <1>1, <2>1, ConsumeAbove DEF ReserveCapacity
<1>2. ASSUME NEW u \in Users, NEW d \in Dates, NEW hs \in Ranges(Hours),
             NEW S \in SUBSET Claims, ReserveHourlyCapacity(u, d, hs, S)
      PROVE  offered' = offered /\ NoneBelowZero
  BY <1>2, UnmovedAbove DEF ReserveHourlyCapacity
<1>3. ASSUME NEW u \in Users, NEW S \in SUBSET Claims, ReleaseHold(u, S)
      PROVE  offered' = offered /\ NoneBelowZero
  BY <1>3, RestoreAbove DEF ReleaseHold
<1>4. ASSUME NEW u \in Users, NEW b \in Bookings, NEW S \in SUBSET Claims,
             CreateBooking(u, b, S)
      PROVE  offered' = offered /\ NoneBelowZero
  BY <1>4, UnmovedAbove DEF CreateBooking, calendarVars
<1> QED
  BY <1>1, <1>2, <1>3, <1>4 DEF CustomerNext

\* So is what time and the two jobs do.
LEMMA SystemTrades ==
    ASSUME TypeOK, SystemNext
    PROVE  offered' = offered /\ NoneBelowZero
<1>1. ASSUME NEW c \in Claims, HoldLapses(c)
      PROVE  offered' = offered /\ NoneBelowZero
  BY <1>1, UnmovedAbove DEF HoldLapses, calendarVars
<1>2. ASSUME NEW s \in Sweepers, SweepFindsExpired(s)
      PROVE  offered' = offered /\ NoneBelowZero
  BY <1>2, UnmovedAbove DEF SweepFindsExpired, calendarVars
<1>3. ASSUME NEW s \in Sweepers, SweepReleasesExpired(s)
      PROVE  offered' = offered /\ NoneBelowZero
  <2>1. candidates[s] \cap ExpiredHolds \in SUBSET Claims
    BY ClaimSets
  <2> QED
    BY <1>3, <2>1, RestoreAbove DEF SweepReleasesExpired
<1>4. ASSUME NEW B \in SUBSET Bookings, SlaSweepReads(B)
      PROVE  offered' = offered /\ NoneBelowZero
  BY <1>4, UnmovedAbove DEF SlaSweepReads, calendarVars
<1>5. ASSUME SlaSweepExpires
      PROVE  offered' = offered /\ NoneBelowZero
  <2>1. UNION {Items(b) : b \in slaBatch} \in SUBSET Claims
    BY ClaimSets
  <2> QED
    BY <1>5, <2>1, ReleaseBookedAbove DEF SlaSweepExpires
<1> QED
  BY <1>1, <1>2, <1>3, <1>4, <1>5 DEF SystemNext

\* A total that is lowered is not lowered below what is taken.
LEMMA OfferStep ==
    ASSUME Inv, Inv', claim' = claim, NoneBelowZero
    PROVE  Unit!Offer
<1> DEFINE taken == [d \in Dates |-> Committed(d)]
<1>1. \A d \in Dates : Committed(d)' = Committed(d)
  BY SameCommitted DEF Covers
<1>2. \A d \in Dates : /\ Committed(d) \in Nat
                       /\ remaining[d] \in Int /\ remaining'[d] \in Int
                       /\ offered[d] \in Int /\ offered'[d] \in Int
                       /\ remaining[d] + Committed(d) = offered[d]
                       /\ remaining'[d] + Committed(d) = offered'[d]
  BY <1>1, CommittedNat DEF Inv, TypeOK, Balanced
<1>3. taken' = taken /\ \A d \in Dates : taken[d] = Committed(d)
  BY <1>1
<1>4. \A d \in Dates : offered'[d] < offered[d] => offered'[d] >= taken[d]
  BY <1>2, <1>3 DEF NoneBelowZero
<1>5. \A d \in Dates : remaining'[d] = remaining[d] + (offered'[d] - offered[d])
  BY <1>2
<1>6. remaining' = [d \in Dates |-> remaining[d] + (offered'[d] - offered[d])]
  BY <1>5 DEF Inv, TypeOK
<1> QED
  BY <1>3, <1>4, <1>6 DEF Unit!Offer, Inv, TypeOK

\* What the vendor and the customer decide and the partner blocks are trades;
\* what the partner saves or removes changes totals.
LEMMA VendorTradesOrOffers ==
    ASSUME Inv, Inv', VendorNext
    PROVE  Unit!Next
<1>0. TypeOK
  BY DEF Inv
<1>1. ASSUME NEW b \in Bookings, ConfirmBooking(b) \/ CompleteBooking(b) \/ MarkNoShow(b)
      PROVE  offered' = offered /\ NoneBelowZero
  BY <1>0, <1>1, UnmovedAbove DEF ConfirmBooking, CompleteBooking, MarkNoShow, calendarVars
<1>2. ASSUME NEW b \in Bookings, RejectBooking(b) \/ CancelBooking(b)
      PROVE  offered' = offered /\ NoneBelowZero
  <2>1. ReleaseBookedCapacity(Items(b)) /\ Items(b) \in SUBSET Claims
    BY <1>2, ClaimSets DEF RejectBooking, CancelBooking
  <2> QED
    BY <1>0, <2>1, ReleaseBookedAbove
<1>3. ASSUME NEW k \in Blocks, NEW ds \in Ranges(Dates), NEW S \in SUBSET Claims,
             CreateManualBlock(k, ds, S)
      PROVE  offered' = offered /\ NoneBelowZero
  <2>1. Cardinality(S) \in Nat /\ ds \in SUBSET Dates
    BY CardType, RangesSubset
  <2> QED
    BY <1>0, <1>3, <2>1, ConsumeAbove DEF CreateManualBlock
<1>4. ASSUME NEW k \in Blocks, NEW ds \in Ranges(Dates), NEW T \in SUBSET Claims,
             UpdateManualBlock(k, ds, T)
      PROVE  offered' = offered /\ NoneBelowZero
  <2>1. Cardinality(T) \in Nat
    BY CardType
  <2>2. \A d \in Dates : /\ Nights(BlockClaims(k), d) \in Nat
                         /\ remaining[d] \in Int
    BY <1>0, ClaimSets, NightsNat DEF TypeOK
  <2>3. \A d \in ds : remaining[d] + Nights(BlockClaims(k), d) >= Cardinality(T)
    BY <1>4 DEF UpdateManualBlock, Fits
  <2>4. \A d \in Dates :
           remaining'[d] = IF d \in ds
                           THEN remaining[d] + Nights(BlockClaims(k), d) - Cardinality(T)
                           ELSE remaining[d] + Nights(BlockClaims(k), d)
    BY <1>4, <2>1, <2>2 DEF UpdateManualBlock
  <2>5. NoneBelowZero
    BY <2>1, <2>2, <2>3, <2>4 DEF NoneBelowZero
  <2> QED
    BY <1>4, <2>5 DEF UpdateManualBlock
<1>5. ASSUME NEW k \in Blocks, ReleaseManualBlock(k)
      PROVE  offered' = offered /\ NoneBelowZero
  BY <1>0, <1>5, ClaimSets, RestoreAbove DEF ReleaseManualBlock
<1>6. ASSUME NEW ds \in Ranges(Dates), NEW q \in Totals \cup {Unset},
             NEW status \in {"KEEP", "AVAILABLE", "BLOCKED"}, SetAvailability(ds, q, status)
      PROVE  Unit!Offer
  <2>1. \A d \in Dates : remaining[d] \in Int
    BY <1>0 DEF TypeOK
  <2>2. \A d \in Dates : remaining'[d] = IF d \in ds THEN RemainingForTotal(d, q)
                                         ELSE remaining[d]
    BY <1>6 DEF SetAvailability
  <2>3. q # Unset => \A d \in ds : RemainingForTotal(d, q) >= 0
    BY <1>6 DEF SetAvailability, Fits
  <2>4. q = Unset => \A d \in ds : RemainingForTotal(d, q) = remaining[d]
    BY DEF RemainingForTotal
  <2>5. NoneBelowZero
    BY <2>1, <2>2, <2>3, <2>4 DEF NoneBelowZero
  <2> QED
    BY <1>6, <2>5, OfferStep DEF SetAvailability
<1>7. ASSUME NEW d \in Dates, RemoveCalendarEntry(d)
      PROVE  Unit!Offer
  <2>1. NoneBelowZero
    BY <1>0, <1>7, CapacityAssumption DEF TypeOK, RemoveCalendarEntry, NoneBelowZero
  <2> QED
    BY <1>7, <2>1, OfferStep DEF RemoveCalendarEntry
<1> QED
  BY <1>1, <1>2, <1>3, <1>4, <1>5, <1>6, <1>7, TradeStep DEF VendorNext, Unit!Next

-----------------------------------------------------------------------------
LEMMA UnitInit == Init => Unit!Init
<1> SUFFICES ASSUME Init PROVE Unit!Init
  OBVIOUS
<1>1. Inv
  BY InvInit
<1>2. ASSUME NEW d \in Dates
      PROVE  Committed(d) = 0
  <2>1. Committed(d) \in Nat
    BY CommittedNat
  <2>2. remaining[d] + Committed(d) = offered[d]
    BY <1>1 DEF Inv, Balanced
  <2>3. remaining[d] = Capacity /\ offered[d] = Capacity
    BY DEF Init
  <2> QED
    BY <2>1, <2>2, <2>3, CapacityAssumption
<1> QED
  BY <1>2 DEF Init, Unit!Init

LEMMA UnitStep ==
    ASSUME Inv, Inv', [Next]_vars
    PROVE  [Unit!Next]_(Unit!vars)
<1>1. TypeOK
  BY DEF Inv
<1>2. CASE UNCHANGED vars
  <2>1. \A d \in Dates : Committed(d)' = Committed(d)
    BY <1>2, SameCommitted DEF vars, Covers
  <2> QED
    BY <1>2, <2>1 DEF vars, calendarVars, Unit!vars
<1>3. CASE CustomerNext
  BY <1>1, <1>3, CustomerTrades, TradeStep DEF Unit!Next
<1>4. CASE VendorNext
  BY <1>4, VendorTradesOrOffers
<1>5. CASE SystemNext
  BY <1>1, <1>5, SystemTrades, TradeStep DEF Unit!Next
<1> QED
  BY <1>2, <1>3, <1>4, <1>5 DEF Next

\* The inventory of a unit implements the calendar it promises: nobody takes
\* what is not left, every taking and giving back moves the count new
\* requests are checked against by exactly as much, and a total is never
\* lowered below what is taken.
THEOREM InventoryImplementsUnitCapacity ==
    ~SweepOverlaps => (Spec => ImplementsUnitCapacity)
<1> SUFFICES ASSUME ~SweepOverlaps PROVE Spec => ImplementsUnitCapacity
  OBVIOUS
<1>1. Inv /\ [Next]_vars => Inv'
  BY InvStep
<1>2. Inv /\ Inv' /\ [Next]_vars => [Unit!Next]_(Unit!vars)
  BY UnitStep
<1> QED
  BY <1>1, <1>2, InvInit, UnitInit, PTL DEF Spec, ImplementsUnitCapacity, Unit!Spec
=============================================================================
