------------------------- MODULE ReservationProofs -------------------------
(***************************************************************************)
(* What is proved of ExternalReservations for every calendar, feed and     *)
(* number of overlapping syncs: the types; that only a sync which moves a  *)
(* stale or cancelled row and a CSV row stored in spite of a conflict      *)
(* disturb the count of a night, and only of the nights they misjudge;     *)
(* and, as long as no step does, that every unit is accounted for and the  *)
(* calendar of UnitCapacity is implemented.                                *)
(***************************************************************************)
EXTENDS ExternalReservations, FiniteSetTheorems, SequenceTheorems,
        WellFoundedInduction, TLAPS

-----------------------------------------------------------------------------
(* Induction over the events of a feed. *)

\* A set of numbers that is not empty has a least one.
LEMMA Least ==
    ASSUME NEW T \in SUBSET Nat, T # {}
    PROVE  \E n \in T : \A m \in T : n <= m
<1>1. IsWellFoundedOn(OpToRel(<, Nat), Nat)
  BY NatLessThanWellFounded
<1>2. PICK n \in T : \A m \in T : ~(<<m, n>> \in OpToRel(<, Nat))
  BY <1>1, WFMin
<1>3. ASSUME NEW m \in T PROVE n <= m
  <2>1. ~(m < n)
    BY <1>2 DEF OpToRel
  <2> QED
    BY <2>1
<1> QED
  BY <1>3

\* A set that holds 0, and every number up to n with the number before it,
\* holds every number up to n.
LEMMA Induction ==
    ASSUME NEW n \in Nat, NEW T, 0 \in T, \A i \in 1..n : i - 1 \in T => i \in T
    PROVE  \A i \in 0..n : i \in T
<1> DEFINE U == {i \in 0..n : i \notin T}
<1> SUFFICES ASSUME U # {} PROVE FALSE
  OBVIOUS
<1>0. U \subseteq Nat
  OBVIOUS
<1>1. PICK i \in U : \A m \in U : i <= m
  <2> HIDE DEF U
  <2> QED
    BY <1>0, Least
<1>2. i \in 1..n /\ i - 1 \in 0..n
  BY <1>1
<1>3. i - 1 \in T
  BY <1>1, <1>2
<1> QED
  BY <1>2, <1>3

\* f holds the calendar and rows after each of the first n events of q.
IsRun(f, s, q, n) ==
    f = [i \in 0..n |-> IF i = 0 THEN [rem |-> remaining, res |-> reservation]
                        ELSE ImportEvent(s, f[i - 1], q[i])]

\* ImportAvailability is the last entry of such a function: there is one.
LEMMA ImportIsRun ==
    ASSUME NEW s, NEW q, Len(q) \in Nat
    PROVE  \E f : IsRun(f, s, q, Len(q)) /\ ImportAvailability(s, q) = f[Len(q)]
<1> DEFINE T == {n \in Nat : \E f : IsRun(f, s, q, n)}
<1>1. 0 \in T
  <2> DEFINE f == [i \in 0..0 |-> [rem |-> remaining, res |-> reservation]]
  <2>1. IsRun(f, s, q, 0)
    BY DEF IsRun
  <2> QED
    BY <2>1
<1>2. ASSUME NEW n \in 1..Len(q), n - 1 \in T PROVE n \in T
  <2>1. PICK f : IsRun(f, s, q, n - 1)
    BY <1>2
  <2> DEFINE g == [i \in 0..n |-> IF i = n THEN ImportEvent(s, f[i - 1], q[i]) ELSE f[i]]
  <2>2. IsRun(g, s, q, n)
    BY <2>1 DEF IsRun
  <2> QED
    BY <2>2
<1>3. \E f : IsRun(f, s, q, Len(q))
  <2> HIDE DEF T
  <2>1. \A i \in 0..Len(q) : i \in T
    BY <1>1, <1>2, Induction
  <2>2. Len(q) \in T
    BY <2>1
  <2> QED
    BY <2>2 DEF T
<1>4. ImportAvailability(s, q) = (CHOOSE f : IsRun(f, s, q, Len(q)))[Len(q)]
  BY DEF ImportAvailability, IsRun
<1> QED
  BY <1>3, <1>4

\* The orders in which the events of two sets that have none in common can be
\* imported list every event once.
LEMMA OrderIsInjective ==
    ASSUME NEW S \in SUBSET Events, NEW R \in SUBSET Events, S \cap R = {},
           NEW a \in SetToSeqs(S), NEW b \in SetToSeqs(R)
    PROVE  /\ a \o b \in Seq(S \cup R)
           /\ Len(a \o b) \in Nat
           /\ \A i, j \in 1..Len(a \o b) : i # j => (a \o b)[i] # (a \o b)[j]
<1>1. IsFiniteSet(S) /\ IsFiniteSet(R)
  BY RowsAssumption, FS_Subset
<1>2. Cardinality(S) \in Nat /\ Cardinality(R) \in Nat
  BY <1>1, FS_CardinalityType
<1>3. a \in Seq(S) /\ b \in Seq(R)
  BY <1>2 DEF SetToSeqs
<1>4. a \in Seq(S \cup R) /\ b \in Seq(S \cup R)
  BY <1>3
<1>5. /\ a \o b \in Seq(S \cup R)
      /\ Len(a \o b) = Len(a) + Len(b)
      /\ \A i \in 1 .. Len(a) + Len(b) :
            (a \o b)[i] = IF i <= Len(a) THEN a[i] ELSE b[i - Len(a)]
  BY <1>4, ConcatProperties
<1>6. /\ \A i, j \in 1..Len(a) : i # j => a[i] # a[j]
      /\ \A i, j \in 1..Len(b) : i # j => b[i] # b[j]
  BY <1>2 DEF SetToSeqs
<1>7. ASSUME NEW i \in 1..Len(a \o b), NEW j \in 1..Len(a \o b), i < j
      PROVE  (a \o b)[i] # (a \o b)[j]
  <2>0. Len(a) \in Nat /\ Len(b) \in Nat
    BY <1>3
  <2>1. CASE j <= Len(a)
    BY <2>0, <2>1, <1>5, <1>6, <1>7
  <2>2. CASE i > Len(a)
    BY <2>0, <2>2, <1>5, <1>6, <1>7, i - Len(a) \in 1..Len(b), j - Len(a) \in 1..Len(b)
  <2>3. CASE i <= Len(a) /\ j > Len(a)
    <3>1. a[i] \in S /\ b[j - Len(a)] \in R
      BY <2>0, <2>3, <1>3, <1>5
    <3> QED
      BY <2>0, <2>3, <3>1, <1>5
  <2> QED
    BY <2>0, <2>1, <2>2, <2>3
<1>8. Len(a \o b) \in Nat
  BY <1>3, <1>5
<1> QED
  BY <1>5, <1>7, <1>8

-----------------------------------------------------------------------------
(* Types. *)

\* What an import works on: a calendar and the rows of external reservations.
States == [rem : [Dates -> Nat], res : [Reservations -> ReservationRows]]

\* What a sync under way holds.
SyncRecords ==
    [pc : {"IDLE", "LISTED", "READ"}, imported : SUBSET Events,
     feed : [Events -> FeedEntries], seen : [Events -> ReservationRows]]

LEMMA RangesAreDates == Ranges \subseteq SUBSET Dates
BY DEF Ranges

LEMMA TypeInit == Init => TypeOK
BY UnitAssumption, SyncAssumption
DEF Init, TypeOK, NoReservation, Gone, Idle, FeedEntries, ReservationRows

LEMMA RestoredType ==
    ASSUME NEW rem \in [Dates -> Nat], NEW ds
    PROVE  Restored(rem, ds) \in [Dates -> Nat]
BY DEF Restored

LEMMA ConsumedType ==
    ASSUME NEW rem \in [Dates -> Nat], NEW ds, Fits(rem, ds)
    PROVE  Consumed(rem, ds) \in [Dates -> Nat]
BY DEF Consumed, Fits

\* What a sync has fetched and read of an event are dates of the calendar.
LEMMA ReadType ==
    ASSUME TypeOK, NEW s \in Syncs, NEW e \in Events
    PROVE  /\ sync[s].seen[e] \in ReservationRows
           /\ sync[s].feed[e].dates \in SUBSET Dates
<1>1. sync[s].feed[e] \in FeedEntries /\ sync[s].seen[e] \in ReservationRows
  BY DEF TypeOK
<1> QED
  BY <1>1, RangesAreDates DEF FeedEntries, Gone

LEMMA ApplyType ==
    ASSUME TypeOK, NEW s \in Syncs, NEW st \in States, NEW e \in Events
    PROVE  ApplySystemExternalReservation(s, st, e) \in States
<1> DEFINE old == sync[s].seen[e]
           ds == sync[s].feed[e].dates
           back == Restored(st.rem, old.dates)
           new == [st.res EXCEPT ![e] = [status |-> "ACTIVE", dates |-> ds]]
           moved == [st.res EXCEPT ![e].dates = ds]
<1>1. back \in [Dates -> Nat] /\ st.rem \in [Dates -> Nat]
  BY RestoredType DEF States
<1>2. new \in [Reservations -> ReservationRows] /\ moved \in [Reservations -> ReservationRows]
  BY ReadType DEF States, Reservations, ReservationRows
<1>3. Fits(st.rem, ds) => [rem |-> Consumed(st.rem, ds), res |-> new] \in States
  BY <1>1, <1>2, ConsumedType DEF States
<1>4. Fits(back, ds) => [rem |-> Consumed(back, ds), res |-> moved] \in States
  <2> HIDE DEF back
  <2> QED
    BY <1>1, <1>2, ConsumedType DEF States
<1> QED
  BY <1>3, <1>4 DEF ApplySystemExternalReservation

LEMMA CancelType ==
    ASSUME NEW s \in Syncs, NEW st \in States, NEW e \in Events
    PROVE  CancelSystemExternalReservation(s, st, e) \in States
<1> DEFINE gone == [st.res EXCEPT ![e].status = "CANCELLED"]
<1>1. gone \in [Reservations -> ReservationRows]
  BY DEF States, Reservations, ReservationRows
<1>2. Restored(st.rem, st.res[e].dates) \in [Dates -> Nat]
  BY RestoredType DEF States
<1> QED
  BY <1>1, <1>2 DEF CancelSystemExternalReservation, States

LEMMA EventType ==
    ASSUME TypeOK, NEW s \in Syncs, NEW st \in States, NEW e \in Events
    PROVE  ImportEvent(s, st, e) \in States
BY ApplyType, CancelType DEF ImportEvent

\* The orders of SyncCommits are orders of events.
LEMMA CommitOrders ==
    ASSUME TypeOK, NEW s \in Syncs, SyncCommits(s)
    PROVE  \E q \in Seq(Events) :
              /\ Len(q) \in Nat
              /\ \A i, j \in 1..Len(q) : i # j => q[i] # q[j]
              /\ remaining' = ImportAvailability(s, q).rem
              /\ reservation' = ImportAvailability(s, q).res
<1> DEFINE S == {e \in Events : sync[s].feed[e].status # "ABSENT"}
           R == sync[s].imported \ S
<1>1. S \subseteq Events /\ R \subseteq Events /\ S \cap R = {}
  BY DEF TypeOK
<1>2. PICK a \in SetToSeqs(S), b \in SetToSeqs(R) :
          /\ remaining' = ImportAvailability(s, a \o b).rem
          /\ reservation' = ImportAvailability(s, a \o b).res
  BY DEF SyncCommits
<1>3. /\ a \o b \in Seq(S \cup R)
      /\ Len(a \o b) \in Nat
      /\ \A i, j \in 1..Len(a \o b) : i # j => (a \o b)[i] # (a \o b)[j]
  <2> HIDE DEF S, R
  <2> QED
    BY <1>1, OrderIsInjective
<1>4. a \o b \in Seq(Events)
  <2> HIDE DEF S, R
  <2>1. S \cup R \subseteq Events
    BY <1>1
  <2> QED
    BY <1>3, <2>1
<1> QED
  BY <1>2, <1>3, <1>4

LEMMA ImportType ==
    ASSUME TypeOK, NEW s \in Syncs, NEW q \in Seq(Events)
    PROVE  ImportAvailability(s, q) \in States
<1>0. Len(q) \in Nat
  OBVIOUS
<1>1. PICK f : IsRun(f, s, q, Len(q)) /\ ImportAvailability(s, q) = f[Len(q)]
  BY <1>0, ImportIsRun
<1> DEFINE T == {i \in 0..Len(q) : f[i] \in States}
<1>2. 0 \in T
  BY <1>0, <1>1 DEF IsRun, States, TypeOK
<1>3. ASSUME NEW i \in 1..Len(q), i - 1 \in T PROVE i \in T
  <2>1. f[i] = ImportEvent(s, f[i - 1], q[i]) /\ q[i] \in Events
    BY <1>0, <1>1 DEF IsRun
  <2> QED
    BY <1>3, <2>1, EventType
<1>4. Len(q) \in T
  <2> HIDE DEF T
  <2>1. \A i \in 0..Len(q) : i \in T
    BY <1>0, <1>2, <1>3, Induction
  <2> QED
    BY <1>0, <2>1
<1> QED
  BY <1>1, <1>4

LEMMA TypeStep == TypeOK /\ [Next]_vars => TypeOK'
<1> SUFFICES ASSUME TypeOK, [Next]_vars PROVE TypeOK'
  OBVIOUS
<1>1. ASSUME NEW d \in Dates, OthersTake(d) PROVE TypeOK'
  <2>1. Fits(remaining, {d})
    BY <1>1 DEF OthersTake, Fits
  <2>2. remaining' \in [Dates -> Nat]
    BY <1>1, <2>1, ConsumedType DEF OthersTake, TypeOK
  <2>3. others' \in [Dates -> Nat]
    BY <1>1 DEF OthersTake, TypeOK
  <2> QED
    BY <1>1, <2>2, <2>3 DEF OthersTake, TypeOK
<1>2. ASSUME NEW d \in Dates, OthersReturn(d) PROVE TypeOK'
  <2>1. remaining' \in [Dates -> Nat]
    BY <1>2, RestoredType DEF OthersReturn, TypeOK
  <2>2. others' \in [Dates -> Nat]
    BY <1>2 DEF OthersReturn, TypeOK
  <2> QED
    BY <1>2, <2>1, <2>2 DEF OthersReturn, TypeOK
<1>3. ASSUME NEW r \in Rows, NEW ds \in Ranges, CreateExternalReservation(r, ds)
      PROVE  TypeOK'
  <2>1. remaining' \in [Dates -> Nat]
    BY <1>3, ConsumedType DEF CreateExternalReservation, TypeOK
  <2>2. reservation' \in [Reservations -> ReservationRows]
    BY <1>3, RangesAreDates DEF CreateExternalReservation, TypeOK, ReservationRows, Reservations
  <2> QED
    BY <1>3, <2>1, <2>2 DEF CreateExternalReservation, TypeOK
<1>4. ASSUME NEW r \in Rows, NEW ds \in Ranges, BulkRowIsNew(r, ds)
      PROVE  TypeOK'
  <2>1. reservation' \in [Reservations -> ReservationRows]
    BY <1>4, RangesAreDates DEF BulkRowIsNew, TypeOK, ReservationRows, Reservations
  <2> QED
    BY <1>4, <2>1 DEF BulkRowIsNew, TypeOK
<1>5. ASSUME NEW r \in Rows, BulkRowIsWritten(r) PROVE TypeOK'
  <2> DEFINE ds == FittingPrefix(remaining, reservation[r].dates)
  <2>1. Fits(remaining, ds)
    BY UnitAssumption, <1>5 DEF Fits, FittingPrefix, TypeOK, ReservationRows, Reservations
  <2>2. remaining' \in [Dates -> Nat]
    <3>1. remaining' = Consumed(remaining, ds)
      BY <1>5 DEF BulkRowIsWritten
    <3> HIDE DEF ds
    <3> QED
      BY <2>1, <3>1, ConsumedType DEF TypeOK
  <2>3. reservation' \in [Reservations -> ReservationRows]
    BY <1>5 DEF BulkRowIsWritten, TypeOK, ReservationRows, Reservations
  <2> QED
    BY <1>5, <2>2, <2>3 DEF BulkRowIsWritten, TypeOK
<1>6. ASSUME NEW r \in Reservations, CancelExternalReservation(r) PROVE TypeOK'
  <2>1. remaining' \in [Dates -> Nat]
    BY <1>6, RestoredType DEF CancelExternalReservation, TypeOK
  <2>2. reservation' \in [Reservations -> ReservationRows]
    BY <1>6 DEF CancelExternalReservation, TypeOK, ReservationRows
  <2> QED
    BY <1>6, <2>1, <2>2 DEF CancelExternalReservation, TypeOK
<1>7. ASSUME NEW e \in Events, NEW entry \in FeedEntries, FeedChanges(e, entry)
      PROVE  TypeOK'
  BY <1>7, SyncAssumption DEF FeedChanges, TypeOK
<1>8. ASSUME NEW s \in Syncs, SyncStarts(s) PROVE TypeOK'
  <2>1. {e \in Events : Active(e)} \in SUBSET Events
    OBVIOUS
  <2>2. sync[s] \in SyncRecords
    BY DEF TypeOK, SyncRecords
  <2>3. [sync[s] EXCEPT !.pc = "LISTED", !.imported = {e \in Events : Active(e)}] \in SyncRecords
    BY <2>1, <2>2 DEF SyncRecords
  <2>4. sync' \in [Syncs -> SyncRecords]
    BY <1>8, <2>3 DEF SyncStarts, TypeOK, SyncRecords
  <2> QED
    BY <1>8, <2>4 DEF SyncStarts, TypeOK, SyncRecords
<1>9. ASSUME NEW s \in Syncs, SyncReads(s) PROVE TypeOK'
  <2>1. [e \in Events |-> reservation[e]] \in [Events -> ReservationRows]
    BY DEF TypeOK, Reservations
  <2>2. sync[s] \in SyncRecords /\ feed \in [Events -> FeedEntries]
    BY DEF TypeOK, SyncRecords
  <2>3. [sync[s] EXCEPT !.pc = "READ", !.feed = feed,
                        !.seen = [e \in Events |-> reservation[e]]] \in SyncRecords
    BY <2>1, <2>2 DEF SyncRecords
  <2>4. sync' \in [Syncs -> SyncRecords]
    BY <1>9, <2>3 DEF SyncReads, TypeOK, SyncRecords
  <2> QED
    BY <1>9, <2>4 DEF SyncReads, TypeOK, SyncRecords
<1>10. ASSUME NEW s \in Syncs, sync' = [sync EXCEPT ![s] = Idle]
       PROVE  sync' \in [Syncs -> SyncRecords]
  BY <1>10 DEF TypeOK, SyncRecords, Idle, Gone, NoReservation, FeedEntries, ReservationRows
<1>11. ASSUME NEW s \in Syncs, SyncCommits(s) PROVE TypeOK'
  <2>1. PICK q \in Seq(Events) : /\ remaining' = ImportAvailability(s, q).rem
                                 /\ reservation' = ImportAvailability(s, q).res
    BY <1>11, CommitOrders
  <2>2. /\ remaining' \in [Dates -> Nat]
        /\ reservation' \in [Reservations -> ReservationRows]
    BY <2>1, ImportType DEF States
  <2> QED
    BY <1>10, <1>11, <2>2 DEF SyncCommits, TypeOK, SyncRecords
<1>12. ASSUME NEW s \in Syncs, SyncFails(s) PROVE TypeOK'
  BY <1>10, <1>12 DEF SyncFails, TypeOK, SyncRecords
<1>13. CASE UNCHANGED vars
  BY <1>13 DEF vars, TypeOK
<1> QED
  BY <1>1, <1>2, <1>3, <1>4, <1>5, <1>6, <1>7, <1>8, <1>9, <1>11, <1>12, <1>13
  DEF Next, PartnerNext, SyncNext

\* No count of a calendar is ever below zero, and no row and no snapshot of a
\* sync has dates the calendar does not have: whatever CSV rows are stored
\* with a conflict, and whatever a sync imports from a snapshot out of date.
THEOREM TypesAreKept == Spec => []TypeOK
BY TypeInit, TypeStep, PTL DEF Spec

-----------------------------------------------------------------------------
(* Counting the units reservations hold. *)

Holds(res, r, d) == res[r].status = "ACTIVE" /\ d \in res[r].dates

\* The units the reservations res hold on date d.
HeldIn(res, d) == Cardinality({r \in Reservations : Holds(res, r, d)})

Units(res, r, d) == IF Holds(res, r, d) THEN 1 ELSE 0

\* The units of date d an import has to do with: for sale, or held.
Total(st, d) == st.rem[d] + HeldIn(st.res, d)

Present == [rem |-> remaining, res |-> reservation]

LEMMA ReservationsAreFinite == IsFiniteSet(Reservations)
BY RowsAssumption, FS_Union DEF Reservations

LEMMA HeldInType == \A res, d : HeldIn(res, d) \in Nat
<1> TAKE res, d
<1>1. {r \in Reservations : Holds(res, r, d)} \in SUBSET Reservations
  OBVIOUS
<1> QED
  BY <1>1, ReservationsAreFinite, FS_Subset, FS_CardinalityType DEF HeldIn

LEMMA BalanceIsTotal ==
    ASSUME TypeOK, NEW d \in Dates
    PROVE  /\ Balance(d) = Total(Present, d) + others[d]
           /\ Total(Present, d) \in Nat /\ others[d] \in Nat /\ Reserved(d) \in Nat
<1>1. Reserved(d) = HeldIn(reservation, d)
  BY DEF Reserved, Active, HeldIn, Holds
<1>2. HeldIn(reservation, d) \in Nat
  BY HeldInType
<1>3. remaining[d] \in Nat /\ others[d] \in Nat
  BY DEF TypeOK
<1>4. Present.rem = remaining /\ Present.res = reservation
  BY DEF Present
<1>5. Total(Present, d) = remaining[d] + HeldIn(reservation, d)
  BY <1>4 DEF Total
<1> QED
  BY <1>1, <1>2, <1>3, <1>5 DEF Balance

\* Writing one row changes what is held by what that row holds.
LEMMA OneRowChanges ==
    ASSUME NEW res, NEW new, NEW r \in Reservations, NEW d,
           \A x \in Reservations \ {r} : new[x] = res[x]
    PROVE  HeldIn(new, d) = HeldIn(res, d) - Units(res, r, d) + Units(new, r, d)
<1> DEFINE A == {x \in Reservations : Holds(res, x, d)}
           B == {x \in Reservations : Holds(new, x, d)}
<1>1. A \in SUBSET Reservations /\ B \in SUBSET Reservations
  OBVIOUS
<1>2. A \ {r} = B \ {r}
  BY DEF Holds
<1>3. /\ r \in A <=> Holds(res, r, d)
      /\ r \in B <=> Holds(new, r, d)
  OBVIOUS
<1>4. HeldIn(res, d) = Cardinality(A) /\ HeldIn(new, d) = Cardinality(B)
  BY DEF HeldIn
<1> HIDE DEF A, B
<1>5. IsFiniteSet(A) /\ IsFiniteSet(B)
  BY <1>1, ReservationsAreFinite, FS_Subset
<1>6. Cardinality(A) \in Nat /\ Cardinality(B) \in Nat
  BY <1>5, FS_CardinalityType
<1>7. Cardinality(A \ {r}) = Cardinality(A) - Units(res, r, d)
  <2>1. Cardinality(A \ {r}) = IF r \in A THEN Cardinality(A) - 1 ELSE Cardinality(A)
    BY <1>5, FS_RemoveElement
  <2>2. Units(res, r, d) = IF r \in A THEN 1 ELSE 0
    BY <1>3 DEF Units
  <2> QED
    BY <1>6, <2>1, <2>2
<1>8. Cardinality(B \ {r}) = Cardinality(B) - Units(new, r, d)
  <2>1. Cardinality(B \ {r}) = IF r \in B THEN Cardinality(B) - 1 ELSE Cardinality(B)
    BY <1>5, FS_RemoveElement
  <2>2. Units(new, r, d) = IF r \in B THEN 1 ELSE 0
    BY <1>3 DEF Units
  <2> QED
    BY <1>6, <2>1, <2>2
<1> QED
  BY <1>2, <1>4, <1>6, <1>7, <1>8 DEF Units

\* Whoever writes one row and moves the calendar by what the row holds more or
\* less keeps the units of the date.
LEMMA OneRowTotal ==
    ASSUME NEW st \in States, NEW st2 \in States, NEW r \in Reservations, NEW d \in Dates,
           \A x \in Reservations \ {r} : st2.res[x] = st.res[x],
           st2.rem[d] = st.rem[d] + Units(st.res, r, d) - Units(st2.res, r, d)
    PROVE  Total(st2, d) = Total(st, d)
<1>1. HeldIn(st2.res, d) = HeldIn(st.res, d) - Units(st.res, r, d) + Units(st2.res, r, d)
  <2> DEFINE a == st.res
             b == st2.res
  <2>1. \A x \in Reservations \ {r} : b[x] = a[x]
    OBVIOUS
  <2> HIDE DEF a, b
  <2>2. HeldIn(b, d) = HeldIn(a, d) - Units(a, r, d) + Units(b, r, d)
    BY <2>1, OneRowChanges
  <2> QED
    BY <2>2 DEF a, b
<1>2. HeldIn(st.res, d) \in Nat /\ st.rem[d] \in Nat
  BY HeldInType DEF States
<1>3. Units(st.res, r, d) \in Nat /\ Units(st2.res, r, d) \in Nat
  BY DEF Units
<1> QED
  BY <1>1, <1>2, <1>3 DEF Total

-----------------------------------------------------------------------------
(* One event of an import. *)

\* Sync s does not misjudge night d of event e.
Judged(s, e, d) == ~(StaleMove(s, e) /\ d \in Misjudged(s, e))

LEMMA ApplyKeepsTotal ==
    ASSUME TypeOK, NEW s \in Syncs, HasRead(s), NEW st \in States, NEW e \in Events,
           NEW d \in Dates, st.res[e] = reservation[e], Judged(s, e, d),
           sync[s].feed[e].status = "BOOKED"
    PROVE  LET st2 == ApplySystemExternalReservation(s, st, e) IN
           /\ Total(st2, d) = Total(st, d)
           /\ \A x \in Reservations \ {e} : st2.res[x] = st.res[x]
<1> DEFINE old == sync[s].seen[e]
           ds == sync[s].feed[e].dates
           back == Restored(st.rem, old.dates)
           new == [st.res EXCEPT ![e] = [status |-> "ACTIVE", dates |-> ds]]
           moved == [st.res EXCEPT ![e].dates = ds]
           st2 == ApplySystemExternalReservation(s, st, e)
<1>0. /\ e \in Reservations
      /\ st2 \in States
      /\ st.rem \in [Dates -> Nat] /\ st.res \in [Reservations -> ReservationRows]
  BY ApplyType DEF Reservations, States
<1>1. CASE old.status = "NONE" /\ st.res[e].status = "NONE" /\ Fits(st.rem, ds)
  <2>1. st2 = [rem |-> Consumed(st.rem, ds), res |-> new]
    BY <1>1 DEF ApplySystemExternalReservation
  <2>2. /\ st2.res[e] = [status |-> "ACTIVE", dates |-> ds]
        /\ \A x \in Reservations \ {e} : st2.res[x] = st.res[x]
    BY <1>0, <2>1
  <2>3. st2.rem[d] = st.rem[d] + Units(st.res, e, d) - Units(st2.res, e, d)
    BY <1>0, <1>1, <2>1, <2>2 DEF Consumed, Units, Holds
  <2>4. Total(st2, d) = Total(st, d)
    <3> HIDE DEF st2
    <3> QED
      BY <1>0, <2>2, <2>3, OneRowTotal
  <2> QED
    BY <2>2, <2>4
<1>2. CASE old.status # "NONE" /\ old.dates # ds /\ Fits(back, ds)
  <2>0. \/ st.res[e].status = "ACTIVE" /\ (d \in old.dates <=> d \in st.res[e].dates)
        \/ st.res[e].status # "ACTIVE" /\ (d \in old.dates <=> d \in ds)
    BY <1>2 DEF Judged, StaleMove, Misjudged, Moving, Active
  <2>1. st2 = [rem |-> Consumed(back, ds), res |-> moved]
    BY <1>2 DEF ApplySystemExternalReservation
  <2>2. /\ st2.res[e].status = st.res[e].status /\ st2.res[e].dates = ds
        /\ \A x \in Reservations \ {e} : st2.res[x] = st.res[x]
    BY <1>0, <2>1 DEF ReservationRows
  <2>3. back[d] = (IF d \in old.dates THEN st.rem[d] + 1 ELSE st.rem[d]) /\ st.rem[d] \in Nat
    BY <1>0 DEF Restored
  <2>4. st2.rem[d] = IF d \in ds THEN back[d] - 1 ELSE back[d]
    BY <2>1 DEF Consumed
  <2>5. st2.rem[d] = st.rem[d] + Units(st.res, e, d) - Units(st2.res, e, d)
    <3> HIDE DEF back, st2, old, ds
    <3> QED
      BY <2>0, <2>2, <2>3, <2>4 DEF Units, Holds
  <2>6. Total(st2, d) = Total(st, d)
    <3> HIDE DEF st2
    <3> QED
      BY <1>0, <2>2, <2>5, OneRowTotal
  <2> QED
    BY <2>2, <2>6
<1>3. CASE st2 = st
  BY <1>3
<1> QED
  BY <1>1, <1>2, <1>3 DEF ApplySystemExternalReservation

LEMMA CancelKeepsTotal ==
    ASSUME NEW s \in Syncs, NEW st \in States, NEW e \in Events, NEW d \in Dates
    PROVE  LET st2 == CancelSystemExternalReservation(s, st, e) IN
           /\ Total(st2, d) = Total(st, d)
           /\ \A x \in Reservations \ {e} : st2.res[x] = st.res[x]
<1> DEFINE gone == [st.res EXCEPT ![e].status = "CANCELLED"]
           st2 == CancelSystemExternalReservation(s, st, e)
<1>0. /\ e \in Reservations
      /\ st2 \in States
      /\ st.rem \in [Dates -> Nat] /\ st.res \in [Reservations -> ReservationRows]
  BY CancelType DEF Reservations, States
<1>1. CASE sync[s].seen[e].status # "NONE" /\ st.res[e].status = "ACTIVE"
  <2>1. st2 = [rem |-> Restored(st.rem, st.res[e].dates), res |-> gone]
    BY <1>1 DEF CancelSystemExternalReservation
  <2>2. /\ st2.res[e].status = "CANCELLED"
        /\ \A x \in Reservations \ {e} : st2.res[x] = st.res[x]
    BY <1>0, <2>1 DEF ReservationRows
  <2>3. st2.rem[d] = st.rem[d] + Units(st.res, e, d) - Units(st2.res, e, d)
    BY <1>0, <1>1, <2>1, <2>2 DEF Restored, Units, Holds
  <2>4. Total(st2, d) = Total(st, d)
    <3> HIDE DEF st2
    <3> QED
      BY <1>0, <2>2, <2>3, OneRowTotal
  <2> QED
    BY <2>2, <2>4
<1>2. CASE st2 = st
  BY <1>2
<1> QED
  BY <1>1, <1>2 DEF CancelSystemExternalReservation

LEMMA EventKeepsTotal ==
    ASSUME TypeOK, NEW s \in Syncs, HasRead(s), NEW st \in States, NEW e \in Events,
           NEW d \in Dates, st.res[e] = reservation[e], Judged(s, e, d)
    PROVE  LET st2 == ImportEvent(s, st, e) IN
           /\ Total(st2, d) = Total(st, d)
           /\ \A x \in Reservations \ {e} : st2.res[x] = st.res[x]
<1>1. CASE sync[s].feed[e].status = "BOOKED"
  BY <1>1, ApplyKeepsTotal DEF ImportEvent
<1>2. CASE sync[s].feed[e].status # "BOOKED"
  BY <1>2, CancelKeepsTotal DEF ImportEvent
<1> QED
  BY <1>1, <1>2

\* A whole import keeps the units of a night it does not misjudge, after every
\* event, because no event is imported twice and each is imported from the row
\* it had before.
LEMMA ImportKeepsTotal ==
    ASSUME TypeOK, NEW s \in Syncs, HasRead(s), NEW q \in Seq(Events),
           \A i, j \in 1..Len(q) : i # j => q[i] # q[j],
           NEW d \in Dates, \A e \in Events : Judged(s, e, d)
    PROVE  Total(ImportAvailability(s, q), d) = Total(Present, d)
<1>0. Len(q) \in Nat
  OBVIOUS
<1>1. PICK f : IsRun(f, s, q, Len(q)) /\ ImportAvailability(s, q) = f[Len(q)]
  BY <1>0, ImportIsRun
<1> DEFINE Good(i) == /\ f[i] \in States
                      /\ Total(f[i], d) = Total(Present, d)
                      /\ \A j \in (i + 1)..Len(q) : f[i].res[q[j]] = reservation[q[j]]
           T == {i \in 0..Len(q) : Good(i)}
<1>2. 0 \in T
  <2>1. f[0] = Present
    BY <1>0, <1>1 DEF IsRun, Present
  <2>2. Present \in States
    BY DEF TypeOK, States, Present
  <2>3. Present.res = reservation
    BY DEF Present
  <2> QED
    BY <1>0, <2>1, <2>2, <2>3
<1>3. ASSUME NEW i \in 1..Len(q), i - 1 \in T PROVE i \in T
  <2> DEFINE e == q[i]
             st == f[i - 1]
  <2>0. /\ i \in Nat /\ i - 1 \in 0..Len(q) /\ i \in 0..Len(q)
        /\ e \in Events
        /\ f[i] = ImportEvent(s, st, e)
    <3>1. i \in Nat /\ i - 1 \in 0..Len(q) /\ i \in 0..Len(q) /\ i # 0
      BY <1>0
    <3>2. e \in Events
      BY <1>0
    <3>3. f[i] = ImportEvent(s, st, e)
      BY <1>1, <3>1 DEF IsRun
    <3> QED
      BY <3>1, <3>2, <3>3
  <2>1. /\ st \in States
        /\ Total(st, d) = Total(Present, d)
        /\ \A j \in i..Len(q) : st.res[q[j]] = reservation[q[j]]
    BY <1>3, <2>0
  <2>2. st.res[e] = reservation[e]
    BY <1>0, <2>0, <2>1
  <2> HIDE DEF e, st, T
  <2>3. /\ Total(f[i], d) = Total(st, d)
        /\ \A x \in Reservations \ {e} : f[i].res[x] = st.res[x]
    BY <2>0, <2>1, <2>2, EventKeepsTotal
  <2>4. f[i] \in States
    BY <1>0, <2>0, <2>1, EventType
  <2>5. \A j \in (i + 1)..Len(q) : f[i].res[q[j]] = reservation[q[j]]
    <3> SUFFICES ASSUME NEW j \in (i + 1)..Len(q)
                 PROVE  f[i].res[q[j]] = reservation[q[j]]
      OBVIOUS
    <3>1. j \in 1..Len(q) /\ j \in i..Len(q) /\ i # j
      BY <1>0, <2>0
    <3>2. q[j] \in Reservations /\ q[j] # e
      BY <3>1 DEF e, Reservations
    <3> QED
      BY <2>1, <2>3, <3>1, <3>2
  <2> QED
    BY <2>0, <2>1, <2>3, <2>4, <2>5 DEF T
<1>4. Len(q) \in T
  <2> HIDE DEF T
  <2>1. \A i \in 0..Len(q) : i \in T
    BY <1>0, <1>2, <1>3, Induction
  <2> QED
    BY <1>0, <2>1
<1> QED
  BY <1>1, <1>4

-----------------------------------------------------------------------------
(* Every step keeps the units of the nights it does not misjudge. *)

\* A step of the partner that writes one row.
LEMMA OneRowStep ==
    ASSUME TypeOK, TypeOK', others' = others, NEW d \in Dates, NEW r \in Reservations,
           \A x \in Reservations \ {r} : reservation'[x] = reservation[x],
           remaining'[d] = remaining[d] + Units(reservation, r, d) - Units(reservation', r, d)
    PROVE  Balance(d)' = Balance(d)
<1> DEFINE a == reservation
           b == reservation'
<1>1. HeldIn(b, d) = HeldIn(a, d) - Units(a, r, d) + Units(b, r, d)
  <2>1. \A x \in Reservations \ {r} : b[x] = a[x]
    OBVIOUS
  <2> HIDE DEF a, b
  <2> QED
    BY <2>1, OneRowChanges
<1>2. Reserved(d) = HeldIn(a, d) /\ Reserved(d)' = HeldIn(b, d)
  BY DEF Reserved, Active, HeldIn, Holds
<1>3. HeldIn(a, d) \in Nat /\ Units(a, r, d) \in Nat /\ Units(b, r, d) \in Nat
  BY HeldInType DEF Units
<1>4. remaining[d] \in Nat /\ remaining'[d] \in Nat /\ others[d] \in Nat
  BY DEF TypeOK
<1>5. remaining'[d] = remaining[d] + Units(a, r, d) - Units(b, r, d)
  OBVIOUS
<1>6. Balance(d) = remaining[d] + others[d] + Reserved(d)
      /\ Balance(d)' = remaining'[d] + others[d] + Reserved(d)'
  BY DEF Balance
<1> HIDE DEF a, b
<1> QED
  BY <1>1, <1>2, <1>3, <1>4, <1>5, <1>6

\* A step that leaves the rows that are or become active as they were.
LEMMA ReservedUnchanged ==
    ASSUME NEW d \in Dates,
           \A x \in Reservations : Active(x)' = Active(x)
                /\ (Active(x) => reservation'[x] = reservation[x])
    PROVE  Reserved(d)' = Reserved(d)
<1>1. {r \in Reservations : Active(r)' /\ d \in reservation'[r].dates}
        = {r \in Reservations : Active(r) /\ d \in reservation[r].dates}
  BY Zenon
<1> QED
  BY <1>1 DEF Reserved

LEMMA CommitKeepsBalance ==
    ASSUME TypeOK, TypeOK', NEW s \in Syncs, SyncCommits(s), NEW d \in Dates,
           \A e \in Events : Judged(s, e, d)
    PROVE  Balance(d)' = Balance(d)
<1>0. HasRead(s) /\ others' = others
  BY DEF SyncCommits
<1>1. PICK q \in Seq(Events) : /\ \A i, j \in 1..Len(q) : i # j => q[i] # q[j]
                               /\ remaining' = ImportAvailability(s, q).rem
                               /\ reservation' = ImportAvailability(s, q).res
  BY CommitOrders
<1> DEFINE st == ImportAvailability(s, q)
<1>2. Total(st, d) = Total(Present, d)
  BY <1>0, <1>1, ImportKeepsTotal
<1>3. remaining' = st.rem /\ reservation' = st.res
  BY <1>1
<1> HIDE DEF st
<1>4. Reserved(d)' = HeldIn(st.res, d)
  BY <1>3 DEF Reserved, Active, HeldIn, Holds
<1>5. Total(st, d) = remaining'[d] + Reserved(d)'
  BY <1>3, <1>4 DEF Total
<1>6. Balance(d) = Total(Present, d) + others[d]
      /\ Total(Present, d) \in Nat /\ others[d] \in Nat
  BY BalanceIsTotal
<1>7. remaining'[d] \in Nat /\ Reserved(d)' \in Nat
  BY <1>4, HeldInType DEF TypeOK
<1>8. Balance(d)' = remaining'[d] + others[d] + Reserved(d)'
  BY <1>0 DEF Balance
<1>9. remaining'[d] + Reserved(d)' = Total(Present, d)
  BY <1>2, <1>5
<1> QED
  BY <1>6, <1>7, <1>8, <1>9

LEMMA BalanceSteps ==
    ASSUME TypeOK, TypeOK', [Next]_vars, NEW d \in Dates
    PROVE  BalanceStep(d)
<1>0. /\ remaining \in [Dates -> Nat] /\ others \in [Dates -> Nat]
      /\ reservation \in [Reservations -> ReservationRows]
      /\ Reserved(d) \in Nat
  BY BalanceIsTotal DEF TypeOK
<1>1. ASSUME NEW x \in Dates, OthersTake(x) \/ OthersReturn(x) PROVE Balance(d)' = Balance(d)
  <2>0. remaining[d] \in Nat /\ others[d] \in Nat
        /\ remaining'[d] \in Nat /\ others'[d] \in Nat
    BY DEF TypeOK
  <2>1. remaining'[d] + others'[d] = remaining[d] + others[d]
    <3>1. CASE OthersTake(x)
      <4>1. remaining'[d] = IF d = x THEN remaining[d] - 1 ELSE remaining[d]
        BY <3>1 DEF OthersTake, Consumed
      <4>2. others'[d] = IF d = x THEN others[d] + 1 ELSE others[d]
        BY <1>0, <3>1 DEF OthersTake
      <4> QED
        BY <2>0, <4>1, <4>2
    <3>2. CASE OthersReturn(x)
      <4>1. remaining'[d] = IF d = x THEN remaining[d] + 1 ELSE remaining[d]
        BY <3>2 DEF OthersReturn, Restored
      <4>2. others'[d] = IF d = x THEN others[d] - 1 ELSE others[d]
        BY <1>0, <3>2 DEF OthersReturn
      <4> QED
        BY <2>0, <4>1, <4>2
    <3> QED
      BY <1>1, <3>1, <3>2
  <2>2. Reserved(d)' = Reserved(d)
    BY <1>1, ReservedUnchanged DEF OthersTake, OthersReturn, Active
  <2>3. Balance(d)' = remaining'[d] + others'[d] + Reserved(d)
    BY <2>2 DEF Balance
  <2> QED
    BY <1>0, <2>0, <2>1, <2>3 DEF Balance
<1>2. ASSUME NEW r \in Rows, NEW ds \in Ranges, CreateExternalReservation(r, ds)
      PROVE  Balance(d)' = Balance(d)
  <2>1. /\ r \in Reservations
        /\ reservation[r].status = "NONE"
        /\ reservation'[r] = [status |-> "ACTIVE", dates |-> ds]
        /\ \A x \in Reservations \ {r} : reservation'[x] = reservation[x]
        /\ others' = others /\ remaining' = Consumed(remaining, ds)
    BY <1>0, <1>2 DEF CreateExternalReservation, Reservations
  <2>2. remaining'[d] = remaining[d] + Units(reservation, r, d) - Units(reservation', r, d)
    BY <1>0, <2>1 DEF Consumed, Units, Holds
  <2> QED
    BY <2>1, <2>2, OneRowStep
<1>3. ASSUME NEW r \in Rows, NEW ds \in Ranges, BulkRowIsNew(r, ds)
      PROVE  Balance(d)' = Balance(d)
  <2>1. Reserved(d)' = Reserved(d)
    BY <1>0, <1>3, ReservedUnchanged DEF BulkRowIsNew, Active, Reservations
  <2> QED
    BY <1>3, <2>1 DEF BulkRowIsNew, Balance
<1>4. ASSUME NEW r \in Rows, BulkRowIsWritten(r), d \notin Unfitting(r)
      PROVE  Balance(d)' = Balance(d)
  <2> DEFINE ds == reservation[r].dates
             fit == FittingPrefix(remaining, ds)
  <2>1. /\ r \in Reservations
        /\ reservation[r].status = "CHECKED"
        /\ reservation'[r].status = "ACTIVE" /\ reservation'[r].dates = ds
        /\ \A x \in Reservations \ {r} : reservation'[x] = reservation[x]
        /\ others' = others /\ remaining' = Consumed(remaining, fit)
    BY <1>0, <1>4 DEF BulkRowIsWritten, Reservations, ReservationRows
  <2>2. d \in fit <=> d \in ds
    BY <1>4 DEF Unfitting, FittingPrefix
  <2>3. remaining'[d] = remaining[d] + Units(reservation, r, d) - Units(reservation', r, d)
    <3>1. remaining'[d] = IF d \in ds THEN remaining[d] - 1 ELSE remaining[d]
      BY <2>1, <2>2 DEF Consumed
    <3>2. Units(reservation, r, d) = 0
      BY <2>1 DEF Units, Holds
    <3>3. Units(reservation', r, d) = IF d \in ds THEN 1 ELSE 0
      BY <2>1 DEF Units, Holds
    <3> HIDE DEF ds
    <3> QED
      BY <1>0, <3>1, <3>2, <3>3
  <2> QED
    BY <2>1, <2>3, OneRowStep
<1>5. ASSUME NEW r \in Reservations, CancelExternalReservation(r)
      PROVE  Balance(d)' = Balance(d)
  <2>1. /\ reservation[r].status = "ACTIVE"
        /\ reservation'[r].status = "CANCELLED"
        /\ \A x \in Reservations \ {r} : reservation'[x] = reservation[x]
        /\ others' = others /\ remaining' = Restored(remaining, reservation[r].dates)
    BY <1>0, <1>5 DEF CancelExternalReservation, Active, ReservationRows
  <2>2. remaining'[d] = remaining[d] + Units(reservation, r, d) - Units(reservation', r, d)
    BY <1>0, <2>1 DEF Restored, Units, Holds
  <2> QED
    BY <2>1, <2>2, OneRowStep
<1>6. ASSUME UNCHANGED <<remaining, others, reservation>> PROVE Balance(d)' = Balance(d)
  <2>1. Reserved(d)' = Reserved(d)
    BY <1>6, ReservedUnchanged DEF Active
  <2> QED
    BY <1>6, <2>1 DEF Balance
<1>7. ASSUME NEW s \in Syncs, SyncCommits(s) PROVE BalanceStep(d)
  <2>1. CASE \A e \in Events : Judged(s, e, d)
    BY <1>7, <2>1, CommitKeepsBalance DEF BalanceStep
  <2>2. CASE \E e \in Events : ~Judged(s, e, d)
    BY <1>7, <2>2 DEF BalanceStep, Judged
  <2> QED
    BY <2>1, <2>2
<1>8. ASSUME NEW r \in Rows, BulkRowIsWritten(r) PROVE BalanceStep(d)
  BY <1>4, <1>8 DEF BalanceStep
<1>9. Balance(d)' = Balance(d) => BalanceStep(d)
  BY DEF BalanceStep
<1> QED
  BY <1>1, <1>2, <1>3, <1>5, <1>6, <1>7, <1>8, <1>9
  DEF Next, PartnerNext, SyncNext, FeedChanges, SyncStarts, SyncReads, SyncFails, vars

AllBalanceSteps == \A d \in Dates : BalanceStep(d)

\* Whatever the feed says, the partner does and in whatever order syncs overlap:
\* a step keeps the units of every night, but for the nights of an event that
\* a sync moves by a cancelled row or one moved meanwhile, and those a CSV row
\* is stored with although they are sold out.
THEOREM OnlyMisjudgedNightsChange == Spec => NightsAreAccounted
<1>1. TypeOK /\ TypeOK' /\ [Next]_vars => AllBalanceSteps
  BY BalanceSteps DEF AllBalanceSteps
<1>2. NightsAreAccounted <=> [][AllBalanceSteps]_vars
  BY PTL DEF NightsAreAccounted, AllBalanceSteps
<1> QED
  BY TypesAreKept, <1>1, <1>2, PTL DEF Spec

-----------------------------------------------------------------------------
(* As long as no step misjudges a night. *)

ReservationsInv == TypeOK /\ CapacityAccounted

LEMMA NothingReserved == Init => \A d \in Dates : Reserved(d) = 0
<1> SUFFICES ASSUME Init, NEW d \in Dates PROVE Reserved(d) = 0
  OBVIOUS
<1>1. {r \in Reservations : Active(r) /\ d \in reservation[r].dates} = {}
  BY DEF Init, NoReservation, Active
<1> QED
  BY <1>1, FS_EmptySet DEF Reserved

LEMMA InvInit == Init => ReservationsInv
BY NothingReserved, TypeInit, UnitAssumption
DEF Init, ReservationsInv, CapacityAccounted, Balance

LEMMA InvStep ==
    ASSUME ReservationsInv, [Next]_vars, [NoMisjudgedStep]_vars
    PROVE  ReservationsInv'
<1>1. TypeOK /\ TypeOK'
  BY TypeStep DEF ReservationsInv
<1> SUFFICES ASSUME NEW d \in Dates PROVE Balance(d)' = Capacity
  BY <1>1 DEF ReservationsInv, CapacityAccounted
<1>2. BalanceStep(d)
  BY <1>1, BalanceSteps
<1>3. Balance(d) = Capacity
  BY DEF ReservationsInv, CapacityAccounted
<1>4. CASE UNCHANGED vars
  <2>1. Reserved(d)' = Reserved(d)
    BY <1>4, ReservedUnchanged DEF vars, Active
  <2> QED
    BY <1>3, <1>4, <2>1 DEF vars, Balance
<1>5. CASE NoMisjudgedStep
  BY <1>2, <1>3, <1>5 DEF NoMisjudgedStep, BalanceStep
<1> QED
  BY <1>4, <1>5

\* As long as no sync moves an event by a stale or cancelled row and no CSV row
\* is stored that does not fit, every unit of every date is for sale, taken on
\* the marketplace or held by exactly one active reservation: no overlap of
\* syncs, cancellation or order of a feed's events gives a night back twice or
\* keeps one.
THEOREM EveryUnitIsAccounted == Spec /\ [][NoMisjudgedStep]_vars => []CapacityAccounted
<1>1. ReservationsInv => CapacityAccounted
  BY DEF ReservationsInv
<1> QED
  BY InvInit, InvStep, <1>1, PTL DEF Spec

\* Under the same condition what customers can book and have booked fits in
\* the unit, whatever becomes of the reservations made elsewhere.
THEOREM NothingIsSoldTwice == Spec /\ [][NoMisjudgedStep]_vars => []NoDoubleSale
<1>1. ReservationsInv => NoDoubleSale
  <2> SUFFICES ASSUME ReservationsInv, NEW d \in Dates
               PROVE  remaining[d] + others[d] <= Capacity
    BY DEF NoDoubleSale
  <2>1. remaining[d] \in Nat /\ others[d] \in Nat /\ Reserved(d) \in Nat
    BY BalanceIsTotal DEF ReservationsInv, TypeOK
  <2> QED
    BY <2>1, UnitAssumption DEF ReservationsInv, CapacityAccounted, Balance
<1> QED
  BY InvInit, InvStep, <1>1, PTL DEF Spec

-----------------------------------------------------------------------------
(* The calendar of UnitCapacity is implemented. *)

LEMMA UnitInit == Init => Unit!Init
BY NothingReserved DEF Init, Unit!Init

LEMMA UnitStep ==
    ASSUME ReservationsInv, ReservationsInv' PROVE Unit!Trade
<1> DEFINE taken == [d \in Dates |-> others[d] + Reserved(d)]
<1>1. ASSUME NEW d \in Dates
      PROVE  /\ remaining[d] \in Nat /\ remaining'[d] \in Nat
             /\ others[d] \in Nat /\ others'[d] \in Nat
             /\ Reserved(d) \in Nat /\ Reserved(d)' \in Nat
             /\ remaining[d] + others[d] + Reserved(d) = Capacity
             /\ remaining'[d] + others'[d] + Reserved(d)' = Capacity
  <2>1. Reserved(d) \in Nat
    BY HeldInType DEF Reserved, Active, HeldIn, Holds
  <2>2. Reserved(d)' \in Nat
    BY HeldInType DEF Reserved, Active, HeldIn, Holds
  <2> QED
    BY <2>1, <2>2 DEF ReservationsInv, TypeOK, CapacityAccounted, Balance
<1>2. taken' = [d \in Dates |-> others'[d] + Reserved(d)']
  OBVIOUS
<1>3. taken' \in [Dates -> Nat]
  BY <1>1, <1>2
<1>4. \A d \in Dates : taken'[d] > taken[d] => taken'[d] - taken[d] <= remaining[d]
  BY <1>1, <1>2
<1>5. \A d \in Dates : remaining'[d] = remaining[d] - (taken'[d] - taken[d])
  BY <1>1, <1>2
<1>6. remaining' = [d \in Dates |-> remaining[d] - (taken'[d] - taken[d])]
  BY <1>5 DEF ReservationsInv, TypeOK
<1> QED
  BY <1>3, <1>4, <1>6 DEF Unit!Trade

\* Under the same condition every operation on external reservations takes
\* only what is left of the unit, and gives back only what was taken of it.
THEOREM UnitIsImplemented == Spec /\ [][NoMisjudgedStep]_vars => ImplementsUnitCapacity
<1>1. ReservationsInv /\ ReservationsInv' /\ [Next]_vars => [Unit!Next]_Unit!vars
  BY UnitStep DEF Unit!Next
<1> QED
  BY InvInit, InvStep, UnitInit, <1>1, PTL DEF Spec, ImplementsUnitCapacity, Unit!Spec

=============================================================================
