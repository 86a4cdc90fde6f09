------------------------ MODULE ExternalReservations ------------------------
(***************************************************************************)
(* Reservations of one bookable unit that were made elsewhere: recorded by *)
(* a partner, imported from CSV, or synchronised from the iCal feed of one *)
(* connection.  Sources: AvailabilityService (external reservations),      *)
(* InventoryConnectionService#executeSync and IcalConnector.               *)
(*                                                                         *)
(* A transaction whose writes are made under row locks is one action, at   *)
(* its commit.  What is read without a lock and used later is a step of    *)
(* its own: the rows a sync lists before its transaction begins, the feed  *)
(* and the snapshot of the rows the transaction reads, and the duplicates  *)
(* a CSV row is compared with.                                             *)
(*                                                                         *)
(* A reservation has quantity 1 and nights only, as a synchronised one     *)
(* has.  Everybody else who takes units of the same calendar (Inventory)   *)
(* is OthersTake and OthersReturn.  The connection's status and the log of *)
(* its runs are left out, nothing here reads them.                         *)
(***************************************************************************)
EXTENDS Integers, SequencesExt

CONSTANTS
    Dates,         \* the calendar dates, an interval of integers
    Capacity,      \* bookable_units.capacity
    Events,        \* the UIDs of the events of the connection's feed
    Rows,          \* reservations recorded by hand or by CSV; all of them
                   \* carry one and the same external reference
    Syncs,         \* runs of #executeSync that may be under way at once
    Sweep,         \* the one of them the scheduled job starts
    MaxChanges     \* bound of the model on changes of the feed

ASSUME UnitAssumption == Dates \subseteq Int /\ Capacity \in Nat
ASSUME SyncAssumption == Sweep \in Syncs /\ MaxChanges \in Nat
\* A table has finitely many rows; a row of an event has the connection's id
\* and the event's UID, a row recorded by hand or by CSV has neither.
ASSUME RowsAssumption ==
    IsFiniteSet(Events) /\ IsFiniteSet(Rows) /\ Events \cap Rows = {}

VARIABLES
    remaining,    \* quantity_available per date; Capacity without a row
    others,       \* units taken per date by holds, bookings and blocks
    reservation,  \* external_reservations, by event or row
    feed,         \* what the feed says of each event now
    sync,         \* what each sync under way has read
    changes       \* how often the feed has changed

vars == <<remaining, others, reservation, feed, sync, changes>>

-----------------------------------------------------------------------------
Reservations == Events \cup Rows

Ranges == {{x \in Dates : lo <= x /\ x <= hi} : lo, hi \in Dates} \ {{}}

NoReservation == [status |-> "NONE", dates |-> {}]
Gone == [status |-> "ABSENT", dates |-> {}]
Idle == [pc |-> "IDLE", imported |-> {},
         feed |-> [e \in Events |-> Gone], seen |-> [e \in Events |-> NoReservation]]

FeedEntries ==
    {Gone, [status |-> "CANCELLED", dates |-> {}]}
        \cup [status : {"BOOKED"}, dates : Ranges]

ReservationRows ==
    [status : {"NONE", "CHECKED", "ACTIVE", "CANCELLED"}, dates : SUBSET Dates]

\* The values of every variable; no night's count goes below zero.
TypeOK ==
    /\ remaining \in [Dates -> Nat]
    /\ others \in [Dates -> Nat]
    /\ reservation \in [Reservations -> ReservationRows]
    /\ feed \in [Events -> FeedEntries]
    /\ sync \in [Syncs -> [pc : {"IDLE", "LISTED", "READ"}, imported : SUBSET Events,
                           feed : [Events -> FeedEntries],
                           seen : [Events -> ReservationRows]]]
    /\ changes \in 0..MaxChanges

Init ==
    /\ remaining = [d \in Dates |-> Capacity]
    /\ others = [d \in Dates |-> 0]
    /\ reservation = [r \in Reservations |-> NoReservation]
    /\ feed = [e \in Events |-> Gone]
    /\ sync = [s \in Syncs |-> Idle]
    /\ changes = 0

Active(r) == reservation[r].status = "ACTIVE"

\* The units external reservations hold on date d.
Reserved(d) == Cardinality({r \in Reservations : Active(r) /\ d \in reservation[r].dates})

Fits(rem, ds) == \A d \in ds : rem[d] >= 1
Consumed(rem, ds) == [d \in Dates |-> IF d \in ds THEN rem[d] - 1 ELSE rem[d]]

Restored(rem, ds) == [d \in Dates |-> IF d \in ds THEN rem[d] + 1 ELSE rem[d]]

\* A row's nights in ascending order, up to the first that does not fit.
FittingPrefix(rem, ds) == {d \in ds : \A x \in ds : x <= d => rem[x] >= 1}

-----------------------------------------------------------------------------
(* Everybody else. *)

OthersTake(d) ==
    /\ remaining[d] >= 1
    /\ remaining' = Consumed(remaining, {d})
    /\ others' = [others EXCEPT ![d] = @ + 1]
    /\ UNCHANGED <<reservation, feed, sync, changes>>

OthersReturn(d) ==
    /\ others[d] >= 1
    /\ remaining' = Restored(remaining, {d})
    /\ others' = [others EXCEPT ![d] = @ - 1]
    /\ UNCHANGED <<reservation, feed, sync, changes>>

-----------------------------------------------------------------------------
(* The partner: reservations recorded by hand, imported, and cancelled. *)

\* Mutant of CreateExternalReservation: capacity may run out between the
\* check and the write.
CreateCheckingFirstNight(r, ds) ==
    /\ reservation[r].status = "NONE"
    /\ \E d \in ds : remaining[d] >= 1
    /\ remaining' = Consumed(remaining, ds)
    /\ reservation' = [reservation EXCEPT ![r] = [status |-> "ACTIVE", dates |-> ds]]
    /\ UNCHANGED <<others, feed, sync, changes>>

\* All nights or, by rollback, none.
CreateExternalReservation(r, ds) ==
    /\ reservation[r].status = "NONE"
    /\ Fits(remaining, ds)
    /\ remaining' = Consumed(remaining, ds)
    /\ reservation' = [reservation EXCEPT ![r] = [status |-> "ACTIVE", dates |-> ds]]
    /\ UNCHANGED <<others, feed, sync, changes>>

\* A CSV row whose reference no active reservation of those dates has ...
BulkRowIsNew(r, ds) ==
    /\ reservation[r].status = "NONE"
    /\ \A x \in Rows : Active(x) => reservation[x].dates \cap ds = {}
    /\ reservation' = [reservation EXCEPT ![r] = [status |-> "CHECKED", dates |-> ds]]
    /\ UNCHANGED <<remaining, others, feed, sync, changes>>

\* ... is written.  The conflict is caught inside the transaction: the row
\* and the nights before the one that does not fit are committed with it.
BulkRowIsWritten(r) ==
    LET ds == reservation[r].dates IN
    /\ reservation[r].status = "CHECKED"
    /\ remaining' = Consumed(remaining, FittingPrefix(remaining, ds))
    /\ reservation' = [reservation EXCEPT ![r].status = "ACTIVE"]
    /\ UNCHANGED <<others, feed, sync, changes>>

UnderWay(s) == sync[s].pc # "IDLE"
HasRead(s) == sync[s].pc = "READ"

\* The partner cancels a reservation, a synchronised one too.
CancelExternalReservation(r) ==
    /\ Active(r)
    /\ remaining' = Restored(remaining, reservation[r].dates)
    /\ reservation' = [reservation EXCEPT ![r].status = "CANCELLED"]
    /\ UNCHANGED <<others, feed, sync, changes>>

-----------------------------------------------------------------------------
(* The feed, and the runs that synchronise it. *)

\* An event appears, is cancelled, disappears, comes back or moves.
FeedChanges(e, entry) ==
    /\ changes < MaxChanges
    /\ entry # feed[e]
    /\ feed' = [feed EXCEPT ![e] = entry]
    /\ changes' = changes + 1
    /\ UNCHANGED <<remaining, others, reservation, sync>>

\* Mutant of SyncStarts: what is listed is not kept.
SyncStartsBlank(s) ==
    /\ ~UnderWay(s)
    /\ sync' = [sync EXCEPT ![s].pc = "LISTED"]
    /\ UNCHANGED <<remaining, others, reservation, feed, changes>>

\* #executeSync lists the connection's active reservations ...
SyncStarts(s) ==
    /\ ~UnderWay(s)
    /\ sync' = [sync EXCEPT ![s].pc = "LISTED", ![s].imported = {e \in Events : Active(e)}]
    /\ UNCHANGED <<remaining, others, reservation, feed, changes>>

\* ... then begins a transaction, fetches the feed and reads the rows of its
\* events as they are at that time (REPEATABLE READ, without a lock).
SyncReads(s) ==
    /\ sync[s].pc = "LISTED"
    /\ sync' = [sync EXCEPT ![s].pc = "READ", ![s].feed = feed,
                            ![s].seen = [e \in Events |-> reservation[e]]]
    /\ UNCHANGED <<remaining, others, reservation, feed, changes>>

\* Mutant of ApplySystemExternalReservation: a known event that moved has
\* the new nights taken, and keeps the old ones.
MoveWithoutRestore(s, st, e) ==
    LET old == sync[s].seen[e]
        ds == sync[s].feed[e].dates
    IN  CASE old.status = "NONE" /\ st.res[e].status = "NONE" /\ Fits(st.rem, ds) ->
               [rem |-> Consumed(st.rem, ds),
                res |-> [st.res EXCEPT ![e] = [status |-> "ACTIVE", dates |-> ds]]]
          [] old.status # "NONE" /\ old.dates # ds /\ Fits(st.rem, ds) ->
               [rem |-> Consumed(st.rem, ds), res |-> [st.res EXCEPT ![e].dates = ds]]
          [] OTHER -> st

\* Mutant of ApplySystemExternalReservation: a known event is never looked at
\* again.
KnownEventIsSkipped(s, st, e) ==
    LET ds == sync[s].feed[e].dates IN
    IF sync[s].seen[e].status = "NONE" /\ st.res[e].status = "NONE" /\ Fits(st.rem, ds)
    THEN [rem |-> Consumed(st.rem, ds),
          res |-> [st.res EXCEPT ![e] = [status |-> "ACTIVE", dates |-> ds]]]
    ELSE st

\* One booked event, in a savepoint of its own, on the calendar and rows st:
\* an unknown one is created, a known one that moved gives the nights its row
\* had back and takes the new ones, a conflict leaves everything as it was.
\* The row is found by the UID, cancelled or not, and stays what it is: with
\* the same nights nothing happens, with others they are taken for it.
ApplySystemExternalReservation(s, st, e) ==
    LET old == sync[s].seen[e]
        ds == sync[s].feed[e].dates
        back == Restored(st.rem, old.dates)
    IN  CASE old.status = "NONE" /\ st.res[e].status = "NONE" /\ Fits(st.rem, ds) ->
               [rem |-> Consumed(st.rem, ds),
                res |-> [st.res EXCEPT ![e] = [status |-> "ACTIVE", dates |-> ds]]]
          [] old.status # "NONE" /\ old.dates # ds /\ Fits(back, ds) ->
               [rem |-> Consumed(back, ds), res |-> [st.res EXCEPT ![e].dates = ds]]
          [] OTHER -> st

\* A cancelled or vanished event: whoever marks the row cancelled gives its
\* nights back, as the row has them now.
CancelSystemExternalReservation(s, st, e) ==
    IF sync[s].seen[e].status # "NONE" /\ st.res[e].status = "ACTIVE"
    THEN [rem |-> Restored(st.rem, st.res[e].dates),
          res |-> [st.res EXCEPT ![e].status = "CANCELLED"]]
    ELSE st

\* One event as sync s has fetched it.
ImportEvent(s, st, e) ==
    IF sync[s].feed[e].status = "BOOKED"
    THEN ApplySystemExternalReservation(s, st, e)
    ELSE CancelSystemExternalReservation(s, st, e)

\* importAvailability: the feed's events in the order it lists them, then the
\* reservations listed before whose event the feed no longer has.
ImportAvailability(s, order) ==
    LET run[i \in 0..Len(order)] ==
            IF i = 0 THEN [rem |-> remaining, res |-> reservation]
            ELSE ImportEvent(s, run[i - 1], order[i])
    IN  run[Len(order)]

SyncCommits(s) ==
    LET inFeed == {e \in Events : sync[s].feed[e].status # "ABSENT"} IN
    /\ HasRead(s)
    /\ \E order \in SetToSeqs(inFeed), removed \in SetToSeqs(sync[s].imported \ inFeed) :
          LET after == ImportAvailability(s, order \o removed) IN
          /\ remaining' = after.rem
          /\ reservation' = after.res
    /\ sync' = [sync EXCEPT ![s] = Idle]
    /\ UNCHANGED <<others, feed, changes>>

\* The feed, the database or the server fails: the transaction is undone.
SyncFails(s) ==
    /\ UnderWay(s)
    /\ sync' = [sync EXCEPT ![s] = Idle]
    /\ UNCHANGED <<remaining, others, reservation, feed, changes>>

-----------------------------------------------------------------------------
PartnerNext ==
    \/ \E r \in Rows, ds \in Ranges : CreateExternalReservation(r, ds) \/ BulkRowIsNew(r, ds)
    \/ \E r \in Rows : BulkRowIsWritten(r)
    \/ \E r \in Reservations : CancelExternalReservation(r)

SyncNext ==
    \/ \E e \in Events, entry \in FeedEntries : FeedChanges(e, entry)
    \/ \E s \in Syncs : SyncStarts(s) \/ SyncReads(s) \/ SyncCommits(s) \/ SyncFails(s)

Next ==
    \/ \E d \in Dates : OthersTake(d) \/ OthersReturn(d)
    \/ PartnerNext
    \/ SyncNext

Spec == Init /\ [][Next]_vars

\* The job starts a sync every 15 minutes for ever; a sync under way goes on,
\* and the feed, the database and the server do not fail every time.
Fairness ==
    /\ WF_vars(SyncStarts(Sweep))
    /\ \A s \in Syncs : SF_vars(SyncReads(s)) /\ SF_vars(SyncCommits(s))

FairSpec == Spec /\ Fairness

-----------------------------------------------------------------------------
(* Properties. *)

\* The units of date d, wherever they are; Capacity, if none is lost or given
\* back twice.
Balance(d) == remaining[d] + others[d] + Reserved(d)

\* Sync s, from what it has read, is going to move event e to other nights ...
Moving(s, e) ==
    /\ HasRead(s) /\ sync[s].seen[e].status # "NONE"
    /\ sync[s].feed[e].status = "BOOKED"
    /\ sync[s].feed[e].dates # sync[s].seen[e].dates

\* ... but its row holds nothing, or was moved after the sync has read it.
StaleMove(s, e) ==
    Moving(s, e) /\ (~Active(e) \/ reservation[e].dates # sync[s].seen[e].dates)

\* The nights such a move takes without holding them, or gives back although
\* the row does not hold them: of a cancelled row those the sync takes or gives
\* back, of an active one those it gives back wrongly or forgets.
Misjudged(s, e) ==
    LET now == IF Active(e) THEN reservation[e].dates ELSE sync[s].feed[e].dates
        seen == sync[s].seen[e].dates
    IN  (seen \ now) \cup (now \ seen)

\* The nights a CSV row is recorded with although they are sold out.
Unfitting(r) == reservation[r].dates \ FittingPrefix(remaining, reservation[r].dates)

\* What a step may do to the units of date d: only two steps of this system
\* lose or duplicate one, and only on nights they misjudge.
BalanceStep(d) ==
    \/ Balance(d)' = Balance(d)
    \/ \E s \in Syncs, e \in Events :
          SyncCommits(s) /\ StaleMove(s, e) /\ d \in Misjudged(s, e)
    \/ \E r \in Rows : BulkRowIsWritten(r) /\ d \in Unfitting(r)

\* Reservations by hand and by CSV, cancellations, imports, moves and
\* overlapping syncs keep the units of every date, a sync of many events on
\* every night of every event but those it moves by a stale or cancelled row
\* (applySystemExternalReservation's "never double-consumes capacity").
NightsAreAccounted == [][\A d \in Dates : BalanceStep(d)]_vars

\* No step moves an event by a stale row or records a CSV row that does not fit.
NoMisjudgedStep ==
    /\ \A s \in Syncs, e \in Events : SyncCommits(s) => ~StaleMove(s, e)
    /\ \A r \in Rows : BulkRowIsWritten(r) => Unfitting(r) = {}

\* Every unit of every date is for sale, taken on the marketplace, or held by
\* an active external reservation, and by one of them only.  True as long as
\* no step misjudges (ReservationProofs).
CapacityAccounted == \A d \in Dates : Balance(d) = Capacity

\* What customers can still book and what they have booked fit in the unit,
\* whatever becomes of reservations made elsewhere ("can never oversell").
NoDoubleSale == \A d \in Dates : remaining[d] + others[d] <= Capacity

\* Once the feed no longer has an event, a sync releases its nights (or the
\* event comes back).
GoneIsReleased ==
    \A e \in Events : feed[e].status # "BOOKED" ~>
                         (feed[e].status = "BOOKED" \/ ~Active(e))

\* The unit has room for what the feed says of event e.
RoomFor(e) ==
    /\ feed[e].status = "BOOKED"
    /\ \A d \in feed[e].dates :
          remaining[d] >= 1 \/ (Active(e) /\ d \in reservation[e].dates)

\* The event holds the nights the feed says.
Arrived(e) == Active(e) /\ reservation[e].dates = feed[e].dates

\* An event there is room for from some time on holds, from some time on, the
\* nights the feed says, however often it moved before, unless its reservation
\* has been cancelled.
FeedArrives ==
    \A e \in Events :
        <>[](RoomFor(e) /\ reservation[e].status # "CANCELLED") => <>[]Arrived(e)

\* Sync s has read that event e is no longer in the feed, its row is active.
Releasing(s, e) == HasRead(s) /\ sync[s].feed[e].status = "ABSENT" /\ Active(e)

\* An event a sync releases because the feed no longer has it, and that comes
\* back, with room for it, holds its nights again ("maps each imported busy
\* period", BOOKING_ENGINE_ARCHITECTURE).  The code finds the cancelled row
\* by its UID and, if the nights are the same, leaves it alone.
ReturnedArrives ==
    \A e \in Events :
        <>(\E s \in Syncs : Releasing(s, e)) /\ <>[]RoomFor(e) => <>[]Arrived(e)

\* The calendar of UnitCapacity.
Unit == INSTANCE UnitCapacity WITH
            offered <- [d \in Dates |-> Capacity],
            taken <- [d \in Dates |-> others[d] + Reserved(d)],
            left <- remaining

\* Every operation on external reservations takes only what is left, and
\* gives back only what was taken; as long as no step misjudges
\* (ReservationProofs).
ImplementsUnitCapacity == Unit!Spec
=============================================================================
