---------------------------- MODULE UnitCapacity ----------------------------
(***************************************************************************)
(* What the calendar of one bookable unit promises to everybody who takes  *)
(* capacity from it or gives it back: per date a total on offer, what is   *)
(* taken of it, and a count of what is left.  Nobody takes what is not     *)
(* left, every step that takes or gives back moves the count by exactly as *)
(* much, and the partner may change the total down to what is taken.       *)
(*                                                                         *)
(* Inventory (customers, bookings, blocks, saved totals) and               *)
(* ExternalReservations (reservations made elsewhere) implement it, each   *)
(* seeing the other's steps as takings and returns.                        *)
(***************************************************************************)
EXTENDS Integers

CONSTANTS Dates, Capacity

VARIABLES
    offered,  \* per date, the total the partner offers
    taken,    \* per date, the units somebody has
    left      \* per date, the count new requests are checked against

vars == <<offered, taken, left>>

Init ==
    /\ offered = [d \in Dates |-> Capacity]
    /\ taken = [d \in Dates |-> 0]
    /\ left = [d \in Dates |-> Capacity]

\* Units are taken on some dates and given back on others, in one step.
Trade ==
    /\ taken' \in [Dates -> Nat]
    /\ \A d \in Dates : taken'[d] > taken[d] => taken'[d] - taken[d] <= left[d]
    /\ left' = [d \in Dates |-> left[d] - (taken'[d] - taken[d])]
    /\ UNCHANGED offered

\* The totals change; no date is left with less than what is taken of it.
Offer ==
    /\ offered' \in [Dates -> Int]
    /\ \A d \in Dates : offered'[d] < offered[d] => offered'[d] >= taken[d]
    /\ left' = [d \in Dates |-> left[d] + (offered'[d] - offered[d])]
    /\ UNCHANGED taken

Next == Trade \/ Offer

Spec == Init /\ [][Next]_vars
=============================================================================
