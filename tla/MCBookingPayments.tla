------------------------- MODULE MCBookingPayments -------------------------
(* Instances of BookingPayments for TLC. *)
EXTENDS BookingPayments, TLC

CONSTANTS p1, p2

MCPayments1 == {p1}
MCPayments2 == {p1, p2}

\* Payments are interchangeable (safety runs only).
MCSymmetry == Permutations(Payments)
=============================================================================
