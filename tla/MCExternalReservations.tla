----------------------- MODULE MCExternalReservations -----------------------
(* Instances of ExternalReservations for TLC. *)
EXTENDS ExternalReservations

CONSTANTS e1, e2, m1, m2

MCOneDate == {1}
MCTwoDates == 1..2
MCNoRows == {}
MCEvents1 == {e1}
MCEvents2 == {e1, e2}
MCRows1 == {m1}
MCRows2 == {m1, m2}
=============================================================================
