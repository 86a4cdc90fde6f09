---------------------------- MODULE MCInventory ----------------------------
(* Instances of Inventory for TLC. *)
EXTENDS Inventory, TLC

CONSTANTS c1, c2, c3, u1, u2

MCOneDate == {1}
MCTwoDates == 1..2
MCNoHours == {}
MCOneHour == {1}
MCTwoHours == 1..2
MCClaims2 == {c1, c2}
MCClaims3 == {c1, c2, c3}
MCUsers1 == {u1}
MCUsers2 == {u1, u2}

\* Claims are interchangeable, and so are customers (safety runs only).
MCSymmetry == Permutations(Claims) \cup Permutations(Users)
=============================================================================
