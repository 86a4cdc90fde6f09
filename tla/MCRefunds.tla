----------------------------- MODULE MCRefunds -----------------------------
(* Instances of Refunds for TLC. *)
EXTENDS Refunds, TLC

CONSTANTS r1, r2, r3

MCRefunds2 == {r1, r2}
MCRefunds3 == {r1, r2, r3}

\* Refunds are interchangeable (safety runs only).
MCSymmetry == Permutations(Refunds)
=============================================================================
