------------------------- MODULE MCListingLifecycle -------------------------
(* Instances of ListingLifecycle for TLC. *)
EXTENDS ListingLifecycle
=============================================================================
