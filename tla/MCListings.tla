----------------------------- MODULE MCListings -----------------------------
(***************************************************************************)
(* Three rows, two of them of the campaign; pages of one, two (the default) *)
(* and three (the largest) rows.                                           *)
(***************************************************************************)
EXTENDS Listings

MCAsked == {0, 9, NotANumber}
=============================================================================
