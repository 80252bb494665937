---------------------------- MODULE MCGuestAccess ----------------------------
(* Three requests for a code by one guest, with one download in flight. *)
EXTENDS GuestAccess, TLC

CONSTANTS k1, k2, k3, r1

ThreeCodes == {k1, k2, k3}
OneReader  == {r1}
Requests   == Permutations(ThreeCodes)
=============================================================================
