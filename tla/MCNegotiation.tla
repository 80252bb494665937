--------------------------- MODULE MCNegotiation ---------------------------
(* Two guests of one agreement, one request of the legal team in flight. *)
EXTENDS Negotiation, TLC

CONSTANTS gia, hal, ana, c1

TwoGuests  == {gia, hal}
OneLawyer  == {ana}
OneComment == {c1}
Either     == Permutations(TwoGuests)
=============================================================================
