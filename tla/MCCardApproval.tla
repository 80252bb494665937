--------------------------- MODULE MCCardApproval ---------------------------
(* Two approvers, two requests and two clicks of a card. *)
EXTENDS CardApproval, TLC

CONSTANTS a1, a2, r1, r2, k1, k2

TwoApprovers == {a1, a2}
TwoRequests  == {r1, r2}
TwoClicks    == {k1, k2}
Either       == Permutations(TwoApprovers) \cup Permutations(TwoRequests)
                  \cup Permutations(TwoClicks)
=============================================================================
