---------------------------- MODULE MCClaimedWork ----------------------------
(* One mail and one job, of any service, on two workers. *)
EXTENDS ClaimedWork

CONSTANTS m1, j1, w1, w2

OneMail    == {m1}
OneJob     == {j1}
TwoWorkers == {w1, w2}
=============================================================================
