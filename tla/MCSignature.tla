---------------------------- MODULE MCSignature ----------------------------
(* One request, two signatories, two concurrent webhook handlers. *)
EXTENDS SignatureRequest, TLC

CONSTANTS s1, s2, w1, w2, cron, sweep

TwoSigners == {s1, s2}
OnlyFirst  == {s1}
TwoWorkers == {w1, w2}
OneWorker  == {w1}
Symmetric  == Permutations(TwoWorkers) \cup Permutations(TwoSigners)
=============================================================================
