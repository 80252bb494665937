---------------------------- MODULE MCLifecycle ----------------------------
(* Small instances of AgreementLifecycle: one lawyer who may also approve for
   others, two approvers, one of them named by policy. *)
EXTENDS AgreementLifecycle, TLC

CONSTANTS ana, bob, cyd, h1, h2

TwoLawyers   == {ana, bob}
OneLawyer    == {ana}
TwoApprovers == {bob, cyd}
NoPolicy     == {}
CydByPolicy  == {cyd}
OneHandler   == {h1}
TwoHandlers  == {h1, h2}
=============================================================================
