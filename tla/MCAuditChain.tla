---------------------------- MODULE MCAuditChain ----------------------------
(* Three appends on two replicas: two through record(), one inside a business
   transaction. *)
EXTENDS AuditChain, TLC

CONSTANTS c1, c2, c3, r1, r2

ThreeCalls  == {c1, c2, c3}
TwoDurable  == {c1, c2}
TwoReplicas == {r1, r2}
Placement   == c1 :> r1 @@ c2 :> r2 @@ c3 :> r1
=============================================================================
