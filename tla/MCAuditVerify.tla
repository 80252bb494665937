---------------------------- MODULE MCAuditVerify ----------------------------
(* Writers and verification on one replica; another one adds nothing to what
   verification reads. *)
EXTENDS AuditVerify, TLC

CONSTANTS c1, c2, c3, r1

TwoCalls   == {c1, c2}
ThreeCalls == {c1, c2, c3}
OneDurable == {c1}
NoDurable  == {}
OneReplica == {r1}
HereTwo    == c1 :> r1 @@ c2 :> r1
HereThree  == HereTwo @@ c3 :> r1
=============================================================================
