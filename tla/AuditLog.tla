------------------------------ MODULE AuditLog ------------------------------
(* What the audit trail promises its callers: an append-only sequence that
   holds every event at most once, and every event a caller was told is
   recorded.  AuditChain is shown to implement this. *)
EXTENDS Sequences

CONSTANT Events

VARIABLES log, acked

Recorded == {log[i] : i \in DOMAIN log}

Init == log = <<>> /\ acked = {}

(* The event becomes part of the trail; its caller may or may not learn it. *)
Append1(e) ==
  /\ e \notin Recorded
  /\ log' = Append(log, e)
  /\ acked' \in {acked, acked \cup {e}}

(* A caller that did not learn it is told later. *)
Confirm(e) ==
  /\ e \in Recorded
  /\ acked' = acked \cup {e}
  /\ UNCHANGED log

Next == \E e \in Events : Append1(e) \/ Confirm(e)

Spec == Init /\ [][Next]_<<log, acked>>
=============================================================================
