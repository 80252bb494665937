------------------------------ MODULE GuestEntry ------------------------------
(***************************************************************************)
(* What the door promises an agreement that has one invited guest.  Nobody *)
(* is inside but with a code that was delivered to the guest, was asked    *)
(* for under the terms in force, and was used once.  A code that is        *)
(* replaced, used or withdrawn never comes back, guesses at it are         *)
(* counted, and new terms or a closed door empty the room.                 *)
(***************************************************************************)
EXTENDS Naturals

CONSTANTS Codes, MaxTries

VARIABLES
  terms,       \* how often what is granted has changed
  gate,        \* active, expired or, for good, revoked
  issued,      \* codes ever asked for
  code,        \* at most one [name, tries]: the code that opens the door now
  delivered,   \* codes that reached the guest
  inside       \* codes somebody is in the room with

vars == <<terms, gate, issued, code, delivered, inside>>

Init ==
  /\ terms = 0 /\ gate = "active"
  /\ issued = {} /\ code = {} /\ delivered = {} /\ inside = {}

Issue(c) ==
  /\ gate = "active" /\ c \notin issued
  /\ issued' = issued \cup {c}
  /\ code' = {[name |-> c, tries |-> 0]}
  /\ UNCHANGED <<terms, gate, delivered, inside>>

Deliver(c) ==
  /\ c \in issued
  /\ delivered' = delivered \cup {c}
  /\ UNCHANGED <<terms, gate, issued, code, inside>>

Opens(k) == gate = "active" /\ k.name \in delivered /\ k.tries < MaxTries

Guess ==
  /\ \E k \in code : Opens(k) /\ code' = {[name |-> k.name, tries |-> k.tries + 1]}
  /\ UNCHANGED <<terms, gate, issued, delivered, inside>>

Enter ==
  /\ \E k \in code : Opens(k) /\ inside' = inside \cup {k.name}
  /\ code' = {}
  /\ UNCHANGED <<terms, gate, issued, delivered>>

Leave ==
  /\ inside' \in SUBSET inside
  /\ UNCHANGED <<terms, gate, issued, code, delivered>>

Shut ==
  /\ gate = "active" /\ gate' = "expired"
  /\ inside' = {}
  /\ UNCHANGED <<terms, issued, code, delivered>>

NewTerms ==
  /\ \/ gate # "revoked" /\ gate' = "active"
     \/ gate' = "revoked"
  /\ terms' = terms + 1
  /\ code' = {} /\ inside' = {}
  /\ UNCHANGED <<issued, delivered>>

Next ==
  \/ \E c \in Codes : Issue(c) \/ Deliver(c)
  \/ Guess \/ Enter \/ Leave \/ Shut \/ NewTerms

Spec == Init /\ [][Next]_vars
=============================================================================
