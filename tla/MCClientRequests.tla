-------------------------- MODULE MCClientRequests --------------------------
(* Three submissions: one, an edited form of it under the same key, and
   another request that names a document of the edited form; two other calls. *)
EXTENDS ClientRequests, TLC

CONSTANTS k1, k2, ana, bea, lea, f1, f2, first, other, edited, c1, c2

TwoKeys    == {k1, k2}
OneClient  == {ana}
TwoCounsel == {bea, lea}
OneLead    == {lea}
TwoFiles   == {f1, f2}
ThreeForms == {first, edited, other}
Sent == [s \in ThreeForms |->
  [key    |-> IF s = other THEN k2 ELSE k1,
   author |-> ana,
   files  |-> IF s = other THEN {f2} ELSE IF s = edited THEN {f1, f2} ELSE {f1},
   wish   |-> IF s = edited THEN bea ELSE Anyone]]
TwoCalls == {c1, c2}
Either   == Permutations(TwoCalls)
=============================================================================
