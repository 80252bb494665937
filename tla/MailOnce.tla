------------------------------- MODULE MailOnce -------------------------------
(***************************************************************************)
(* What an outbox promises of each mail: the provider accepts it at most    *)
(* once, and what is said of it in the end is true.  Unknown is allowed,    *)
(* and a mail of unknown fate may still be accepted later.                  *)
(***************************************************************************)
EXTENDS Naturals

CONSTANT Mails

VARIABLES
  arrived,    \* mails the provider has accepted
  verdict     \* what the outbox says: open, sent, unknown or dropped

Fates == {"sent", "unknown", "dropped"}

Init == arrived = [m \in Mails |-> 0] /\ verdict = [m \in Mails |-> "open"]

Arrive(m) ==
  /\ arrived[m] = 0 /\ verdict[m] \in {"open", "unknown"}
  /\ arrived' = [arrived EXCEPT ![m] = 1]
  /\ UNCHANGED verdict

(* One report may settle several mails: those whose senders were given up on. *)
Report(ms, fate) ==
  /\ \A m \in ms : verdict[m] = "open"
  /\ fate = "sent" => \A m \in ms : arrived[m] = 1
  /\ fate = "dropped" => \A m \in ms : arrived[m] = 0
  /\ verdict' = [m \in Mails |-> IF m \in ms THEN fate ELSE verdict[m]]
  /\ UNCHANGED arrived

Next ==
  \/ \E m \in Mails : Arrive(m)
  \/ \E ms \in SUBSET Mails, fate \in Fates : Report(ms, fate)

Spec == Init /\ [][Next]_<<arrived, verdict>>
=============================================================================
