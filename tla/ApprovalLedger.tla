---------------------------- MODULE ApprovalLedger ----------------------------
(***************************************************************************)
(* What the approval of an agreement promises.  A panel judges the form    *)
(* the agreement stands at, and while it sits the form does not change.    *)
(* Every form is judged at most once, for good: the first refusal ends the *)
(* round, an approval needs every member.  A signature is requested only   *)
(* for a form that some panel approved, once, and ends all editing; what   *)
(* is filed is the current form, approved by the sitting panel, with its   *)
(* signatures requested.                                                   *)
(***************************************************************************)
EXTENDS Naturals

CONSTANTS Members, Verdicts

VARIABLES
  form,        \* the [doc, version] the agreement stands at
  panel,       \* at most one [form, waiting]: who has not answered yet
  ledger,      \* every [form, verdict] ever reached
  requested,   \* forms of which signatures were requested
  filed        \* the executed form, at most one

vars == <<form, panel, ledger, requested, filed>>

Judged(f) == \E x \in ledger : x.form = f
Approved(f) == [form |-> f, verdict |-> "approved"] \in ledger

Init ==
  /\ form \in {[doc |-> 0, version |-> 1], [doc |-> 1, version |-> 1]}
  /\ panel = {} /\ ledger = {} /\ requested = {} /\ filed = {}

(* A new document; the first one does not count as another version. *)
Amend ==
  /\ panel = {} /\ requested = {} /\ filed = {}
  /\ form' = [doc |-> form.doc + 1,
              version |-> IF form.doc = 0 THEN form.version ELSE form.version + 1]
  /\ UNCHANGED <<panel, ledger, requested, filed>>

Convene(members) ==
  /\ panel = {} /\ members # {}
  /\ form.doc # 0 /\ ~Judged(form)
  /\ panel' = {[form |-> form, waiting |-> members]}
  /\ UNCHANGED <<form, ledger, requested, filed>>

Answer(m, verdict) ==
  \E p \in panel :
    /\ m \in p.waiting /\ p.form = form /\ ~Judged(form)
    /\ panel' = {[form |-> form, waiting |-> p.waiting \ {m}]}
    /\ ledger' = IF verdict # "approved" \/ p.waiting = {m}
                 THEN ledger \cup {[form |-> form, verdict |-> verdict]}
                 ELSE ledger
    /\ UNCHANGED <<form, requested, filed>>

Withdraw ==
  /\ panel # {} /\ Judged(form) /\ requested = {} /\ filed = {}
  /\ panel' = {}
  /\ UNCHANGED <<form, ledger, requested, filed>>

Request(f) ==
  /\ Approved(f) /\ f \notin requested
  /\ requested' = requested \cup {f}
  /\ UNCHANGED <<form, panel, ledger, filed>>

File ==
  /\ filed = {}
  /\ \E p \in panel : p.form = form
  /\ Approved(form) /\ form \in requested
  /\ filed' = {form}
  /\ UNCHANGED <<form, panel, ledger, requested>>

Next ==
  \/ Amend \/ Withdraw \/ File
  \/ \E members \in SUBSET Members : Convene(members)
  \/ \E m \in Members, verdict \in Verdicts : Answer(m, verdict)
  \/ \E x \in ledger : Request(x.form)

Spec == Init /\ [][Next]_vars
=============================================================================
